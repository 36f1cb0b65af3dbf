SPECIFICATION FairSpec
CONSTANTS
  h1 = h1
  h2 = h2
  NoPerm = NoPerm
  Handlers <- MCTwo
  Perms <- MCPerms
  MaxTickets = 2
  MaxResources = 1
INVARIANTS
  TypeOK
  TicketConserved
  PermissionCarried
  RefusedIsNotLive
PROPERTIES
  KeepsPromise
  TakenIsRedeemed
