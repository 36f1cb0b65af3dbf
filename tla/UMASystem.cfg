SPECIFICATION FairSystem
CONSTANTS
  alice = alice
  bob = bob
  h1 = h1
  h2 = h2
  Nobody = Nobody
  NoPerm = NoPerm
  Parties <- MCParties
  Handlers <- MCHandlers
  Perms <- MCPerms
  Routes <- MCRoutes
  MaxVisits <- MCVisits
  MaxLosses = 1
  MaxTickets = 4
  MaxResources = 0
INVARIANTS
  SystemTypeOK
  AccessJustified
  RefusedOnlyAfterResend
  LeaksOnlyByLoss
  OwnTokenOnly
  FreshTokenSuffices
PROPERTIES
  UsesTheServer
  Served
CHECK_DEADLOCK FALSE
