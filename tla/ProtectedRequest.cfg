SPECIFICATION Spec
CONSTANTS
  None = None
  Routes <- MCRoutes
  Headers <- MCHeaders
  Granted <- MCGranted
  Tickets <- MCTickets
  URLs <- MCURLs
  Realms <- MCRealms
CHECK_DEADLOCK FALSE
INVARIANTS
  TypeOK
  FailsClosed
  NoTicketInVain
  ChallengeComesAcross
