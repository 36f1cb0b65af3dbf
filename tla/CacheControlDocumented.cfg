SPECIFICATION Spec
CONSTANTS
  HalfRange = 8
  Second = 4
  None = None
  Implementations <- OneImplementation
  URLs <- OneURL
  Values <- MCValues
  Fallbacks = {0, 6}
  MaxDirectives = 2
CHECK_DEADLOCK FALSE
INVARIANTS
  LifetimeAsDocumented
