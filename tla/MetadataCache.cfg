SPECIFICATION Spec
CONSTANTS
  c1 = c1
  c2 = c2
  NoEntry = NoEntry
  NoDoc = NoDoc
  Callers <- MCCallers
  Issuers <- MCIssuers
  Configured <- AS
  Headers <- MCHeaders
  Second = 2
  HalfRange = 8
  DefaultTTL = 1
  MaxTime = 3
  MaxVersion = 1
SYMMETRY Symm
INVARIANTS
  TypeOK
  NoMixUp
  BoundedStaleness
PROPERTIES
  OlderOnlyByOverlap
