SPECIFICATION Spec
CONSTANTS
  AttemptOptions <- MCAttemptOptions
  DelayOptions <- MCDelayOptions
  DefaultBaseDelay = 2
  DefaultMaxDelay = 5
  HalfRange = 16
CHECK_DEADLOCK FALSE
INVARIANTS
  FirstRetryWaitsBase
