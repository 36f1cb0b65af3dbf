SPECIFICATION Spec
CONSTANTS
  None = None
  MaxTypes = 2
CHECK_DEADLOCK FALSE
INVARIANTS
  GrantTypeEnforced
