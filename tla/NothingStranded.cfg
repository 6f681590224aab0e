SPECIFICATION Spec
CONSTANTS
  MaxInputs = 3
  MaxLosses = 0
  MaxAside = 1
INVARIANTS
  NothingStranded
CHECK_DEADLOCK FALSE
