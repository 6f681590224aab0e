SPECIFICATION Spec
CONSTANTS
  MaxConnects = 1
  MaxEdits = 1
  MaxRemovals = 1
INVARIANT
  RemovedIsUnlisted
CHECK_DEADLOCK FALSE
