SPECIFICATION UntilOverlapSpec
CONSTANTS
  Callers = {c1}
  Watchers = {w1}
  Stopper = stopper
  MaxStarts = 4
  MaxCrashes = 1
INVARIANTS
  SupervisorTypeOK
  ServersAreOwned
  NoRecoveryAfterStop
PROPERTY
  CallersAreAnswered
CHECK_DEADLOCK FALSE
