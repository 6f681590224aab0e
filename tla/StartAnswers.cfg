SPECIFICATION SupervisorSpec
CONSTANTS
  Callers = {c1}
  Watchers = {w1}
  Stopper = stopper
  MaxStarts = 3
  MaxCrashes = 1
INVARIANT
  StartAnswers
CHECK_DEADLOCK FALSE
