SPECIFICATION RunningSessionSpec
CONSTANTS
  MaxCalls = 1
  MaxInbox = 2
PROPERTY
  RemovedOnlyAfterExit
CHECK_DEADLOCK FALSE
