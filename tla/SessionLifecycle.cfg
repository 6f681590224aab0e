SPECIFICATION FairSessionSpec
CONSTANTS
  MaxCalls = 1
  MaxInbox = 1
INVARIANTS
  TypeOK
  RemovedStaysDisconnected
PROPERTIES
  ExitsAreReal
  CallsSettle
CHECK_DEADLOCK FALSE
