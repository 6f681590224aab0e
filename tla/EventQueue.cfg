SPECIFICATION FairSpec
CONSTANTS
  MaxTick = 5
  MaxDepth = 5
INVARIANTS
  TypeOK
  SettledOnceInOrder
  GapsAreWatched
PROPERTIES
  ImplementsPromise
  QueueDrains
CHECK_DEADLOCK FALSE
