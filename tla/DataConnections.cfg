SPECIFICATION FairSpec
CONSTANTS
  MaxConnects = 3
  MaxEdits = 1
  MaxRemovals = 1
INVARIANTS
  TypeOK
  ConnectionsAreKept
PROPERTY
  ConnectsEnd
CHECK_DEADLOCK FALSE
