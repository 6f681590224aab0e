SPECIFICATION FairRecoverySpec
CONSTANTS
  Sessions = {s1, s2}
  MaxRevision = 1
  MaxFaults = 1
  MaxQueue = 1
  Nothing = Nothing
INVARIANTS
  RecoveryTypeOK
  StoredIsTrue
PROPERTIES
  StorageKeepsUp
  ChangesAreStored
