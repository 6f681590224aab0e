SPECIFICATION RecoverySpec
CONSTANTS
  Sessions = {s1, s2}
  MaxRevision = 1
  MaxFaults = 2
  MaxQueue = 1
  Nothing = Nothing
PROPERTY SelectionIsStored
