SPECIFICATION RecoverySpec
CONSTANTS
  Sessions = {s1}
  MaxRevision = 1
  MaxFaults = 1
  MaxQueue = 0
  Nothing = Nothing
PROPERTIES
  UnreadIsKept
