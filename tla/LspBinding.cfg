SPECIFICATION Spec
CONSTANTS
  MaxGeneration = 2
  MaxClients = 3
  MaxStops = 1
INVARIANTS
  TypeOK
  RestIsClean
  HeldIsCurrent
CHECK_DEADLOCK FALSE
