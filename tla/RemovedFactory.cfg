SPECIFICATION Spec
CONSTANTS
  MaxGeneration = 2
  MaxClients = 1
  MaxStops = 0
PROPERTY
  RemovedStaysRemoved
CHECK_DEADLOCK FALSE
