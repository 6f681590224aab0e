SPECIFICATION BoundedSpec
CONSTANTS
  KernelComm = 5
  Comms <- MCComms
  TypeOf <- MCTypeOf
  Order <- MCOrder
  HelpType = "help"
  KernelComms = {5}
  Handled = {"variables"}
  Rpcs = {r1}
  None = None
  MaxLives = 2
  MaxInits = 2
  MaxWire = 1
INVARIANTS
  TypeOK
  ClientsMatchKernel
PROPERTIES
  RpcsEndInTime
  ReadyIsInitialized
CHECK_DEADLOCK FALSE
