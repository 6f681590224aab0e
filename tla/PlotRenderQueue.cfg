SPECIFICATION NumberedSpec
CONSTANTS
  Ops = {1, 2, 3}
  Comms = {c1, c2}
  FirstComm = c1
  None = None
INVARIANTS
  TypeOK
  OpenIsWorkedOff
PROPERTY
  OperationsSettle
