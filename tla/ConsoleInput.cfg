SPECIFICATION MCSpec
CONSTANTS
  MaxInputs = 3
  MaxLosses = 1
  MaxAside = 1
INVARIANTS
  TypeOK
  InputsAreKept
PROPERTIES
  InputsSettle
CHECK_DEADLOCK FALSE
