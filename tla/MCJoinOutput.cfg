CONSTANTS
  MaxPairs = 7
  Noise = {0, 2}
  OCALL_MAXSIZE = 2
SPECIFICATION Spec
INVARIANTS
  TypeOK
  CountersOfThisQuery
CHECK_DEADLOCK FALSE
PROPERTIES
  CountedRowsFirst
