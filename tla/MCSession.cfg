CONSTANTS
  Inputs <- MCInputs
  Queries <- MCQueries
  Fanout = 2
  Width = 32
  Usages <- MCUsages
  MaxQueries = 2
  TableSize <- MCTableSize
  TreeNoise = {0, 3}
  BucketNoise = {0, 1}
  OutputSizes = {3, 4}
  MaxBins = 2
  OCALL_MAXSIZE = 2
  IO_BLOCKSIZE = 4
  MaxFaults = 1
SPECIFICATION MCSpec
INVARIANTS
  TypeOK
  Consistent
  AnswerOfThisQuery
  RowsRead
  RowsKept
  StaysUp
PROPERTIES
  SelectsByRange
