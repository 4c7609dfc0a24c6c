CONSTANTS
  Inputs <- MCLargeInputs
  NoisePairs <- MCLargeNoise
  BinNoise = {0}
  U = 1
  OCALL_MAXSIZE = 4
SPECIFICATION Spec
INVARIANT WrittenBelowSize
CHECK_DEADLOCK FALSE
