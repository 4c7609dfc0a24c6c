CONSTANTS
  Inputs <- MCInputs
  NoisePairs <- MCNoisePairs
  BinNoise = {0, 1, 2}
  U = 1
  OCALL_MAXSIZE = 5
SPECIFICATION Spec
INVARIANTS
  TypeOK
  BinsFull
  RoomInJoinOutput
  MatchesJoined
CHECK_DEADLOCK FALSE
