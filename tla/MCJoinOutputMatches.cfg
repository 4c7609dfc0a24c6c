CONSTANTS
  MaxPairs = 3
  Noise = {0}
  OCALL_MAXSIZE = 2
SPECIFICATION Spec
INVARIANTS
  MatchesStored
