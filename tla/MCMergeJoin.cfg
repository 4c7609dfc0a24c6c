CONSTANTS
  PrimaryBins <- MCPrimaryBins
  ForeignBins <- MCForeignBins
  MaxBinPairs = 2
  Leftover = {0, 1, 2, 3}
SPECIFICATION Spec
INVARIANTS
  TypeOK
  MatchesCounted
  MatchesWritten
  PrimaryIsRecord
CHECK_DEADLOCK FALSE
