CONSTANTS
  Dim = 1
  Records1 = {r1, r2}
  Records2 = {s1}
  Loaded = {1, 2}
  Noise = {0, 2}
  MaxDepth = 4
  Sorting = TRUE
  Keys <- MCKeys
SPECIFICATION FairSpec
INVARIANTS
  NoBinAboveMax
  SplitCorrect
  MatchingRowsMeet
PROPERTIES
  TreeEnds
CHECK_DEADLOCK FALSE
