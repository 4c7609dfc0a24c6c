CONSTANTS
  Dim = 1
  Records1 = {r1, r2}
  Records2 = {}
  Loaded = {1}
  Noise = {1}
  MaxDepth = 4
  Keys <- MCKeys
SPECIFICATION TreeSpec
INVARIANTS
  BoundariesDivide
CHECK_DEADLOCK FALSE
