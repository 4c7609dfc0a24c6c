CONSTANTS
  Dim = 2
  Records1 = {}
  Records2 = {r1, r2, r3}
  Loaded = {2}
  Noise = {1}
  MaxDepth = 4
  Sorting = FALSE
  Keys <- MCKeys
SPECIFICATION JoinSpec
INVARIANTS
  EveryPointOnce
  ExactCounts
  BinsMatchLeaves
  SelectComplete
  SelectJoinComplete
SYMMETRY RowSymmetry
CHECK_DEADLOCK FALSE
