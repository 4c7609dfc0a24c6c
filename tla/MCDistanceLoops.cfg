CONSTANTS
  N = 9
  MaxSize = 11
  M = 6
SPECIFICATION CallSpec
INVARIANTS
  TypeOK
  DistancesLeadHome
  CallerGetsMarked
  Placed
  FilledIn
PROPERTIES
  OnlyPlaceholdersMoveBack
CHECK_DEADLOCK FALSE
