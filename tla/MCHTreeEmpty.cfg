CONSTANTS
  Keys <- MCKeys
  MaxSize <- MCMaxSize
  Noise = {0, 1}
  Ranges <- MCRanges
SPECIFICATION Spec
INVARIANT BucketsInclusive
CHECK_DEADLOCK FALSE
