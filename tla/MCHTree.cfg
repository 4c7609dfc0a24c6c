CONSTANTS
  Keys <- MCKeys
  MaxSize <- MCMaxSize
  Noise = {0, 1}
  Ranges <- MCRanges
SPECIFICATION FairSpec
INVARIANTS
  BucketsTileDomain
  EveryRowOnce
  RecordsInTheirBucket
  EveryPairJoined
  RoomForEveryRow
CHECK_DEADLOCK FALSE
PROPERTIES
  JoinedOnce
  QueriesEnd
