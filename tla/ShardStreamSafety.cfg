SPECIFICATION Spec
CONSTANTS
  ShardLists <- MCShardLists
  Options <- MCOptions
  MaxSize = 7
  MaxDepth = 4
  MaxBatch = 3
  SegmentSizes = {0, 3, 4}
  SegmentCap = 4
  ResetWaits = FALSE
  ShortReads = FALSE
INVARIANTS
  TypeOK
  SlotsExclusive
  BackendAgrees
  NeverStarved
  RequestsAligned
  NeverFailsAlone
PROPERTIES
  DeliversStream
  OnlyLastShort
