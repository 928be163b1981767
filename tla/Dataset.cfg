SPECIFICATION FairSpec
CONSTANTS
  ShardLists <- MCShardLists
  Options <- MCOptions
  MaxBatch = 3
  MaxPrefetch = 2
  MaxDepth = 3
  SegmentSizes = {0, 4}
  SegmentCap = 4
  ResetWaits = TRUE
INVARIANTS
  CallbackGetsTheSet
  ReadAheadBounded
  ErrorsHaveCause
  BuffersKept
PROPERTIES
  ImplementsPipeline
