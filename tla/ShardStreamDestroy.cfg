SPECIFICATION Spec
CONSTANTS
  ShardLists <- MCShardLists
  Options <- MCOptions
  MaxSize = 7
  MaxDepth = 3
  MaxBatch = 3
  SegmentSizes = {0}
  SegmentCap = 4
  ResetWaits = TRUE
  ShortReads = FALSE
INVARIANTS
  BuffersOutliveRequests
