SPECIFICATION FairSpec
CONSTANTS
  Options <- MCOptions
  Totals <- MCTotals
  MaxPrefetch = 3
  MaxTotal = 6
  ReadMayThrow = TRUE
INVARIANTS
  TypeOK
  NoSharing
  InOrder
  RecycleNeverBlocks
  NothingDropped
PROPERTIES
  Terminates
CHECK_DEADLOCK FALSE
