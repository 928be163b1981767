SPECIFICATION Spec
CONSTANTS
  Options <- MCOptions
  Totals <- MCTotals
  MaxPrefetch = 1
  MaxTotal = 3
  ReadMayThrow = FALSE
INVARIANTS
  StopReturnsOk
