SPECIFICATION Spec
CONSTANTS
  Depth = 3
  ThreadCounts = {0}
  MaxRequests = 5
  MaxMin = 3
  MaxRoom = 3
  SubmitMayFail = FALSE
  WaitMayFail = FALSE
PROPERTIES
  WaitsForMinimum
CHECK_DEADLOCK FALSE
