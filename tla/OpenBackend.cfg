SPECIFICATION FairSpec
CONSTANTS
  Depth = 3
  ThreadCounts = {0, 1, 2}
  MaxRequests = 5
  MaxMin = 3
  MaxRoom = 3
  SubmitMayFail = TRUE
  WaitMayFail = TRUE
INVARIANTS
  InFlightExact
  InSubmissionOrder
PROPERTIES
  ImplementsBackend
  ReapReturns
CHECK_DEADLOCK FALSE
