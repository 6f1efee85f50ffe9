SPECIFICATION Spec
CONSTANTS
  r1 = r1
  r2 = r2
  r3 = r3
  Requests <- MCRequests
  Registered <- MCRegistered
  Acked <- MCAcked
  MaxBatch = 2
  ListenFirst = FALSE
  MaxRuns = 2
PROPERTY NothingDiscarded
CHECK_DEADLOCK FALSE
