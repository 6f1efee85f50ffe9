SPECIFICATION Spec
CONSTANTS
  p1 = p1
  p2 = p2
  p3 = p3
  Server = server
  DoneSize = 2
  ReadSize = 4
  Peers <- One
  MaxClients = 1
  MaxInFlight = 2
  MaxSends = 3
  MaxAcceptErrors = 0
  Resetting <- None
INVARIANT HealthyStaysConnected
CHECK_DEADLOCK FALSE
