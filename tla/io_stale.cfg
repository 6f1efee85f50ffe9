SPECIFICATION Spec
CONSTANTS
  p1 = p1
  p2 = p2
  p3 = p3
  Server = server
  DoneSize = 2
  ReadSize = 4
  Peers <- Two
  MaxClients = 2
  MaxInFlight = 1
  MaxSends = 2
  MaxAcceptErrors = 0
  Resetting <- None
INVARIANT NoDanglingListener
CHECK_DEADLOCK FALSE
