SPECIFICATION FairSpec
CONSTANTS
  p1 = p1
  p2 = p2
  p3 = p3
  Server = server
  DoneSize = 3
  ReadSize = 6
  Peers <- Three
  MaxClients = 1
  MaxInFlight = 2
  MaxSends = 2
  MaxAcceptErrors = 1
  Resetting <- None
INVARIANTS TypeOK NoDanglingListener NeverReadsStdin HealthyStaysConnected
PROPERTIES EveryoneAccepted AllDataRead ClosedReleased
CHECK_DEADLOCK FALSE
