SPECIFICATION Spec
CONSTANTS
  p1 = p1
  p2 = p2
  p3 = p3
  Server = server
  DoneSize = 2
  ReadSize = 4
  Peers <- Two
  MaxClients = 2
  MaxInFlight = 4
  MaxSends = 5
  MaxAcceptErrors = 1
  Resetting <- Two
INVARIANTS AcceptArmed TasksSound ClientsOpen
SYMMETRY PeerSymmetry
CHECK_DEADLOCK FALSE
