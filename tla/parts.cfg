SPECIFICATION PartsSpec
CONSTANTS
  c1 = c1
  c2 = c2
  n1 = n1
  n2 = n2
  t1 = t1
  t2 = t2
  t3 = t3
  s1 = s1
  s2 = s2
  k1 = k1
  k2 = k2
  k3 = k3
  r1 = r1
  r2 = r2
  r3 = r3
  o1 = o1
  o2 = o2
  p1 = p1
  p2 = p2
  p3 = p3
  cmd = cmd
  None = None
  Calls <- TwoCalls
  Names <- TwoNames
  NameOf <- MCNameOf
  NoName = None
  Spawned <- ThreeThreads
  MaxConns = 3
  MaxSends = 2
  Senders <- TwoSenders
  Messages <- MCMessages
  Length = 2
  Room = 3
  MaxErrors = 2
  Clients <- ThreeClients
  MaxAsked = 3
  Requests <- MCRequests
  Registered <- MCRegistered
  Acked <- MCAcked
  MaxBatch = 2
  MaxRuns = 2
  Objects <- TwoObjects
  Pointers <- ThreePointers
  ServiceNames <- TwoNames
  Services <- TwoObjects
  Cmds <- OneCmd
  MaxFunctions = 2
  MaxServed = 1
INVARIANTS TypeOK NoUseAfterDestroy AddressLookedUp ThreadSafe ClientSafe WriteSafe AnswerSafe
  RefSafe
PROPERTIES LookupEnds StopEnds ClientLive QueuedIsSent AllAnswered ImplementsPipe LookupsHold
CHECK_DEADLOCK FALSE
