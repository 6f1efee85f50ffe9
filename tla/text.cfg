SPECIFICATION AllSpec
CONSTANTS
  N = 4
  End <- MCEnd
  MaxRead = 6
  Registered <- MCRegistered
  Acked <- MCAcked
  ListenFirst = FALSE
  MaxRuns = 1
INVARIANTS TypeOK NoResidue InOrder ConnectionSafe ReaderSound RoundTrip ValueLaws RequestSurvives
PROPERTIES AlignedDelivered AllOrNothing
CHECK_DEADLOCK FALSE
