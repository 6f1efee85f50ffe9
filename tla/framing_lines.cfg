SPECIFICATION Spec
CONSTANTS
  N = 4
  End <- MCEnd
  MaxRead = 6
INVARIANT EveryLineDelivered
CHECK_DEADLOCK FALSE
