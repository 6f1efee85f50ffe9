SPECIFICATION Spec
CONSTANTS
  MaxConns = 3
  MaxSends = 2
  Eager = TRUE
INVARIANT TasksOfOpen
CHECK_DEADLOCK FALSE
