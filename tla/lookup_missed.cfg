SPECIFICATION Spec
CONSTANTS
  c1 = c1
  c2 = c2
  n1 = n1
  n2 = n2
  NoName = none
  Calls <- OneCall
  Names <- BothNames
  NameOf <- MCNameOf
INVARIANT AnswerNotMissed
CHECK_DEADLOCK FALSE
