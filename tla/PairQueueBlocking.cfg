SPECIFICATION FairSpec
CONSTANTS
  Callers = {c1, c2, c3}
  Message = {m1}
  NoMsg = NoMsg
  Capacity = 1
  MaxSends = 3
PROPERTIES
  CloseReleasesBlocking
CHECK_DEADLOCK FALSE
