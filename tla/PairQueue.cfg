SPECIFICATION FairSpec
CONSTANTS
  Callers = {c1, c2, c3}
  Message = {m1, m2}
  NoMsg = NoMsg
  Capacity = 2
  MaxSends = 3
INVARIANTS
  TypeOK
  FifoInv
  NoLostMessage
  NoLostSpace
PROPERTIES
  NothingAcceptedAfterClose
  ImplementsFifo
  CloseReleases
  MessageReachesWaiter
CHECK_DEADLOCK FALSE
