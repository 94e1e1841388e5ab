SPECIFICATION FairSpec
CONSTANTS
  Threads = {t1, t2}
  Coroutines = {k1, k2}
  Nobody = Nobody
  MaxSends = 2
INVARIANTS
  NoStrandedWaiter
  NobodyParkedOnClosed
  ReceiversGetWhatTheyTook
PROPERTIES
  ImplementsFifo
  HandedIsResumed
CHECK_DEADLOCK FALSE
