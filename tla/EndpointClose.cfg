SPECIFICATION FairSpec
CONSTANTS
  Threads = {t1}
  Coroutines = {k1, k2}
  Nobody = Nobody
  MaxSends = 2
PROPERTIES
  CloseReturns
CHECK_DEADLOCK FALSE
