SPECIFICATION FairSpec
CONSTANTS
  Handles = {h1, h2}
  None = None
  N = 2
  MaxPosts = 4
INVARIANTS
  PostedOnce
  EveryPostAccounted
  CancelledIsNotResumed
  DtorDrains
PROPERTIES
  PostedIsTaken
  DtorReturns
CHECK_DEADLOCK FALSE
