SPECIFICATION Spec
CONSTANTS
  Handles = {h1, h2}
  None = None
  N = 2
  MaxPosts = 4
INVARIANTS
  CancelIsInEffect
CHECK_DEADLOCK FALSE
