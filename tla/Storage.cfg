SPECIFICATION Spec
CONSTANTS
  Paths = {a, b, c}
  Capacity = 3
  MaxLength = 2
  MaxTicks = 5
  NodeWrites = TRUE
  Clients = {x, y}
  UpperPaths = {"fresh"}
  LowerFiles <- MCLowerFiles
  Zero = Zero
  MaxCalls = 2
  Starts <- MCStarts
  Rate = 3
  Bytes = {1, 6}
  MaxAbsorbed = 5
  MaxSqueezed = 5
  Characters = {1, 9}
  Kinds = {0, 1}
  Digests = {1, 2}
  MaxParts = 3
INVARIANTS
  UsedWithinBudget
  DigestsAgree
  EncodedApart
PROPERTIES
  EvictionTakesOldest
  AloneActsOnWhole
  CopiedUpOnce
CHECK_DEADLOCK FALSE
