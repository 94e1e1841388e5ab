SPECIFICATION Spec
CONSTANTS
  Paths = {a, b}
  Capacity = 4
  MaxLength = 2
  MaxTicks = 5
  NodeWrites = FALSE
INVARIANTS
  UsedIsTotal
CHECK_DEADLOCK FALSE
