SPECIFICATION Spec
CONSTANTS
  Rate = 3
  Importers = {i}
  Paths = {p}
  Bytes = {1, 6}
  MaxContent = 3
INVARIANTS
  StoreGivesBack
CHECK_DEADLOCK FALSE
