SPECIFICATION Spec
CONSTANTS
  Spaces = {s1, s2}
  Rights = {Read, Grant}
  GrantRight = Grant
  EpochModulus = 4
  HandleModulus = 8
  MaxMints = 2
  MaxInserts = 3
  MaxRevokes = 2
PROPERTIES
  RevokeKillsTheSpace
CHECK_DEADLOCK FALSE
