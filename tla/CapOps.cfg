SPECIFICATION Spec
CONSTANTS
  Spaces = {s1, s2}
  Rights = {Read, Grant}
  GrantRight = Grant
  EpochModulus = 3
  HandleModulus = 3
  MaxMints = 1
  MaxInserts = 3
  MaxRevokes = 3
INVARIANTS
  TypeOK
  RightsNeverAmplified
  CopiesAccounted
  RevokedStaysDead
PROPERTIES
  BoundHandleIsStable
CHECK_DEADLOCK FALSE
