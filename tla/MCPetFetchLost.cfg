SPECIFICATION FairSpec
CONSTANTS
  Ids = {p1, p2}
CHECK_DEADLOCK FALSE
INVARIANT
  TypeOK
PROPERTY
  AlwaysReported
