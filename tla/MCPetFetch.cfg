SPECIFICATION FairSpec
CONSTANTS
  Ids = {p1, p2, p3}
CHECK_DEADLOCK FALSE
INVARIANT
  ReportedOnceAndWhole
PROPERTIES
  ReportedIfAnswered
  ImplementsFetchAll
