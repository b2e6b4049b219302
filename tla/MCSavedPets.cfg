SPECIFICATION FairSpec
CONSTANTS
  Pets = {p1, p2, p3}
  MaxLoads = 2
  Nil = Nil
INVARIANT
  ListMatchesRecord
PROPERTY
  OverlayLifts
