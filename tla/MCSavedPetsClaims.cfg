\* TypeOK holds; each of the others fails: run with one of them at a time.
SPECIFICATION FairSpec
CONSTANTS
  Pets = {p1, p2, p3}
  MaxLoads = 2
  Nil = Nil
INVARIANTS
  TypeOK
  NothingSavedYet
PROPERTIES
  RefusalTold
  ErrorLiftsOverlay
