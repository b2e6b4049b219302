SPECIFICATION Spec
CONSTANTS
  PetIds = {p1, p2}
  Fields = {f}
  MaxRecords = 2
  MaxOffset = 1
  Nil = Nil
CHECK_DEADLOCK FALSE
INVARIANTS
  TypeOK
  EveryProfileOpens
