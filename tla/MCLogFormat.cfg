CONSTANTS
  BlockSize = 7
  HeaderSize = 3
  Sizes = {0, 1, 9}
  MaxRecords = 3
  MaxFailed = 1
  MaxDamaged = 1
SPECIFICATION Spec
CHECK_DEADLOCK FALSE
INVARIANTS
  NeverSpliced
  IntactIsRead
  DeathIsSilent
