CONSTANTS
  NumLevels = 3
  MaxMemCompactLevel = 1
  Keys = {1, 2}
  Inputs <- MCInputs
  Handles = {}
  Readers = {}
  MaxWrites = 4
  MaxNumber = 12
  MaxNumberAfter = 9
  MaxRestarts = 2
  Nil = Nil
  NotFound = NotFound
SPECIFICATION Spec
INVARIANTS
  TypeOK
  LevelsAreSorted
  UpperIsNewer
  NeededFilesExist
  NumbersAreUnique
  CopiesAreRight
CHECK_DEADLOCK FALSE
