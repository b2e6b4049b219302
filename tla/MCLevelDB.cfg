CONSTANTS
  NumLevels = 3
  MaxMemCompactLevel = 1
  Keys = {1, 2}
  Inputs <- MCInputs
  Handles = {h1}
  Readers = {r1}
  MaxWrites = 3
  MaxNumber = 9
  MaxNumberAfter = 7
  MaxRestarts = 2
  Nil = Nil
  NotFound = NotFound
SPECIFICATION Spec
CHECK_DEADLOCK FALSE
INVARIANTS
  LevelsAreSorted
  UpperIsNewer
  NeededFilesExist
  NumbersAreUnique
  CopiesAreRight
