CONSTANTS
  NumLevels = 3
  MaxMemCompactLevel = 1
  Keys = {1, 2, 3}
  Inputs <- MCInputs
  Handles = {}
  Readers = {}
  MaxWrites = 3
  MaxNumber = 12
  MaxNumberAfter = 12
  MaxRestarts = 1
  Nil = Nil
  NotFound = NotFound
SPECIFICATION ManualSpec
CHECK_DEADLOCK FALSE
INVARIANT
  LevelsAreSorted
