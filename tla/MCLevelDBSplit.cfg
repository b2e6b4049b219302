CONSTANTS
  NumLevels = 3
  MaxMemCompactLevel = 1
  Keys = {1}
  Inputs <- MCInputs
  Handles = {h1}
  Readers = {}
  MaxWrites = 2
  MaxNumber = 12
  MaxNumberAfter = 12
  MaxRestarts = 0
  Nil = Nil
  NotFound = NotFound
SPECIFICATION Spec
CHECK_DEADLOCK FALSE
INVARIANTS
  EveryUpperIsNewer
  EveryCopyIsRight
