\* Each of these fails: run with one of them at a time.
SPECIFICATION Spec
CONSTANTS
  CatalogueSize = 4
  Batch = 2
  Decodable <- MCDecodable
  MaxFaults = 1
  MaxRefused = 1
  MaxFades = 1
  ListsLost = FALSE
  Nil = Nil
INVARIANTS
  SavedOrRejectedFilteredOut
  NoPetsMeansNoPets
PROPERTY
  LogOutLeavesScreen
  SwipesAreKept
