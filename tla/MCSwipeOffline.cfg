SPECIFICATION Spec
CONSTANTS
  CatalogueSize = 4
  Batch = 2
  Decodable <- MCDecodable
  MaxFaults = 0
  MaxRefused = 1
  MaxFades = 1
  ListsLost = FALSE
  Nil = Nil
INVARIANT
  FailureReported
