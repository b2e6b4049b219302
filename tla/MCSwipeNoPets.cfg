SPECIFICATION FairSpec
CONSTANTS
  CatalogueSize = 1
  Batch = 1
  Decodable <- MCDecodable
  MaxFaults = 0
  MaxRefused = 1
  MaxFades = 1
  ListsLost = FALSE
  Nil = Nil
PROPERTY
  NoPetsIsSaid
