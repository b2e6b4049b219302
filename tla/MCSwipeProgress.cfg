SPECIFICATION FairSpec
CONSTANTS
  CatalogueSize = 2
  Batch = 1
  Decodable <- Pets
  MaxFaults = 1
  MaxRefused = 0
  MaxFades = 1
  ListsLost = FALSE
  Nil = Nil
PROPERTY
  QueryAnswered
