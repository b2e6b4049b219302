SPECIFICATION Spec
CONSTANTS
  CatalogueSize = 3
  Batch = 2
  Decodable <- Pets
  MaxFaults = 0
  MaxRefused = 1
  MaxFades = 1
  ListsLost = TRUE
  Nil = Nil
INVARIANTS
  TypeOK
  CallbacksInRange
  SwipesHandedOver
  OneQueryAtATime
  HiddenExplained
  FeedNeverRepeats
  NeverSavedAndRejected
PROPERTY
  IsCardDeck
