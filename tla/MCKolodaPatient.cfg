SPECIFICATION Spec
CONSTANTS
  Total = 5
  Window = 3
  Directions = {"left", "right"}
  Hasty = FALSE
  MaxEnding = 2
  Nil = Nil
CHECK_DEADLOCK FALSE
INVARIANTS
  WindowIsFull
  AsManyReportsAsSwipes
  ReadyForTheNext
PROPERTY
  IsCardDeck
