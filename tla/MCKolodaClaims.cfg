\* Hands that catch cards in flight.  The four invariants and the liveness
\* property hold.  ReportedAsSwiped (an invariant) and SwipeApplies (a
\* property) fail: add one of them at a time.
SPECIFICATION FairSpec
CONSTANTS
  Total = 3
  Window = 2
  Directions = {"left", "right"}
  Hasty = TRUE
  MaxEnding = 2
  Nil = Nil
CHECK_DEADLOCK FALSE
INVARIANTS
  TypeOK
  WindowIsFull
  AsManyReportsAsSwipes
  IgnoresOnlyWhileMoving
PROPERTY
  EverySwipeIsReported
