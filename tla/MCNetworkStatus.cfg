SPECIFICATION FairSpec
CONSTANTS
  MaxFades = 2
  MaxQueued = 2
  Nil = Nil
INVARIANT
  ListenersAreOnScreen
PROPERTY
  PopupIsPutRight
