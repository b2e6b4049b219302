\* TypeOK and FlagsAreCurrent hold; each of the others fails: run with one of them
\* at a time.
SPECIFICATION FairSpec
CONSTANTS
  MaxFades = 2
  MaxQueued = 2
  Nil = Nil
INVARIANTS
  TypeOK
  FlagsAreCurrent
  ShownIsThere
  TracksReachability
PROPERTY
  ReconnectKills
