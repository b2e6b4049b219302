SPECIFICATION FairSpec
CONSTANTS
  Emails = {alice, bob, typo}
  Malformed = {typo}
  Nil = Nil
INVARIANTS
  MainHasRecord
  OneAttemptAtATime
PROPERTIES
  AttemptReported
  AttemptEnds
