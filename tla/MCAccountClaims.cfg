\* TypeOK holds; each of the others fails: run with one of them at a time.
SPECIFICATION FairSpec
CONSTANTS
  Emails = {alice, bob, typo}
  Malformed = {typo}
  Nil = Nil
INVARIANTS
  TypeOK
  NotCreated
  UserIsSet
  CanTryAgain
