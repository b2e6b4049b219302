CONSTANTS
  Writers = {w1, w2, w3}
  MaxCalls = 3
  MemCapacity = 1
  CompactionTrigger = 1
  SlowdownTrigger = 1
  StopTrigger = 2
  Faults = {"newlog", "sync", "table", "manifest", "recoverLast"}
  MaxFaults = 1
  MaxRestarts = 1
  MaxSpurious = 1
  MaxMishaps = 1
  Nil = Nil
SPECIFICATION FairSpec
CHECK_DEADLOCK FALSE
INVARIANTS
  OneLogger
  AcknowledgedSurvives
  AcknowledgedIsRead
  NeededTablesExist
  LoggedInOrder
PROPERTY
  EveryCallReturns
