CONSTANTS
  Writers = {w1, w2, w3}
  MaxCalls = 3
  MemCapacity = 1
  CompactionTrigger = 1
  SlowdownTrigger = 1
  StopTrigger = 2
  Faults = {"recoverEarlier"}
  MaxFaults = 1
  MaxRestarts = 1
  MaxSpurious = 0
  MaxMishaps = 1
  Nil = Nil
SPECIFICATION Spec
CHECK_DEADLOCK FALSE
INVARIANT
  AcknowledgedSurvives
