SPECIFICATION FairSpec
CONSTANTS
  Readers = {r1}
  Tailer = tailer
  Free = free
  Pinned = TRUE
  Rounds = 1
  Degraded = TRUE
  Earlier = 1
  MaxOps = 1
  MaxCycles = 1
  MaxGen = 1
  MaxFaults = 1
PROPERTIES EventuallyApplied
CHECK_DEADLOCK FALSE
