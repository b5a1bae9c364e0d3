SPECIFICATION Spec
CONSTANTS
  Readers = {r1}
  Tailer = tailer
  Free = free
  Pinned = FALSE
  Rounds = 1
  Degraded = FALSE
  Earlier = 1
  MaxOps = 2
  MaxCycles = 1
  MaxGen = 1
  MaxFaults = 0
INVARIANT DoneIsExact
CHECK_DEADLOCK FALSE
