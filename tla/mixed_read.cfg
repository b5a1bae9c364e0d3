SPECIFICATION Spec
CONSTANTS
  Readers = {r1}
  Tailer = tailer
  Free = free
  Pinned = FALSE
  Rounds = 1
  Degraded = FALSE
  Earlier = 0
  MaxOps = 3
  MaxCycles = 1
  MaxGen = 1
  MaxFaults = 0
INVARIANT SteadyReadsArePrefix
CHECK_DEADLOCK FALSE
