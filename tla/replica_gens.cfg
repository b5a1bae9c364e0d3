SPECIFICATION Spec
CONSTANTS
  Readers = {r1}
  Tailer = tailer
  Free = free
  Pinned = FALSE
  Rounds = 1
  Degraded = TRUE
  Earlier = 1
  MaxOps = 1
  MaxCycles = 2
  MaxGen = 2
  MaxFaults = 0
INVARIANTS DebtFreeReadsArePrefix AppliedMeansCurrent
CHECK_DEADLOCK FALSE
