SPECIFICATION Spec
CONSTANTS
  Readers = {r1}
  Tailer = tailer
  Free = free
  Pinned = FALSE
  Rounds = 1
  Degraded = TRUE
  Earlier = 1
  MaxOps = 3
  MaxCycles = 1
  MaxGen = 2
  MaxFaults = 1
INVARIANTS DebtFreeReadsArePrefix AppliedMeansCurrent
CHECK_DEADLOCK FALSE
