SPECIFICATION Spec
CONSTANTS
  DeferCap = 9
  MaxOps = 3
  MaxInc = 1
  MaxGen = 1
  MaxFaults = 0
INVARIANTS RestoreGapless
CHECK_DEADLOCK FALSE
