SPECIFICATION Spec
CONSTANTS
  DeferCap = 9
  MaxOps = 2
  MaxInc = 1
  MaxGen = 1
  MaxFaults = 0
INVARIANTS CompleteRestores
CHECK_DEADLOCK FALSE
