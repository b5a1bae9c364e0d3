SPECIFICATION Spec
CONSTANTS
  Names = {1, 2, 3, 4}
  Contexts = {}
  MaxDepth = 3
  MaxMembers = 1
  MaxBatch = 3
  MaxFaults = 0
  MaxCrashes = 0
INVARIANTS StaysAcyclic
CHECK_DEADLOCK FALSE
