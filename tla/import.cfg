SPECIFICATION Spec
CONSTANTS
  Shards = {h1, h2}
  Sources = {1, 2}
  Versions = {1, 2}
  Passaged = {1}
  Chunks = 1
  Calls = {1, 2, 3}
  MaxFaults = 2
INVARIANTS TornIsMarked
PROPERTIES AckedIsExact
SYMMETRY ShardSymmetry
CHECK_DEADLOCK FALSE
