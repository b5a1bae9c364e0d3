SPECIFICATION Spec
CONSTANTS
  d1 = d1
  d2 = d2
  Dirs = {d1, d2}
  First = d1
  MaxOps = 3
  MaxBoots = 2
  MaxEvents = 1
INVARIANT CrownedWhole
CHECK_DEADLOCK FALSE
