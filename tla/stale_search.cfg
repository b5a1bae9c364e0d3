SPECIFICATION Spec
CONSTANTS
  Writers = {w1, w2}
  Readers = {r1}
  RingCap = 2
  Budget = 4
  MaxChanges = 2
  MaxBirths = 1
  MaxReads = 3
INVARIANT HitsAreAsNewAsTheirKey
CHECK_DEADLOCK FALSE
