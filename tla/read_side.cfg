SPECIFICATION Spec
CONSTANTS
  Writers = {w1, w2}
  Readers = {r1}
  RingCap = 2
  Budget = 4
  MaxChanges = 3
  MaxBirths = 2
  MaxReads = 2
INVARIANTS SearchesShowAcked FeedSkipsNothing
CHECK_DEADLOCK FALSE
SYMMETRY WriterSymmetry
