SPECIFICATION Spec
CONSTANTS
  t1 = t1
  t2 = t2
  t3 = t3
  Threads = {t1, t2, t3}
  Batches <- MCBatches
  WalEnabled = FALSE
  Shipping = FALSE
  QuotaGated = TRUE
  WalCap = 0
  Faults <- MCSaveFaults
  MaxFaults = 1
  MaxOps = 3
  MaxCrashes = 0
  MaxGen = 2
  Flusher = t1
SYMMETRY ThreadSymmetry
INVARIANTS AckedVisible
PROPERTIES ImageNeverRegresses DeletedStaysGone
