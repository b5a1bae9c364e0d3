SPECIFICATION Spec
CONSTANTS
  t1 = t1
  t2 = t2
  Threads = {t1, t2}
  Batches <- MCBatches
  WalEnabled = TRUE
  Shipping = TRUE
  QuotaGated = FALSE
  WalCap = 0
  Faults <- MCSingleFaults
  MaxFaults = 1
  MaxOps = 4
  MaxCrashes = 1
  MaxGen = 1
  Flusher = t1
SYMMETRY ThreadSymmetry
INVARIANTS TypeOK AckedDurable RefusedNeverReplays NoDoubleReplay LogDecodes FlushExclusive
PROPERTIES RevisionTracksContent
