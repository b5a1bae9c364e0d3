SPECIFICATION FairSpec
CONSTANTS
  t1 = t1
  t2 = t2
  Threads = {t1, t2}
  Batches <- MCGrowing
  WalEnabled = TRUE
  Shipping = TRUE
  QuotaGated = FALSE
  WalCap = 2
  Faults = {"stage", "commit", "leak", "trim"}
  MaxFaults = 2
  MaxOps = 3
  MaxCrashes = 0
  MaxGen = 1
  Flusher = t1
PROPERTIES AckedEventuallyImaged CapClears
