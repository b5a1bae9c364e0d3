SPECIFICATION FairSpec
CONSTANTS
  t1 = t1
  Threads = {t1}
  Batches <- MCGrowing
  WalEnabled = TRUE
  Shipping = FALSE
  QuotaGated = FALSE
  WalCap = 2
  Faults = {"reset"}
  MaxFaults = 1
  MaxOps = 4
  MaxCrashes = 0
  MaxGen = 0
  Flusher = t1
PROPERTIES CapAlwaysClears
