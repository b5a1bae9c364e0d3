SPECIFICATION FairSpec
CONSTANTS
  DeferCap = 2
  MaxOps = 2
  MaxInc = 2
  MaxGen = 2
  MaxFaults = 1
INVARIANTS GaplessUnlessAhead CaughtUpRestores
PROPERTIES PromisesKept MixedHeals AckedEventuallyShipped
CHECK_DEADLOCK FALSE
