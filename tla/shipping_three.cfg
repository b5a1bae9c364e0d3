SPECIFICATION FairSpec
CONSTANTS
  DeferCap = 2
  MaxOps = 3
  MaxInc = 2
  MaxGen = 2
  MaxFaults = 0
INVARIANTS GaplessUnlessAhead CaughtUpRestores
PROPERTIES PromisesKept MixedHeals AckedEventuallyShipped
CHECK_DEADLOCK FALSE
