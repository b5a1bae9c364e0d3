SPECIFICATION FairSpec
CONSTANTS
  Callers = {c1, c2, c3}
  Nobody = nobody
  Threshold = 2
  Cooldown = 2
  MinReclaim = 1
  MaxPanics = 2
INVARIANTS OneProbeAtATime AwaitsLatestProbe
PROPERTIES Recovers
