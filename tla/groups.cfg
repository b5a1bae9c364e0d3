SPECIFICATION Spec
CONSTANTS
  Names = {1, 2, 3}
  Contexts = {c}
  MaxDepth = 2
  MaxMembers = 1
  MaxBatch = 2
  MaxFaults = 1
  MaxCrashes = 1
INVARIANTS NestingHolds MembersLive RestartsTell
PROPERTIES BootIsIdempotent
CHECK_DEADLOCK FALSE
