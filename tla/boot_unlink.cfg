SPECIFICATION Spec
CONSTANTS
  i1 = i1
  d1 = d1
  Importers = {i1}
  Deleters = {d1}
  Faults = {"unlink", "bootunlink"}
  MaxFaults = 2
  MaxCrashes = 1
  MaxGen = 1
  Recreate = "confirmed"
INVARIANTS NoResurrection
