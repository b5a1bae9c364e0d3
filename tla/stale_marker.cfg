SPECIFICATION Spec
CONSTANTS
  i1 = i1
  d1 = d1
  Importers = {i1}
  Deleters = {d1}
  Faults = {"unmark"}
  MaxFaults = 1
  MaxCrashes = 1
  MaxGen = 2
  Recreate = "returned"
INVARIANTS CreatedSurvives
