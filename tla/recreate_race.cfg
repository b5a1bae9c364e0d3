SPECIFICATION Spec
CONSTANTS
  i1 = i1
  d1 = d1
  Importers = {i1}
  Deleters = {d1}
  Faults = {}
  MaxFaults = 0
  MaxCrashes = 0
  MaxGen = 2
  Recreate = "always"
INVARIANTS CreatedSurvives
