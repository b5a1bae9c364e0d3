SPECIFICATION Spec
CONSTANTS
  i1 = i1
  i2 = i2
  d1 = d1
  Importers = {i1, i2}
  Deleters = {d1}
  Faults <- FaultKinds
  MaxFaults = 1
  MaxCrashes = 2
  MaxGen = 3
  Recreate = "confirmed"
SYMMETRY ImporterSymmetry
INVARIANTS NoResurrection CreatedSurvives LogIsItsOwn ImageHasSidecar
