SPECIFICATION Spec
CONSTANTS
  a = a
  b = b
  Threads = {t1, t2}
  Free = free
  Sources = {a, b}
  StoreKeys <- MCKeys
  LegacyMap <- MCLegacy
  Floor = 1
  Cap = 2
  MaxWrites = 2
  MaxRetracts = 1
  MaxFaults = 2
INVARIANTS ServedIsDurable
PROPERTIES KeepsTheMap
SYMMETRY ThreadSymmetry
