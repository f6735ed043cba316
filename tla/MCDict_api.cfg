SPECIFICATION Spec
CONSTANTS
  NULL = NULL
  Keys = {k1, k2, k3, k4}
  Values = {v1, v2}
  Size = 3
SYMMETRY KeySymmetry
INVARIANTS
  TypeOK
  CounterCountsTuples
  ScanFindsSlot
  CompactUnique
PROPERTIES
  RefusesOnlyWhenFull
  RefinesMap
