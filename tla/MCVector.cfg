CONSTANTS
  Values = {0, 1}
  Indices <- MCIndices
  Capacities = {0, 1, 2, 3}
  MaxCap = 6
  SizeMod = 64
  Junk = Junk
  NULL = NULL
SPECIFICATION Spec
INVARIANT SizeFitsBlock
PROPERTY RefinesSequence
