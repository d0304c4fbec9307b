SPECIFICATION Spec
CONSTANTS
  v1 = v1
  v2 = v2
  v3 = v3
  v4 = v4
  Ids = {v1, v2, v3, v4}
  NoId = noId
  MaxSize = 3
  Ratios = {1, 2, 3}
  Infinite = 9
INVARIANTS
  WellFormed
  IndexesAreExact
PROPERTIES
  ImplementsVaultList
SYMMETRY Symmetry
