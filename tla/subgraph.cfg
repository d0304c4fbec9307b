SPECIFICATION IndexSpec
CONSTANTS
  u1 = u1
  u2 = u2
  Users = {u1, u2}
  Prices = {200, 210}
  InitialPrice = 200
  Positions <- MCPositions
  MaxCalls = 5
SYMMETRY Symmetric
INVARIANTS
  TemporariesAreCleared
  IndexMatchesContracts
PROPERTIES
  ChangesAreChained
\* The last block has been handled, or a handler failed.
CHECK_DEADLOCK FALSE
