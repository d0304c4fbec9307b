SPECIFICATION MCSpec
CONSTANTS
  a = a
  b = b
  f = f
  Addresses = {a, b, f}
  NoTag = noTag
  DECIMAL_PRECISION = 16
  SCALE_FACTOR = 4
  Billion = 4
  Amounts = {37, 64}
  Issuances = {0}
  Debts = {7, 21, 28, 64}
  CollsAdded = {7}
  KickbackRates = {3}
  MaxScale = 2
  MaxEpoch = 1
  MaxCalls = 6
SYMMETRY Symmetric
INVARIANTS
  DepositsCanBeWithdrawn
CHECK_DEADLOCK FALSE
