SPECIFICATION MCSpec
CONSTANTS
  DECIMAL_PRECISION = 100
  Precision = 100
  SECONDS_IN_ONE_MINUTE = 3
  MINUTE_DECAY_FACTOR = 50
  REDEMPTION_FEE_FLOOR = 1
  BORROWING_FEE_FLOOR = 1
  MAX_BORROWING_FEE = 5
  BETA = 2
  MinutesIn1000Years = 100
  Price = 200
  u1 = u1
  u2 = u2
  Stakers = {u1, u2}
  MPOwned = 3
  StakeAmounts = {0, 1, 3}
  Borrowings = {250}
  Drawn = {1, 40}
  Supplies = {100, 300}
  MaxTime = 10
  MaxCalls = 5
  p1 = p1
  p2 = p2
  Providers = {p1, p2}
  TokenUnit = 10
  Reward = 301
  Duration = 3
  LPOwned = 2
  LPAmounts = {1, 2}
  MaxLPTime = 9
SYMMETRY Symmetric
INVARIANTS
  GainsAreBacked
  DecayKeepsPace
  ClockStopsWhileEmpty
  BalanceIsOwed
PROPERTIES
  EarnedIsKeptOrPaid
CHECK_DEADLOCK FALSE
