SPECIFICATION MCSpec
CONSTANTS
  a1 = a1
  a2 = a2
  a3 = a3
  Users = {a1, a2, a3}
  GasPool = gasPool
  StabilityPool = stabilityPool
  MPStaking = mpStaking
  DECIMAL_PRECISION = 10000
  INFINITE_CR = 1000000000
  NICR_PRECISION = 40000
  MCR = 11000
  CCR = 15000
  BPD_GAS_COMPENSATION = 200
  MIN_NET_DEBT = 1800
  PERCENT_DIVISOR = 200
  Prices = {10000, 7000, 6800, 5600}
  Colls = {3100, 9000}
  Amounts = {1800, 5427}
  BorrowingRates = {50}
  RedemptionRates = {50}
  Setup = 3
  ScenarioNames = {"liquidation", "borrowing", "redemption"}
SYMMETRY Symmetric
INVARIANTS
  TypeOK
  PoolHoldsDeposits
  ActivePoolIsVaults
  UnsafeCanBeLiquidated
  SupplyIsDebt
  GasPoolCoversVaults
  DefaultPoolCoversPending
  TotalStakesIsSum
  SurplusIsBacked
  ListIsActive
PROPERTIES
  SafeVaultsAreKept
  DepositorsAreCompensated
  BorrowersKeepNormalMode
  BorrowersKeepTCR
  RedeemsLowestFirst
CHECK_DEADLOCK FALSE
