SPECIFICATION PeakSpec
CONSTANTS
  SHARE_PRECISION = 2
  BASIS_POINT_MAX = 2
  U64_MAX = 15
  SECONDS_IN_HOUR = 2
  Positions = {p1}
  MAX_POSITIONS = 1
  Worths = {0}
  OtherQuotes = {0}
  MaxSlot = 3
  Users = {u1}
  Admins = {a1}
  NoAccount = none
  Treasuries = {t1}
  FeeSettings <- PerformanceOnly
  Intervals = {2}
  Funds = 9
  DepositAmounts = {2}
  LiquidityPairs <- NoPairs
  FeePairs <- FeesInX
  SwapPairs <- SwapOut
  TimeSteps = {1, 3}
  MaxTime = 4
PROPERTY NoFeeOnRecovery
