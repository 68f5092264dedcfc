SPECIFICATION Spec
CONSTANTS
  SHARE_PRECISION = 2
  BASIS_POINT_MAX = 2
  U64_MAX = 15
  SECONDS_IN_HOUR = 2
  Positions = {p1}
  MAX_POSITIONS = 1
  Worths = {0}
  OtherQuotes = {0}
  MaxSlot = 3
  Users = {u1, u2}
  Admins = {a1}
  NoAccount = none
  Treasuries = {t1}
  FeeSettings <- HalfFees
  Intervals = {2}
  Funds = 3
  DepositAmounts = {2, 3}
  LiquidityPairs <- NoPairs
  FeePairs <- FeesInX
  SwapPairs <- NoPairs
  TimeSteps = {1, 3}
  MaxTime = 4
PROPERTY EntryValueRecorded
