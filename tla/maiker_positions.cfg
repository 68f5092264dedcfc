SPECIFICATION Spec
CONSTANTS
  SHARE_PRECISION = 2
  BASIS_POINT_MAX = 2
  U64_MAX = 5
  SECONDS_IN_HOUR = 2
  Positions = {p1, p2}
  MAX_POSITIONS = 2
  Worths = {0, 2, 3}
  OtherQuotes = {}
  MaxSlot = 2
  Users = {u1}
  Admins = {a1}
  NoAccount = none
  Treasuries = {t1}
  FeeSettings <- HalfFees
  Intervals = {2}
  Funds = 2
  DepositAmounts = {2}
  LiquidityPairs <- LiquidityInX
  FeePairs <- NoPairs
  SwapPairs <- NoPairs
  TimeSteps = {4}
  MaxTime = 4
SYMMETRY KeySymmetry
INVARIANTS
  FreshMeansThisSlot
PROPERTIES
  PricedOnThisSlotsQuotes
