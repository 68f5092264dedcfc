\* One user and one position, with fees, swaps and changes of the fees: the
\* ledger's guarantees when most of the value is not in vault X.
SPECIFICATION FairSpec
CONSTANTS
  SHARE_PRECISION = 2
  BASIS_POINT_MAX = 2
  U64_MAX = 5
  SECONDS_IN_HOUR = 2
  Positions = {p1}
  MAX_POSITIONS = 1
  Worths = {0, 2, 3}
  OtherQuotes = {0}
  MaxSlot = 2
  Users = {u1}
  Admins = {a1}
  NoAccount = none
  Treasuries = {t1}
  FeeSettings <- SomeFees
  Intervals = {2}
  Funds = 2
  DepositAmounts = {2}
  LiquidityPairs <- LiquidityInX
  FeePairs <- FeesInX
  SwapPairs <- SwapTwo
  TimeSteps = {4}
  MaxTime = 4
PROPERTIES
  ShareValueNotDiluted
  PaidUnlessVaultShort
