\* Every kind of call on bins -6 .. 5.
SPECIFICATION FairSpec
CONSTANTS
  MAX_BIN_ARRAY_SIZE = 3
  BIN_ARRAY_BITMAP_SIZE = 1
  EXTENSION_BINARRAY_BITMAP_SIZE = 2
  MIN_BIN_ID <- LowestBin
  MAX_BIN_ID = 5
  NoArray = none
  SCALE = 6
  Price <- SmallPrice
  PRICE_MULTIPLE = 12
  BASIS_POINT_MAX = 20
  MAX_WEIGHT = 20
  DEFAULT_MAX_WEIGHT = 9
  DEFAULT_MIN_WEIGHT = 2
  Throws = throws
  Failed = failed
  MAX_BIN_PER_POSITION = 3
  BIN_CAP = 3
  SUPPLY_MULTIPLE = 4
  Calls <- SomeCalls
  NoResult = no_result
INVARIANTS
  DepositsTheBudget
  AutoFillBalances
  SharesAreComplete
  ValueIsFair
  FindsEveryBin
  DepositReachesItsBins
  RemovesWhatIsThere
  FeesLeaveTheAmount
  SyncsOverNothing
  SeededOnce
PROPERTY SeedsEverything
