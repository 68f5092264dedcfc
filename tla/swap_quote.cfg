\* Pools with liquidity in at most two of twelve bins, all requests.
SPECIFICATION Spec
CONSTANTS
  MAX_BIN_ARRAY_SIZE = 2
  BIN_ARRAY_BITMAP_SIZE = 2
  EXTENSION_BINARRAY_BITMAP_SIZE = 1
  MIN_BIN_ID <- LowestBin
  MAX_BIN_ID = 5
  NoArray = none
  SCALE = 4
  Price <- SmallPrice
  FEE_PRECISION = 10
  MAX_FEE_RATE = 4
  BASIS_POINT_MAX = 2
  BaseFee = 1
  VariableFeeControl = 1
  ReductionFactor = 1
  MaxVolatilityAccumulator = 4
  ProtocolShare = 1
  Pools <- SomePools
  Requests <- SomeRequests
INVARIANTS
  FetchesNearest
  DrainsBinsInOrder
  FailsOnlyWhenDry
  RoundTrip
PROPERTY QuoteAdvances
