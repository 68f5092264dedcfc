\* A client that refreshes and transacts while others open and close positions.
SPECIFICATION FairSpec
CONSTANTS
  MaxOpened = 3
  MAX_POSITIONS = 3
  MaxLost = 1
  Calls = {c1}
  l1 = l1
  l2 = l2
  Pools = {l1, l2}
  PoolOf <- TwoPools
INVARIANT TypeOK
PROPERTIES
  QuotesOwnPositions
  RefusedOnlyIfOutdated
  RefreshIsExact
  DepositsGetThrough
