\* No read is lost: a position closed during a refresh is enough.
SPECIFICATION Spec
CONSTANTS
  MaxOpened = 3
  MAX_POSITIONS = 3
  MaxLost = 0
  Calls = {c1}
  l1 = l1
  l2 = l2
  Pools = {l1, l2}
  PoolOf <- TwoPools
INVARIANT MapOfTheirInfo
