--------------------------- MODULE PositionValue ---------------------------
(***************************************************************************)
(* What a position is worth, as the program computes it                    *)
(* (get_position_value), and the amounts of both tokens in it, as the      *)
(* client finds them for getStrategyValue and as the library shows them,   *)
(* from the two bin arrays that the client names for it.  How the client   *)
(* converts its amounts into a value is left out.                          *)
(***************************************************************************)
EXTENDS BinArrays, FiniteSets, Sequences

CONSTANTS MAX_BIN_PER_POSITION,
          Failed,                \* an error, or null
          SUPPLY_MULTIPLE        \* a common multiple of the bins' supplies

ASSUME PositionAssumption ==
  MAX_BIN_PER_POSITION \in 1 .. MAX_BIN_ARRAY_SIZE /\ SUPPLY_MULTIPLE \in Nat \ {0}

\* An error is neither a value nor a pair of amounts.
ASSUME FailedAssumption == Failed \notin Nat \cup [x : Nat, y : Nat]

\* The bins of a position, [lower, upper, shares].
BinsOf(position) == position.lower .. position.upper

\* The arrays that the client passes: of its first and last bin for a valuation,
\* and two different ones where liquidity moves.
ValueArrays(position) ==
  <<BinIdToBinArrayIndex(position.lower), BinIdToBinArrayIndex(position.upper)>>

LiquidityArrays(position) ==
  LET lower == BinIdToBinArrayIndex(position.lower)
  IN <<lower, Max({lower + 1, BinIdToBinArrayIndex(position.upper)})>>

\* The bin that the program reads for bin b.
GetBin(b, arrays) ==
  IF IsBinIdWithinBinArray(b, arrays[1]) THEN BinAt(arrays[1], PlaceInBinArray(b, arrays[1]))
  ELSE IF IsBinIdWithinBinArray(b, arrays[2])
  THEN BinAt(arrays[2], PlaceInBinArray(b, arrays[2]))
  ELSE NoArray

-----------------------------------------------------------------------------
(***************************************************************************)
(* get_position_value.                                                     *)
(***************************************************************************)
Part(share, amount, supply) == IF supply = 0 THEN 0 ELSE (share * amount) \div supply

\* InvalidBinId if a bin with a share is in neither array.  A bin below the
\* active one counts for its Y, one above for its X.
PositionAmounts(position, pool, arrays) ==
  LET shared == {b \in BinsOf(position) : position.shares[b] # 0}
      parts(amount) ==
        [b \in shared |-> LET bin == GetBin(b, arrays)
                         IN Part(position.shares[b], amount[bin], pool.supply[bin])]
  IN IF \E b \in shared : GetBin(b, arrays) = NoArray THEN Failed
     ELSE [x |-> Sum(parts(pool.x), {b \in shared : b >= pool.activeId}),
           y |-> Sum(parts(pool.y), {b \in shared : b <= pool.activeId})]

\* Mutation: Y is turned into X by multiplying.
MutValueOf(amounts, price, calculateInX) ==
  IF calculateInX THEN amounts.x + (amounts.y * price) \div SCALE
  ELSE amounts.y + (amounts.x * price) \div SCALE

\* In X if that is the strategy's token, in Y otherwise.
ValueOf(amounts, price, calculateInX) ==
  IF calculateInX THEN amounts.x + (amounts.y * SCALE) \div price
  ELSE amounts.y + (amounts.x * price) \div SCALE

GetPositionValue(position, pool, arrays, calculateInX) ==
  LET amounts == PositionAmounts(position, pool, arrays)
  IN IF amounts = Failed THEN amounts
     ELSE ValueOf(amounts, Price[pool.activeId], calculateInX)

-----------------------------------------------------------------------------
(***************************************************************************)
(* The client.                                                             *)
(***************************************************************************)
\* The bins of an array that the position has; an array holds consecutive bins.
Inside(position, index) ==
  LET first == Max({LowerBinId(index), position.lower})
      last == Min({UpperBinId(index), position.upper})
  IN [n \in 1 .. last - first + 1 |-> first + n - 1]

\* getBinsBetweenLowerAndUpperBound: the bins of the arrays, as they come.
BinsBetween(position, arrays) ==
  IF arrays[1] = arrays[2] THEN Inside(position, arrays[1])
  ELSE Inside(position, arrays[1]) \o Inside(position, arrays[2])

\* processPosition: the shares are taken in the order of those bins.  Amounts are
\* Decimals, here in parts of SUPPLY_MULTIPLE.  No bins, or "Bin ID mismatch", fail.
ClientAmounts(position, pool, arrays) ==
  LET bins == BinsBetween(position, arrays)
      parts(amount) ==
        [i \in DOMAIN bins |->
           IF pool.supply[bins[i]] = 0 THEN 0
           ELSE position.shares[position.lower + i - 1] * amount[bins[i]]
                * (SUPPLY_MULTIPLE \div pool.supply[bins[i]])]
  IN IF bins = <<>> \/ bins[1] # position.lower \/ bins[Len(bins)] # position.upper
     THEN Failed
     ELSE [x |-> SumAll(parts(pool.x)), y |-> SumAll(parts(pool.y))]

\* The same in the DLMM library: the bins of all arrays from the first to the
\* last, which all exist, and amounts that are rounded down in every bin.
LibraryBins(position) ==
  LET first == BinIdToBinArrayIndex(position.lower)
      last == BinIdToBinArrayIndex(position.upper)
      upTo[i \in first .. last] ==
        (IF i = first THEN <<>> ELSE upTo[i - 1]) \o Inside(position, i)
  IN upTo[last]

LibraryAmounts(position, pool) ==
  LET bins == LibraryBins(position)
      parts(amount) ==
        [i \in DOMAIN bins |->
           Part(position.shares[position.lower + i - 1], amount[bins[i]], pool.supply[bins[i]])]
  IN [x |-> SumAll(parts(pool.x)), y |-> SumAll(parts(pool.y))]

\* getClaimableSwapFee: the bin it reads the fees of bin b from.
FeeBin(b, arrays) ==
  LET array == IF BinIdToBinArrayIndex(b) = arrays[1] THEN arrays[1] ELSE arrays[2]
  IN BinAt(array, PlaceInBinArray(b, array))

-----------------------------------------------------------------------------
(***************************************************************************)
(* getBinArraysRequiredByPositionRange: the arrays of the positions that    *)
(* cover a range of any width, two for each.                                *)
(***************************************************************************)
\* Mutation: no position for the bins left over.
MutGetPositionCount(lower, upper) ==
  Max({1, (upper - lower) \div MAX_BIN_PER_POSITION})

GetPositionCount(lower, upper) == (upper - lower) \div MAX_BIN_PER_POSITION + 1

BinArraysRequiredByPositionRange(from, to) ==
  LET lower == Min({from, to})
      first(i) == BinIdToBinArrayIndex(lower + MAX_BIN_PER_POSITION * i)
  IN UNION {{first(i), first(i) + 1} : i \in 0 .. GetPositionCount(lower, Max({from, to})) - 1}
=============================================================================
