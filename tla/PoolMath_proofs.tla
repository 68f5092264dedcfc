-------------------------- MODULE PoolMath_proofs --------------------------
(***************************************************************************)
(* What the client libraries compute, for any bins, prices, amounts and    *)
(* sizes of arrays and positions: bins are found and reached, pools are    *)
(* moved and seeded safely, fees are included, deposits are spread within  *)
(* their budget and positions valued fairly.                               *)
(***************************************************************************)
EXTENDS PoolMath, BinArrays_proofs, Data_proofs, SequenceTheorems

\* A position's bins are read from the two arrays the client names for it, by
\* the program's valuation, by the client's fees, and where liquidity moves.
LEMMA PositionIsCovered ==
  ASSUME NEW p, p.lower \in Int, p.upper \in Int,
         p.upper - p.lower < MAX_BIN_PER_POSITION,
         NEW b \in BinsOf(p)
  PROVE  /\ GetBin(b, ValueArrays(p)) = b
         /\ GetBin(b, LiquidityArrays(p)) = b
         /\ FeeBin(b, ValueArrays(p)) = b
<1> DEFINE low == BinIdToBinArrayIndex(p.lower)
           up == BinIdToBinArrayIndex(p.upper)
           i == BinIdToBinArrayIndex(b)
<1>1. b \in Int /\ p.lower <= b /\ b <= p.upper
  BY DEF BinsOf
<1>2. low \in Int /\ up \in Int /\ i \in Int
  BY <1>1, IndexIsFloor
<1>3. MAX_BIN_PER_POSITION \in Int /\ MAX_BIN_ARRAY_SIZE \in Int
      /\ MAX_BIN_PER_POSITION <= MAX_BIN_ARRAY_SIZE
  BY PositionAssumption, SizeAssumption
<1>4. low <= i /\ i <= up /\ up <= low + 1
  <2>1. p.lower <= p.upper /\ p.upper - p.lower <= MAX_BIN_ARRAY_SIZE
    BY <1>1, <1>3
  <2> QED
    BY <2>1, <1>1, IndexOrder
<1>5. IsBinIdWithinBinArray(b, i)
  BY <1>1, IndexIsFloor
<1>6. \A j \in Int : IsBinIdWithinBinArray(b, j) => i = j
  BY <1>1, OneArray
<1>7. \A j \in Int : BinAt(j, PlaceInBinArray(b, j)) = b
  BY <1>1, PlaceOfBin
<1>8. ASSUME NEW arrays, arrays[1] = low, arrays[2] \in Int, i = low \/ i = arrays[2]
      PROVE  GetBin(b, arrays) = b
  BY <1>2, <1>5, <1>7, <1>8 DEF GetBin
<1>9. /\ ValueArrays(p)[1] = low
      /\ ValueArrays(p)[2] = up
  BY DEF ValueArrays
<1>10. LiquidityArrays(p)[1] = low /\ LiquidityArrays(p)[2] = low + 1
  <2>1. Max({low + 1, up}) = low + 1
    <3>1. CASE up = low + 1
      BY <3>1, <1>2 DEF Max
    <3>2. CASE up = low
      BY <3>2, <1>2 DEF Max
    <3> QED
      BY <3>1, <3>2, <1>2, <1>4
  <2> QED
    BY <2>1 DEF LiquidityArrays
<1>11. i = low \/ i = up
  BY <1>2, <1>4
<1>12. i = low \/ i = low + 1
  BY <1>2, <1>4
<1>13. FeeBin(b, ValueArrays(p)) = b
  BY <1>2, <1>7, <1>9 DEF FeeBin
<1> QED
  BY <1>2, <1>8, <1>9, <1>10, <1>11, <1>12, <1>13

\* The arrays of consecutive bins are consecutive: an array between those of
\* two bins holds a bin between them.
LEMMA Contiguous ==
  ASSUME NEW a \in Int, NEW b \in Int, a <= b, NEW i \in Int,
         BinIdToBinArrayIndex(a) <= i, i <= BinIdToBinArrayIndex(b)
  PROVE  \E c \in a .. b : BinIdToBinArrayIndex(c) = i
<1> DEFINE S == MAX_BIN_ARRAY_SIZE
           low == BinIdToBinArrayIndex(a)
           up == BinIdToBinArrayIndex(b)
<1>1. CASE i = low
  BY <1>1
<1>2. CASE i # low
  <2>1. S \in Nat \ {0} /\ i * S \in Int
    BY SizeAssumption, Successor
  <2>2. low \in Int /\ a < low * S + S /\ low * S \in Int
    BY <2>1, IndexIsFloor, Successor DEF IsBinIdWithinBinArray, LowerBinId, UpperBinId
  <2>3. up \in Int /\ up * S <= b /\ up * S \in Int
    BY <2>1, IndexIsFloor, Successor DEF IsBinIdWithinBinArray, LowerBinId, UpperBinId
  <2>4. (low + 1) * S <= i * S
    BY <1>2, <2>1, <2>2, ProductOrder
  <2>5. i * S <= up * S
    BY <2>1, <2>3, ProductOrder
  <2>6. (low + 1) * S = low * S + S
    BY <2>1, <2>2, Successor
  <2>7. a <= i * S /\ i * S <= b
    BY <2>1, <2>2, <2>3, <2>4, <2>5, <2>6
  <2>8. IsBinIdWithinBinArray(i * S, i)
    BY <2>1 DEF IsBinIdWithinBinArray, LowerBinId, UpperBinId
  <2>9. BinIdToBinArrayIndex(i * S) = i
    BY <2>1, <2>8, OneArray
  <2> QED
    BY <2>1, <2>7, <2>9
<1> QED
  BY <1>1, <1>2

\* The arrays created for a range hold all of its bins, and at most one, behind
\* its last bin, holds none.
LEMMA RangeIsCovered ==
  ASSUME NEW from \in Int, NEW to \in Int
  PROVE  LET needed == {BinIdToBinArrayIndex(b) : b \in (from .. to) \cup (to .. from)}
             arrays == BinArraysRequiredByPositionRange(from, to)
         IN needed \subseteq arrays /\ Cardinality(arrays \ needed) <= 1
<1> DEFINE P == MAX_BIN_PER_POSITION
           needed == {BinIdToBinArrayIndex(b) : b \in (from .. to) \cup (to .. from)}
           arrays == BinArraysRequiredByPositionRange(from, to)
           low == IF from <= to THEN from ELSE to
           up == IF from <= to THEN to ELSE from
           first(i) == BinIdToBinArrayIndex(low + P * i)
           last == GetPositionCount(low, up) - 1
<1>1. P \in Nat \ {0} /\ MAX_BIN_ARRAY_SIZE \in Nat \ {0} /\ P <= MAX_BIN_ARRAY_SIZE
  BY PositionAssumption, SizeAssumption
<1>2. low \in Int /\ up \in Int /\ low <= up
  OBVIOUS
<1>3. (from .. to) \cup (to .. from) = low .. up
  BY <1>2
<1>4. Min({from, to}) = low /\ Max({from, to}) = up
  <2>1. CASE from <= to
    BY <2>1 DEF Min, Max
  <2>2. CASE ~(from <= to)
    BY <2>2 DEF Min, Max
  <2> QED
    BY <2>1, <2>2
<1>5. arrays = UNION {{first(i), first(i) + 1} : i \in 0 .. last}
  BY <1>4 DEF BinArraysRequiredByPositionRange
<1> HIDE DEF low, up
<1>6. last \in Nat /\ last * P \in Int /\ last * P <= up - low /\ up - low < last * P + P
  <2> DEFINE width == up - low
             q == width \div P
  <2>1. width \in Nat
    BY <1>2
  <2> HIDE DEF width
  <2>2. q \in Nat /\ q * P <= width /\ width < q * P + P
    BY <2>1, <1>1, Quotient
  <2>3. q * P \in Int
    BY <2>2, <1>1
  <2>4. last = q
    BY <2>2 DEF GetPositionCount, width
  <2> QED
    BY <2>2, <2>3, <2>4 DEF width
<1> HIDE DEF last
\* The position that covers a bin has it in one of its two arrays.
<1>7. needed \subseteq arrays
  <2> SUFFICES ASSUME NEW b \in low .. up
               PROVE  BinIdToBinArrayIndex(b) \in arrays
    BY <1>3
  <2> DEFINE i == (b - low) \div P
  <2>1. b \in Int /\ low <= b /\ b <= up /\ b - low \in Nat
    BY <1>2
  <2>2. i \in Nat /\ i * P <= b - low /\ b - low < i * P + P /\ i * P \in Int
    BY <2>1, <1>1, Quotient
  <2>3. i <= last
    <3>1. ASSUME last + 1 <= i PROVE FALSE
      <4>1. (last + 1) * P <= i * P
        BY <3>1, <2>2, <1>1, <1>6, ProductOrder
      <4>2. (last + 1) * P = last * P + P
        BY <1>1, <1>6, Successor
      <4> QED
        BY <4>1, <4>2, <2>1, <2>2, <1>1, <1>2, <1>6
    <3> QED
      BY <3>1, <2>2, <1>6
  <2>4. P * i = i * P
    BY <1>1, <2>2
  <2>5. low + P * i \in Int /\ low + P * i <= b /\ b - (low + P * i) <= MAX_BIN_ARRAY_SIZE
    BY <1>1, <1>2, <2>1, <2>2, <2>4
  <2>6. BinIdToBinArrayIndex(b) \in {first(i), first(i) + 1}
    <3>1. first(i) \in Int /\ BinIdToBinArrayIndex(b) \in Int
      BY <2>1, <2>5, IndexIsFloor
    <3>2. first(i) <= BinIdToBinArrayIndex(b) /\ BinIdToBinArrayIndex(b) <= first(i) + 1
      BY <2>1, <2>5, IndexOrder
    <3> QED
      BY <3>1, <3>2
  <2>7. i \in 0 .. last
    BY <2>2, <2>3, <1>6
  <2> QED
    BY <1>5, <2>6, <2>7
\* An array is needed unless it is the one behind the array of the last bin.
<1>8. arrays \ needed \subseteq {BinIdToBinArrayIndex(up) + 1}
  <2> SUFFICES ASSUME NEW n \in arrays, n # BinIdToBinArrayIndex(up) + 1
               PROVE  n \in needed
    OBVIOUS
  <2>1. PICK i \in 0 .. last : n \in {first(i), first(i) + 1}
    BY <1>5
  <2>3. i * P <= last * P /\ i * P \in Int /\ 0 <= i * P
    BY <1>1, <1>6, ProductOrder
  <2>4. low + P * i \in low .. up /\ low + P * i \in Int
    <3>1. P * i = i * P
      BY <1>1, <1>6
    <3> QED
      BY <3>1, <2>3, <1>2, <1>6
  <2>5. /\ BinIdToBinArrayIndex(low) <= first(i)
        /\ first(i) <= BinIdToBinArrayIndex(up)
    BY <2>4, <1>2, IndexOrder
  <2>6. /\ first(i) \in Int /\ BinIdToBinArrayIndex(up) \in Int
        /\ BinIdToBinArrayIndex(low) \in Int
    BY <2>4, <1>2, IndexIsFloor
  <2>7. n \in Int /\ BinIdToBinArrayIndex(low) <= n /\ n <= BinIdToBinArrayIndex(up)
    BY <2>1, <2>5, <2>6
  <2>8. \E b \in low .. up : BinIdToBinArrayIndex(b) = n
    BY <2>7, <1>2, Contiguous
  <2> QED
    BY <2>8, <1>3
<1>9. Cardinality(arrays \ needed) <= 1
  <2> DEFINE behind == BinIdToBinArrayIndex(up) + 1
  <2>1. IsFiniteSet({behind}) /\ Cardinality({behind}) = 1
    BY FS_Singleton
  <2>2. Cardinality(arrays \ needed) <= Cardinality({behind})
    BY <2>1, <1>8, FS_Subset
  <2> QED
    BY <2>1, <2>2
<1> QED
  BY <1>7, <1>9

-----------------------------------------------------------------------------
\* The two arrays named for a range no wider than an array hold its bins.
LEMMA EndArraysHold ==
  ASSUME NEW l \in Int, NEW u \in Int, u - l < MAX_BIN_PER_POSITION, NEW b \in l .. u
  PROVE  BinIdToBinArrayIndex(b) \in EndArrays(l, u)
<1> DEFINE low == BinIdToBinArrayIndex(l)
           up == BinIdToBinArrayIndex(u)
           i == BinIdToBinArrayIndex(b)
<1>1. b \in Int /\ l <= b /\ b <= u /\ u - l <= MAX_BIN_ARRAY_SIZE
  BY PositionAssumption, SizeAssumption
<1>2. low \in Int /\ up \in Int /\ i \in Int
  BY <1>1, IndexIsFloor
<1>3. low <= i /\ i <= up /\ up <= low + 1
  BY <1>1, IndexOrder
<1>4. Max({low + 1, up}) = low + 1
  <2>1. CASE up = low + 1
    BY <2>1, <1>2 DEF Max
  <2>2. CASE up = low
    BY <2>2, <1>2 DEF Max
  <2> QED
    BY <2>1, <2>2, <1>2, <1>3
<1>5. i \in {low, low + 1}
  BY <1>2, <1>3
<1> QED
  BY <1>4, <1>5 DEF EndArrays

\* The bins whose arrays need no extension are side by side, so that the ends
\* of a range decide for all of it.
LEMMA EndsDecide ==
  ASSUME NEW l \in Int, NEW u \in Int, NEW b \in l .. u,
         IsOverflowDefaultBinArrayBitmap(BinIdToBinArrayIndex(b))
  PROVE  UseExtension(l, u)
<1>1. b \in Int /\ l <= b /\ b <= u
  OBVIOUS
<1>2. /\ BinIdToBinArrayIndex(l) <= BinIdToBinArrayIndex(b)
      /\ BinIdToBinArrayIndex(b) <= BinIdToBinArrayIndex(u)
  BY <1>1, IndexOrder
<1>3. /\ BinIdToBinArrayIndex(l) \in Int /\ BinIdToBinArrayIndex(b) \in Int
      /\ BinIdToBinArrayIndex(u) \in Int
  BY <1>1, IndexIsFloor
<1>4. BinIdToBinArrayIndex(l) \notin InternalIndices \/ BinIdToBinArrayIndex(u) \notin InternalIndices
  BY <1>2, <1>3, SizeAssumption DEF IsOverflowDefaultBinArrayBitmap, InternalIndices
<1> QED
  BY <1>4 DEF UseExtension, AnyOverflow, IsOverflowDefaultBinArrayBitmap

\* Only bins of the range get a weight.
LEMMA WeightsInRange ==
  ASSUME NEW c, NEW b \in DOMAIN WeightsOf(c), WeightsOf(c) # <<>>
  PROVE  b \in c.lower .. c.upper
<1> DEFINE bps == CalculateSpotDistribution(c.activeId, c.lower, c.upper)
<1>1. DOMAIN bps.x = c.lower .. c.upper
  BY DEF CalculateSpotDistribution, NoAmount, AddLoss
<1> HIDE DEF bps
<1>2. DOMAIN WeightsOf(c) \subseteq DOMAIN bps.x
  BY DEF WeightsOf, ToWeightDistribution, bps
<1> QED
  BY <1>1, <1>2

Reached(c, tx) ==
  /\ tx.creates \cap c.existing = {}
  /\ \A b \in tx.bins :
       LET i == BinIdToBinArrayIndex(b)
       IN /\ i \in tx.named /\ i \in tx.creates \cup c.existing
          /\ IsOverflowDefaultBinArrayBitmap(i) =>
               tx.extension \/ (OneSided(c) /\ c.builder \in {"libraryNew", "weight"})

\* What a deposit needs to reach its bins.
LEMMA DepositReaches ==
  ASSUME NEW c, NEW named, NEW extension, NEW bins,
         \A b \in bins :
           /\ BinIdToBinArrayIndex(b) \in named
           /\ IsOverflowDefaultBinArrayBitmap(BinIdToBinArrayIndex(b)) =>
                extension \/ (OneSided(c) /\ c.builder \in {"libraryNew", "weight"})
  PROVE  Reached(c, Deposit(named, c.existing, extension, bins))
<1> DEFINE tx == Deposit(named, c.existing, extension, bins)
<1>1. /\ tx.named = named /\ tx.creates = named \ c.existing
      /\ tx.extension = extension /\ tx.bins = bins
  BY DEF Deposit, Missing
<1> HIDE DEF tx
<1> QED
  BY <1>1 DEF Reached, tx

LEMMA EveryBuilderReaches ==
  ASSUME NEW c \in Calls, c.kind = "liquidity", DepositBuilt(c) # Throws
  PROVE  Reached(c, DepositBuilt(c))
<1> DEFINE bins == DOMAIN WeightsOf(c)
           p == c.position
<1>1. /\ c.builder \in {"maiker", "maikerNew", "libraryNew", "weight", "strategy", "strategyNew"}
      /\ c.lower \in Int /\ c.upper \in Int /\ p.lower \in Int /\ p.upper \in Int
      /\ p.upper - p.lower < MAX_BIN_PER_POSITION
      /\ c.builder = "maiker" => c.upper - c.lower < MAX_BIN_PER_POSITION
  BY CallsAssumption
<1>2. WeightsOf(c) # <<>> => bins \subseteq c.lower .. c.upper
  BY WeightsInRange
<1>3. ASSUME NEW extension, WeightsOf(c) # <<>>, c.upper - c.lower < MAX_BIN_PER_POSITION,
             UseExtension(c.lower, c.upper) => extension \/ (OneSided(c) /\ c.builder = "libraryNew")
      PROVE  Reached(c, Deposit(EndArrays(c.lower, c.upper), c.existing, extension, bins))
  <2>1. \A b \in bins : BinIdToBinArrayIndex(b) \in EndArrays(c.lower, c.upper)
    BY <1>1, <1>2, <1>3, EndArraysHold
  <2>2. \A b \in bins : IsOverflowDefaultBinArrayBitmap(BinIdToBinArrayIndex(b)) =>
          UseExtension(c.lower, c.upper)
    BY <1>1, <1>2, <1>3, EndsDecide
  <2> HIDE DEF bins
  <2> QED
    BY <2>1, <2>2, <1>3, DepositReaches
<1>4. CASE c.builder = "maiker"
  <2> DEFINE named == EndArrays(Min(bins), Max(bins))
  <2>1. DepositBuilt(c) = CreateAddLiquidityInstruction(c)
    BY <1>4 DEF DepositBuilt
  <2>2. /\ WeightsOf(c) # <<>>
        /\ DepositBuilt(c) = Deposit(named, c.existing, AnyOverflow(named), bins)
    BY <2>1 DEF CreateAddLiquidityInstruction
  <2>3. \A b \in bins : BinIdToBinArrayIndex(b) \in named
    <3> SUFFICES ASSUME NEW b \in bins PROVE BinIdToBinArrayIndex(b) \in named
      OBVIOUS
    <3>1. bins # {} /\ bins \subseteq c.lower .. c.upper
      BY <1>2, <2>2
    <3> HIDE DEF bins
    <3>2. Min(bins) \in bins /\ Max(bins) \in bins /\ Min(bins) <= b /\ b <= Max(bins)
      BY <3>1, <1>1, FirstAndLast
    <3>3. /\ c.lower <= Min(bins) /\ Max(bins) <= c.upper
          /\ Min(bins) \in Int /\ Max(bins) \in Int /\ b \in Int
      <4>1. \A a \in bins : a \in Int /\ c.lower <= a /\ a <= c.upper
        BY <3>1, <1>1
      <4> QED
        BY <3>2, <4>1
    <3>4. b \in Min(bins) .. Max(bins)
      BY <3>2, <3>3
    <3>5. Max(bins) - Min(bins) < MAX_BIN_PER_POSITION
      BY <3>3, <1>1, <1>4, PositionAssumption, SizeAssumption
    <3> QED
      BY <3>3, <3>4, <3>5, EndArraysHold
  <2>4. \A b \in bins : IsOverflowDefaultBinArrayBitmap(BinIdToBinArrayIndex(b)) => AnyOverflow(named)
    BY <2>3 DEF AnyOverflow
  <2> HIDE DEF bins, named
  <2> QED
    BY <2>2, <2>3, <2>4, DepositReaches
<1>5. ASSUME NEW extension, DepositBuilt(c) = InitializePositionAndAddLiquidity(c, extension),
             UseExtension(c.lower, c.upper) => extension \/ (OneSided(c) /\ c.builder = "libraryNew")
      PROVE  Reached(c, DepositBuilt(c))
  <2>1. /\ WeightsOf(c) # <<>> /\ ~(c.upper >= c.lower + MAX_BIN_PER_POSITION)
        /\ DepositBuilt(c) = Deposit(EndArrays(c.lower, c.upper), c.existing, extension, bins)
    BY <1>5 DEF InitializePositionAndAddLiquidity
  <2>2. c.upper - c.lower < MAX_BIN_PER_POSITION
    BY <2>1, <1>1, PositionAssumption, SizeAssumption
  <2> HIDE DEF bins
  <2> QED
    BY <2>1, <2>2, <1>3, <1>5
<1>6. CASE c.builder = "maikerNew"
  <2>1. DepositBuilt(c) = InitializePositionAndAddLiquidity(c, UseExtension(c.lower, c.upper))
    BY <1>6, Zenon DEF DepositBuilt, InitializePositionByMaiker
  <2> QED
    BY <2>1, <1>5
<1>7. CASE c.builder = "libraryNew"
  <2> DEFINE extension == UseExtension(c.lower, c.upper) /\ ~OneSided(c)
  <2>1. DepositBuilt(c) = InitializePositionAndAddLiquidity(c, extension)
    BY <1>7, Zenon DEF DepositBuilt, InitializePositionByLibrary
  <2>2. UseExtension(c.lower, c.upper) => extension \/ (OneSided(c) /\ c.builder = "libraryNew")
    BY <1>7
  <2> HIDE DEF extension
  <2> QED
    BY <2>1, <2>2, <1>5
<1>8. CASE c.builder = "weight"
  <2> DEFINE extension == UseExtension(c.lower, c.upper) /\ ~OneSided(c)
             named == EndArrays(p.lower, p.upper)
  <2>1. DepositBuilt(c) = AddLiquidityByWeight(c)
    BY <1>8 DEF DepositBuilt
  <2>2. /\ WeightsOf(c) # <<>> /\ ~(c.lower < p.lower) /\ ~(c.upper > p.upper)
        /\ DepositBuilt(c) = Deposit(named, c.existing, extension, bins)
    BY <2>1 DEF AddLiquidityByWeight
  <2>3. \A b \in bins : b \in c.lower .. c.upper /\ b \in p.lower .. p.upper
    BY <1>1, <1>2, <2>2
  <2>4. \A b \in bins : BinIdToBinArrayIndex(b) \in named
    BY <1>1, <2>3, EndArraysHold
  <2>5. \A b \in bins : IsOverflowDefaultBinArrayBitmap(BinIdToBinArrayIndex(b)) =>
          extension \/ OneSided(c)
    BY <1>1, <2>3, EndsDecide
  <2> HIDE DEF bins, extension, named
  <2> QED
    BY <2>2, <2>4, <2>5, <1>8, DepositReaches
<1>9. CASE c.builder \in {"strategy", "strategyNew"}
  <2> DEFINE named == Coverage(c.lower, c.upper)
             range == c.lower .. c.upper
             extension == UseExtension(c.lower, c.upper)
  <2>1. DepositBuilt(c) = Deposit(named, c.existing, extension, range)
    BY <1>9 DEF DepositBuilt, InitializePositionByStrategy, AddLiquidityByStrategy
  <2>2. \A b \in range : BinIdToBinArrayIndex(b) \in named
    <3> SUFFICES ASSUME NEW b \in range PROVE BinIdToBinArrayIndex(b) \in named
      OBVIOUS
    <3>1. b \in Int /\ c.lower <= b /\ b <= c.upper
      BY <1>1
    <3>2. /\ BinIdToBinArrayIndex(c.lower) <= BinIdToBinArrayIndex(b)
          /\ BinIdToBinArrayIndex(b) <= BinIdToBinArrayIndex(c.upper)
      BY <3>1, <1>1, IndexOrder
    <3>3. BinIdToBinArrayIndex(b) \in Int
      BY <3>1, IndexIsFloor
    <3> QED
      BY <3>2, <3>3, <1>1, IndexIsFloor DEF Coverage
  <2>3. \A b \in range : IsOverflowDefaultBinArrayBitmap(BinIdToBinArrayIndex(b)) => extension
    BY <1>1, EndsDecide
  <2> HIDE DEF named, range, extension
  <2> QED
    BY <2>1, <2>2, <2>3, DepositReaches
<1> QED
  BY <1>1, <1>4, <1>6, <1>7, <1>8, <1>9

\* A removal is cut to the bins with liquidity and loses none of them.
LEMMA RemovalIsCut ==
  ASSUME NEW p, p.lower \in Int, p.upper \in Int,
         p.upper - p.lower < MAX_BIN_PER_POSITION,
         NEW from \in Int, NEW to \in Int, NEW tx,
         tx = RemoveLiquidity(p, from, to), tx # Throws
  PROVE  LET liquid == {b \in BinsOf(p) : p.shares[b] # 0}
         IN /\ liquid \cap (tx.from .. tx.to) = liquid \cap (from .. to)
            /\ tx.named \subseteq {BinIdToBinArrayIndex(b) : b \in liquid}
<1> DEFINE liquid == {b \in BinsOf(p) : p.shares[b] # 0}
           lo == Min(liquid)
           hi == Max(liquid)
           first == Max({from, lo})
           last == Min({to, hi})
<1>1. liquid \subseteq p.lower .. p.upper
  BY DEF BinsOf
<1>2. /\ liquid # {}
      /\ tx = [from |-> first, to |-> last, named |-> Coverage(first, last)]
  BY DEF RemoveLiquidity
<1>3. tx.from = first /\ tx.to = last /\ tx.named = Coverage(first, last)
  BY <1>2
<1> HIDE DEF liquid
<1>4. lo \in liquid /\ hi \in liquid /\ \A b \in liquid : lo <= b /\ b <= hi
  BY <1>1, <1>2, FirstAndLast
<1>5. \A b \in liquid : b \in Int /\ p.lower <= b /\ b <= p.upper
  BY <1>1
<1>6. lo \in Int /\ hi \in Int /\ lo <= hi /\ hi - lo <= MAX_BIN_ARRAY_SIZE
  <2>1. /\ lo \in Int /\ hi \in Int /\ lo <= hi
        /\ p.lower <= lo /\ hi <= p.upper
    BY <1>4, <1>5
  <2> QED
    BY <2>1, PositionAssumption, SizeAssumption
<1> HIDE DEF lo, hi
<1>7. first = IF from < lo THEN lo ELSE from
  <2>1. CASE from < lo
    BY <2>1, <1>6 DEF Max
  <2>2. CASE ~(from < lo)
    BY <2>2, <1>6 DEF Max
  <2> QED
    BY <2>1, <2>2
<1>8. last = IF to > hi THEN hi ELSE to
  <2>1. CASE to > hi
    BY <2>1, <1>6 DEF Min
  <2>2. CASE ~(to > hi)
    BY <2>2, <1>6 DEF Min
  <2> QED
    BY <2>1, <2>2
<1> HIDE DEF first, last
<1>9. liquid \cap (first .. last) = liquid \cap (from .. to)
  <2>1. ASSUME NEW b \in liquid PROVE b \in first .. last <=> b \in from .. to
    <3>1. b \in Int /\ lo <= b /\ b <= hi
      BY <1>4, <1>5
    <3> QED
      BY <3>1, <1>6, <1>7, <1>8
  <2> QED
    BY <2>1
<1>10. Coverage(first, last) \subseteq {BinIdToBinArrayIndex(b) : b \in liquid}
  <2>1. first \in Int /\ last \in Int /\ lo <= first /\ last <= hi
    BY <1>6, <1>7, <1>8
  <2>2. /\ BinIdToBinArrayIndex(lo) <= BinIdToBinArrayIndex(first)
        /\ BinIdToBinArrayIndex(last) <= BinIdToBinArrayIndex(hi)
        /\ BinIdToBinArrayIndex(hi) <= BinIdToBinArrayIndex(lo) + 1
    BY <1>6, <2>1, IndexOrder
  <2>3. /\ BinIdToBinArrayIndex(lo) \in Int /\ BinIdToBinArrayIndex(first) \in Int
        /\ BinIdToBinArrayIndex(last) \in Int /\ BinIdToBinArrayIndex(hi) \in Int
    BY <1>6, <2>1, IndexIsFloor
  <2>4. \A i \in Coverage(first, last) :
          i = BinIdToBinArrayIndex(lo) \/ i = BinIdToBinArrayIndex(hi)
    BY <2>2, <2>3 DEF Coverage
  <2> QED
    BY <2>4, <1>4
<1> QED
  BY <1>3, <1>9, <1>10 DEF liquid

-----------------------------------------------------------------------------
\* A result is that of the call.
ResultOfCall ==
  /\ call \in Calls
  /\ ReturnedOf("strategy") => result = Strategic(call)
  /\ ReturnedOf("weight") => result = Weighted(call)
  /\ ReturnedOf("autofill") => result = AutoFilled(call)
  /\ ReturnedOf("bps") => result = Allocated(call)
  /\ ReturnedOf("value") => result = Valued(call)
  /\ ReturnedOf("range") => result = BinArraysRequiredByPositionRange(call.from, call.to)
  /\ ReturnedOf("liquidity") => result = DepositBuilt(call)
  /\ ReturnedOf("remove") => result = RemoveLiquidity(call.position, call.from, call.to)
  /\ ReturnedOf("fee") => result = TransferFeeIncluded(call.fee, call.amount)
  /\ ReturnedOf("sync") =>
       result = CanSyncWithMarketPrice(call.marketId, call.activeId, Bitmaps(call.liquid),
                                       call.hasExtension)

LEMMA ResultsHold == Spec => []ResultOfCall
<1>1. Init => ResultOfCall
  BY DEF Init, ResultOfCall, ReturnedOf
<1>2. ResultOfCall /\ [Next]_vars => ResultOfCall'
  <2> SUFFICES ASSUME ResultOfCall, [Next]_vars
               PROVE  ResultOfCall'
    OBVIOUS
  <2>1. CASE DepositByStrategy
    BY <2>1 DEF DepositByStrategy, Called, ResultOfCall, ReturnedOf
  <2>2. CASE DepositByWeight
    BY <2>2 DEF DepositByWeight, Called, ResultOfCall, ReturnedOf
  <2>3. CASE DepositAutoFilled
    BY <2>3 DEF DepositAutoFilled, Called, ResultOfCall, ReturnedOf
  <2>4. CASE Allocate
    BY <2>4 DEF Allocate, Called, ResultOfCall, ReturnedOf
  <2>5. CASE ValuePosition
    BY <2>5 DEF ValuePosition, Called, ResultOfCall, ReturnedOf
  <2>6. CASE FindArrays
    BY <2>6 DEF FindArrays, Called, ResultOfCall, ReturnedOf
  <2>7. CASE Returned
    BY <2>7 DEF Returned, ResultOfCall, ReturnedOf, vars
  <2>8. CASE UNCHANGED vars
    BY <2>8 DEF ResultOfCall, ReturnedOf, vars
  <2>9. CASE IncludeFee
    BY <2>9 DEF IncludeFee, Called, ResultOfCall, ReturnedOf
  <2>10. CASE Plan \/ Land \/ Drop \/ CreateElsewhere
    <3>1. call.kind = "seed" /\ call' = call
      BY <2>10 DEF Plan, Land, Drop, CreateElsewhere, Seeding
    <3> QED
      BY <3>1 DEF ResultOfCall, ReturnedOf
  <2>11. CASE BuildDeposit
    BY <2>11 DEF BuildDeposit, Called, ResultOfCall, ReturnedOf
  <2>12. CASE BuildRemoval
    BY <2>12 DEF BuildRemoval, Called, ResultOfCall, ReturnedOf
  <2>13. CASE SyncWithMarketPrice
    BY <2>13 DEF SyncWithMarketPrice, Called, ResultOfCall, ReturnedOf
  <2> QED
    BY <2>1, <2>2, <2>3, <2>4, <2>5, <2>6, <2>7, <2>8, <2>9, <2>10, <2>11, <2>12, <2>13 DEF Next
<1> QED
  BY <1>1, <1>2, PTL DEF Spec

\* Whatever position is valued and whatever range is opened, every bin is read
\* from the arrays that the client names and held by those that it creates.
THEOREM EveryBinIsFound == Spec => []FindsEveryBin
<1>1. ResultOfCall => FindsEveryBin
  <2> SUFFICES ASSUME ResultOfCall PROVE FindsEveryBin
    OBVIOUS
  <2>1. ReturnedOf("value") =>
          \A b \in BinsOf(call.position) :
            /\ GetBin(b, ValueArrays(call.position)) = b
            /\ GetBin(b, LiquidityArrays(call.position)) = b
            /\ FeeBin(b, ValueArrays(call.position)) = b
    <3> SUFFICES ASSUME ReturnedOf("value"), NEW b \in BinsOf(call.position)
                 PROVE  /\ GetBin(b, ValueArrays(call.position)) = b
                        /\ GetBin(b, LiquidityArrays(call.position)) = b
                        /\ FeeBin(b, ValueArrays(call.position)) = b
      OBVIOUS
    <3>1. /\ call.position.lower \in Int /\ call.position.upper \in Int
          /\ call.position.upper - call.position.lower < MAX_BIN_PER_POSITION
      BY CallsAssumption DEF ReturnedOf, ResultOfCall
    <3> QED
      BY <3>1, PositionIsCovered
  <2>2. ReturnedOf("range") =>
          LET needed == {BinIdToBinArrayIndex(b) :
                           b \in (call.from .. call.to) \cup (call.to .. call.from)}
          IN needed \subseteq result /\ Cardinality(result \ needed) <= 1
    <3> SUFFICES ASSUME ReturnedOf("range")
                 PROVE  LET needed == {BinIdToBinArrayIndex(b) :
                                         b \in (call.from .. call.to) \cup (call.to .. call.from)}
                        IN needed \subseteq result /\ Cardinality(result \ needed) <= 1
      OBVIOUS
    <3>1. call.from \in Int /\ call.to \in Int
      BY CallsAssumption DEF ReturnedOf, ResultOfCall
    <3>2. result = BinArraysRequiredByPositionRange(call.from, call.to)
      BY DEF ResultOfCall
    <3> QED
      BY <3>1, <3>2, RangeIsCovered
  <2> QED
    BY <2>1, <2>2 DEF FindsEveryBin
<1> QED
  BY <1>1, ResultsHold, PTL

\* Whatever deposit is built, over any bins and any arrays, every bin of it is in
\* an array that the transaction names, finds or creates, and passes the
\* extension for (but for the library's deposits of one token).
THEOREM DepositsReach == Spec => []DepositReachesItsBins
<1>1. ResultOfCall => DepositReachesItsBins
  <2> SUFFICES ASSUME ResultOfCall, ReturnedOf("liquidity"), result # Throws
               PROVE  Reached(call, result)
    BY DEF DepositReachesItsBins, Reached
  <2>1. call \in Calls /\ call.kind = "liquidity" /\ result = DepositBuilt(call)
    BY DEF ResultOfCall, ReturnedOf
  <2> QED
    BY <2>1, EveryBuilderReaches
<1> QED
  BY <1>1, ResultsHold, PTL

\* Whatever range is asked for, a removal takes all of its shares and names only
\* arrays in which the position has liquidity.
THEOREM RemovalsFindTheirBins == Spec => []RemovesWhatIsThere
<1>1. ResultOfCall => RemovesWhatIsThere
  <2> SUFFICES ASSUME ResultOfCall, ReturnedOf("remove"), result # Throws
               PROVE  LET liquid == {b \in BinsOf(call.position) : call.position.shares[b] # 0}
                      IN /\ liquid \cap (result.from .. result.to)
                              = liquid \cap (call.from .. call.to)
                         /\ result.named \subseteq {BinIdToBinArrayIndex(b) : b \in liquid}
    BY DEF RemovesWhatIsThere
  <2>1. /\ call \in Calls /\ call.kind = "remove"
        /\ result = RemoveLiquidity(call.position, call.from, call.to)
    BY DEF ResultOfCall, ReturnedOf
  <2>2. /\ call.position.lower \in Int /\ call.position.upper \in Int
        /\ call.position.upper - call.position.lower < MAX_BIN_PER_POSITION
        /\ call.from \in Int /\ call.to \in Int
    BY <2>1, CallsAssumption
  <2> QED
    BY <2>1, <2>2, RemovalIsCut
<1> QED
  BY <1>1, ResultsHold, PTL

\* Whatever pool is to be moved to whatever price, it is moved exactly if there
\* is no liquidity in the arrays on the way.
THEOREM SyncsFindAllLiquidity == Spec => []SyncsOverNothing
<1>1. ResultOfCall => SyncsOverNothing
  <2> DEFINE active == BinIdToBinArrayIndex(call.activeId)
             market == BinIdToBinArrayIndex(call.marketId)
             down == call.marketId < call.activeId
             to == FindNextBinArrayIndexWithLiquidity(down, call.activeId, Bitmaps(call.liquid),
                                                      call.hasExtension)
             between == call.liquid \cap ((active .. market) \cup (market .. active))
  <2> SUFFICES ASSUME ResultOfCall, ReturnedOf("sync")
               PROVE  result <=> between = {}
    BY DEF SyncsOverNothing
  <2>1. /\ call.activeId \in Bins /\ call.marketId \in Bins /\ call.hasExtension \in BOOLEAN
        /\ call.liquid \subseteq MinIndex .. MaxIndex
        /\ ~call.hasExtension => call.liquid \cup {active} \subseteq InternalIndices
    BY CallsAssumption DEF ResultOfCall, ReturnedOf
  <2>2. call.activeId \in Int /\ call.marketId \in Int /\ \A i \in call.liquid : i \in Int
    BY <2>1, RoomAssumption, Bounds DEF Bins
  <2>3. active \in Int /\ market \in Int /\ IF down THEN market <= active ELSE active <= market
    BY <2>2, IndexIsFloor, IndexOrder
  <2>4. IsNearest(down, active, call.liquid, to)
    <3>1. down \in BOOLEAN
      OBVIOUS
    <3> HIDE DEF down
    <3> QED
      BY <2>1, <3>1, IndexInBounds, NextIsNearest
  <2>5. result = (to = NoArray \/ IF down THEN market > to ELSE market < to)
    BY DEF ResultOfCall, CanSyncWithMarketPrice
  <2> HIDE DEF active, market, to, down
  <2>6. between = {i \in Onwards(down, active, call.liquid) :
                     IF down THEN market <= i ELSE i <= market}
    BY <2>2, <2>3 DEF Onwards
  <2>7. CASE Onwards(down, active, call.liquid) = {}
    BY <2>4, <2>5, <2>6, <2>7 DEF IsNearest
  <2>8. CASE Onwards(down, active, call.liquid) # {}
    <3>1. /\ to \in Onwards(down, active, call.liquid) /\ to \in Int /\ to # NoArray
          /\ \A i \in Onwards(down, active, call.liquid) :
               i \in Int /\ IF down THEN i <= to ELSE to <= i
      BY <2>2, <2>4, <2>8, NoArrayAssumption DEF IsNearest, Onwards
    <3> HIDE DEF between
    <3>2. ASSUME IF down THEN market > to ELSE market < to PROVE between = {}
      <4>1. \A i \in Onwards(down, active, call.liquid) :
              ~(IF down THEN market <= i ELSE i <= market)
        BY <3>1, <3>2, <2>3
      <4> QED
        BY <4>1, <2>6
    <3>3. ASSUME ~(IF down THEN market > to ELSE market < to) PROVE between # {}
      <4>1. IF down THEN market <= to ELSE to <= market
        BY <3>1, <3>3, <2>3
      <4>2. to \in between
        BY <4>1, <3>1, <2>6
      <4> QED
        BY <4>2
    <3> QED
      BY <3>1, <3>2, <3>3, <2>5
  <2> QED
    BY <2>7, <2>8
<1> QED
  BY <1>1, ResultsHold, PTL

-----------------------------------------------------------------------------
(***************************************************************************)
(* Seeding fills no position twice, for any number and size of positions,  *)
(* any amounts and any losses.  A pending deposit is for a position in     *)
(* whose bins nothing was ever put: it was so when the deposit was         *)
(* planned, and the deposits of one plan have no bin in common.            *)
(***************************************************************************)
Amounts == result.amounts
First == Min(DOMAIN Amounts)
Lowers == PositionLowers(First, Max(DOMAIN Amounts))
BinsFrom(l) == l .. UpperOf(l)
Empty(l, accounts) == BinsFrom(l) \cap DOMAIN accounts.amounts = {}

AmountsWhole ==
  /\ {"amounts", "accounts", "pending"} \subseteq DOMAIN result
  /\ "amounts" \in DOMAIN Accounts
  /\ Amounts = SeedAmounts(call.curve, call.tokenDecimal)

NothingElse ==
  \A b \in DOMAIN Accounts.amounts : Accounts.amounts[b] = Amounts[b]

PendingAreEmpty ==
  \A tx \in Pending :
    \/ tx.kind = "create"
    \/ \E l \in Lowers : tx = DepositOf(l, Amounts) /\ Empty(l, Accounts)

SeedingInv ==
  /\ call \in Calls
  /\ call.kind = "seed" => AmountsWhole /\ NothingElse /\ PendingAreEmpty

\* A plan starts at an integer.
LEMMA FirstIsInt ==
  ASSUME SeedingInv, call.kind = "seed"
  PROVE  First \in Int
<1> DEFINE lo == Min(DOMAIN call.curve)
           hi == Max(DOMAIN call.curve)
<1>1. /\ lo \in Int /\ hi \in Int /\ lo < hi /\ DOMAIN call.curve = lo .. hi
      /\ GenerateAmountForBinRange(call.curve) # Throws
  BY CallsAssumption DEF SeedingInv
<1> HIDE DEF lo, hi
<1>2. DOMAIN GenerateAmountForBinRange(call.curve) = lo .. (hi - 1)
  <2>1. DOMAIN GenerateAmountForBinRange(call.curve) =
          {b \in DOMAIN call.curve : b + 1 \in DOMAIN call.curve}
    BY <1>1 DEF GenerateAmountForBinRange
  <2>2. {b \in lo .. hi : b + 1 \in lo .. hi} = lo .. (hi - 1)
    BY <1>1
  <2> QED
    BY <2>1, <2>2, <1>1
<1>3. DOMAIN Amounts = lo .. (hi - 1)
  <2>1. Amounts = SeedAmounts(call.curve, call.tokenDecimal)
    BY DEF SeedingInv, AmountsWhole
  <2>2. DOMAIN SeedAmounts(call.curve, call.tokenDecimal)
          = DOMAIN GenerateAmountForBinRange(call.curve)
    BY DEF SeedAmounts
  <2> QED
    BY <2>1, <2>2, <1>2
<1>4. lo \in lo .. (hi - 1) /\ \A y \in lo .. (hi - 1) : lo =< y
  BY <1>1
<1>5. First \in lo .. (hi - 1)
  BY <1>3, <1>4 DEF First, Min
<1> QED
  BY <1>1, <1>5

\* Different positions have no bin in common.
LEMMA PositionsApart ==
  ASSUME First \in Int, NEW l \in Lowers, NEW m \in Lowers, l # m
  PROVE  BinsFrom(l) \cap BinsFrom(m) = {}
<1> DEFINE P == MAX_BIN_PER_POSITION
<1>1. P \in Nat \ {0}
  BY PositionAssumption, SizeAssumption
<1>2. PICK i \in Int : l = First + P * i
  BY DEF Lowers, PositionLowers
<1>3. PICK j \in Int : m = First + P * j
  BY DEF Lowers, PositionLowers
<1>4. ASSUME NEW u \in Int, NEW v \in Int, u < v
      PROVE  P * v >= P * u + P
  BY <1>1, <1>4
<1>5. P * i \in Int /\ P * j \in Int
  BY <1>1
<1>6. i # j
  BY <1>2, <1>3
<1>7. CASE i < j
  <2>1. P * j >= P * i + P
    BY <1>4, <1>7
  <2> HIDE DEF P
  <2> QED
    BY <2>1, <1>1, <1>2, <1>3, <1>5 DEF BinsFrom, UpperOf, P
<1>8. CASE j < i
  <2>1. P * i >= P * j + P
    BY <1>4, <1>8
  <2> HIDE DEF P
  <2> QED
    BY <2>1, <1>1, <1>2, <1>3, <1>5 DEF BinsFrom, UpperOf, P
<1> QED
  BY <1>6, <1>7, <1>8

-----------------------------------------------------------------------------
LEMMA SeedingInit == Init => SeedingInv
<1> SUFFICES ASSUME Init PROVE SeedingInv
  OBVIOUS
<1> SUFFICES ASSUME call.kind = "seed"
             PROVE  AmountsWhole /\ NothingElse /\ PendingAreEmpty
  BY DEF Init, SeedingInv
<1>1. result = [amounts |-> SeedAmounts(call.curve, call.tokenDecimal),
                accounts |-> NewAccounts(call.existing), pending |-> {}]
  BY DEF Init
<1>2. Accounts = [arrays |-> call.existing, positions |-> {}, extension |-> FALSE, amounts |-> <<>>]
  BY <1>1 DEF Accounts, NewAccounts
<1>3. DOMAIN Accounts.amounts = {}
  BY <1>2
<1> QED
  BY <1>1, <1>2, <1>3 DEF AmountsWhole, NothingElse, PendingAreEmpty, Amounts, Accounts, Pending

\* A plan has creations, and deposits for positions that are empty.
LEMMA PlanKeeps == SeedingInv /\ Plan => SeedingInv'
<1> SUFFICES ASSUME SeedingInv, Plan PROVE SeedingInv'
  OBVIOUS
<1>1. call.kind = "seed" /\ call' = call
  BY DEF Plan, Seeding
<1>2. PICK hasExtension \in {FALSE, Accounts.extension} :
        result' = [result EXCEPT !.pending = SeedLiquidity(Accounts, hasExtension, Amounts)]
  BY DEF Plan, Amounts
<1> DEFINE plan == SeedLiquidity(Accounts, hasExtension, Amounts)
<1>3. AmountsWhole /\ NothingElse
  BY <1>1 DEF SeedingInv
<1>4. result'.amounts = Amounts /\ result'.accounts = Accounts /\ result'.pending = plan
  BY <1>2, <1>3 DEF AmountsWhole, Amounts, Accounts
<1>5. /\ Amounts' = Amounts /\ Accounts' = Accounts /\ Pending' = plan
      /\ DOMAIN result' = DOMAIN result /\ Lowers' = Lowers
  BY <1>2, <1>4 DEF Amounts, Accounts, Pending, Lowers, First
<1>6. \A tx \in plan :
        tx.kind = "create" \/ \E l \in Lowers : tx = DepositOf(l, Amounts) /\ Empty(l, Accounts)
  <2>1. plan = Creations(Accounts, Lowers) \cup ExtensionCreation(Accounts, hasExtension, Lowers)
                 \cup Deposits(Accounts, Lowers, Amounts)
    BY DEF SeedLiquidity, Lowers, First
  <2>2. \A tx \in Creations(Accounts, Lowers) : tx.kind = "create"
    BY DEF Creations, Creation
  <2>3. \A tx \in ExtensionCreation(Accounts, hasExtension, Lowers) : tx.kind = "create"
    BY DEF ExtensionCreation, Creation
  <2>4. \A tx \in Deposits(Accounts, Lowers, Amounts) :
          \E l \in Lowers : tx = DepositOf(l, Amounts) /\ Empty(l, Accounts)
    BY DEF Deposits, PositionDeposited, Empty, BinsFrom
  <2> HIDE DEF plan
  <2> QED
    BY <2>1, <2>2, <2>3, <2>4
<1> HIDE DEF plan
<1>7. AmountsWhole' /\ NothingElse'
  BY <1>1, <1>3, <1>5 DEF AmountsWhole, NothingElse
<1>8. PendingAreEmpty'
  BY <1>5, <1>6 DEF PendingAreEmpty
<1> QED
  BY <1>1, <1>7, <1>8 DEF SeedingInv

\* A deposit that lands fills its position, and those left are for others.
LEMMA LandKeeps == SeedingInv /\ Land => SeedingInv'
<1> SUFFICES ASSUME SeedingInv, Land PROVE SeedingInv'
  OBVIOUS
<1>1. call.kind = "seed" /\ call' = call
  BY DEF Land, Seeding
<1>2. PICK tx \in Pending :
        /\ Succeeds(Accounts, tx)
        /\ result' = [result EXCEPT !.accounts = Executed(@, tx), !.pending = @ \ {tx}]
  BY DEF Land
<1>3. AmountsWhole /\ NothingElse /\ PendingAreEmpty
  BY <1>1 DEF SeedingInv
<1> DEFINE after == Executed(Accounts, tx)
<1>4. /\ result'.amounts = Amounts /\ result'.accounts = after /\ result'.pending = Pending \ {tx}
      /\ DOMAIN result' = DOMAIN result
  BY <1>2, <1>3 DEF AmountsWhole, Amounts, Accounts, Pending
<1>5. /\ Amounts' = Amounts /\ Accounts' = after /\ Pending' = Pending \ {tx} /\ Lowers' = Lowers
  BY <1>4 DEF Amounts, Accounts, Pending, Lowers, First
<1>6. First \in Int
  BY <1>1, FirstIsInt
<1>7. CASE tx.kind = "create"
  <2>1. after.amounts = Accounts.amounts /\ DOMAIN after = DOMAIN Accounts
    BY <1>7, <1>2, <1>3 DEF Executed, AmountsWhole
  <2> HIDE DEF after
  <2>2. AmountsWhole' /\ NothingElse'
    BY <2>1, <1>1, <1>3, <1>4, <1>5 DEF AmountsWhole, NothingElse
  <2>3. PendingAreEmpty'
    BY <2>1, <1>3, <1>5 DEF PendingAreEmpty, Empty
  <2> QED
    BY <1>1, <2>2, <2>3 DEF SeedingInv
<1>8. CASE tx.kind # "create"
  <2>1. PICK l \in Lowers : tx = DepositOf(l, Amounts) /\ Empty(l, Accounts)
    BY <1>3, <1>8 DEF PendingAreEmpty
  <2>2. /\ DOMAIN tx.amounts = DOMAIN Amounts \cap BinsFrom(l)
        /\ \A b \in DOMAIN tx.amounts : tx.amounts[b] = Amounts[b]
    BY <2>1 DEF DepositOf, BinsFrom
  <2>3. DOMAIN tx.amounts \cap DOMAIN Accounts.amounts = {}
    BY <2>1, <2>2 DEF Empty
  <2>4. /\ after.amounts = [b \in DOMAIN Accounts.amounts \cup DOMAIN tx.amounts |->
                              IF b \notin DOMAIN tx.amounts THEN Accounts.amounts[b]
                              ELSE IF b \notin DOMAIN Accounts.amounts THEN tx.amounts[b]
                              ELSE Accounts.amounts[b] + tx.amounts[b]]
        /\ DOMAIN after = DOMAIN Accounts
    BY <1>8, <1>2, <1>3 DEF Executed, AmountsWhole
  <2> HIDE DEF after
  <2>5. /\ DOMAIN after.amounts = DOMAIN Accounts.amounts \cup DOMAIN tx.amounts
        /\ \A b \in DOMAIN after.amounts :
             after.amounts[b] = IF b \in DOMAIN tx.amounts THEN tx.amounts[b] ELSE Accounts.amounts[b]
    BY <2>3, <2>4
  <2>6. AmountsWhole'
    BY <2>4, <1>1, <1>3, <1>4, <1>5 DEF AmountsWhole
  <2>7. NothingElse'
    BY <2>2, <2>5, <1>3, <1>5 DEF NothingElse
  <2>8. PendingAreEmpty'
    <3> SUFFICES ASSUME NEW t \in Pending \ {tx}, t.kind # "create"
                 PROVE  \E m \in Lowers : t = DepositOf(m, Amounts) /\ Empty(m, after)
      BY <1>5 DEF PendingAreEmpty
    <3>1. PICK m \in Lowers : t = DepositOf(m, Amounts) /\ Empty(m, Accounts)
      BY <1>3 DEF PendingAreEmpty
    <3>2. BinsFrom(l) \cap BinsFrom(m) = {}
      BY <2>1, <3>1, <1>6, PositionsApart
    <3>3. Empty(m, after)
      BY <2>2, <2>5, <3>1, <3>2 DEF Empty
    <3> QED
      BY <3>1, <3>3
  <2> QED
    BY <1>1, <2>6, <2>7, <2>8 DEF SeedingInv
<1> QED
  BY <1>7, <1>8

LEMMA DropKeeps == SeedingInv /\ Drop => SeedingInv'
<1> SUFFICES ASSUME SeedingInv, Drop PROVE SeedingInv'
  OBVIOUS
<1>1. call.kind = "seed" /\ call' = call
  BY DEF Drop, Seeding
<1>2. PICK tx \in Pending : result' = [result EXCEPT !.pending = @ \ {tx}]
  BY DEF Drop
<1>3. AmountsWhole /\ NothingElse /\ PendingAreEmpty
  BY <1>1 DEF SeedingInv
<1>4. /\ result'.amounts = Amounts /\ result'.accounts = Accounts
      /\ result'.pending = Pending \ {tx} /\ DOMAIN result' = DOMAIN result
  BY <1>2, <1>3 DEF AmountsWhole, Amounts, Accounts, Pending
<1>5. Amounts' = Amounts /\ Accounts' = Accounts /\ Pending' = Pending \ {tx} /\ Lowers' = Lowers
  BY <1>4 DEF Amounts, Accounts, Pending, Lowers, First
<1> QED
  BY <1>1, <1>3, <1>4, <1>5 DEF SeedingInv, AmountsWhole, NothingElse, PendingAreEmpty

LEMMA ElsewhereKeeps == SeedingInv /\ CreateElsewhere => SeedingInv'
<1> SUFFICES ASSUME SeedingInv, CreateElsewhere PROVE SeedingInv'
  OBVIOUS
<1>1. call.kind = "seed" /\ call' = call
  BY DEF CreateElsewhere, Seeding
<1>2. PICK i : result' = [result EXCEPT !.accounts.arrays = @ \cup {i}]
  BY DEF CreateElsewhere
<1>3. AmountsWhole /\ NothingElse /\ PendingAreEmpty
  BY <1>1 DEF SeedingInv
<1>4. /\ result'.amounts = Amounts /\ result'.pending = Pending /\ DOMAIN result' = DOMAIN result
      /\ result'.accounts = [Accounts EXCEPT !.arrays = @ \cup {i}]
  BY <1>2, <1>3 DEF AmountsWhole, Amounts, Accounts, Pending
<1>5. /\ Amounts' = Amounts /\ Pending' = Pending /\ Lowers' = Lowers
      /\ Accounts'.amounts = Accounts.amounts /\ DOMAIN Accounts' = DOMAIN Accounts
  BY <1>3, <1>4 DEF Amounts, Accounts, Pending, Lowers, First, AmountsWhole
<1> QED
  BY <1>1, <1>3, <1>4, <1>5 DEF SeedingInv, AmountsWhole, NothingElse, PendingAreEmpty, Empty

\* The calls that return at once are of another kind.
LEMMA OthersKeep ==
  ASSUME SeedingInv, call' = call, call.kind # "seed"
  PROVE  SeedingInv'
BY DEF SeedingInv

LEMMA SeedingInvHolds == Spec => []SeedingInv
<1>1. SeedingInv /\ [Next]_vars => SeedingInv'
  <2> SUFFICES ASSUME SeedingInv, [Next]_vars PROVE SeedingInv'
    OBVIOUS
  <2>1. CASE DepositByStrategy \/ DepositByWeight \/ DepositAutoFilled
    BY <2>1, OthersKeep DEF DepositByStrategy, DepositByWeight, DepositAutoFilled, Called
  <2>2. CASE Allocate \/ ValuePosition \/ FindArrays
    <3>1. call' = call /\ call.kind \in {"bps", "value", "range"}
      BY <2>2 DEF Allocate, ValuePosition, FindArrays, Called
    <3> QED
      BY <3>1, OthersKeep
  <2>3. CASE BuildDeposit \/ BuildRemoval \/ IncludeFee \/ SyncWithMarketPrice
    <3>1. call' = call /\ call.kind \in {"liquidity", "remove", "fee", "sync"}
      BY <2>3 DEF BuildDeposit, BuildRemoval, IncludeFee, SyncWithMarketPrice, Called
    <3> QED
      BY <3>1, OthersKeep
  <2>4. CASE Plan
    BY <2>4, PlanKeeps
  <2>5. CASE Land
    BY <2>5, LandKeeps
  <2>6. CASE Drop
    BY <2>6, DropKeeps
  <2>7. CASE CreateElsewhere
    BY <2>7, ElsewhereKeeps
  <2>8. CASE Returned \/ UNCHANGED vars
    BY <2>8 DEF Returned, vars, SeedingInv, AmountsWhole, NothingElse, PendingAreEmpty,
                Amounts, Accounts, Pending, Lowers, First
  <2> QED
    BY <2>1, <2>2, <2>3, <2>4, <2>5, <2>6, <2>7, <2>8 DEF Next
<1> QED
  BY <1>1, SeedingInit, PTL DEF Spec

\* However often the plan is made and whatever is lost, a position is filled at
\* most once: no bin holds anything but its amount.
THEOREM PositionsAreSeededOnce == Spec => []SeededOnce
<1>1. SeedingInv => SeededOnce
  BY DEF SeedingInv, NothingElse, SeededOnce, Amounts
<1> QED
  BY <1>1, SeedingInvHolds, PTL

-----------------------------------------------------------------------------
(***************************************************************************)
(* Transfer fees.                                                          *)
(***************************************************************************)
\* The fee of one unit more is at most one unit more, up to the maximum.
LEMMA FeeIs ==
  ASSUME NEW fee, fee.bps \in 0 .. BASIS_POINT_MAX, fee.maximum \in Nat, NEW n \in Nat
  PROVE  /\ CalculateFee(fee, n) \in Nat /\ CalculateFee(fee, n) <= fee.maximum
         /\ CalculateFee(fee, n + 1) <= CalculateFee(fee, n) + 1
         /\ CalculateFee(fee, n) <= n
<1> DEFINE p == fee.bps
           B == BASIS_POINT_MAX
           M == fee.maximum
           q == Ceil(n * p, B)
           more == Ceil((n + 1) * p, B)
<1>1. B \in Nat \ {0} /\ p \in Nat /\ p <= B /\ M \in Nat
  BY WeightAssumption
<1>2. CalculateFee(fee, n) = Min({q, M}) /\ CalculateFee(fee, n + 1) = Min({more, M})
  BY DEF CalculateFee
<1> HIDE DEF p, B, M
<1>3. n * p \in Nat /\ (n + 1) * p \in Nat /\ (n + 1) * p = n * p + p
  BY <1>1
<1>4. /\ q \in Nat /\ n * p <= q * B /\ \A m \in Nat : n * p <= m * B => q <= m
      /\ more \in Nat /\ \A m \in Nat : (n + 1) * p <= m * B => more <= m
  BY <1>1, <1>3, CeilingIs DEF Ceil
<1> HIDE DEF q, more
<1>5. /\ Min({q, M}) \in Nat /\ Min({q, M}) = (IF q <= M THEN q ELSE M)
      /\ Min({more, M}) = IF more <= M THEN more ELSE M
  BY <1>1, <1>4, LesserOfTwo
<1>6. more <= q + 1
  <2>1. (q + 1) * B = q * B + B /\ q * B \in Nat /\ q + 1 \in Nat
    BY <1>1, <1>4
  <2>2. (n + 1) * p <= (q + 1) * B
    BY <1>1, <1>3, <1>4, <2>1
  <2> QED
    BY <1>4, <2>1, <2>2
<1>7. q <= n
  <2>1. n * p <= n * B
    BY <1>1
  <2> QED
    BY <1>4, <2>1
<1>8. /\ Min({q, M}) \in Nat /\ Min({q, M}) <= M
      /\ Min({more, M}) <= Min({q, M}) + 1 /\ Min({q, M}) <= n
  BY <1>1, <1>4, <1>5, <1>6, <1>7
<1> QED
  BY <1>2, <1>8 DEF M

\* No fee is above an amount that covers its rate.
LEMMA FeeIsCovered ==
  ASSUME NEW fee, fee.bps \in 0 .. BASIS_POINT_MAX, fee.maximum \in Nat,
         NEW n \in Nat, NEW m \in Nat, n * fee.bps <= m * BASIS_POINT_MAX
  PROVE  CalculateFee(fee, n) <= m
<1> DEFINE p == fee.bps
           B == BASIS_POINT_MAX
           M == fee.maximum
           q == Ceil(n * p, B)
<1>1. B \in Nat \ {0} /\ p \in Nat /\ M \in Nat /\ n * p <= m * B
  BY WeightAssumption
<1>2. CalculateFee(fee, n) = Min({q, M})
  BY DEF CalculateFee
<1> HIDE DEF p, B, M
<1>3. n * p \in Nat
  BY <1>1
<1>4. q \in Nat /\ \A k \in Nat : n * p <= k * B => q <= k
  BY <1>1, <1>3, CeilingIs DEF Ceil
<1> HIDE DEF q
<1>5. q <= m
  BY <1>1, <1>4
<1>6. Min({q, M}) = IF q <= M THEN q ELSE M
  BY <1>1, <1>4, LesserOfTwo
<1> QED
  BY <1>1, <1>2, <1>4, <1>5, <1>6

\* A fee is no less than an amount, up to the maximum, that its rate exceeds
\* by less than one.
LEMMA FeeReaches ==
  ASSUME NEW fee, fee.bps \in 0 .. BASIS_POINT_MAX, fee.maximum \in Nat,
         NEW n \in Nat, NEW m \in Nat, m <= fee.maximum,
         (m - 1) * BASIS_POINT_MAX < n * fee.bps
  PROVE  m <= CalculateFee(fee, n)
<1> DEFINE p == fee.bps
           B == BASIS_POINT_MAX
           M == fee.maximum
           q == Ceil(n * p, B)
<1>1. B \in Nat \ {0} /\ p \in Nat /\ M \in Nat /\ (m - 1) * B < n * p /\ m <= M
  BY WeightAssumption
<1>2. CalculateFee(fee, n) = Min({q, M})
  BY DEF CalculateFee
<1> HIDE DEF p, B, M
<1>3. n * p \in Nat
  BY <1>1
<1>4. q \in Nat /\ n * p <= q * B
  BY <1>1, <1>3, CeilingIs DEF Ceil
<1> HIDE DEF q
<1>5. m <= q
  <2>1. ASSUME q <= m - 1 PROVE FALSE
    <3>1. m - 1 \in Nat
      BY <1>4, <2>1
    <3>2. q * B <= (m - 1) * B /\ q * B \in Nat /\ (m - 1) * B \in Nat
      BY <1>1, <1>4, <2>1, <3>1, ProductOrder
    <3> QED
      BY <1>1, <1>3, <1>4, <3>2
  <2> QED
    BY <1>4, <2>1
<1>6. Min({q, M}) = IF q <= M THEN q ELSE M
  BY <1>1, <1>4, LesserOfTwo
<1> QED
  BY <1>1, <1>2, <1>4, <1>5, <1>6

\* What is sent leaves the amount, and a unit less than the amount that would
\* be left of two units less.
LEMMA FeeIsIncluded ==
  ASSUME NEW fee, fee.bps \in 0 .. BASIS_POINT_MAX, fee.maximum \in Nat, NEW amount \in Nat
  PROVE  LET sent == TransferFeeIncluded(fee, amount)
         IN /\ sent \in Nat /\ TransferFeeExcluded(fee, sent) >= amount
            /\ sent > 1 => TransferFeeExcluded(fee, sent - 2) < amount
<1> DEFINE p == fee.bps
           B == BASIS_POINT_MAX
           M == fee.maximum
           sent == TransferFeeIncluded(fee, amount)
           pre == CalculatePreFeeAmount(fee, amount)
           F(n) == CalculateFee(fee, n)
           Covers(m, n) == n * p <= m * B
           Reaches(m, n) == (m - 1) * B < n * p
<1>1. B \in Nat \ {0} /\ p \in Nat /\ p <= B /\ M \in Nat
  BY WeightAssumption
<1>2. \A n \in Nat : F(n) \in Nat /\ F(n) <= M /\ F(n + 1) <= F(n) + 1 /\ F(n) <= n
  BY FeeIs
<1>c. \A n, m \in Nat : Covers(m, n) => F(n) <= m
  BY FeeIsCovered
<1>r. \A n, m \in Nat : m <= M /\ Reaches(m, n) => m <= F(n)
  BY FeeReaches
<1>3. \A n \in Nat : TransferFeeExcluded(fee, n) = n - F(n)
  BY DEF TransferFeeExcluded
<1>4. sent = IF amount = 0 THEN 0 ELSE IF p = B THEN amount + M ELSE amount + F(pre)
  BY DEF TransferFeeIncluded
<1> HIDE DEF p, B, M, sent, F, Covers, Reaches
<1> SUFFICES /\ sent \in Nat /\ sent - F(sent) >= amount
             /\ sent > 1 => sent - 2 - F(sent - 2) < amount
  <2>1. sent > 1 /\ sent \in Nat => sent - 2 \in Nat
    OBVIOUS
  <2> QED
    BY <1>3, <2>1 DEF sent
<1>5. CASE amount = 0
  <2>1. sent = 0
    BY <1>4, <1>5
  <2> QED
    BY <1>2, <1>5, <2>1
<1>6. CASE amount > 0 /\ p = B
  <2>1. sent = amount + M /\ sent \in Nat
    BY <1>1, <1>4, <1>6
  <2>2. ASSUME sent > 1, amount = 1 PROVE M - 1 <= F(sent - 2)
    <3>1. sent - 2 = M - 1 /\ M - 1 \in Nat
      BY <1>1, <2>1, <2>2
    <3>2. (M - 1 - 1) * B < (M - 1) * B
      BY <1>1, <3>1
    <3>3. Reaches(M - 1, sent - 2)
      BY <1>6, <3>1, <3>2 DEF Reaches
    <3> QED
      BY <1>1, <1>r, <3>1, <3>3
  <2>3. ASSUME amount > 1 PROVE sent - 2 \in Nat /\ sent - 2 >= M /\ F(sent - 2) = M
    <3>1. sent - 2 \in Nat /\ sent - 2 >= M
      BY <1>1, <2>1, <2>3
    <3>2. (M - 1) * B < (sent - 2) * p
      <4>1. (M - 1) * B <= (sent - 2) * B - B /\ (sent - 2) * B \in Nat
        <5>1. (M - 1) * B = M * B - B /\ M * B <= (sent - 2) * B /\ M * B \in Int
          BY <1>1, <3>1, ProductOrder
        <5> QED
          BY <1>1, <3>1, <5>1
      <4> QED
        BY <1>1, <1>6, <4>1
    <3>3. Reaches(M, sent - 2)
      BY <3>2 DEF Reaches
    <3>4. M <= F(sent - 2) /\ F(sent - 2) <= M /\ F(sent - 2) \in Nat
      BY <1>1, <1>2, <1>r, <3>1, <3>3
    <3> QED
      BY <1>1, <3>1, <3>4
  <2>4. F(sent) <= M /\ F(sent) \in Nat
    BY <1>2, <2>1
  <2>5. ASSUME sent > 1 PROVE F(sent - 2) \in Nat
    <3>1. sent - 2 \in Nat
      BY <2>1, <2>5
    <3> QED
      BY <1>2, <3>1
  <2> QED
    BY <1>1, <1>6, <2>1, <2>2, <2>3, <2>4, <2>5
<1>7. CASE amount > 0 /\ p = 0
  <2>1. pre = amount
    BY <1>7 DEF CalculatePreFeeAmount, p, B, M
  <2>2. F(amount) = 0
    <3>1. Covers(0, amount)
      BY <1>1, <1>7 DEF Covers
    <3>2. F(amount) <= 0 /\ F(amount) \in Nat
      BY <1>2, <1>c, <3>1
    <3> QED
      BY <3>2
  <2>3. sent = amount
    BY <1>1, <1>4, <1>7, <2>1, <2>2
  <2>4. ASSUME sent > 1 PROVE F(sent - 2) \in Nat
    <3>1. sent - 2 \in Nat
      BY <2>3, <2>4
    <3> QED
      BY <1>2, <3>1
  <2> QED
    BY <2>2, <2>3, <2>4
<1>8. CASE amount > 0 /\ p > 0 /\ p < B
  <2> DEFINE raw == Ceil(amount * B, B - p)
             capped == raw - amount >= M
  <2>1. pre = IF capped THEN amount + M ELSE raw
    BY <1>1, <1>8 DEF CalculatePreFeeAmount, p, B, M
  <2>2. B - p \in Nat \ {0} /\ amount * B \in Nat
    BY <1>1, <1>8
  <2>3. /\ raw \in Nat /\ amount * B <= raw * (B - p)
        /\ \A n \in Nat : amount * B <= n * (B - p) => raw <= n
    BY <2>2, CeilingIs DEF Ceil
  <2> HIDE DEF raw, pre
  <2>4. \A n \in Nat : /\ n * (B - p) = n * B - n * p /\ n * B \in Nat /\ n * p \in Nat
                       /\ (n - amount) * B = n * B - amount * B
    BY <1>1
  <2>5. amount <= raw
    <3>1. amount * B <= raw * B
      BY <2>2, <2>3, <2>4
    <3>2. ASSUME raw + 1 <= amount PROVE FALSE
      <4>1. (raw + 1) * B <= amount * B /\ (raw + 1) * B = raw * B + B
        BY <1>1, <2>3, <3>2, ProductOrder
      <4> QED
        BY <1>1, <2>2, <2>3, <2>4, <3>1, <4>1
    <3> QED
      BY <2>3, <3>2
  \* Below raw, what is left is too little.
  <2>6. \A n \in Nat : n < raw => (n - amount) * B < n * p
    <3> SUFFICES ASSUME NEW n \in Nat, n < raw PROVE (n - amount) * B < n * p
      OBVIOUS
    <3>1. n * (B - p) < amount * B
      BY <2>2, <2>3, <2>4
    <3> QED
      BY <2>2, <2>4, <3>1
  \* sent is amount and the fee of the unit below it and one more.
  <2>7. ASSUME sent \in Nat, sent > amount, sent - amount <= M, sent <= raw
        PROVE  sent > 1 => sent - 2 - F(sent - 2) < amount
    <3>1. sent - 1 \in Nat /\ sent - 1 < raw /\ sent - amount \in Nat
      BY <2>3, <2>7
    <3>2. ((sent - 1) - amount) * B < (sent - 1) * p
      BY <2>6, <3>1
    <3>3. (sent - amount) - 1 = (sent - 1) - amount
      BY <2>7
    <3>r. Reaches(sent - amount, sent - 1)
      BY <3>2, <3>3 DEF Reaches
    <3>4. sent - amount <= F(sent - 1)
      BY <1>r, <2>7, <3>1, <3>r
    <3>5. ASSUME sent > 1
          PROVE  /\ F(sent - 1) <= F(sent - 2) + 1 /\ sent - 2 \in Nat
                 /\ F(sent - 1) \in Nat /\ F(sent - 2) \in Nat
      <4>1. (sent - 2) + 1 = sent - 1 /\ sent - 2 \in Nat
        BY <2>7, <3>5
      <4> QED
        BY <1>2, <3>1, <4>1
    <3> QED
      BY <2>7, <3>4, <3>5
  <2>8. CASE capped
    <3>1. pre = amount + M /\ pre \in Nat /\ pre <= raw
      BY <1>1, <2>1, <2>3, <2>8
    <3>2. F(pre) = M
      <4>1. CASE M = 0
        BY <1>2, <3>1, <4>1
      <4>2. CASE M > 0
        <5>1. pre - 1 \in Nat /\ pre - 1 < raw /\ (pre - 1) - amount = M - 1
          BY <1>1, <2>3, <3>1, <4>2
        <5>2. (M - 1) * B < (pre - 1) * p
          BY <2>6, <5>1
        <5>3. (pre - 1) * p <= pre * p /\ (pre - 1) * p \in Nat /\ pre * p \in Nat
              /\ (M - 1) * B \in Int
          BY <1>1, <3>1, <5>1, ProductOrder
        <5>4. (M - 1) * B < pre * p
          BY <5>2, <5>3
        <5>5. Reaches(M, pre)
          BY <5>4 DEF Reaches
        <5>6. M <= F(pre) /\ F(pre) <= M /\ F(pre) \in Nat
          BY <1>1, <1>2, <1>r, <3>1, <5>5
        <5> QED
          BY <1>1, <5>6
      <4> QED
        BY <1>1, <4>1, <4>2
    <3>3. sent = pre
      BY <1>1, <1>4, <1>8, <3>1, <3>2
    <3>4. sent \in Nat /\ F(sent) = M /\ sent - amount = M
      BY <1>1, <3>1, <3>2, <3>3
    <3>5. CASE M = 0
      <4>1. ASSUME sent > 1 PROVE F(sent - 2) \in Nat
        <5>1. sent - 2 \in Nat
          BY <3>4, <4>1
        <5> QED
          BY <1>2, <5>1
      <4> QED
        BY <3>4, <3>5, <4>1
    <3>6. CASE M > 0
      BY <1>1, <2>7, <3>1, <3>3, <3>4, <3>6
    <3> QED
      BY <1>1, <3>5, <3>6
  <2>9. CASE ~capped
    <3>1. pre = raw /\ raw - amount < M /\ raw - amount \in Nat
      BY <1>1, <2>1, <2>3, <2>5, <2>9
    <3>2. raw * p <= (raw - amount) * B
      BY <2>2, <2>3, <2>4
    <3>c. Covers(raw - amount, raw)
      BY <3>2 DEF Covers
    <3>3. F(raw) <= raw - amount
      BY <1>c, <2>3, <3>1, <3>c
    <3>4. raw - amount <= F(raw)
      <4>1. CASE raw - amount = 0
        BY <1>2, <2>3, <4>1
      <4>2. CASE raw - amount > 0
        <5>1. raw - 1 \in Nat /\ raw - 1 < raw /\ (raw - 1) - amount = (raw - amount) - 1
          BY <2>3, <3>1, <4>2
        <5>2. ((raw - amount) - 1) * B < (raw - 1) * p
          BY <2>6, <5>1
        <5>3. (raw - 1) * p <= raw * p /\ (raw - 1) * p \in Nat /\ raw * p \in Nat
              /\ ((raw - amount) - 1) * B \in Int
          BY <1>1, <2>3, <3>1, <5>1, ProductOrder
        <5>4. ((raw - amount) - 1) * B < raw * p
          BY <5>2, <5>3
        <5>5. Reaches(raw - amount, raw)
          BY <5>4 DEF Reaches
        <5>6. raw - amount <= M
          BY <1>1, <3>1
        <5> QED
          BY <1>r, <2>3, <3>1, <5>5, <5>6
      <4> QED
        BY <3>1, <4>1, <4>2
    <3>5. F(raw) \in Nat
      BY <1>2, <2>3
    <3>6. sent = raw /\ F(sent) = raw - amount
      <4>1. F(raw) = raw - amount
        BY <3>1, <3>3, <3>4, <3>5
      <4>2. sent = amount + F(raw)
        BY <1>1, <1>4, <1>8, <3>1
      <4>3. sent = raw
        BY <2>3, <4>1, <4>2
      <4> QED
        BY <4>1, <4>3
    <3>7. raw > amount
      <4>1. ASSUME raw = amount PROVE FALSE
        <5>1. amount * p > 0 /\ amount * p \in Nat
          BY <1>1, <1>8
        <5>2. amount * B <= amount * B - amount * p
          BY <2>3, <2>4, <4>1
        <5> QED
          BY <2>2, <5>1, <5>2
      <4> QED
        BY <2>3, <2>5, <4>1
    <3> QED
      BY <1>1, <2>3, <2>7, <3>1, <3>6, <3>7
  <2> QED
    BY <2>8, <2>9
<1> QED
  BY <1>1, <1>5, <1>6, <1>7, <1>8

\* Whatever the fee, what calculateTransferFeeIncludedAmount says to send leaves
\* what is to arrive.
THEOREM FeesAreIncluded == Spec => []FeesLeaveTheAmount
<1>1. ResultOfCall => FeesLeaveTheAmount
  <2> SUFFICES ASSUME ResultOfCall, ReturnedOf("fee")
               PROVE  /\ TransferFeeExcluded(call.fee, result) >= call.amount
                      /\ result > 1 => TransferFeeExcluded(call.fee, result - 2) < call.amount
    BY DEF FeesLeaveTheAmount
  <2>1. /\ call.fee.bps \in 0 .. BASIS_POINT_MAX /\ call.fee.maximum \in Nat
        /\ call.amount \in Nat /\ result = TransferFeeIncluded(call.fee, call.amount)
    BY CallsAssumption DEF ResultOfCall, ReturnedOf
  <2> QED
    BY <2>1, FeeIsIncluded
<1> QED
  BY <1>1, ResultsHold, PTL

-----------------------------------------------------------------------------
(***************************************************************************)
(* Parts of a total.                                                       *)
(***************************************************************************)
LEMMA SumAllIs ==
  ASSUME NEW D, IsFiniteSet(D), NEW f \in [D -> Nat]
  PROVE  SumAll(f) = Total(f, D) /\ SumAll(f) \in Nat
<1>1. SumAll(f) = Sum(f, D) /\ D \subseteq D
  BY DEF SumAll
<1> QED
  BY <1>1, SumIs, TotalIsNat

\* Each bin gets its part of a total but for rounding, which loses less than a
\* unit for each bin with a weight.
LEMMA PartsAre ==
  ASSUME NEW D, IsFiniteSet(D), NEW weights \in [D -> Nat], NEW total \in Nat,
         NEW T, T \subseteq D, \A b \in D \ T : weights[b] = 0, NEW some \in D, weights[some] > 0
  PROVE  /\ Parts(total, weights) \in [D -> Nat]
         /\ \A b \in D : weights[b] = 0 => Parts(total, weights)[b] = 0
         /\ SumAll(Parts(total, weights)) <= total
         /\ total - SumAll(Parts(total, weights)) < Cardinality(T)
<1> DEFINE W == SumAll(weights)
           f == [b \in D |-> total * weights[b]]
           parts == [b \in D |-> f[b] \div W]
           P == Total(parts, D)
           n == Cardinality(T)
<1>1. W \in Nat \ {0} /\ W = Total(weights, D) /\ D \subseteq D
  <2>1. weights[some] <= Total(weights, D) /\ weights[some] \in Nat
    BY ValueBelowTotal
  <2> QED
    BY <2>1, SumAllIs
<1>2. f \in [D -> Nat]
  <2>1. \A b \in D : weights[b] \in Nat
    OBVIOUS
  <2> QED
    BY <2>1, Product
<1>4. Parts(total, weights) = parts
  <2>1. parts = [b \in D |-> (total * weights[b]) \div SumAll(weights)]
    OBVIOUS
  <2> QED
    BY <1>1, <2>1 DEF Parts
<1> HIDE DEF W
<1>5. \A b \in D : weights[b] = 0 => f[b] = 0 /\ parts[b] = 0
  <2>1. 0 \div W = 0 /\ total * 0 = 0
    BY <1>1
  <2> QED
    BY <2>1
<1>6. \A b \in D : f[b] = total * weights[b]
  OBVIOUS
<1>7. IsFiniteSet(T) /\ n \in Nat /\ T # {}
  BY FS_Subset, FS_CardinalityType
<1>8. n > 0
  BY <1>7, FS_EmptySet
<1>9. parts = [b \in D |-> f[b] \div W]
  OBVIOUS
<1> HIDE DEF f, parts, n
<1>10. Total(f, D) = total * W
  <2>1. \A g, h \in [D -> Nat] : (\A b \in D : h[b] = total * g[b])
                                    => Total(h, D) = total * Total(g, D)
    BY TotalOfMultiples
  <2> QED
    BY <1>1, <1>2, <1>6, <2>1
<1>11. /\ parts \in [D -> Nat] /\ Total(parts, D) * W <= Total(f, D)
       /\ Total(f, T) <= Total(parts, T) * W + (W - 1) * Cardinality(T)
  BY <1>1, <1>2, <1>7, <1>9, TotalOfQuotients
<1>12. Total(f, T) = Total(f, D) /\ Total(parts, T) = P
  BY <1>2, <1>5, <1>11, TotalOfSupport
<1>13. P \in Nat /\ SumAll(parts) = P
  BY <1>11, SumAllIs
<1> HIDE DEF P
<1>14. P * W <= total * W /\ total * W <= P * W + (W - 1) * n
  BY <1>10, <1>11, <1>12 DEF P, n
<1>15. P <= total
  <2>1. ASSUME total + 1 <= P PROVE FALSE
    <3>1. (total + 1) * W <= P * W /\ (total + 1) * W = total * W + W /\ total * W \in Int
      BY <1>1, <1>13, <2>1, ProductOrder, Successor
    <3>2. P * W <= total * W /\ P * W \in Int /\ total * W + W <= P * W
      BY <1>1, <1>13, <1>14, <3>1
    <3>3. \A x, y \in Int : \A w \in Nat \ {0} : y <= x => ~(x + w <= y)
      OBVIOUS
    <3> QED
      BY <1>1, <3>1, <3>2, <3>3
  <2> QED
    BY <1>13, <2>1
<1>16. total - P < n
  <2>1. ASSUME P + n <= total PROVE FALSE
    <3>1. (P + n) * W <= total * W /\ P + n \in Nat
      BY <1>1, <1>7, <1>13, <2>1, ProductOrder
    <3>2. (P + n) * W = P * W + n * W /\ (W - 1) * n = n * W - n
      BY <1>1, <1>7, <1>13
    <3>3. {P * W, n * W, total * W} \subseteq Nat
      BY <1>1, <1>7, <1>13
    <3>4. total * W <= P * W + (n * W - n) /\ P * W + n * W <= total * W
      BY <1>14, <3>1, <3>2
    <3> QED
      BY <1>7, <1>8, <3>3, <3>4
  <2> QED
    BY <1>7, <1>13, <2>1
<1> QED
  BY <1>4, <1>5, <1>11, <1>13, <1>15, <1>16 DEF n

LEMMA PartsFit ==
  ASSUME NEW D, IsFiniteSet(D), NEW weights \in [D -> Nat], NEW total \in Nat,
         NEW some \in D, weights[some] > 0
  PROVE  Parts(total, weights) \in [D -> Nat] /\ SumAll(Parts(total, weights)) <= total
<1> DEFINE T == D
<1>1. T \subseteq D /\ \A b \in D \ T : weights[b] = 0
  OBVIOUS
<1> HIDE DEF T
<1> QED
  BY <1>1, PartsAre

\* With the loss added the whole is complete.
LEMMA LossCompletes ==
  ASSUME NEW D, IsFiniteSet(D), NEW bps \in [D -> Nat], NEW bin \in D,
         SumAll(bps) <= BASIS_POINT_MAX
  PROVE  AddLoss(bps, bin) \in [D -> Nat] /\ SumAll(AddLoss(bps, bin)) = BASIS_POINT_MAX
<1> DEFINE loss == BASIS_POINT_MAX - SumAll(bps)
           whole == AddLoss(bps, bin)
<1>1. SumAll(bps) = Total(bps, D) /\ SumAll(bps) \in Nat /\ loss \in Nat
      /\ BASIS_POINT_MAX \in Nat
  BY SumAllIs, WeightAssumption
<1>2. whole = [bps EXCEPT ![bin] = @ + BASIS_POINT_MAX - SumAll(bps)]
  BY DEF AddLoss
<1>3. /\ bps[bin] + BASIS_POINT_MAX - SumAll(bps) \in Nat
      /\ bps[bin] \in Nat
  BY <1>1
<1>4. whole \in [D -> Nat] /\ whole[bin] = bps[bin] + BASIS_POINT_MAX - SumAll(bps)
      /\ \A b \in D \ {bin} : whole[b] = bps[b]
  BY <1>2, <1>3
<1> HIDE DEF whole
<1>5. /\ Total(whole, D) = Total(whole, D \ {bin}) + whole[bin]
      /\ Total(bps, D) = Total(bps, D \ {bin}) + bps[bin]
  BY <1>4, TotalSplit
<1>6. Total(whole, D \ {bin}) = Total(bps, D \ {bin})
  BY <1>4, TotalOfSame
<1>7. Total(bps, D \ {bin}) \in Nat
  <2>1. IsFiniteSet(D \ {bin})
    BY FS_Subset
  <2> QED
    BY <2>1, TotalIsNat
<1>8. SumAll(whole) = Total(whole, D)
  BY <1>4, SumAllIs
<1> QED
  BY <1>1, <1>3, <1>4, <1>5, <1>6, <1>7, <1>8 DEF whole

\* No amounts add up to nothing.
LEMMA NothingIs ==
  ASSUME NEW D, IsFiniteSet(D)
  PROVE  NoAmount(D) \in [D -> Nat] /\ SumAll(NoAmount(D)) = 0
<1>1. NoAmount(D) \in [D -> Nat] /\ \A b \in D : NoAmount(D)[b] = 0
  BY DEF NoAmount
<1>2. Total(NoAmount(D), D) = 0 * Cardinality(D) /\ Cardinality(D) \in Nat
  BY <1>1, TotalOfEqual
<1> QED
  BY <1>1, <1>2, SumAllIs

\* What is in some of the bins only.
LEMMA SomeOf ==
  ASSUME NEW D, IsFiniteSet(D), NEW T, T \subseteq D, NEW n \in Nat, NEW f,
         f = [b \in D |-> IF b \in T THEN n ELSE 0]
  PROVE  f \in [D -> Nat] /\ SumAll(f) = n * Cardinality(T) /\ Cardinality(T) \in Nat
<1>1. f \in [D -> Nat] /\ IsFiniteSet(T) /\ D \subseteq D
  BY FS_Subset
<1>2. \A b \in (D \ T) \cup (T \ D) : f[b] = 0
  OBVIOUS
<1>3. \A b \in T : f[b] = n
  OBVIOUS
<1>4. Total(f, D) = Total(f, T)
  BY <1>1, <1>2, TotalOfSupport
<1>5. Total(f, T) = n * Cardinality(T) /\ Cardinality(T) \in Nat
  BY <1>1, <1>3, TotalOfEqual
<1> QED
  BY <1>1, <1>4, <1>5, SumAllIs

-----------------------------------------------------------------------------
(***************************************************************************)
(* Distributions in basis points.                                          *)
(***************************************************************************)
\* Bins that a call may deposit in.
Span(lower, upper) == lower \in Bins /\ upper \in Bins /\ lower <= upper

LEMMA SpanIs ==
  ASSUME NEW lower, NEW upper, Span(lower, upper)
  PROVE  /\ lower \in Int /\ upper \in Int /\ lower .. upper \subseteq Bins
         /\ lower \in lower .. upper /\ upper \in lower .. upper
         /\ IsFiniteSet(lower .. upper) /\ Cardinality(lower .. upper) \in Nat \ {0}
         /\ Min(lower .. upper) = lower /\ Max(lower .. upper) = upper
<1> DEFINE D == lower .. upper
<1>1. /\ lower \in Int /\ upper \in Int /\ D \subseteq Bins /\ lower \in D /\ upper \in D
      /\ D \subseteq lower .. upper /\ D # {} /\ \A b \in D : lower <= b /\ b <= upper
  <2>1. MIN_BIN_ID \in Int /\ MAX_BIN_ID \in Int
    BY RoomAssumption
  <2>2. /\ lower \in Int /\ upper \in Int /\ lower <= upper
        /\ MIN_BIN_ID <= lower /\ upper <= MAX_BIN_ID
    BY <2>1 DEF Span, Bins
  <2>3. lower .. upper \subseteq Bins
    BY <2>1, <2>2 DEF Bins
  <2> QED
    BY <2>2, <2>3
<1>2. IsFiniteSet(D) /\ Cardinality(D) \in Nat
  BY <1>1, FS_Interval, FS_CardinalityType
<1> HIDE DEF D
<1>3. Cardinality(D) # 0
  BY <1>1, <1>2, FS_EmptySet
<1>4. /\ Min(D) \in D /\ \A b \in D : Min(D) <= b
      /\ Max(D) \in D /\ \A b \in D : b <= Max(D)
  BY <1>1, FirstAndLast
<1>5. Min(D) = lower /\ Max(D) = upper
  <2>1. Min(D) <= lower /\ lower <= Min(D) /\ Min(D) \in Int
    BY <1>1, <1>4 DEF D
  <2>2. Max(D) <= upper /\ upper <= Max(D) /\ Max(D) \in Int
    BY <1>1, <1>4 DEF D
  <2> QED
    BY <1>1, <2>1, <2>2
<1> QED
  BY <1>1, <1>2, <1>3, <1>5 DEF D

\* The allocations of one side, or of both, in basis points.
LEMMA BpsAre ==
  ASSUME NEW lower, NEW upper, Span(lower, upper), NEW a \in [lower .. upper -> Nat],
         NEW some \in lower .. upper, a[some] > 0
  PROVE  LET bps == ComputeAllocationBps(a)
         IN bps \in [lower .. upper -> Nat] /\ SumAll(bps) <= BASIS_POINT_MAX /\ bps # Throws
<1> DEFINE D == lower .. upper
           parts == Parts(BASIS_POINT_MAX, a)
<1>1. IsFiniteSet(D) /\ D \subseteq Bins /\ D \subseteq D /\ BASIS_POINT_MAX \in Nat
  BY SpanIs, WeightAssumption
<1>2. parts \in [D -> Nat] /\ SumAll(parts) <= BASIS_POINT_MAX
  BY <1>1, PartsFit
<1>3. Throws \notin [D -> Nat]
  BY <1>1, ThrowsAssumption
<1>4. ComputeAllocationBps(a) = parts
  BY DEF ComputeAllocationBps
<1> HIDE DEF parts
<1> QED
  BY <1>2, <1>3, <1>4

\* What a side of a distribution must add up to.
Complete(isSide, lossy, bps) ==
  IF ~isSide THEN SumAll(bps) = 0
  ELSE /\ SumAll(bps) <= BASIS_POINT_MAX
       /\ IF lossy THEN SumAll(bps) > BASIS_POINT_MAX - Cardinality(DOMAIN bps)
          ELSE SumAll(bps) = BASIS_POINT_MAX

\* Off the active bin the whole is on one side.
LEMMA OneSideIsComplete ==
  ASSUME NEW lower, NEW upper, Span(lower, upper),
         NEW a \in [lower .. upper -> Nat \ {0}], NEW bin \in lower .. upper
  PROVE  LET all == AddLoss(ComputeAllocationBps(a), bin)
         IN /\ OnlyX(all) = [x |-> all, y |-> NoAmount(lower .. upper)]
            /\ OnlyY(all) = [x |-> NoAmount(lower .. upper), y |-> all]
            /\ SumAll(all) = BASIS_POINT_MAX /\ SumAll(NoAmount(lower .. upper)) = 0
<1> DEFINE D == lower .. upper
           bps == ComputeAllocationBps(a)
           all == AddLoss(bps, bin)
<1>1. IsFiniteSet(D) /\ D \subseteq Bins /\ lower \in D
  BY SpanIs
<1>2. a \in [D -> Nat] /\ a[lower] > 0
  BY <1>1
<1>3. bps \in [D -> Nat] /\ SumAll(bps) <= BASIS_POINT_MAX
  BY <1>1, <1>2, BpsAre
<1> HIDE DEF bps
<1>4. all \in [D -> Nat] /\ SumAll(all) = BASIS_POINT_MAX
  BY <1>1, <1>3, LossCompletes
<1>5. all # Throws /\ DOMAIN all = D
  BY <1>1, <1>4, ThrowsAssumption
<1>6. SumAll(NoAmount(D)) = 0
  BY <1>1, NothingIs
<1> HIDE DEF all
<1> QED
  BY <1>4, <1>5, <1>6 DEF OnlyX, OnlyY, all, bps

\* Around the active bin each side makes a whole of its own.
LEMMA HalvesAreComplete ==
  ASSUME NEW lower, NEW upper, Span(lower, upper), NEW activeId \in lower .. upper,
         NEW a \in [lower .. upper -> Nat \ {0}], NEW bin \in lower .. upper,
         NEW halves, halves \in {HalvesAbove(activeId, a), HalvesBelow(activeId, a)}
  PROVE  /\ SumAll(AddLoss(ComputeAllocationBps(halves), bin)) = BASIS_POINT_MAX
         /\ SumAll(AddLoss([ComputeAllocationBps(halves) EXCEPT ![bin] = 0], bin))
              = BASIS_POINT_MAX
<1> DEFINE D == lower .. upper
           bps == ComputeAllocationBps(halves)
           cut == [bps EXCEPT ![bin] = 0]
<1>1. IsFiniteSet(D) /\ D \subseteq Bins /\ D \subseteq D
  BY SpanIs
<1>2. halves \in [D -> Nat] /\ halves[activeId] > 0
  <2>1. \A b \in D : a[b] \in Nat /\ a[b] > 0 /\ 2 * a[b] \in Nat
    OBVIOUS
  <2>2. activeId \in Int /\ D \subseteq Int /\ DOMAIN a = D
    BY SpanIs
  <2>3. CASE halves = HalvesAbove(activeId, a)
    BY <2>1, <2>2, <2>3 DEF HalvesAbove
  <2>4. CASE halves = HalvesBelow(activeId, a)
    BY <2>1, <2>2, <2>4 DEF HalvesBelow
  <2> QED
    BY <2>3, <2>4
<1>3. bps \in [D -> Nat] /\ SumAll(bps) <= BASIS_POINT_MAX
  BY <1>2, BpsAre
<1> HIDE DEF bps
<1>4. SumAll(AddLoss(bps, bin)) = BASIS_POINT_MAX
  BY <1>1, <1>3, LossCompletes
<1>5. cut \in [D -> Nat] /\ \A b \in D : cut[b] <= bps[b]
  BY <1>3
<1> HIDE DEF cut
<1>6. Total(cut, D) <= Total(bps, D)
  BY <1>1, <1>3, <1>5, TotalsInOrder
<1>7. /\ SumAll(cut) = Total(cut, D) /\ SumAll(cut) \in Nat
      /\ SumAll(bps) = Total(bps, D) /\ SumAll(bps) \in Nat
  BY <1>1, <1>3, <1>5, SumAllIs
<1>8. SumAll(cut) <= BASIS_POINT_MAX
  BY <1>3, <1>6, <1>7, WeightAssumption
<1>9. SumAll(AddLoss(cut, bin)) = BASIS_POINT_MAX
  BY <1>1, <1>5, <1>8, LossCompletes
<1> QED
  BY <1>4, <1>9 DEF cut, bps

LEMMA SpotIsComplete ==
  ASSUME NEW lower, NEW upper, Span(lower, upper), NEW activeId \in Int
  PROVE  LET spot == CalculateSpotDistribution(activeId, lower, upper)
             lossy == activeId \notin lower .. upper
         IN /\ spot.x \in [lower .. upper -> Nat] /\ spot.y \in [lower .. upper -> Nat]
            /\ DOMAIN spot.x = lower .. upper /\ DOMAIN spot.y = lower .. upper
            /\ Complete(activeId <= upper, lossy, spot.x)
            /\ Complete(activeId >= lower, lossy, spot.y)
<1> DEFINE D == lower .. upper
           M == BASIS_POINT_MAX
           spot == CalculateSpotDistribution(activeId, lower, upper)
           each(count) == (2 * M) \div (2 * count + 1)
           theirs(T) == [b \in D |-> IF b \in T THEN each(Cardinality(T)) ELSE 0]
           even == [b \in D |-> M \div Cardinality(D)]
<1>1. /\ lower \in Int /\ upper \in Int /\ lower <= upper /\ M \in Nat \ {0} /\ IsFiniteSet(D)
      /\ Cardinality(D) \in Nat \ {0}
  BY SpanIs, WeightAssumption DEF Span
<1>2. NoAmount(D) \in [D -> Nat] /\ SumAll(NoAmount(D)) = 0
  BY <1>1, NothingIs
<1>3. /\ even \in [D -> Nat] /\ SumAll(even) <= M /\ SumAll(even) > M - Cardinality(D)
  <2> DEFINE n == Cardinality(D)
             q == M \div n
             all == D
  <2>1. q \in Nat /\ q * n <= M /\ M < q * n + n /\ q * n \in Int
    <3>1. n \in Nat \ {0}
      BY <1>1
    <3> HIDE DEF n, M
    <3> QED
      BY <1>1, <3>1, Quotient, Successor
  <2>2. even = [b \in D |-> IF b \in all THEN q ELSE 0] /\ all \subseteq D /\ n = Cardinality(all)
    OBVIOUS
  <2> HIDE DEF q, even, all, n
  <2>3. even \in [D -> Nat] /\ SumAll(even) = q * n
    BY <1>1, <2>1, <2>2, SomeOf
  <2>4. SumAll(even) <= M /\ SumAll(even) > M - n
    BY <1>1, <2>1, <2>2, <2>3 DEF n
  <2> QED
    BY <2>3, <2>4 DEF n
<1>4. ASSUME NEW T, T \subseteq D, activeId \in D
      PROVE  /\ AddLoss(theirs(T), activeId) \in [D -> Nat]
             /\ SumAll(AddLoss(theirs(T), activeId)) = M
  <2> DEFINE n == Cardinality(T)
             e == each(n)
             f == theirs(T)
  <2>1. n \in Nat
    BY <1>1, <1>4, FS_Subset, FS_CardinalityType
  <2>2. e \in Nat /\ e * (2 * n + 1) <= 2 * M
    <3> DEFINE d == 2 * n + 1
               m == 2 * M
    <3>1. d \in Nat \ {0} /\ m \in Nat /\ e = m \div d
      BY <1>1, <2>1
    <3> HIDE DEF d, m, e
    <3>2. e \in Nat /\ e * d <= m
      BY <3>1, Quotient
    <3> QED
      BY <3>2 DEF d, m
  <2>3. f = [b \in D |-> IF b \in T THEN e ELSE 0]
    OBVIOUS
  <2> HIDE DEF e, f
  <2>4. f \in [D -> Nat] /\ SumAll(f) = e * n
    BY <1>1, <1>4, <2>2, <2>3, SomeOf DEF n
  <2>5. e * n <= M
    <3>1. e * (2 * n + 1) = 2 * (e * n) + e /\ e * n \in Nat
      BY <2>1, <2>2
    <3> QED
      BY <1>1, <2>2, <3>1
  <2>6. AddLoss(f, activeId) \in [D -> Nat] /\ SumAll(AddLoss(f, activeId)) = M
    BY <1>1, <1>4, <2>4, <2>5, LossCompletes
  <2> QED
    BY <2>6 DEF f
<1>5. CASE activeId < lower
  <2>1. spot = [x |-> even, y |-> NoAmount(D)]
    BY <1>1, <1>5 DEF CalculateSpotDistribution
  <2>2. activeId <= upper /\ ~(activeId >= lower) /\ activeId \notin D
    BY <1>1, <1>5
  <2> HIDE DEF even, spot
  <2> QED
    BY <1>2, <1>3, <2>1, <2>2 DEF Complete, spot
<1>6. CASE activeId > upper
  <2>1. spot = [x |-> NoAmount(D), y |-> even]
    BY <1>1, <1>6 DEF CalculateSpotDistribution
  <2>2. ~(activeId <= upper) /\ activeId >= lower /\ activeId \notin D
    BY <1>1, <1>6
  <2> HIDE DEF even, spot
  <2> QED
    BY <1>2, <1>3, <2>1, <2>2 DEF Complete, spot
<1>7. CASE activeId \in D
  <2> DEFINE above == activeId + 1 .. upper
             below == lower .. activeId - 1
             xs == AddLoss(theirs(above), activeId)
             ys == AddLoss(theirs(below), activeId)
  <2>1. spot = [x |-> xs, y |-> ys]
    BY <1>1, <1>7 DEF CalculateSpotDistribution
  <2>2. activeId <= upper /\ activeId >= lower /\ above \subseteq D /\ below \subseteq D
    BY <1>1, <1>7
  <2>3. /\ xs \in [D -> Nat] /\ SumAll(xs) = M
        /\ ys \in [D -> Nat] /\ SumAll(ys) = M
    BY <1>4, <1>7, <2>2
  <2> HIDE DEF xs, ys, spot
  <2>4. /\ spot.x = xs /\ spot.y = ys
        /\ Complete(TRUE, FALSE, xs) /\ Complete(TRUE, FALSE, ys)
    BY <1>1, <2>1, <2>3 DEF Complete
  <2> QED
    BY <1>7, <2>2, <2>3, <2>4 DEF spot
<1> QED
  BY <1>1, <1>5, <1>6, <1>7

\* A distribution in basis points around the bins of a call is complete on both
\* sides.
LEMMA AllocationsAreComplete ==
  ASSUME NEW lower, NEW upper, Span(lower, upper),
         NEW c, c.activeId \in Int, c.allocations \in [lower .. upper -> Nat \ {0}],
         c.shape \in {"Normal", "BidAsk", "Spot"}
  PROVE  LET lossy == c.shape = "Spot" /\ c.activeId \notin lower .. upper
         IN /\ Complete(c.activeId <= upper, lossy, Allocated(c).x)
            /\ Complete(c.activeId >= lower, lossy, Allocated(c).y)
<1> DEFINE D == lower .. upper
           a == c.allocations
           activeId == c.activeId
           bps == ComputeAllocationBps(a)
           above == ComputeAllocationBps(HalvesAbove(activeId, a))
           below == ComputeAllocationBps(HalvesBelow(activeId, a))
           M == BASIS_POINT_MAX
           Whole == /\ SumAll(Allocated(c).x) = IF activeId <= upper THEN M ELSE 0
                    /\ SumAll(Allocated(c).y) = IF activeId >= lower THEN M ELSE 0
<1>1. /\ DOMAIN a = D /\ Min(DOMAIN a) = lower /\ Max(DOMAIN a) = upper
      /\ lower \in Int /\ upper \in Int /\ lower <= upper /\ lower \in D /\ upper \in D
  BY SpanIs DEF Span
<1>2. ASSUME NEW bin \in D
      PROVE  /\ OnlyX(AddLoss(bps, bin)) = [x |-> AddLoss(bps, bin), y |-> NoAmount(D)]
             /\ OnlyY(AddLoss(bps, bin)) = [x |-> NoAmount(D), y |-> AddLoss(bps, bin)]
             /\ SumAll(AddLoss(bps, bin)) = M /\ SumAll(NoAmount(D)) = 0
  BY OneSideIsComplete
<1>3. ASSUME activeId \in D, NEW bin \in D
      PROVE  /\ SumAll(AddLoss(above, bin)) = M /\ SumAll(AddLoss(below, bin)) = M
             /\ SumAll(AddLoss([above EXCEPT ![bin] = 0], bin)) = M
             /\ SumAll(AddLoss([below EXCEPT ![bin] = 0], bin)) = M
  <2>1. /\ SumAll(AddLoss(above, bin)) = M
        /\ SumAll(AddLoss([above EXCEPT ![bin] = 0], bin)) = M
    BY <1>3, HalvesAreComplete
  <2>2. /\ SumAll(AddLoss(below, bin)) = M
        /\ SumAll(AddLoss([below EXCEPT ![bin] = 0], bin)) = M
    BY <1>3, HalvesAreComplete
  <2> QED
    BY <2>1, <2>2
<1> HIDE DEF bps, above, below
<1>w. ASSUME Whole, c.shape # "Spot"
      PROVE  LET lossy == c.shape = "Spot" /\ activeId \notin D
             IN /\ Complete(activeId <= upper, lossy, Allocated(c).x)
                /\ Complete(activeId >= lower, lossy, Allocated(c).y)
  BY <1>1, <1>w, WeightAssumption DEF Complete
<1>4. CASE c.shape = "Spot"
  <2>1. Allocated(c) = CalculateSpotDistribution(activeId, lower, upper)
    BY <1>1, <1>4 DEF Allocated
  <2> QED
    BY <1>4, <2>1, SpotIsComplete
<1>5. CASE c.shape = "BidAsk"
  <2>1. Allocated(c) = CalculateBidAskDistribution(activeId, a)
    BY <1>5 DEF Allocated
  <2>2. ASSUME activeId < lower PROVE Whole
    <3>1. Allocated(c) = OnlyX(AddLoss(bps, upper))
      BY <1>1, <2>1, <2>2 DEF CalculateBidAskDistribution, bps, above, below
    <3>2. /\ Allocated(c).x = AddLoss(bps, upper) /\ Allocated(c).y = NoAmount(D)
          /\ SumAll(AddLoss(bps, upper)) = M /\ SumAll(NoAmount(D)) = 0
      BY <1>1, <1>2, <3>1
    <3> QED
      BY <1>1, <2>2, <3>2
  <2>3. ASSUME activeId > upper PROVE Whole
    <3>1. Allocated(c) = OnlyY(AddLoss(bps, lower))
      BY <1>1, <2>1, <2>3 DEF CalculateBidAskDistribution, bps, above, below
    <3>2. /\ Allocated(c).y = AddLoss(bps, lower) /\ Allocated(c).x = NoAmount(D)
          /\ SumAll(AddLoss(bps, lower)) = M /\ SumAll(NoAmount(D)) = 0
      BY <1>1, <1>2, <3>1
    <3> QED
      BY <1>1, <2>3, <3>2
  <2>4. ASSUME activeId \in D PROVE Whole
    <3>1. Allocated(c) = [x |-> AddLoss(above, upper), y |-> AddLoss(below, lower)]
      BY <1>1, <2>1, <2>4 DEF CalculateBidAskDistribution, bps, above, below
    <3>2. Allocated(c).x = AddLoss(above, upper) /\ Allocated(c).y = AddLoss(below, lower)
      BY <3>1
    <3>3. SumAll(AddLoss(above, upper)) = M
      BY <1>1, <1>3, <2>4
    <3>4. SumAll(AddLoss(below, lower)) = M
      BY <1>1, <1>3, <2>4
    <3> QED
      BY <1>1, <2>4, <3>2, <3>3, <3>4
  <2>5. Whole
    BY <1>1, <2>2, <2>3, <2>4
  <2> HIDE DEF Whole
  <2> QED
    BY <1>5, <1>w, <2>5
<1>6. CASE c.shape = "Normal"
  <2>1. Allocated(c) = CalculateNormalDistribution(activeId, a)
    BY <1>6 DEF Allocated
  <2>2. ASSUME activeId < lower PROVE Whole
    <3>1. Allocated(c) = OnlyX(AddLoss(bps, lower))
      BY <1>1, <2>1, <2>2 DEF CalculateNormalDistribution, bps, above, below
    <3>2. /\ Allocated(c).x = AddLoss(bps, lower) /\ Allocated(c).y = NoAmount(D)
          /\ SumAll(AddLoss(bps, lower)) = M /\ SumAll(NoAmount(D)) = 0
      BY <1>1, <1>2, <3>1
    <3> QED
      BY <1>1, <2>2, <3>2
  <2>3. ASSUME activeId > upper PROVE Whole
    <3>1. Allocated(c) = OnlyY(AddLoss(bps, upper))
      BY <1>1, <2>1, <2>3 DEF CalculateNormalDistribution, bps, above, below
    <3>2. /\ Allocated(c).y = AddLoss(bps, upper) /\ Allocated(c).x = NoAmount(D)
          /\ SumAll(AddLoss(bps, upper)) = M /\ SumAll(NoAmount(D)) = 0
      BY <1>1, <1>2, <3>1
    <3> QED
      BY <1>1, <2>3, <3>2
  <2>4. ASSUME activeId \in D PROVE Whole
    <3>1. Allocated(c) = [x |-> AddLoss([above EXCEPT ![activeId] = 0], activeId),
                          y |-> AddLoss([below EXCEPT ![activeId] = 0], activeId)]
      BY <1>1, <2>1, <2>4 DEF CalculateNormalDistribution, bps, above, below
    <3> QED
      BY <1>1, <1>3, <2>4, <3>1
  <2>5. Whole
    BY <1>1, <2>2, <2>3, <2>4
  <2> HIDE DEF Whole
  <2> QED
    BY <1>6, <1>w, <2>5
<1> QED
  BY <1>4, <1>5, <1>6

\* Whatever the bins and their allocations, the basis points of a side make a
\* whole, or nothing on the side without bins.
THEOREM AllocationsAreWhole == Spec => []SharesAreComplete
<1>1. ResultOfCall => SharesAreComplete
  <2> SUFFICES ASSUME ResultOfCall, ReturnedOf("bps")
               PROVE  LET lower == Min(DOMAIN call.allocations)
                          upper == Max(DOMAIN call.allocations)
                          lossy == call.shape = "Spot" /\ call.activeId \notin lower .. upper
                      IN /\ Complete(call.activeId <= upper, lossy, result.x)
                         /\ Complete(call.activeId >= lower, lossy, result.y)
    BY Zenon DEF SharesAreComplete, Complete
  <2>1. /\ call.activeId \in Bins /\ call.shape \in {"Normal", "BidAsk", "Spot"}
        /\ \E lower, upper \in Bins :
             lower <= upper /\ call.allocations \in [lower .. upper -> Nat \ {0}]
    BY CallsAssumption DEF ResultOfCall, ReturnedOf
  <2>2. PICK lower, upper \in Bins :
          lower <= upper /\ call.allocations \in [lower .. upper -> Nat \ {0}]
    BY <2>1
  <2>3. Span(lower, upper) /\ call.activeId \in Int /\ result = Allocated(call)
    BY <2>1, <2>2, RoomAssumption DEF Span, Bins, ResultOfCall
  <2>4. Min(DOMAIN call.allocations) = lower /\ Max(DOMAIN call.allocations) = upper
    BY <2>2, <2>3, SpanIs
  <2> QED
    BY <2>1, <2>2, <2>3, <2>4, AllocationsAreComplete
<1> QED
  BY <1>1, ResultsHold, PTL

-----------------------------------------------------------------------------
(***************************************************************************)
(* Deposits by weights and by strategies.                                  *)
(***************************************************************************)
\* A price divides the common multiple.
LEMMA PriceDivides ==
  ASSUME NEW b \in Bins
  PROVE  PRICE_MULTIPLE \div Price[b] \in Nat \ {0} /\ Price[b] \in Nat \ {0}
<1> DEFINE p == Price[b]
           m == PRICE_MULTIPLE
           q == m \div p
<1>1. p \in Nat \ {0} /\ m \in Nat \ {0} /\ m % p = 0
  BY PriceAssumption, MultipleAssumption
<1> HIDE DEF p, m
<1>2. q \in Nat /\ q * p <= m /\ m < q * p + p
  BY <1>1, Quotient, Successor
<1>3. q # 0
  <2>1. ASSUME q = 0 PROVE FALSE
    <3>1. m < p
      BY <1>1, <1>2, <2>1
    <3>2. m % p = m
      BY <1>1, <3>1
    <3> QED
      BY <1>1, <3>2
  <2> QED
    BY <2>1
<1> QED
  BY <1>1, <1>2, <1>3 DEF p, m

\* A sum that is not nothing has something in it.
LEMMA SomeWeight ==
  ASSUME NEW D, IsFiniteSet(D), NEW w \in [D -> Nat], SumAll(w) # 0
  PROVE  \E b \in D : w[b] > 0
<1> SUFFICES ASSUME \A b \in D : ~(w[b] > 0)
             PROVE  FALSE
  OBVIOUS
<1>1. \A b \in D : w[b] = 0
  <2>1. \A b \in D : w[b] \in Nat
    OBVIOUS
  <2> QED
    BY <2>1
<1>2. Total(w, D) = 0 * Cardinality(D) /\ Cardinality(D) \in Nat /\ SumAll(w) = Total(w, D)
  BY <1>1, TotalOfEqual, SumAllIs
<1> QED
  BY <1>2

\* What is taken of each weight at a rate of k to d, rounded down.
Taken(w, k, d) == [b \in DOMAIN w |-> (k * w[b]) \div d]

LEMMA Rated ==
  ASSUME NEW D, IsFiniteSet(D), NEW w \in [D -> Nat], NEW k \in Nat, NEW d \in Nat \ {0},
         NEW T, T \subseteq D, \A b \in D \ T : w[b] = 0
  PROVE  /\ Taken(w, k, d) \in [D -> Nat]
         /\ SumAll(Taken(w, k, d)) \in Nat /\ SumAll(w) \in Nat
         /\ \A b \in D : w[b] = 0 => Taken(w, k, d)[b] = 0
         /\ SumAll(Taken(w, k, d)) * d <= k * SumAll(w)
         /\ k * SumAll(w) <= SumAll(Taken(w, k, d)) * d + (d - 1) * Cardinality(T)
<1> DEFINE g == [b \in D |-> k * w[b]]
           f == Taken(w, k, d)
<1>0. f = [b \in D |-> (k * w[b]) \div d]
  BY DEF Taken
<1> HIDE DEF f
<1>1. D \subseteq D /\ IsFiniteSet(T)
  BY FS_Subset
<1>2. g \in [D -> Nat]
  <2>1. \A b \in D : w[b] \in Nat
    OBVIOUS
  <2> QED
    BY <2>1, Product
<1>3. \A b \in D : g[b] = k * w[b]
  OBVIOUS
<1>4. f = [b \in D |-> g[b] \div d]
  BY <1>0
<1>5. \A b \in D : w[b] = 0 => g[b] = 0 /\ f[b] = 0
  <2>1. 0 \div d = 0 /\ k * 0 = 0
    OBVIOUS
  <2> QED
    BY <1>0, <2>1
<1> HIDE DEF g
<1>6. Total(g, D) = k * Total(w, D)
  <2>1. \A u, v \in [D -> Nat] : (\A b \in D : v[b] = k * u[b]) => Total(v, D) = k * Total(u, D)
    BY TotalOfMultiples
  <2> QED
    BY <1>2, <1>3, <2>1
<1>q. \A S : S \subseteq D /\ IsFiniteSet(S) =>
               /\ f \in [D -> Nat] /\ Total(f, S) * d <= Total(g, S)
               /\ Total(g, S) <= Total(f, S) * d + (d - 1) * Cardinality(S)
  BY <1>2, <1>4, TotalOfQuotients
<1>7. f \in [D -> Nat] /\ Total(f, D) * d <= Total(g, D)
  BY <1>1, <1>q
<1>8. Total(g, T) <= Total(f, T) * d + (d - 1) * Cardinality(T)
  BY <1>1, <1>q
<1>9. Total(g, T) = Total(g, D) /\ Total(f, T) = Total(f, D)
  BY <1>1, <1>2, <1>5, <1>7, TotalOfSupport
<1>10. /\ SumAll(f) = Total(f, D) /\ SumAll(f) \in Nat
       /\ SumAll(w) = Total(w, D) /\ SumAll(w) \in Nat
  BY <1>7, SumAllIs
<1> QED
  BY <1>5, <1>6, <1>7, <1>8, <1>9, <1>10 DEF f

\* X goes to the bins from the active one up, Y to those from it down, and not
\* more than there is.
Placed(amounts, D, activeId, x, y) ==
  /\ amounts.x \in [D -> Nat] /\ amounts.y \in [D -> Nat]
  /\ SumAll(amounts.x) <= x /\ SumAll(amounts.y) <= y
  /\ \A b \in D : (amounts.x[b] > 0 => b >= activeId) /\ (amounts.y[b] > 0 => b <= activeId)

LEMMA AskWeightIs ==
  ASSUME NEW D, D \subseteq Bins, NEW activeId \in Int, NEW weights \in [D -> Nat]
  PROVE  /\ AskWeight(activeId, weights) \in [D -> Nat]
         /\ \A b \in D : /\ b < activeId => AskWeight(activeId, weights)[b] = 0
                         /\ b >= activeId /\ weights[b] > 0
                              => AskWeight(activeId, weights)[b] > 0
<1> DEFINE w == AskWeight(activeId, weights)
           unit == [b \in D |-> PRICE_MULTIPLE \div Price[b]]
<1>1. \A b \in D : unit[b] \in Nat \ {0} /\ weights[b] \in Nat /\ b \in Int
  BY PriceDivides, RoomAssumption DEF Bins
<1>2. w = [b \in D |-> IF b < activeId THEN 0 ELSE weights[b] * unit[b]]
  BY DEF AskWeight
<1> HIDE DEF unit, w
<1>3. \A m \in Nat, n \in Nat \ {0} : m * n \in Nat /\ (m > 0 => m * n > 0)
  OBVIOUS
<1>4. \A b \in D : /\ weights[b] * unit[b] \in Nat
                   /\ weights[b] > 0 => weights[b] * unit[b] > 0
  BY <1>1, <1>3
<1>5. w \in [D -> Nat]
  BY <1>2, <1>4
<1>6. \A b \in D : /\ b < activeId => w[b] = 0
                   /\ b >= activeId /\ weights[b] > 0 => w[b] > 0
  BY <1>1, <1>2, <1>4
<1> QED
  BY <1>5, <1>6 DEF w

LEMMA BidWeightIs ==
  ASSUME NEW D, D \subseteq Bins, NEW activeId \in Int, NEW weights \in [D -> Nat]
  PROVE  /\ BidWeight(activeId, weights) \in [D -> Nat]
         /\ \A b \in D : /\ b > activeId => BidWeight(activeId, weights)[b] = 0
                         /\ b <= activeId => BidWeight(activeId, weights)[b] = weights[b]
<1>1. \A b \in D : b \in Int /\ weights[b] \in Nat
  BY RoomAssumption DEF Bins
<1> QED
  BY <1>1 DEF BidWeight

LEMMA BothWeightsAre ==
  ASSUME NEW D, D \subseteq Bins, NEW activeId \in Bins, NEW inActive,
         inActive.x \in Nat, inActive.y \in Nat, NEW weights \in [D -> Nat]
  PROVE  LET w == BothWeights(activeId, inActive, weights)
         IN w.x \in [D -> Nat] /\ w.y \in [D -> Nat] /\ w.unit \in Nat \ {0}
<1> DEFINE empty == inActive.x = 0 /\ inActive.y = 0
           ax == IF empty THEN SCALE ELSE inActive.x
           ay == IF empty THEN Price[activeId] ELSE inActive.y
           value == Price[activeId] * ax + SCALE * ay
           unit == [b \in D |-> PRICE_MULTIPLE \div Price[b]]
           xs == [b \in D |-> CASE b < activeId -> 0
                                [] b = activeId -> weights[b] * ax * SCALE * PRICE_MULTIPLE
                                [] OTHER -> weights[b] * SCALE * value * unit[b]]
           ys == [b \in D |-> CASE b > activeId -> 0
                                [] b = activeId -> weights[b] * ay * SCALE * PRICE_MULTIPLE
                                [] OTHER -> weights[b] * value * PRICE_MULTIPLE]
<1>1. BothWeights(activeId, inActive, weights)
        = [x |-> xs, y |-> ys, unit |-> value * PRICE_MULTIPLE]
  BY DEF BothWeights
<1>2. /\ SCALE \in Nat \ {0} /\ PRICE_MULTIPLE \in Nat \ {0} /\ Price[activeId] \in Nat \ {0}
      /\ activeId \in Int
      /\ \A b \in D : weights[b] \in Nat /\ unit[b] \in Nat /\ b \in Int
  BY PriceAssumption, MultipleAssumption, PriceDivides, RoomAssumption DEF Bins
<1>3. ax \in Nat /\ ay \in Nat /\ (ax > 0 \/ ay > 0)
  BY <1>2
<1> HIDE DEF ax, ay, unit
<1>4. value \in Nat \ {0}
  <2>1. \A m \in Nat \ {0}, n \in Nat : m * n \in Nat /\ (n > 0 => m * n > 0)
    OBVIOUS
  <2>2. /\ Price[activeId] * ax \in Nat /\ SCALE * ay \in Nat
        /\ Price[activeId] * ax > 0 \/ SCALE * ay > 0
    BY <1>2, <1>3, <2>1
  <2> QED
    BY <2>2
<1> HIDE DEF value
<1>5. \A b \in D : /\ weights[b] * ax * SCALE * PRICE_MULTIPLE \in Nat
                   /\ weights[b] * SCALE * value * unit[b] \in Nat
                   /\ weights[b] * ay * SCALE * PRICE_MULTIPLE \in Nat
                   /\ weights[b] * value * PRICE_MULTIPLE \in Nat
  <2> SUFFICES ASSUME NEW b \in D
               PROVE  /\ weights[b] * ax * SCALE * PRICE_MULTIPLE \in Nat
                      /\ weights[b] * SCALE * value * unit[b] \in Nat
                      /\ weights[b] * ay * SCALE * PRICE_MULTIPLE \in Nat
                      /\ weights[b] * value * PRICE_MULTIPLE \in Nat
    OBVIOUS
  <2>1. /\ weights[b] \in Nat /\ unit[b] \in Nat /\ value \in Nat
        /\ SCALE \in Nat /\ PRICE_MULTIPLE \in Nat
    BY <1>2, <1>4
  <2>2. weights[b] * ax \in Nat /\ weights[b] * ay \in Nat /\ weights[b] * value \in Nat
        /\ weights[b] * SCALE \in Nat
    BY <1>3, <2>1, Product
  <2>3. weights[b] * ax * SCALE \in Nat /\ weights[b] * ay * SCALE \in Nat
        /\ weights[b] * SCALE * value \in Nat
    BY <2>1, <2>2, Product
  <2> QED
    BY <2>1, <2>2, <2>3, Product
<1>6. xs \in [D -> Nat]
  BY <1>2, <1>5
<1>7. ys \in [D -> Nat]
  BY <1>2, <1>5
<1>8. value * PRICE_MULTIPLE \in Nat \ {0}
  BY <1>2, <1>4
<1> HIDE DEF xs, ys
<1> QED
  BY <1>1, <1>6, <1>7, <1>8

LEMMA BothWeightsOneSided ==
  ASSUME NEW D, D \subseteq Bins, NEW activeId \in Bins, NEW inActive,
         NEW weights \in [D -> Nat], NEW b \in D
  PROVE  /\ b < activeId => BothWeights(activeId, inActive, weights).x[b] = 0
         /\ b > activeId => BothWeights(activeId, inActive, weights).y[b] = 0
<1>1. b \in Int /\ activeId \in Int /\ DOMAIN weights = D
  BY RoomAssumption DEF Bins
<1>2. ASSUME b < activeId PROVE BothWeights(activeId, inActive, weights).x[b] = 0
  BY <1>1, <1>2 DEF BothWeights
<1>3. ASSUME b > activeId PROVE BothWeights(activeId, inActive, weights).y[b] = 0
  BY <1>1, <1>3 DEF BothWeights
<1> QED
  BY <1>2, <1>3

\* A deposit of both tokens around the active bin takes of each side at the
\* smaller of the two rates.
LEMMA ScaleIs ==
  ASSUME NEW x \in Nat, NEW tx \in Nat, NEW y \in Nat, NEW ty \in Nat
  PROVE  LET k == ScaleOf(x, tx, y, ty)
         IN /\ k[1] \in Nat /\ k[2] \in Nat /\ (k[2] = 0 => ty = 0)
            /\ k[2] # 0 => k[1] * tx <= x * k[2] /\ k[1] * ty <= y * k[2]
<1>0. x * ty \in Nat /\ y * tx \in Nat
  OBVIOUS
<1>1. CASE tx # 0 /\ ty # 0 /\ x * ty < y * tx
  <2>1. ScaleOf(x, tx, y, ty) = <<x, tx>>
    BY <1>1 DEF ScaleOf
  <2> QED
    BY <1>0, <1>1, <2>1
<1>2. CASE tx # 0 /\ ty = 0 /\ y # 0
  <2>1. ScaleOf(x, tx, y, ty) = <<x, tx>>
    BY <1>2 DEF ScaleOf
  <2> QED
    BY <1>2, <2>1
<1>3. CASE ~(tx # 0 /\ ty # 0 /\ x * ty < y * tx) /\ ~(tx # 0 /\ ty = 0 /\ y # 0)
  <2>1. ScaleOf(x, tx, y, ty) = <<y, ty>>
    BY <1>3 DEF ScaleOf
  <2>2. ty # 0 => y * tx <= x * ty
    BY <1>0, <1>3
  <2> QED
    BY <2>1, <2>2
<1> QED
  BY <1>1, <1>2, <1>3

LEMMA PartsUnlessThrown ==
  ASSUME NEW D, IsFiniteSet(D), NEW w \in [D -> Nat], NEW total \in Nat,
         Parts(total, w) # Throws
  PROVE  /\ Parts(total, w) \in [D -> Nat] /\ SumAll(Parts(total, w)) <= total
         /\ \A b \in D : w[b] = 0 => Parts(total, w)[b] = 0
<1>1. SumAll(w) # 0
  BY DEF Parts
<1>2. PICK some \in D : w[some] > 0
  BY <1>1, SomeWeight
<1> DEFINE T == D
<1>3. T \subseteq D /\ \A b \in D \ T : w[b] = 0
  OBVIOUS
<1> HIDE DEF T
<1> QED
  BY <1>2, <1>3, PartsAre

\* A rate of k to d takes no more than `most` of a sum.
Fits(k, sum, most, d) == k * sum <= most * d

LEMMA RatedAtMost ==
  ASSUME NEW D, IsFiniteSet(D), NEW w \in [D -> Nat], NEW k \in Nat, NEW d \in Nat \ {0},
         NEW most \in Nat, Fits(k, SumAll(w), most, d)
  PROVE  /\ Taken(w, k, d) \in [D -> Nat] /\ SumAll(Taken(w, k, d)) <= most
         /\ \A b \in D : w[b] = 0 => Taken(w, k, d)[b] = 0
<1> DEFINE f == Taken(w, k, d)
           T == D
<1>1. T \subseteq D /\ (\A b \in D \ T : w[b] = 0)
  OBVIOUS
<1> HIDE DEF T, f
<1>d. f \in [D -> Nat]
  BY <1>1, Rated DEF f
<1>e. \A b \in D : w[b] = 0 => f[b] = 0
  <2>1. 0 \div d = 0 /\ k * 0 = 0
    OBVIOUS
  <2> QED
    BY <2>1 DEF f, Taken
<1>a. f \in [D -> Nat] /\ \A b \in D : w[b] = 0 => f[b] = 0
  BY <1>d, <1>e
<1>b. SumAll(f) \in Nat /\ SumAll(w) \in Nat
  BY <1>a, SumAllIs
<1>c. SumAll(f) * d <= k * SumAll(w)
  BY <1>1, Rated DEF f
<1>2. /\ f \in [D -> Nat] /\ SumAll(f) \in Nat /\ SumAll(w) \in Nat
      /\ \A b \in D : w[b] = 0 => f[b] = 0
      /\ SumAll(f) * d <= k * SumAll(w)
  BY <1>a, <1>b, <1>c
<1>3. SumAll(f) * d <= most * d /\ most * d \in Nat /\ SumAll(f) * d \in Nat
  <2>1. k * SumAll(w) \in Nat /\ most * d \in Nat /\ SumAll(f) * d \in Nat
    BY <1>2
  <2>2. k * SumAll(w) <= most * d
    BY DEF Fits
  <2> QED
    BY <1>2, <2>1, <2>2
<1>4. ASSUME most + 1 <= SumAll(f) PROVE FALSE
  <2>1. (most + 1) * d <= SumAll(f) * d /\ (most + 1) * d = most * d + d
    BY <1>2, <1>4, ProductOrder, Successor
  <2> QED
    BY <1>3, <2>1
<1>5. SumAll(f) <= most
  BY <1>2, <1>4
<1> QED
  BY <1>2, <1>5 DEF f

LEMMA BothSideIsPlaced ==
  ASSUME NEW D, IsFiniteSet(D), D \subseteq Bins, D # {}, NEW activeId \in Bins, NEW inActive,
         inActive.x \in Nat, inActive.y \in Nat, NEW weights \in [D -> Nat],
         NEW x \in Nat, NEW y \in Nat,
         ToAmountBothSide(activeId, x, y, inActive, weights) # Throws
  PROVE  Placed(ToAmountBothSide(activeId, x, y, inActive, weights), D, activeId, x, y)
<1> DEFINE r == ToAmountBothSide(activeId, x, y, inActive, weights)
<1>1. /\ activeId \in Int /\ D \subseteq Int /\ DOMAIN weights = D
      /\ Min(D) \in Int /\ Max(D) \in Int /\ \A b \in D : Min(D) <= b /\ b <= Max(D)
  <2>1. MIN_BIN_ID \in Int /\ MAX_BIN_ID \in Int /\ D \subseteq MIN_BIN_ID .. MAX_BIN_ID
    BY RoomAssumption DEF Bins
  <2>2. /\ Min(D) \in D /\ \A b \in D : Min(D) <= b
        /\ Max(D) \in D /\ \A b \in D : b <= Max(D)
    BY <2>1, FirstAndLast
  <2>3. activeId \in Int /\ D \subseteq Int
    BY <2>1 DEF Bins
  <2>4. Min(D) \in Int /\ Max(D) \in Int
    BY <2>2, <2>3
  <2> QED
    BY <2>2, <2>3, <2>4
<1>2. NoAmount(D) \in [D -> Nat] /\ SumAll(NoAmount(D)) = 0 /\ \A b \in D : NoAmount(D)[b] = 0
  BY NothingIs DEF NoAmount
<1>3. CASE activeId > Max(D)
  <2> DEFINE parts == Parts(y, BidWeight(activeId, weights))
  <2>1. r = OnlyY(parts)
    BY <1>1, <1>3 DEF ToAmountBothSide, ToAmountBidSide
  <2>2. parts # Throws
    BY <2>1 DEF OnlyY
  <2>3. BidWeight(activeId, weights) \in [D -> Nat]
    BY <1>1, BidWeightIs
  <2>4. parts \in [D -> Nat] /\ SumAll(parts) <= y
    BY <2>2, <2>3, PartsUnlessThrown
  <2> HIDE DEF parts
  <2>5. r = [x |-> NoAmount(D), y |-> parts]
    BY <2>1, <2>2, <2>4 DEF OnlyY
  <2>6. \A b \in D : b <= activeId
    BY <1>1, <1>3
  <2> HIDE DEF r
  <2> QED
    BY <1>2, <2>4, <2>5, <2>6 DEF Placed, r
<1>4. CASE activeId < Min(D)
  <2> DEFINE parts == Parts(x, AskWeight(activeId, weights))
  <2>1. r = OnlyX(parts)
    BY <1>1, <1>4 DEF ToAmountBothSide, ToAmountAskSide
  <2>2. parts # Throws
    BY <2>1 DEF OnlyX
  <2>3. AskWeight(activeId, weights) \in [D -> Nat]
    BY <1>1, AskWeightIs
  <2>4. parts \in [D -> Nat] /\ SumAll(parts) <= x
    BY <2>2, <2>3, PartsUnlessThrown
  <2> HIDE DEF parts
  <2>5. r = [x |-> parts, y |-> NoAmount(D)]
    BY <2>1, <2>2, <2>4 DEF OnlyX
  <2>6. \A b \in D : b >= activeId
    BY <1>1, <1>4
  <2> HIDE DEF r
  <2> QED
    BY <1>2, <2>4, <2>5, <2>6 DEF Placed, r
<1>5. CASE ~(activeId > Max(D)) /\ ~(activeId < Min(D))
  <2> DEFINE w == BothWeights(activeId, inActive, weights)
             k == ScaleOf(x, SumAll(w.x), y, SumAll(w.y))
             xs == Taken(w.x, k[1], k[2])
             ys == Taken(w.y, k[1], k[2])
  <2>0. w.x \in [D -> Nat] /\ w.y \in [D -> Nat]
    BY BothWeightsAre
  <2>1. r = IF k[2] = 0 THEN Throws ELSE [x |-> xs, y |-> ys]
    BY <1>1, <1>5, <2>0 DEF ToAmountBothSide, Taken
  <2>2. k[2] # 0 /\ r = [x |-> xs, y |-> ys]
    BY <2>1
  <2>3. \A b \in D : (b < activeId => w.x[b] = 0) /\ (b > activeId => w.y[b] = 0)
    BY BothWeightsOneSided
  <2> HIDE DEF w, k, r
  <2>4. SumAll(w.x) \in Nat /\ SumAll(w.y) \in Nat
    BY <2>0, SumAllIs
  <2>5. k[1] \in Nat /\ k[2] \in Nat \ {0}
    BY <2>2, <2>4, ScaleIs DEF k
  <2>6. Fits(k[1], SumAll(w.x), x, k[2]) /\ Fits(k[1], SumAll(w.y), y, k[2])
    BY <2>2, <2>4, ScaleIs DEF k, Fits
  <2>7. xs \in [D -> Nat] /\ SumAll(xs) <= x /\ \A b \in D : w.x[b] = 0 => xs[b] = 0
    BY <2>0, <2>5, <2>6, RatedAtMost
  <2>8. ys \in [D -> Nat] /\ SumAll(ys) <= y /\ \A b \in D : w.y[b] = 0 => ys[b] = 0
    BY <2>0, <2>5, <2>6, RatedAtMost
  <2> HIDE DEF xs, ys
  <2>9. ASSUME NEW b \in D PROVE (xs[b] > 0 => b >= activeId) /\ (ys[b] > 0 => b <= activeId)
    <3>1. /\ b \in Int /\ activeId \in Int
          /\ (b < activeId => xs[b] = 0) /\ (b > activeId => ys[b] = 0)
      BY <1>1, <2>3, <2>7, <2>8
    <3> QED
      BY <3>1
  <2> QED
    BY <2>2, <2>7, <2>8, <2>9 DEF Placed, r
<1> QED
  BY <1>3, <1>4, <1>5

\* Weights are given to bins of the distribution only.
LEMMA WeightsAreNat ==
  ASSUME NEW D, D \subseteq Bins, IsFiniteSet(D), NEW x \in Nat, NEW y \in Nat, NEW bps,
         bps.x \in [D -> Nat], bps.y \in [D -> Nat]
  PROVE  \E E \in SUBSET D : ToWeightDistribution(x, y, bps) \in [E -> Nat]
<1> DEFINE quote == [b \in D |-> (x * bps.x[b] * Price[b]) \div (BASIS_POINT_MAX * SCALE)
                                 + ((y * bps.y[b]) \div BASIS_POINT_MAX)]
           total == SumAll(quote)
           weight(b) == (quote[b] * MAX_WEIGHT) \div total
           E == {b \in D : weight(b) > 0}
<1>1. ToWeightDistribution(x, y, bps) = IF total = 0 THEN <<>> ELSE [b \in E |-> weight(b)]
  BY DEF ToWeightDistribution
<1>2. /\ BASIS_POINT_MAX \in Nat \ {0} /\ SCALE \in Nat \ {0} /\ MAX_WEIGHT \in Nat
      /\ BASIS_POINT_MAX * SCALE \in Nat \ {0}
      /\ \A b \in D : Price[b] \in Nat /\ bps.x[b] \in Nat /\ bps.y[b] \in Nat
  BY PriceAssumption, WeightAssumption, PriceDivides
<1>3. ASSUME NEW b \in D PROVE quote[b] \in Nat
  <2> DEFINE m == x * bps.x[b] * Price[b]
             n == y * bps.y[b]
             d == BASIS_POINT_MAX * SCALE
             e == BASIS_POINT_MAX
  <2>1. x * bps.x[b] \in Nat /\ n \in Nat
    BY <1>2, Product
  <2>2. m \in Nat /\ n \in Nat /\ d \in Nat \ {0} /\ e \in Nat \ {0}
    BY <1>2, <2>1, Product
  <2>3. quote[b] = (m \div d) + (n \div e)
    OBVIOUS
  <2> HIDE DEF m, n, d, e, quote
  <2>4. m \div d \in Nat /\ n \div e \in Nat
    BY <2>2
  <2> QED
    BY <2>3, <2>4
<1>4. quote \in [D -> Nat]
  BY <1>3
<1> HIDE DEF quote
<1>5. total \in Nat
  BY <1>4, SumAllIs
<1> HIDE DEF total
<1>6. CASE total = 0
  <2>1. <<>> \in [{} -> Nat]
    OBVIOUS
  <2> QED
    BY <1>1, <1>6, <2>1
<1>7. CASE total # 0
  <2>1. ASSUME NEW b \in D PROVE weight(b) \in Nat
    <3> DEFINE m == quote[b] * MAX_WEIGHT
    <3>1. m \in Nat
      BY <1>2, <1>4, Product
    <3> HIDE DEF m
    <3>2. m \div total \in Nat
      BY <1>5, <1>7, <3>1
    <3> QED
      BY <3>2 DEF m
  <2> HIDE DEF weight
  <2>2. E \subseteq D /\ [b \in E |-> weight(b)] \in [E -> Nat]
    BY <2>1
  <2> QED
    BY <1>1, <1>7, <2>2
<1> QED
  BY <1>6, <1>7

\* What addLiquidityByWeight asks for, if it does not throw, is placed.
LEMMA WeightedIsPlaced ==
  ASSUME NEW lower, NEW upper, Span(lower, upper), NEW activeId \in Bins, NEW inActive,
         inActive.x \in Nat, inActive.y \in Nat, NEW x \in Nat, NEW y \in Nat, NEW weights,
         weights = ToWeightDistribution(x, y, CalculateSpotDistribution(activeId, lower, upper)),
         FromWeightDistributionToAmount(activeId, x, y, inActive, weights) # Throws
  PROVE  \E E : Placed(FromWeightDistributionToAmount(activeId, x, y, inActive, weights), E,
                       activeId, x, y)
<1> DEFINE D == lower .. upper
           r == FromWeightDistributionToAmount(activeId, x, y, inActive, weights)
<1>1. D \subseteq Bins /\ IsFiniteSet(D) /\ activeId \in Int
  BY SpanIs, RoomAssumption DEF Bins
<1>2. PICK E \in SUBSET D : weights \in [E -> Nat]
  <2>1. /\ CalculateSpotDistribution(activeId, lower, upper).x \in [D -> Nat]
        /\ CalculateSpotDistribution(activeId, lower, upper).y \in [D -> Nat]
    BY <1>1, SpotIsComplete
  <2> QED
    BY <1>1, <2>1, WeightsAreNat
<1>3. IsFiniteSet(E) /\ E \subseteq Bins
  BY <1>1, <1>2, FS_Subset
<1>4. CASE weights = <<>>
  <2>1. r = [x |-> <<>>, y |-> <<>>]
    BY <1>4 DEF FromWeightDistributionToAmount
  <2>2. DOMAIN weights = {} /\ weights \in [{} -> Nat]
    BY <1>4
  <2>3. IsFiniteSet({})
    BY FS_EmptySet
  <2>4. SumAll(weights) = 0
    BY <2>2, <2>3, SumAllIs, TotalOfNone
  <2>5. Placed([x |-> weights, y |-> weights], {}, activeId, x, y)
    BY <2>2, <2>4 DEF Placed
  <2> QED
    BY <1>4, <2>1, <2>5
<1>5. CASE weights # <<>>
  <2>1. r = ToAmountBothSide(activeId, x, y, inActive, weights)
    BY <1>5 DEF FromWeightDistributionToAmount
  <2>2. E # {}
    <3>1. ASSUME E = {} PROVE FALSE
      <4>1. weights = [b \in {} |-> weights[b]]
        BY <1>2, <3>1
      <4>2. [b \in {} |-> weights[b]] = <<>>
        OBVIOUS
      <4> QED
        BY <1>5, <4>1, <4>2
    <3> QED
      BY <3>1
  <2>3. ToAmountBothSide(activeId, x, y, inActive, weights) # Throws
    BY <2>1
  <2>4. Placed(ToAmountBothSide(activeId, x, y, inActive, weights), E, activeId, x, y)
    BY <1>2, <1>3, <2>2, <2>3, BothSideIsPlaced
  <2> QED
    BY <2>1, <2>4
<1> QED
  BY <1>4, <1>5

\* Strategies weigh every bin.
LEMMA StrategyWeighsAll ==
  ASSUME NEW lower \in Int, NEW upper \in Int, NEW strategy \in {"Spot", "Curve", "BidAsk"}
  PROVE  /\ BidWeights(strategy, lower, upper) \in [lower .. upper -> Nat \ {0}]
         /\ AskWeights(strategy, lower, upper) \in [lower .. upper -> Nat \ {0}]
<1>1. \A b \in lower .. upper : upper - b + 1 \in Nat \ {0} /\ b - lower + 1 \in Nat \ {0}
  OBVIOUS
<1>2. /\ ToWeightSpotBalanced(lower, upper) \in [lower .. upper -> Nat \ {0}]
      /\ ToWeightDescendingOrder(lower, upper) \in [lower .. upper -> Nat \ {0}]
      /\ ToWeightAscendingOrder(lower, upper) \in [lower .. upper -> Nat \ {0}]
  BY <1>1 DEF ToWeightSpotBalanced, ToWeightDescendingOrder, ToWeightAscendingOrder
<1>3. CASE strategy = "Spot"
  BY <1>2, <1>3 DEF BidWeights, AskWeights
<1>4. CASE strategy = "Curve"
  BY <1>2, <1>4 DEF BidWeights, AskWeights
<1>5. CASE strategy = "BidAsk"
  BY <1>2, <1>5 DEF BidWeights, AskWeights
<1> QED
  BY <1>3, <1>4, <1>5

\* Parts of a total over D, less than a unit a bin below it.
Shared(parts, D, total) ==
  /\ parts \in [D -> Nat] /\ SumAll(parts) \in Nat
  /\ SumAll(parts) <= total /\ total - SumAll(parts) < Cardinality(D)

LEMMA PartsOfAll ==
  ASSUME NEW D, IsFiniteSet(D), D # {}, NEW w \in [D -> Nat], \A b \in D : w[b] > 0,
         NEW total \in Nat
  PROVE  Shared(Parts(total, w), D, total)
<1>1. PICK some \in D : w[some] > 0
  OBVIOUS
<1> DEFINE T == D
<1>2. T \subseteq D /\ \A b \in D \ T : w[b] = 0
  OBVIOUS
<1> HIDE DEF T
<1>3. Parts(total, w) \in [D -> Nat]
  BY <1>1, <1>2, PartsAre
<1>4. SumAll(Parts(total, w)) <= total
  BY <1>1, <1>2, PartsAre
<1>5. total - SumAll(Parts(total, w)) < Cardinality(T)
  BY <1>1, <1>2, PartsAre
<1>6. SumAll(Parts(total, w)) \in Nat
  BY <1>3, SumAllIs
<1> QED
  BY <1>3, <1>4, <1>5, <1>6 DEF Shared, T

LEMMA BidsAreShared ==
  ASSUME NEW lower, NEW last, Span(lower, last), NEW activeId \in Int, last <= activeId,
         NEW strategy \in {"Spot", "Curve", "BidAsk"}, NEW y \in Nat
  PROVE  Shared(ToAmountBidSide(activeId, y, BidWeights(strategy, lower, last)), lower .. last, y)
<1> DEFINE D == lower .. last
           weights == BidWeights(strategy, lower, last)
           w == BidWeight(activeId, weights)
<1>1. /\ lower \in Int /\ last \in Int /\ D \subseteq Bins /\ D # {} /\ IsFiniteSet(D)
      /\ \A b \in D : b <= activeId
  BY SpanIs
<1>2. weights \in [D -> Nat \ {0}]
  BY <1>1, StrategyWeighsAll
<1>3. ToAmountBidSide(activeId, y, weights) = Parts(y, w)
  BY DEF ToAmountBidSide
<1> HIDE DEF weights, D
<1>4. weights \in [D -> Nat] /\ \A b \in D : weights[b] > 0
  BY <1>2
<1>5. w \in [D -> Nat] /\ \A b \in D : w[b] > 0
  BY <1>1, <1>4, BidWeightIs
<1> HIDE DEF w
<1>6. Shared(Parts(y, w), D, y)
  BY <1>1, <1>5, PartsOfAll
<1> QED
  BY <1>3, <1>6 DEF weights, D

LEMMA AsksAreShared ==
  ASSUME NEW first, NEW upper, Span(first, upper), NEW activeId \in Int, activeId <= first,
         NEW strategy \in {"Spot", "Curve", "BidAsk"}, NEW x \in Nat
  PROVE  Shared(ToAmountAskSide(activeId, x, AskWeights(strategy, first, upper)), first .. upper, x)
<1> DEFINE D == first .. upper
           weights == AskWeights(strategy, first, upper)
           w == AskWeight(activeId, weights)
<1>1. /\ first \in Int /\ upper \in Int /\ D \subseteq Bins /\ D # {} /\ IsFiniteSet(D)
      /\ \A b \in D : b >= activeId
  BY SpanIs
<1>2. weights \in [D -> Nat \ {0}]
  BY <1>1, StrategyWeighsAll
<1>3. ToAmountAskSide(activeId, x, weights) = Parts(x, w)
  BY DEF ToAmountAskSide
<1> HIDE DEF weights, D
<1>4. weights \in [D -> Nat] /\ \A b \in D : weights[b] > 0
  BY <1>2
<1>5. w \in [D -> Nat] /\ \A b \in D : w[b] > 0
  BY <1>1, <1>4, AskWeightIs
<1> HIDE DEF w
<1>6. Shared(Parts(x, w), D, x)
  BY <1>1, <1>5, PartsOfAll
<1> QED
  BY <1>3, <1>6 DEF weights, D

\* Amounts of some bins, spread over more.
Spread(parts, T, D) == [b \in D |-> IF b \in T THEN parts[b] ELSE 0]

LEMMA Extended ==
  ASSUME NEW D, IsFiniteSet(D), NEW T \in SUBSET D, NEW parts, NEW total \in Nat,
         T = {} \/ Shared(parts, T, total)
  PROVE  /\ Spread(parts, T, D) \in [D -> Nat] /\ SumAll(Spread(parts, T, D)) \in Nat
         /\ SumAll(Spread(parts, T, D)) <= total
         /\ T # {} => total - SumAll(Spread(parts, T, D)) < Cardinality(T)
<1> DEFINE g == Spread(parts, T, D)
<1>1. g \in [D -> Nat]
  BY DEF Shared, Spread
<1>2. \A b \in T : g[b] = parts[b]
  BY DEF Spread
<1>3. \A b \in D \ T : g[b] = 0
  BY DEF Spread
<1> HIDE DEF g
<1>4. SumAll(g) = Total(g, D) /\ SumAll(g) \in Nat
  BY <1>1, SumAllIs
<1>5. Total(g, T) = Total(g, D)
  BY <1>1, <1>3, TotalOfSupport
<1>6. CASE T = {}
  BY <1>1, <1>4, <1>5, <1>6, TotalOfNone DEF g
<1>7. CASE T # {}
  <2>1. Shared(parts, T, total) /\ IsFiniteSet(T)
    BY <1>7, FS_Subset
  <2>2. SumAll(parts) = Total(parts, T)
    BY <2>1, SumAllIs DEF Shared
  <2>3. Total(g, T) = Total(parts, T)
    BY <1>2, TotalOfSame
  <2> QED
    BY <1>1, <1>4, <1>5, <2>1, <2>2, <2>3 DEF Shared, g
<1> QED
  BY <1>6, <1>7

\* No amounts are an exception.
LEMMA AmountsAreNot ==
  ASSUME NEW D \in SUBSET Bins, NEW xs \in [D -> Nat], NEW ys \in [D -> Nat]
  PROVE  xs # Throws /\ ys # Throws /\ [x |-> xs, y |-> ys] # Throws
<1>1. Throws \notin Nat \cup [D -> Nat] \cup [x : [D -> Nat], y : [D -> Nat]]
  BY ThrowsAssumption
<1>2. [x |-> xs, y |-> ys] \in [x : [D -> Nat], y : [D -> Nat]]
  OBVIOUS
<1> QED
  BY <1>1, <1>2

\* A deposit by strategy is placed, and of a token that some bin takes it leaves
\* less than a unit for each bin of the token's side.
Spent(r, D, activeId, x, y) ==
  /\ r # Throws /\ Placed(r, D, activeId, x, y)
  /\ SumAll(r.x) \in Nat /\ SumAll(r.y) \in Nat
  /\ (\E b \in D : b < activeId \/ (b = activeId /\ y > 0)) =>
       y - SumAll(r.y) < Cardinality({b \in D : b <= activeId})
  /\ (\E b \in D : b > activeId \/ (b = activeId /\ ~(y > 0))) =>
       x - SumAll(r.x) < Cardinality({b \in D : b >= activeId})

LEMMA StrategySpendsBelow ==
  ASSUME NEW lower, NEW upper, Span(lower, upper), NEW activeId \in Int, upper < activeId,
         NEW inActive, NEW x \in Nat, NEW y \in Nat, NEW strategy \in {"Spot", "Curve", "BidAsk"}
  PROVE  Spent(ToAmountsBothSideByStrategy(activeId, lower, upper, x, y, inActive, strategy),
               lower .. upper, activeId, x, y)
<1> DEFINE D == lower .. upper
           weights == BidWeights(strategy, lower, upper)
           parts == ToAmountBidSide(activeId, y, weights)
           r == ToAmountsBothSideByStrategy(activeId, lower, upper, x, y, inActive, strategy)
<1>0. /\ lower \in Int /\ upper \in Int /\ D \in SUBSET Bins /\ IsFiniteSet(D)
      /\ Max(D) = upper /\ Min(D) = lower /\ lower <= upper
  <2>1. lower <= upper
    BY DEF Span
  <2> QED
    BY <2>1, SpanIs
<1>1. /\ lower \in Int /\ upper \in Int /\ lower <= upper /\ D \in SUBSET Bins /\ IsFiniteSet(D)
      /\ Max(D) = upper /\ Min(D) = lower /\ {b \in D : b <= activeId} = D
      /\ \A b \in D : b < activeId
  <2>1. \A b \in D : b < activeId /\ b <= activeId
    BY <1>0
  <2> HIDE DEF D
  <2> QED
    BY <1>0, <2>1
<1>2. Shared(parts, D, y)
  BY <1>1, BidsAreShared
<1>3. NoAmount(D) \in [D -> Nat] /\ SumAll(NoAmount(D)) = 0 /\ \A b \in D : NoAmount(D)[b] = 0
  BY <1>1, NothingIs DEF NoAmount
<1>4. DOMAIN weights = D
  BY <1>1, StrategyWeighsAll
<1>5. r = OnlyY(parts)
  <2>1. r = ToAmountBothSide(activeId, x, y, inActive, weights)
    BY <1>1 DEF ToAmountsBothSideByStrategy
  <2> HIDE DEF D, weights, parts, r
  <2>2. activeId > Max(DOMAIN weights) /\ ~(activeId < Min(DOMAIN weights))
    BY <1>1, <1>4
  <2> QED
    BY <2>1, <2>2 DEF ToAmountBothSide, parts
<1> HIDE DEF r, parts, D
<1>6. parts \in [D -> Nat]
  BY <1>2 DEF Shared
<1>7. r = [x |-> NoAmount(D), y |-> parts] /\ r # Throws
  BY <1>1, <1>3, <1>5, <1>6, AmountsAreNot DEF OnlyY
<1>8. \A b \in D : ~(b > activeId) /\ b # activeId
  BY <1>1 DEF D
<1>9. Placed(r, D, activeId, x, y)
  BY <1>1, <1>2, <1>3, <1>7 DEF Placed, Shared
<1>10. y - SumAll(parts) < Cardinality({b \in D : b <= activeId})
  BY <1>1, <1>2 DEF Shared
<1> QED
  BY <1>2, <1>3, <1>7, <1>8, <1>9, <1>10 DEF Spent, Shared, D, r

LEMMA StrategySpendsAbove ==
  ASSUME NEW lower, NEW upper, Span(lower, upper), NEW activeId \in Int, activeId < lower,
         NEW inActive, NEW x \in Nat, NEW y \in Nat, NEW strategy \in {"Spot", "Curve", "BidAsk"}
  PROVE  Spent(ToAmountsBothSideByStrategy(activeId, lower, upper, x, y, inActive, strategy),
               lower .. upper, activeId, x, y)
<1> DEFINE D == lower .. upper
           weights == AskWeights(strategy, lower, upper)
           parts == ToAmountAskSide(activeId, x, weights)
           r == ToAmountsBothSideByStrategy(activeId, lower, upper, x, y, inActive, strategy)
<1>0. /\ lower \in Int /\ upper \in Int /\ D \in SUBSET Bins /\ IsFiniteSet(D)
      /\ Max(D) = upper /\ Min(D) = lower /\ lower <= upper
  <2>1. lower <= upper
    BY DEF Span
  <2> QED
    BY <2>1, SpanIs
<1>1. /\ lower \in Int /\ upper \in Int /\ lower <= upper /\ D \in SUBSET Bins /\ IsFiniteSet(D)
      /\ Max(D) = upper /\ Min(D) = lower /\ {b \in D : b >= activeId} = D
      /\ \A b \in D : activeId < b
  <2>1. \A b \in D : activeId < b /\ b >= activeId
    BY <1>0
  <2> HIDE DEF D
  <2> QED
    BY <1>0, <2>1
<1>2. Shared(parts, D, x)
  BY <1>1, AsksAreShared
<1>3. NoAmount(D) \in [D -> Nat] /\ SumAll(NoAmount(D)) = 0 /\ \A b \in D : NoAmount(D)[b] = 0
  BY <1>1, NothingIs DEF NoAmount
<1>4. DOMAIN weights = D
  BY <1>1, StrategyWeighsAll
<1>5. r = OnlyX(parts)
  <2>1. r = ToAmountBothSide(activeId, x, y, inActive, weights)
    BY <1>1 DEF ToAmountsBothSideByStrategy
  <2> HIDE DEF D, weights, parts, r
  <2>2. ~(activeId > Max(DOMAIN weights)) /\ activeId < Min(DOMAIN weights)
    BY <1>1, <1>4
  <2> QED
    BY <2>1, <2>2 DEF ToAmountBothSide, parts
<1> HIDE DEF r, parts, D
<1>6. parts \in [D -> Nat]
  BY <1>2 DEF Shared
<1>7. r = [x |-> parts, y |-> NoAmount(D)] /\ r # Throws
  BY <1>1, <1>3, <1>5, <1>6, AmountsAreNot DEF OnlyX
<1>8. \A b \in D : ~(b < activeId) /\ b # activeId
  BY <1>1 DEF D
<1>9. Placed(r, D, activeId, x, y)
  BY <1>1, <1>2, <1>3, <1>7 DEF Placed, Shared
<1>10. x - SumAll(parts) < Cardinality({b \in D : b >= activeId})
  BY <1>1, <1>2 DEF Shared
<1> QED
  BY <1>2, <1>3, <1>7, <1>8, <1>9, <1>10 DEF Spent, Shared, D, r

LEMMA StrategySpendsAround ==
  ASSUME NEW lower, NEW upper, Span(lower, upper), NEW activeId \in lower .. upper,
         NEW inActive, NEW x \in Nat, NEW y \in Nat, NEW strategy \in {"Spot", "Curve", "BidAsk"}
  PROVE  Spent(ToAmountsBothSideByStrategy(activeId, lower, upper, x, y, inActive, strategy),
               lower .. upper, activeId, x, y)
<1> DEFINE D == lower .. upper
           last == LastBid(activeId, y)
           below == lower .. last
           above == last + 1 .. upper
           bids == ToAmountBidSide(activeId, y, BidWeights(strategy, lower, last))
           asks == ToAmountAskSide(activeId, x, AskWeights(strategy, last + 1, upper))
           xs == Spread(asks, above, D)
           ys == Spread(bids, below, D)
           r == ToAmountsBothSideByStrategy(activeId, lower, upper, x, y, inActive, strategy)
<1>1. /\ lower \in Int /\ upper \in Int /\ lower <= upper /\ D \in SUBSET Bins /\ IsFiniteSet(D)
      /\ activeId \in Int /\ lower <= activeId /\ activeId <= upper
  <2>1. lower \in Int /\ upper \in Int /\ D \in SUBSET Bins /\ IsFiniteSet(D)
    BY SpanIs
  <2>2. lower <= upper
    BY DEF Span
  <2> QED
    BY <2>1, <2>2
<1>2. last \in Int /\ last = IF y = 0 THEN activeId - 1 ELSE activeId
  BY <1>1 DEF LastBid
<1>3. r = [x |-> [b \in D |-> IF b > last THEN asks[b] ELSE 0],
           y |-> [b \in D |-> IF b <= last THEN bids[b] ELSE 0]]
  BY <1>1 DEF ToAmountsBothSideByStrategy
<1> HIDE DEF last, bids, asks
<1>4. below \in SUBSET D /\ above \in SUBSET D
  BY <1>1, <1>2
<1>5. below = {} \/ Shared(bids, below, y)
  <2>1. CASE lower <= last
    <3>1. Span(lower, last) /\ last <= activeId
      BY <1>1, <1>2, <2>1 DEF Span
    <3> QED
      BY <1>1, <3>1, BidsAreShared DEF bids
  <2> QED
    BY <1>1, <1>2, <2>1
<1>6. above = {} \/ Shared(asks, above, x)
  <2>1. CASE last + 1 <= upper
    <3>1. Span(last + 1, upper) /\ activeId <= last + 1
      BY <1>1, <1>2, <2>1 DEF Span
    <3> QED
      BY <1>1, <3>1, AsksAreShared DEF asks
  <2> QED
    BY <1>1, <1>2, <2>1
<1>7. r = [x |-> xs, y |-> ys]
  <2>1. \A b \in D : (b > last <=> b \in above) /\ (b <= last <=> b \in below)
    BY <1>1, <1>2
  <2> HIDE DEF below, above, D, r
  <2> QED
    BY <1>3, <2>1 DEF Spread
<1>8. /\ \A b \in D \ above : xs[b] = 0
      /\ \A b \in D \ below : ys[b] = 0
  BY DEF Spread
<1>9. /\ xs \in [D -> Nat] /\ SumAll(xs) \in Nat /\ SumAll(xs) <= x
      /\ above # {} => x - SumAll(xs) < Cardinality(above)
  <2> HIDE DEF D, above
  <2> QED
    BY <1>1, <1>4, <1>6, Extended
<1>10. /\ ys \in [D -> Nat] /\ SumAll(ys) \in Nat /\ SumAll(ys) <= y
       /\ below # {} => y - SumAll(ys) < Cardinality(below)
  <2> HIDE DEF D, below
  <2> QED
    BY <1>1, <1>4, <1>5, Extended
<1>11. \A b \in D : (xs[b] > 0 => b >= activeId) /\ (ys[b] > 0 => b <= activeId)
  <2> SUFFICES ASSUME NEW b \in D
               PROVE  (xs[b] > 0 => b >= activeId) /\ (ys[b] > 0 => b <= activeId)
    OBVIOUS
  <2>1. /\ b \in Int /\ (b \in above => b >= activeId) /\ (b \in below => b <= activeId)
        /\ (b \notin above => xs[b] = 0) /\ (b \notin below => ys[b] = 0)
    BY <1>1, <1>2, <1>8
  <2> HIDE DEF xs, ys, above, below
  <2> QED
    BY <2>1
<1> DEFINE under == {b \in D : b <= activeId}
           over == {b \in D : b >= activeId}
<1>12. /\ below \subseteq under /\ above \subseteq over /\ IsFiniteSet(under) /\ IsFiniteSet(over)
       /\ Cardinality(below) <= Cardinality(under) /\ Cardinality(above) <= Cardinality(over)
       /\ Cardinality(below) \in Nat /\ Cardinality(above) \in Nat
       /\ Cardinality(under) \in Nat /\ Cardinality(over) \in Nat
  <2>1. below \subseteq under /\ above \subseteq over /\ under \subseteq D /\ over \subseteq D
    BY <1>1, <1>2, <1>4
  <2> HIDE DEF D, below, above, under, over
  <2>2. IsFiniteSet(under) /\ IsFiniteSet(over)
    BY <1>1, <2>1, FS_Subset
  <2> QED
    BY <2>1, <2>2, FS_Subset, FS_CardinalityType
<1>13. ASSUME NEW b \in D, b < activeId \/ (b = activeId /\ y > 0)
       PROVE  y - SumAll(ys) < Cardinality(under)
  <2>1. lower <= last
    BY <1>1, <1>2, <1>13
  <2>2. lower \in below
    BY <1>1, <1>2, <2>1
  <2> HIDE DEF below, under, ys
  <2> QED
    BY <1>10, <1>12, <2>2
<1>14. ASSUME NEW b \in D, b > activeId \/ (b = activeId /\ ~(y > 0))
       PROVE  x - SumAll(xs) < Cardinality(over)
  <2>1. last + 1 <= upper
    BY <1>1, <1>2, <1>14
  <2>2. upper \in above
    BY <1>1, <1>2, <2>1
  <2> HIDE DEF above, over, xs
  <2> QED
    BY <1>9, <1>12, <2>2
<1> HIDE DEF xs, ys, under, over, D, r
<1>15. r # Throws
  BY <1>1, <1>7, <1>9, <1>10, AmountsAreNot
<1>16. Placed(r, D, activeId, x, y)
  BY <1>7, <1>9, <1>10, <1>11 DEF Placed
<1>17. Spent(r, D, activeId, x, y)
  BY <1>7, <1>9, <1>10, <1>13, <1>14, <1>15, <1>16 DEF Spent, under, over
<1> QED
  BY <1>17 DEF r, D

\* No deposit asks for more than there is or puts a token where the pool does
\* not take it, and a deposit by strategy leaves only what rounding leaves.
THEOREM DepositsKeepTheBudget == Spec => []DepositsTheBudget
<1>1. ResultOfCall => DepositsTheBudget
  <2> SUFFICES ASSUME ResultOfCall PROVE DepositsTheBudget
    OBVIOUS
  <2>1. ASSUME ReturnedOf("weight") \/ ReturnedOf("strategy")
        PROVE  /\ Span(call.lower, call.upper) /\ call.activeId \in Bins /\ call.activeId \in Int
               /\ call.amountX \in Nat /\ call.amountY \in Nat
               /\ call.inActive.x \in Nat /\ call.inActive.y \in Nat
               /\ call.strategy \in {"Spot", "Curve", "BidAsk"}
    BY <2>1, CallsAssumption, RoomAssumption DEF ResultOfCall, ReturnedOf, Span, Bins
  <2>2. ASSUME NEW r, NEW D, Placed(r, D, call.activeId, call.amountX, call.amountY)
        PROVE  Within(r, call.amountX, call.amountY)
    <3>1. DOMAIN r.x = D
      BY <2>2 DEF Placed
    <3> QED
      BY <2>2, <3>1 DEF Placed, Within
  <2>3. ASSUME ReturnedOf("weight"), result # Throws
        PROVE  Within(result, call.amountX, call.amountY)
    <3> DEFINE weights == ToWeightDistribution(call.amountX, call.amountY,
                            CalculateSpotDistribution(call.activeId, call.lower, call.upper))
    <3>1. result = FromWeightDistributionToAmount(call.activeId, call.amountX, call.amountY,
                                                  call.inActive, weights)
      BY <2>3 DEF ResultOfCall, Weighted
    <3> HIDE DEF weights
    <3>2. \E E : Placed(result, E, call.activeId, call.amountX, call.amountY)
      BY <2>1, <2>3, <3>1, WeightedIsPlaced DEF weights
    <3> QED
      BY <2>2, <3>2
  <2>4. ASSUME ReturnedOf("strategy")
        PROVE  Spent(result, DepositBins, call.activeId, call.amountX, call.amountY)
    <3>1. result = ToAmountsBothSideByStrategy(call.activeId, call.lower, call.upper,
                     call.amountX, call.amountY, call.inActive, call.strategy)
      BY <2>4 DEF ResultOfCall, Strategic
    <3>2. call.lower \in Int /\ call.upper \in Int
      BY <2>1, <2>4, SpanIs
    <3>3. CASE call.upper < call.activeId
      BY <2>1, <2>4, <3>1, <3>3, StrategySpendsBelow DEF DepositBins
    <3>4. CASE call.activeId < call.lower
      BY <2>1, <2>4, <3>1, <3>4, StrategySpendsAbove DEF DepositBins
    <3>5. CASE call.activeId \in call.lower .. call.upper
      BY <2>1, <2>4, <3>1, <3>5, StrategySpendsAround DEF DepositBins
    <3> QED
      BY <2>1, <2>4, <3>2, <3>3, <3>4, <3>5
  <2>5. ASSUME ReturnedOf("strategy")
        PROVE  result # Throws /\ Within(result, call.amountX, call.amountY)
    BY <2>2, <2>4, <2>5 DEF Spent
  <2>6. ASSUME ReturnedOf("strategy"), NEW b \in DepositBins,
               b < call.activeId \/ (b = call.activeId /\ call.amountY > 0)
        PROVE  call.amountY - SumAll(result.y) < Side(TRUE)
    <3>1. Side(TRUE) = Cardinality({a \in DepositBins : a <= call.activeId})
      BY DEF Side
    <3> QED
      BY <2>4, <2>6, <3>1 DEF Spent
  <2>7. ASSUME ReturnedOf("strategy"), NEW b \in DepositBins,
               b > call.activeId \/ (b = call.activeId /\ ~(call.amountY > 0))
        PROVE  call.amountX - SumAll(result.x) < Side(FALSE)
    <3>1. Side(FALSE) = Cardinality({a \in DepositBins : a >= call.activeId})
      BY DEF Side
    <3> QED
      BY <2>4, <2>7, <3>1 DEF Spent
  <2> QED
    BY <2>3, <2>5, <2>6, <2>7 DEF DepositsTheBudget
<1> QED
  BY <1>1, ResultsHold, PTL

-----------------------------------------------------------------------------
(***************************************************************************)
(* Deposits of an amount and the one filled in.                            *)
(***************************************************************************)
\* Balanced weights are positive, and given to every bin.
LEMMA BalancedWeighsAll ==
  ASSUME NEW lower, NEW upper, Span(lower, upper), NEW activeId \in Int,
         NEW strategy \in {"Spot", "Curve", "BidAsk"},
         activeId \in lower .. upper \/ strategy = "Spot"
  PROVE  BalancedWeights(strategy, lower, upper, activeId) \in [lower .. upper -> Nat \ {0}]
<1> DEFINE D == lower .. upper
           spread == DEFAULT_MAX_WEIGHT - DEFAULT_MIN_WEIGHT
           step(width) == IF width > 0 THEN spread \div width ELSE 0
           away(b) == IF b < activeId THEN (activeId - b) * step(activeId - lower)
                      ELSE (b - activeId) * step(upper - activeId)
           weights == BalancedWeights(strategy, lower, upper, activeId)
<1>1. lower \in Int /\ upper \in Int
  BY SpanIs
<1>2. /\ spread \in Nat /\ DEFAULT_MIN_WEIGHT \in Nat \ {0}
      /\ DEFAULT_MAX_WEIGHT = DEFAULT_MIN_WEIGHT + spread
  BY WeightAssumption
<1>3. CASE strategy = "Spot"
  <2>1. weights = [b \in D |-> 1]
    BY <1>3 DEF BalancedWeights, ToWeightSpotBalanced
  <2> QED
    BY <2>1
<1>4. CASE strategy # "Spot"
  <2>1. activeId \in lower .. upper
    BY <1>4
  <2>2. weights = [b \in D |-> IF strategy = "Curve" THEN DEFAULT_MAX_WEIGHT - away(b)
                               ELSE DEFAULT_MIN_WEIGHT + away(b)]
    BY <1>4, <2>1 DEF BalancedWeights
  <2> HIDE DEF spread
  <2>3. ASSUME NEW width \in Nat, NEW distance \in 0 .. width
        PROVE  distance * step(width) \in 0 .. spread
    <3>1. CASE width = 0
      <4>1. distance = 0 /\ step(width) = 0
        BY <2>3, <3>1
      <4> QED
        BY <1>2, <4>1
    <3>2. CASE width # 0
      <4> DEFINE q == spread \div width
      <4>1. q \in Nat /\ q * width <= spread
        BY <1>2, <3>2, Quotient
      <4>2. step(width) = q
        BY <3>2
      <4> HIDE DEF q
      <4>3. distance * q <= width * q /\ distance * q \in Nat /\ width * q = q * width
        BY <4>1, ProductOrder
      <4> QED
        BY <1>2, <4>1, <4>2, <4>3
    <3> QED
      BY <3>1, <3>2
  <2> HIDE DEF step
  <2>4. ASSUME NEW b \in D PROVE away(b) \in 0 .. spread
    <3>1. CASE b < activeId
      <4>1. activeId - lower \in Nat /\ activeId - b \in 0 .. activeId - lower
        BY <1>1, <2>1, <3>1
      <4>2. (activeId - b) * step(activeId - lower) \in 0 .. spread
        BY <2>3, <4>1
      <4> QED
        BY <3>1, <4>2
    <3>2. CASE ~(b < activeId)
      <4>1. upper - activeId \in Nat /\ b - activeId \in 0 .. upper - activeId
        BY <1>1, <2>1, <3>2
      <4>2. (b - activeId) * step(upper - activeId) \in 0 .. spread
        BY <2>3, <4>1
      <4> QED
        BY <3>2, <4>2
    <3> QED
      BY <3>1, <3>2
  <2> HIDE DEF away, weights
  <2>5. \A b \in D : /\ DEFAULT_MAX_WEIGHT - away(b) \in Nat \ {0}
                     /\ DEFAULT_MIN_WEIGHT + away(b) \in Nat \ {0}
    BY <1>2, <2>4
  <2> QED
    BY <2>2, <2>5 DEF weights
<1> QED
  BY <1>3, <1>4

\* A token taken at its own rate leaves no more than a unit a bin.
LEMMA OwnRateLeaves ==
  ASSUME NEW a \in Nat, NEW d \in Nat \ {0}, NEW s \in Nat, NEW n \in Nat, NEW other \in Nat,
         a * d <= s * d + (d - 1) * n
  PROVE  (a - s - n) * other < d
<1>1. ASSUME a >= s + n + 1 PROVE FALSE
  <2>1. (s + n + 1) * d <= a * d
    BY <1>1, ProductOrder
  <2>2. (s + n + 1) * d = s * d + n * d + d /\ (d - 1) * n = n * d - n
    OBVIOUS
  <2>3. a * d \in Nat /\ s * d \in Nat /\ n * d \in Nat
    OBVIOUS
  <2> QED
    BY <2>1, <2>2, <2>3
<1> DEFINE rest == a - s - n
<1>2. rest \in Int /\ rest <= 0
  BY <1>1
<1> HIDE DEF rest
<1>3. rest * other <= 0 * other /\ 0 * other = 0 /\ rest * other \in Int
  BY <1>2, ProductOrder
<1>4. rest * other < d
  BY <1>3
<1> QED
  BY <1>4 DEF rest

\* One taken at the rate of the other amount, o of t, leaves that and what the
\* fill rounded off.
LEMMA OtherRateLeaves ==
  ASSUME NEW a \in Nat, NEW w \in Nat \ {0}, NEW o \in Nat, NEW t \in Nat \ {0}, NEW s \in Nat,
         NEW n \in Nat, a * t < o * w + w, o * w <= s * t + (t - 1) * n
  PROVE  (a - s - n) * t < w
<1>1. /\ a * t \in Nat /\ o * w \in Nat /\ s * t \in Nat /\ n * t \in Nat
      /\ (t - 1) * n = n * t - n /\ (a - s - n) * t = a * t - s * t - n * t
  OBVIOUS
<1> DEFINE at == a * t
           ow == o * w
           st == s * t
           nt == n * t
<1>2. /\ at \in Nat /\ ow \in Nat /\ st \in Nat /\ nt \in Nat
      /\ at < ow + w /\ ow <= st + (nt - n)
      /\ (a - s - n) * t = at - st - nt
  BY <1>1
<1> HIDE DEF at, ow, st, nt
<1>3. at - st - nt < w
  BY <1>2
<1> QED
  BY <1>2, <1>3

\* Both amounts in the proportion of the weights, up to the unit rounded off.
Matched(x, ty, y, tx) == x * ty < y * tx + tx /\ y * tx < x * ty + ty

LEMMA FilledMatches ==
  ASSUME NEW amount \in Nat, NEW total \in Nat \ {0}, NEW other \in Nat \ {0}, NEW unit
  PROVE  /\ AutoFill(amount, total, other, unit) \in Nat
         /\ Matched(amount, other, AutoFill(amount, total, other, unit), total)
<1> DEFINE n == amount * other
           q == n \div total
<1>1. n \in Nat
  OBVIOUS
<1>2. AutoFill(amount, total, other, unit) = q
  BY DEF AutoFill
<1> HIDE DEF n
<1>3. q \in Nat /\ q * total <= n /\ n < q * total + total
  BY <1>1, Quotient
<1> HIDE DEF q
<1>4. q * total \in Nat
  BY <1>3
<1>5. n < q * total + total /\ q * total < n + other
  BY <1>1, <1>3, <1>4
<1> QED
  BY <1>2, <1>3, <1>5 DEF Matched, n

\* What both sides leave at the smaller of the two rates.
LEMMA SmallerRateLeaves ==
  ASSUME NEW D, IsFiniteSet(D), NEW wx \in [D -> Nat], NEW wy \in [D -> Nat],
         NEW tx \in Nat \ {0}, NEW ty \in Nat \ {0}, tx = SumAll(wx), ty = SumAll(wy),
         NEW T, T \subseteq D, \A b \in D \ T : wx[b] = 0,
         NEW U, U \subseteq D, \A b \in D \ U : wy[b] = 0,
         NEW x \in Nat, NEW y \in Nat, Matched(x, ty, y, tx),
         NEW k \in Nat, NEW d \in Nat, <<k, d>> = ScaleOf(x, tx, y, ty)
  PROVE  /\ (x - SumAll(Taken(wx, k, d)) - Cardinality(T)) * ty < tx
         /\ (y - SumAll(Taken(wy, k, d)) - Cardinality(U)) * tx < ty
<1> DEFINE sx == SumAll(Taken(wx, k, d))
           sy == SumAll(Taken(wy, k, d))
           nx == Cardinality(T)
           ny == Cardinality(U)
<1>1. nx \in Nat /\ ny \in Nat
  BY FS_Subset, FS_CardinalityType
<1>2. (k = x /\ d = tx) \/ (k = y /\ d = ty)
  BY DEF ScaleOf
<1>3. d \in Nat \ {0}
  BY <1>2
<1>4. sx \in Nat /\ k * tx <= sx * d + (d - 1) * nx
  <2>1. \A S : S \subseteq D /\ (\A b \in D \ S : wx[b] = 0) =>
          /\ SumAll(Taken(wx, k, d)) \in Nat
          /\ k * SumAll(wx) <= SumAll(Taken(wx, k, d)) * d + (d - 1) * Cardinality(S)
    BY <1>3, Rated
  <2> QED
    BY <2>1
<1>5. sy \in Nat /\ k * ty <= sy * d + (d - 1) * ny
  <2>1. \A S : S \subseteq D /\ (\A b \in D \ S : wy[b] = 0) =>
          /\ SumAll(Taken(wy, k, d)) \in Nat
          /\ k * SumAll(wy) <= SumAll(Taken(wy, k, d)) * d + (d - 1) * Cardinality(S)
    BY <1>3, Rated
  <2> QED
    BY <2>1
<1> HIDE DEF sx, sy, nx, ny
<1>6. x * ty < y * tx + tx /\ y * tx < x * ty + ty
  BY DEF Matched
<1>7. CASE k = x /\ d = tx
  <2>1. (x - sx - nx) * ty < tx
    BY <1>1, <1>4, <1>7, OwnRateLeaves
  <2>2. (y - sy - ny) * tx < ty
    BY <1>1, <1>5, <1>6, <1>7, OtherRateLeaves
  <2> QED
    BY <2>1, <2>2 DEF sx, sy, nx, ny
<1>8. CASE k = y /\ d = ty
  <2>1. (x - sx - nx) * ty < tx
    BY <1>1, <1>4, <1>6, <1>8, OtherRateLeaves
  <2>2. (y - sy - ny) * tx < ty
    BY <1>1, <1>5, <1>8, OwnRateLeaves
  <2> QED
    BY <2>1, <2>2 DEF sx, sy, nx, ny
<1> QED
  BY <1>2, <1>7, <1>8

\* The active bin takes one of the tokens.
LEMMA ActiveWeighs ==
  ASSUME NEW D, D \subseteq Bins, NEW activeId \in Bins, activeId \in D, NEW inActive,
         inActive.x \in Nat, inActive.y \in Nat, NEW weights \in [D -> Nat \ {0}]
  PROVE  \/ BothWeights(activeId, inActive, weights).x[activeId] > 0
         \/ BothWeights(activeId, inActive, weights).y[activeId] > 0
<1> DEFINE empty == inActive.x = 0 /\ inActive.y = 0
           ax == IF empty THEN SCALE ELSE inActive.x
           ay == IF empty THEN Price[activeId] ELSE inActive.y
           x == weights[activeId] * ax * SCALE * PRICE_MULTIPLE
           y == weights[activeId] * ay * SCALE * PRICE_MULTIPLE
<1>1. /\ SCALE \in Nat \ {0} /\ PRICE_MULTIPLE \in Nat \ {0} /\ Price[activeId] \in Nat \ {0}
      /\ activeId \in Int /\ weights[activeId] \in Nat \ {0} /\ DOMAIN weights = D
  BY PriceAssumption, MultipleAssumption, PriceDivides, RoomAssumption DEF Bins
<1>2. (ax \in Nat \ {0}) \/ (ay \in Nat \ {0})
  BY <1>1
<1>3. /\ BothWeights(activeId, inActive, weights).x[activeId] = x
      /\ BothWeights(activeId, inActive, weights).y[activeId] = y
  BY <1>1 DEF BothWeights
<1> HIDE DEF ax, ay
<1>4. \A m, n \in Nat \ {0} : m * n \in Nat \ {0}
  OBVIOUS
<1>5. (x \in Nat \ {0}) \/ (y \in Nat \ {0})
  <2>1. CASE ax \in Nat \ {0}
    <3>1. weights[activeId] * ax \in Nat \ {0}
      BY <1>1, <1>4, <2>1
    <3>2. weights[activeId] * ax * SCALE \in Nat \ {0}
      BY <1>1, <1>4, <3>1
    <3> QED
      BY <1>1, <1>4, <3>2
  <2>2. CASE ay \in Nat \ {0}
    <3>1. weights[activeId] * ay \in Nat \ {0}
      BY <1>1, <1>4, <2>2
    <3>2. weights[activeId] * ay * SCALE \in Nat \ {0}
      BY <1>1, <1>4, <3>1
    <3> QED
      BY <1>1, <1>4, <3>2
  <2> QED
    BY <1>2, <2>1, <2>2
<1> HIDE DEF x, y
<1> QED
  BY <1>3, <1>5

LEMMA SidesOfWeights ==
  ASSUME NEW D, D \subseteq Bins, NEW activeId \in Bins, NEW inActive,
         NEW weights \in [D -> Nat]
  PROVE  /\ \A b \in D : b < activeId => BothWeights(activeId, inActive, weights).x[b] = 0
         /\ \A b \in D : b > activeId => BothWeights(activeId, inActive, weights).y[b] = 0
<1>1. ASSUME NEW b \in D
      PROVE  /\ b < activeId => BothWeights(activeId, inActive, weights).x[b] = 0
             /\ b > activeId => BothWeights(activeId, inActive, weights).y[b] = 0
  BY BothWeightsOneSided
<1> QED
  BY <1>1

LEMMA BidsOfPositive ==
  ASSUME NEW D, D \subseteq Bins, NEW activeId \in Int, NEW weights \in [D -> Nat],
         \A b \in D : weights[b] > 0 /\ b <= activeId
  PROVE  /\ BidWeight(activeId, weights) \in [D -> Nat]
         /\ \A b \in D : BidWeight(activeId, weights)[b] > 0
BY BidWeightIs

\* A deposit around the active bin fails only without weight and amount for Y,
\* and of amounts that match uses both.
SpanOf(D, lower, upper) == Span(lower, upper) /\ D = lower .. upper

Uses(r, D, activeId, x, y, tx, ty) ==
  /\ r = Throws => ty = 0 /\ y = 0
  /\ tx > 0 /\ ty > 0 /\ Matched(x, ty, y, tx) =>
       /\ (x - SumAll(r.x) - Cardinality({b \in D : b >= activeId})) * ty < tx
       /\ (y - SumAll(r.y) - Cardinality({b \in D : b <= activeId})) * tx < ty

LEMMA BothSideUses ==
  ASSUME NEW D, NEW lower, NEW upper, SpanOf(D, lower, upper), NEW activeId \in Bins, NEW inActive,
         inActive.x \in Nat, inActive.y \in Nat, NEW weights \in [D -> Nat \ {0}],
         NEW x \in Nat, NEW y \in Nat, NEW r, NEW tx, NEW ty,
         r = ToAmountBothSide(activeId, x, y, inActive, weights),
         tx = SumAll(BothWeights(activeId, inActive, weights).x),
         ty = SumAll(BothWeights(activeId, inActive, weights).y)
  PROVE  tx \in Nat /\ ty \in Nat /\ Uses(r, D, activeId, x, y, tx, ty)
<1> DEFINE w == BothWeights(activeId, inActive, weights)
           T == {b \in D : b >= activeId}
           U == {b \in D : b <= activeId}
<1>0. /\ D \subseteq Bins /\ IsFiniteSet(D) /\ Min(D) = lower /\ Max(D) = upper
      /\ lower \in Int /\ upper \in Int /\ lower \in D /\ activeId \in Int
  BY SpanIs, RoomAssumption DEF Bins, SpanOf
<1>1. /\ D \subseteq Int /\ DOMAIN weights = D /\ \A b \in D : lower <= b /\ b <= upper
  BY <1>0 DEF SpanOf
<1>2. weights \in [D -> Nat] /\ \A b \in D : weights[b] > 0
  OBVIOUS
<1>3. w.x \in [D -> Nat] /\ w.y \in [D -> Nat]
  BY <1>0, <1>2, BothWeightsAre
<1>4. \A b \in D : (b < activeId => w.x[b] = 0) /\ (b > activeId => w.y[b] = 0)
  <2>0. D \subseteq Bins /\ weights \in [D -> Nat]
    BY <1>0, <1>2
  <2>1. \A b \in D : b < activeId => w.x[b] = 0
    BY <2>0, SidesOfWeights
  <2>2. \A b \in D : b > activeId => w.y[b] = 0
    BY <2>0, SidesOfWeights
  <2> HIDE DEF w
  <2> QED
    BY <2>1, <2>2
<1>5. tx \in Nat /\ ty \in Nat /\ tx = SumAll(w.x) /\ ty = SumAll(w.y)
  BY <1>0, <1>3, SumAllIs
<1>6. CASE activeId > upper
  <2> DEFINE bid == BidWeight(activeId, weights)
  <2>1. r = OnlyY(Parts(y, bid))
    <3>1. ~(activeId < lower)
      BY <1>0, <1>1, <1>6
    <3> QED
      BY <1>0, <1>1, <1>6, <3>1 DEF ToAmountBothSide, ToAmountBidSide
  <2>2. bid \in [D -> Nat] /\ \A b \in D : bid[b] > 0
    <3>1. \A b \in D : b <= activeId
      BY <1>0, <1>1, <1>6
    <3> QED
      BY <1>0, <1>2, <3>1, BidsOfPositive, Zenon
  <2> HIDE DEF bid
  <2>3. Parts(y, bid) \in [D -> Nat]
    BY <1>0, <2>2, PartsOfAll DEF Shared
  <2>4. r # Throws
    <3>1. NoAmount(D) \in [D -> Nat] /\ DOMAIN Parts(y, bid) = D
      BY <1>0, <2>3, NothingIs
    <3>2. Parts(y, bid) # Throws
      BY <1>0, <2>3, <3>1, AmountsAreNot
    <3> QED
      BY <1>0, <2>1, <2>3, <3>1, <3>2, AmountsAreNot DEF OnlyY
  <2>5. \A b \in D : ~(w.x[b] > 0)
    <3>1. \A b \in D : b < activeId
      BY <1>0, <1>1, <1>6
    <3> QED
      BY <1>4, <3>1
  <2> HIDE DEF w
  <2>6. tx = 0
    BY <1>0, <1>3, <1>5, <2>5, SomeWeight
  <2> QED
    BY <1>5, <2>4, <2>6 DEF Uses
<1>7. CASE activeId < lower
  <2> DEFINE ask == AskWeight(activeId, weights)
  <2>1. r = OnlyX(Parts(x, ask))
    <3>1. ~(activeId > upper)
      BY <1>0, <1>1, <1>7
    <3> QED
      BY <1>0, <1>1, <1>7, <3>1 DEF ToAmountBothSide, ToAmountAskSide
  <2>2. ask \in [D -> Nat] /\ \A b \in D : ask[b] > 0
    <3>1. \A b \in D : b >= activeId
      BY <1>0, <1>1, <1>7
    <3> QED
      BY <1>0, <1>1, <1>2, <3>1, AskWeightIs
  <2> HIDE DEF ask
  <2>3. Parts(x, ask) \in [D -> Nat]
    BY <1>0, <2>2, PartsOfAll DEF Shared
  <2>4. r # Throws
    <3>1. NoAmount(D) \in [D -> Nat] /\ DOMAIN Parts(x, ask) = D
      BY <1>0, <2>3, NothingIs
    <3>2. Parts(x, ask) # Throws
      BY <1>0, <2>3, <3>1, AmountsAreNot
    <3> QED
      BY <1>0, <2>1, <2>3, <3>1, <3>2, AmountsAreNot DEF OnlyX
  <2>5. \A b \in D : ~(w.y[b] > 0)
    <3>1. \A b \in D : b > activeId
      BY <1>0, <1>1, <1>7
    <3> QED
      BY <1>4, <3>1
  <2> HIDE DEF w
  <2>6. ty = 0
    BY <1>0, <1>3, <1>5, <2>5, SomeWeight
  <2> QED
    BY <1>5, <2>4, <2>6 DEF Uses
<1>8. CASE ~(activeId > upper) /\ ~(activeId < lower)
  <2> DEFINE scale == ScaleOf(x, tx, y, ty)
             k == scale[1]
             d == scale[2]
  <2>1. r = IF d = 0 THEN Throws ELSE [x |-> Taken(w.x, k, d), y |-> Taken(w.y, k, d)]
    BY <1>0, <1>1, <1>3, <1>8 DEF ToAmountBothSide, Taken
  <2>2. scale = <<x, tx>> \/ scale = <<y, ty>>
    BY DEF ScaleOf
  <2>3. k \in Nat /\ d \in Nat /\ <<k, d>> = ScaleOf(x, tx, y, ty)
    BY <1>5, <2>2
  <2>4. (\A b \in D \ T : w.x[b] = 0) /\ (\A b \in D \ U : w.y[b] = 0)
    BY <1>0, <1>1, <1>4
  <2>5. T \subseteq D /\ U \subseteq D
    OBVIOUS
  <2>6. d # 0 => r.x = Taken(w.x, k, d) /\ r.y = Taken(w.y, k, d)
    BY <2>1
  <2> HIDE DEF w, k, d, T, U, scale
  <2>7. ASSUME tx > 0, ty > 0, Matched(x, ty, y, tx)
        PROVE  /\ (x - SumAll(r.x) - Cardinality(T)) * ty < tx
               /\ (y - SumAll(r.y) - Cardinality(U)) * tx < ty
    <3>1. tx \in Nat \ {0} /\ ty \in Nat \ {0}
      BY <1>5, <2>7
    <3>2. d # 0
      BY <2>2, <3>1 DEF d
    <3>3. /\ (x - SumAll(Taken(w.x, k, d)) - Cardinality(T)) * ty < tx
          /\ (y - SumAll(Taken(w.y, k, d)) - Cardinality(U)) * tx < ty
      BY <1>0, <1>3, <1>5, <2>3, <2>4, <2>5, <2>7, <3>1, SmallerRateLeaves
    <3> QED
      BY <2>6, <3>2, <3>3
  <2>8. ASSUME r = Throws PROVE ty = 0 /\ y = 0
    <3>1. d = 0
      <4>1. ASSUME d # 0 PROVE FALSE
        <5>1. Taken(w.x, k, d) \in [D -> Nat] /\ Taken(w.y, k, d) \in [D -> Nat]
          <6>1. \A f \in [D -> Nat] : Taken(f, k, d) \in [D -> Nat]
            <7> SUFFICES ASSUME NEW f \in [D -> Nat] PROVE Taken(f, k, d) \in [D -> Nat]
              OBVIOUS
            <7> DEFINE S == D
            <7>1. S \subseteq D /\ \A b \in D \ S : f[b] = 0
              OBVIOUS
            <7> HIDE DEF S
            <7> QED
              BY <1>0, <2>3, <4>1, <7>1, Rated
          <6> QED
            BY <1>3, <6>1
        <5> QED
          BY <1>0, <2>1, <2>8, <4>1, <5>1, AmountsAreNot
      <4> QED
        BY <4>1
    <3>2. tx > 0 \/ ty > 0
      <4>1. activeId \in D
        BY <1>0, <1>8 DEF SpanOf
      <4>2. w.x[activeId] > 0 \/ w.y[activeId] > 0
        BY <1>0, <4>1, ActiveWeighs DEF w
      <4>3. /\ w.x[activeId] <= Total(w.x, D) /\ w.y[activeId] <= Total(w.y, D)
            /\ w.x[activeId] \in Nat /\ w.y[activeId] \in Nat
        BY <1>0, <1>3, <4>1, ValueBelowTotal
      <4>4. tx = Total(w.x, D) /\ ty = Total(w.y, D)
        BY <1>0, <1>3, <1>5, SumAllIs
      <4> QED
        BY <1>5, <4>2, <4>3, <4>4
    <3>3. ~(tx # 0 /\ d = tx)
      BY <3>1
    <3>4. tx = 0 \/ (ty = 0 /\ y = 0) \/ d = ty
      BY <2>3, <3>3 DEF ScaleOf
    <3>5. tx # 0 /\ ty = 0 /\ y # 0 => d = tx
      BY <2>3 DEF ScaleOf
    <3>6. tx = 0 => d = ty
      BY <2>3 DEF ScaleOf
    <3> QED
      BY <1>5, <3>1, <3>2, <3>3, <3>4, <3>5, <3>6
  <2> QED
    BY <1>5, <2>7, <2>8 DEF T, U, Uses
<1> QED
  BY <1>6, <1>7, <1>8

LEMMA FilledIs ==
  ASSUME NEW amount \in Nat, NEW total \in Nat, NEW other \in Nat, NEW unit \in Nat \ {0}
  PROVE  AutoFill(amount, total, other, unit) \in Nat
<1>1. CASE total = 0
  <2>1. AutoFill(amount, total, other, unit) = other \div unit
    BY <1>1 DEF AutoFill
  <2> QED
    BY <2>1, Quotient
<1>2. CASE total # 0
  <2> DEFINE n == amount * other
  <2>1. n \in Nat /\ AutoFill(amount, total, other, unit) = n \div total
    BY <1>2 DEF AutoFill
  <2> HIDE DEF n
  <2> QED
    BY <1>2, <2>1, Quotient
<1> QED
  BY <1>1, <1>2

\* What the filled deposit of a call promises, of its weights and amounts.
FilledUses(c, weights, x, y, placed) ==
  LET w == BothWeights(c.activeId, c.inActive, weights)
      tx == SumAll(w.x)
      ty == SumAll(w.y)
      bins == c.lower .. c.upper
  IN /\ placed = Throws => ty = 0 /\ y = 0
     /\ placed # Throws => Placed(placed, bins, c.activeId, x, y)
     /\ tx > 0 /\ ty > 0 =>
          /\ (x - SumAll(placed.x) - Cardinality({b \in bins : b >= c.activeId})) * ty < tx
          /\ (y - SumAll(placed.y) - Cardinality({b \in bins : b <= c.activeId})) * tx < ty

LEMMA FilledIsUsed ==
  ASSUME NEW c, Span(c.lower, c.upper), c.activeId \in Bins, c.amountX \in Nat, c.amountY \in Nat,
         c.inActive.x \in Nat, c.inActive.y \in Nat, c.strategy \in {"Spot", "Curve", "BidAsk"},
         c.activeId \in c.lower .. c.upper \/ c.strategy = "Spot",
         NEW weights, weights = BalancedWeights(c.strategy, c.lower, c.upper, c.activeId)
  PROVE  FilledUses(c, weights, AutoFilled(c).x, AutoFilled(c).y, AutoFilled(c).placed)
<1> DEFINE D == c.lower .. c.upper
           w == BothWeights(c.activeId, c.inActive, weights)
           tx == SumAll(w.x)
           ty == SumAll(w.y)
           x == AutoFilled(c).x
           y == AutoFilled(c).y
           placed == AutoFilled(c).placed
           fillX == AutoFill(c.amountY, ty, tx, w.unit)
           fillY == AutoFill(c.amountX, tx, ty, w.unit)
<1>1. /\ c.activeId \in Int /\ c.activeId \in Bins /\ D \in SUBSET Bins /\ D # {} /\ IsFiniteSet(D)
      /\ SpanOf(D, c.lower, c.upper)
  BY SpanIs, RoomAssumption DEF Bins, SpanOf
<1>2. weights \in [D -> Nat \ {0}]
  BY <1>1, BalancedWeighsAll
<1>3. weights \in [D -> Nat]
  BY <1>2
<1>4. weights # Throws
  BY <1>1, <1>3, AmountsAreNot
<1>5. w.x \in [D -> Nat] /\ w.y \in [D -> Nat] /\ w.unit \in Nat \ {0}
  <2> HIDE DEF D
  <2> QED
    BY <1>1, <1>3, BothWeightsAre
<1>6. tx \in Nat /\ ty \in Nat
  <2> HIDE DEF D, w
  <2> QED
    BY <1>1, <1>5, SumAllIs
<1>7. /\ x = IF c.amountX > 0 THEN c.amountX ELSE fillX
      /\ y = IF c.amountX = 0 THEN c.amountY ELSE fillY
      /\ placed = IF Throws \in {x, y} THEN Throws
                  ELSE ToAmountBothSide(c.activeId, x, y, c.inActive, weights)
  BY <1>4 DEF AutoFilled, AutoFillXByStrategy, AutoFillYByStrategy, AutoFillXByWeight,
              AutoFillYByWeight
<1> HIDE DEF D, w, tx, ty, x, y, placed, fillX, fillY
<1>8. fillX \in Nat /\ fillY \in Nat
  BY <1>5, <1>6, FilledIs DEF fillX, fillY
<1>9. x \in Nat /\ y \in Nat
  BY <1>7, <1>8
<1>10. placed = ToAmountBothSide(c.activeId, x, y, c.inActive, weights)
  <2>1. Throws \notin Nat
    BY <1>1, ThrowsAssumption
  <2> QED
    BY <1>7, <1>9, <2>1
<1>11. tx > 0 /\ ty > 0 => Matched(x, ty, y, tx)
  <2> SUFFICES ASSUME tx > 0, ty > 0 PROVE Matched(x, ty, y, tx)
    OBVIOUS
  <2>1. tx \in Nat \ {0} /\ ty \in Nat \ {0}
    BY <1>6
  <2>2. CASE c.amountX > 0
    <3>1. x = c.amountX /\ y = fillY
      BY <1>7, <2>2
    <3>2. Matched(c.amountX, ty, fillY, tx)
      BY <2>1, FilledMatches DEF fillY
    <3> QED
      BY <3>1, <3>2
  <2>3. CASE c.amountX = 0
    <3>1. x = fillX /\ y = c.amountY
      BY <1>7, <2>3
    <3>2. Matched(c.amountY, tx, fillX, ty)
      BY <2>1, FilledMatches DEF fillX
    <3> QED
      BY <3>1, <3>2 DEF Matched
  <2> QED
    BY <2>2, <2>3
<1>12. Uses(placed, D, c.activeId, x, y, tx, ty)
  <2>1. \A r, u, v : /\ r = ToAmountBothSide(c.activeId, x, y, c.inActive, weights)
                     /\ u = SumAll(w.x) /\ v = SumAll(w.y)
                     => Uses(r, D, c.activeId, x, y, u, v)
    BY <1>1, <1>2, <1>9, BothSideUses DEF w
  <2> QED
    BY <1>10, <2>1 DEF tx, ty
<1>13. placed # Throws => Placed(placed, D, c.activeId, x, y)
  BY <1>1, <1>3, <1>9, <1>10, BothSideIsPlaced
<1>14. /\ placed = Throws => ty = 0 /\ y = 0
       /\ placed # Throws => Placed(placed, D, c.activeId, x, y)
       /\ tx > 0 /\ ty > 0 =>
            /\ (x - SumAll(placed.x) - Cardinality({b \in D : b >= c.activeId})) * ty < tx
            /\ (y - SumAll(placed.y) - Cardinality({b \in D : b <= c.activeId})) * tx < ty
  BY <1>11, <1>12, <1>13 DEF Uses
<1> QED
  BY <1>14 DEF FilledUses, tx, ty, w, x, y, placed, D

\* The amount filled in is the one that the deposit can use.
THEOREM AutoFillsBalance == Spec => []AutoFillBalances
<1>1. ResultOfCall => AutoFillBalances
  <2> SUFFICES ASSUME ResultOfCall, ReturnedOf("autofill"),
                      call.activeId \in DepositBins \/ call.strategy = "Spot"
               PROVE  AutoFillBalances
    BY DEF AutoFillBalances
  <2> DEFINE weights == BalancedWeights(call.strategy, call.lower, call.upper, call.activeId)
             w == BothWeights(call.activeId, call.inActive, weights)
             tx == SumAll(w.x)
             ty == SumAll(w.y)
  <2>1. /\ Span(call.lower, call.upper) /\ call.activeId \in Bins
        /\ call.amountX \in Nat /\ call.amountY \in Nat
        /\ call.inActive.x \in Nat /\ call.inActive.y \in Nat
        /\ call.strategy \in {"Spot", "Curve", "BidAsk"}
        /\ call.activeId \in call.lower .. call.upper \/ call.strategy = "Spot"
    BY CallsAssumption DEF ResultOfCall, ReturnedOf, Span, DepositBins
  <2>2. result = AutoFilled(call)
    BY DEF ResultOfCall
  <2>3. FilledUses(call, weights, result.x, result.y, result.placed)
    BY <2>1, <2>2, FilledIsUsed
  <2>4. /\ Side(FALSE) = Cardinality({b \in DepositBins : b >= call.activeId})
        /\ Side(TRUE) = Cardinality({b \in DepositBins : b <= call.activeId})
    BY DEF Side
  <2>5. /\ result.placed = Throws => ty = 0 /\ result.y = 0
        /\ result.placed # Throws => Placed(result.placed, DepositBins, call.activeId,
                                            result.x, result.y)
        /\ tx > 0 /\ ty > 0 =>
             /\ (result.x - SumAll(result.placed.x) - Side(FALSE)) * ty < tx
             /\ (result.y - SumAll(result.placed.y) - Side(TRUE)) * tx < ty
    BY <2>3, <2>4 DEF FilledUses, DepositBins
  <2>6. result.placed # Throws => Within(result.placed, result.x, result.y)
    <3>1. result.placed # Throws => DOMAIN result.placed.x = DepositBins
      BY <2>5 DEF Placed
    <3> QED
      BY <2>5, <3>1 DEF Placed, Within
  <2>7. IF result.placed = Throws THEN ty = 0 /\ result.y = 0
        ELSE /\ Within(result.placed, result.x, result.y)
             /\ tx > 0 /\ ty > 0 =>
                  /\ (result.x - SumAll(result.placed.x) - Side(FALSE)) * ty < tx
                  /\ (result.y - SumAll(result.placed.y) - Side(TRUE)) * tx < ty
    BY <2>5, <2>6
  <2> QED
    BY <2>7 DEF AutoFillBalances
<1> QED
  BY <1>1, ResultsHold, PTL

-----------------------------------------------------------------------------
(***************************************************************************)
(* The value of a position.                                                *)
(***************************************************************************)
Consecutive(lower, upper) == [n \in 1 .. upper - lower + 1 |-> lower + n - 1]

LEMMA ConsecutiveJoin ==
  ASSUME NEW a \in Int, NEW b \in Int, NEW c \in Int, a <= b + 1, b <= c
  PROVE  Consecutive(a, b) \o Consecutive(b + 1, c) = Consecutive(a, c)
<1> DEFINE s == Consecutive(a, b)
           t == Consecutive(b + 1, c)
           u == Consecutive(a, c)
<1>1. /\ b - a + 1 \in Nat /\ c - b \in Nat /\ c - (b + 1) + 1 = c - b /\ c - a + 1 \in Nat
      /\ c - a + 1 = (b - a + 1) + (c - b)
  OBVIOUS
<1>2. s \in Seq(Int) /\ Len(s) = b - a + 1 /\ \A n \in 1 .. Len(s) : s[n] = a + n - 1
  BY <1>1 DEF Consecutive
<1>3. t \in Seq(Int) /\ Len(t) = c - b /\ \A n \in 1 .. Len(t) : t[n] = b + 1 + n - 1
  BY <1>1 DEF Consecutive
<1>4. u \in Seq(Int) /\ Len(u) = c - a + 1 /\ \A n \in 1 .. Len(u) : u[n] = a + n - 1
  BY <1>1 DEF Consecutive
<1> HIDE DEF s, t, u
<1>5. s \o t \in Seq(Int) /\ Len(s \o t) = Len(u)
  BY <1>1, <1>2, <1>3, <1>4
<1>6. ASSUME NEW n \in 1 .. Len(u) PROVE (s \o t)[n] = u[n]
  BY <1>1, <1>2, <1>3, <1>4
<1> QED
  BY <1>4, <1>5, <1>6, SeqEqual DEF s, t, u

\* The first and the last bin of a position that an array can have.
LEMMA InsideIs ==
  ASSUME NEW p, p.lower \in Int, p.upper \in Int, NEW index \in Int,
         NEW first \in Int, NEW last \in Int,
         first = IF LowerBinId(index) >= p.lower THEN LowerBinId(index) ELSE p.lower,
         last = IF UpperBinId(index) <= p.upper THEN UpperBinId(index) ELSE p.upper
  PROVE  Inside(p, index) = Consecutive(first, last)
<1>1. LowerBinId(index) \in Int /\ UpperBinId(index) \in Int
  BY SizeAssumption DEF LowerBinId, UpperBinId
<1> DEFINE lo == LowerBinId(index)
           up == UpperBinId(index)
<1> HIDE DEF lo, up
<1>2. lo \in Int /\ up \in Int
  BY <1>1 DEF lo, up
<1>3. Max({lo, p.lower}) = IF lo >= p.lower THEN lo ELSE p.lower
  BY <1>2 DEF Max
<1>4. Min({up, p.upper}) = IF up <= p.upper THEN up ELSE p.upper
  BY <1>2 DEF Min
<1> QED
  BY <1>3, <1>4 DEF Inside, Consecutive, lo, up

\* Client and library find the bins of a position, in order.
LEMMA BinsAreConsecutive ==
  ASSUME NEW p, p.lower \in Int, p.upper \in Int, p.lower <= p.upper,
         p.upper - p.lower < MAX_BIN_PER_POSITION
  PROVE  /\ BinsBetween(p, ValueArrays(p)) = Consecutive(p.lower, p.upper)
         /\ LibraryBins(p) = Consecutive(p.lower, p.upper)
<1> DEFINE low == BinIdToBinArrayIndex(p.lower)
           up == BinIdToBinArrayIndex(p.upper)
           bins == Consecutive(p.lower, p.upper)
<1>1. /\ low \in Int /\ up \in Int /\ low <= up /\ up <= low + 1
      /\ LowerBinId(low) <= p.lower /\ p.lower <= UpperBinId(low)
      /\ LowerBinId(up) <= p.upper /\ p.upper <= UpperBinId(up)
  <2>1. MAX_BIN_PER_POSITION \in Int /\ MAX_BIN_ARRAY_SIZE \in Int
        /\ MAX_BIN_PER_POSITION <= MAX_BIN_ARRAY_SIZE
    BY PositionAssumption, SizeAssumption
  <2>2. low \in Int /\ up \in Int
    BY IndexIsFloor
  <2>3. low <= up /\ up <= low + 1
    BY <2>1, IndexOrder
  <2>4. IsBinIdWithinBinArray(p.lower, low) /\ IsBinIdWithinBinArray(p.upper, up)
    BY IndexIsFloor
  <2>5. /\ LowerBinId(low) \in Int /\ UpperBinId(low) \in Int
        /\ LowerBinId(up) \in Int /\ UpperBinId(up) \in Int
    BY <2>2, SizeAssumption DEF LowerBinId, UpperBinId
  <2> HIDE DEF low, up
  <2> QED
    BY <2>2, <2>3, <2>4, <2>5 DEF IsBinIdWithinBinArray
<1>2. ValueArrays(p)[1] = low /\ ValueArrays(p)[2] = up
  BY DEF ValueArrays
<1> HIDE DEF low, up
<1>3. /\ LowerBinId(low) \in Int /\ UpperBinId(low) \in Int
      /\ LowerBinId(up) \in Int /\ UpperBinId(up) \in Int
      /\ up = low + 1 => LowerBinId(up) = UpperBinId(low) + 1
  BY <1>1, SizeAssumption DEF LowerBinId, UpperBinId
<1> DEFINE step(i, before) == (IF i = low THEN <<>> ELSE before) \o Inside(p, i)
           Reads(g) == g = [i \in low .. up |-> step(i, g[i - 1])]
           library == CHOOSE g : Reads(g)
<1>6. LibraryBins(p) = library[up]
  BY DEF LibraryBins, low, up
<1>7. library = [i \in low .. up |-> step(i, library[i - 1])]
  <2> DEFINE none == <<>> \o Inside(p, low)
             g == [i \in low .. up |-> IF i = low THEN none ELSE none \o Inside(p, up)]
  <2>1. \A i \in low .. up : g[i] = step(i, g[i - 1])
    <3> SUFFICES ASSUME NEW i \in low .. up PROVE g[i] = step(i, g[i - 1])
      OBVIOUS
    <3> DEFINE both == none \o Inside(p, up)
    <3>1. CASE i = low
      <4>1. g[i] = none
        BY <3>1
      <4> QED
        BY <3>1, <4>1
    <3>2. CASE i # low
      <4>1. i = up /\ i - 1 = low /\ low \in low .. up
        BY <1>1, <3>2
      <4>2. g[low] = none /\ g[i] = both
        BY <3>2, <4>1
      <4>3. g[i - 1] = none
        BY <4>1, <4>2
      <4>4. step(i, none) = both
        BY <3>2, <4>1
      <4> QED
        BY <4>2, <4>3, <4>4
    <3> QED
      BY <3>1, <3>2
  <2>2. Reads(g)
    BY <2>1
  <2> QED
    BY <2>2
<1>8. \A a, b \in Int : <<>> \o Consecutive(a, b) = Consecutive(a, b)
  <2> SUFFICES ASSUME NEW a \in Int, NEW b \in Int
               PROVE  <<>> \o Consecutive(a, b) = Consecutive(a, b)
    OBVIOUS
  <2>1. Consecutive(a, b) \in Seq(Int)
    BY DEF Consecutive
  <2> QED
    BY <2>1, ConcatEmptySeq
<1> HIDE DEF library
<1>4. CASE up = low
  <2>1. Inside(p, low) = bins
    <3>1. p.lower = IF LowerBinId(low) >= p.lower THEN LowerBinId(low) ELSE p.lower
      BY <1>1, <1>3
    <3>2. p.upper = IF UpperBinId(low) <= p.upper THEN UpperBinId(low) ELSE p.upper
      BY <1>1, <1>3, <1>4
    <3> QED
      BY <1>1, <3>1, <3>2, InsideIs
  <2>2. BinsBetween(p, ValueArrays(p)) = bins
    BY <1>2, <1>4, <2>1 DEF BinsBetween
  <2>3. library[up] = <<>> \o Inside(p, low)
    BY <1>1, <1>4, <1>7
  <2> QED
    BY <1>6, <1>8, <2>1, <2>2, <2>3
<1>5. CASE up = low + 1
  <2>1. Inside(p, low) = Consecutive(p.lower, UpperBinId(low))
    <3>1. p.lower = IF LowerBinId(low) >= p.lower THEN LowerBinId(low) ELSE p.lower
      BY <1>1, <1>3
    <3>2. UpperBinId(low) = IF UpperBinId(low) <= p.upper THEN UpperBinId(low) ELSE p.upper
      BY <1>1, <1>3, <1>5
    <3> QED
      BY <1>1, <1>3, <3>1, <3>2, InsideIs
  <2>2. Inside(p, up) = Consecutive(UpperBinId(low) + 1, p.upper)
    <3> DEFINE first == UpperBinId(low) + 1
    <3>1. first = IF LowerBinId(up) >= p.lower THEN LowerBinId(up) ELSE p.lower
      BY <1>1, <1>3, <1>5
    <3>2. p.upper = IF UpperBinId(up) <= p.upper THEN UpperBinId(up) ELSE p.upper
      BY <1>1, <1>3
    <3>3. first \in Int
      BY <1>3
    <3> HIDE DEF first
    <3>4. Inside(p, up) = Consecutive(first, p.upper)
      BY <1>1, <3>1, <3>2, <3>3, InsideIs
    <3> QED
      BY <3>4 DEF first
  <2>3. Inside(p, low) \o Inside(p, up) = bins
    <3>1. p.lower <= UpperBinId(low) + 1 /\ UpperBinId(low) <= p.upper
      BY <1>1, <1>3, <1>5
    <3> DEFINE b == UpperBinId(low)
    <3>2. b \in Int /\ p.lower <= b + 1 /\ b <= p.upper
      BY <1>3, <3>1
    <3>3. Inside(p, low) = Consecutive(p.lower, b) /\ Inside(p, up) = Consecutive(b + 1, p.upper)
      BY <2>1, <2>2
    <3> HIDE DEF b
    <3>4. Consecutive(p.lower, b) \o Consecutive(b + 1, p.upper) = bins
      BY <3>2, ConsecutiveJoin
    <3> QED
      BY <3>3, <3>4
  <2>4. BinsBetween(p, ValueArrays(p)) = bins
    <3>1. low # up
      BY <1>1, <1>5
    <3> QED
      BY <1>2, <2>3, <3>1 DEF BinsBetween
  <2>6. library[up] = (<<>> \o Inside(p, low)) \o Inside(p, up)
    <3>1. low \in low .. up /\ up \in low .. up /\ up # low /\ up - 1 = low
      BY <1>1, <1>5
    <3>2. library[low] = step(low, library[low - 1]) /\ library[up] = step(up, library[up - 1])
      BY <1>7, <3>1
    <3>3. library[low] = <<>> \o Inside(p, low)
      BY <3>2
    <3>4. library[up - 1] = library[low]
      BY <3>1
    <3>5. library[up] = library[low] \o Inside(p, up)
      BY <3>1, <3>2, <3>4
    <3> QED
      BY <3>3, <3>5
  <2> QED
    BY <1>3, <1>6, <1>8, <2>1, <2>3, <2>4, <2>6
<1> QED
  BY <1>1, <1>4, <1>5

\* What a position holds of a bin, exactly and rounded down.
ExactPart(share, amount, supply) ==
  IF supply = 0 THEN 0 ELSE share * amount * (SUPPLY_MULTIPLE \div supply)

LEMMA PartIsFloor ==
  ASSUME NEW share \in Nat, NEW amount \in Nat, NEW supply \in Nat,
         supply > 0 => SUPPLY_MULTIPLE % supply = 0
  PROVE  /\ ExactPart(share, amount, supply) \in Nat
         /\ Part(share, amount, supply) \in Nat
         /\ Part(share, amount, supply)
              = ExactPart(share, amount, supply) \div SUPPLY_MULTIPLE
         /\ share = 0 \/ amount = 0 => Part(share, amount, supply) = 0
<1> DEFINE M == SUPPLY_MULTIPLE
<1>1. M \in Nat \ {0}
  BY PositionAssumption
<1> HIDE DEF M
<1>2. CASE supply = 0
  <2>1. 0 \div M = 0
    BY <1>1
  <2> QED
    BY <1>2, <2>1 DEF ExactPart, Part, M
<1>3. CASE supply # 0
  <2> DEFINE n == share * amount
             m == M \div supply
             q == n \div supply
  <2>1. n \in Nat
    OBVIOUS
  <2>2. M = m * supply /\ m \in Nat /\ m > 0
    <3>1. M % supply = 0 /\ supply \in Nat \ {0}
      BY <1>3 DEF M
    <3>2. M = supply * (M \div supply) + (M % supply) /\ M \div supply \in Int
      BY <1>1, <3>1
    <3>3. M = supply * m /\ m \in Int
      BY <3>1, <3>2
    <3> HIDE DEF m
    <3> QED
      BY <1>1, <3>1, <3>3
  <2>3. q \in Nat /\ q * supply <= n /\ n < q * supply + supply
    <3> HIDE DEF n
    <3> QED
      BY <1>3, <2>1, Quotient
  <2>4. share = 0 \/ amount = 0 => q = 0
    <3>1. share = 0 \/ amount = 0 => n = 0
      OBVIOUS
    <3> HIDE DEF n
    <3>2. 0 \div supply = 0
      BY <1>3
    <3> QED
      BY <3>1, <3>2
  <2> HIDE DEF n, m, q
  <2>5. n * m \in Nat
    BY <2>1, <2>2
  <2>6. (n * m) \div M = q
    <3> DEFINE e == n * m
               r == e \div M
               a == q * supply
    <3>1. r \in Nat /\ r * M <= e /\ e < r * M + M
      <4> HIDE DEF e
      <4> QED
        BY <1>1, <2>5, Quotient DEF e
    <3>2. q * M <= e /\ e < q * M + M
      <4>1. a \in Nat /\ a <= n /\ n < a + supply
        BY <2>3
      <4>2. a * m = q * M /\ (a + supply) * m = a * m + M
        BY <2>2, <2>3
      <4> HIDE DEF a
      <4>3. a * m <= n * m /\ n * m < (a + supply) * m
        BY <2>1, <2>2, <4>1
      <4> QED
        BY <4>2, <4>3
    <3>3. r < q + 1 /\ q < r + 1
      <4> HIDE DEF r, e
      <4>1. (q + 1) * M = q * M + M /\ (r + 1) * M = r * M + M
        BY <1>1, <2>3, <3>1
      <4>2. r * M < (q + 1) * M /\ q * M < (r + 1) * M
        BY <1>1, <2>3, <2>5, <3>1, <3>2, <4>1 DEF e
      <4>3. \A i, j \in Nat : i * M < j * M => i < j
        BY <1>1
      <4> QED
        BY <2>3, <3>1, <4>2, <4>3
    <3> HIDE DEF r
    <3>4. r = q
      BY <2>3, <3>1, <3>3
    <3> QED
      BY <3>4 DEF r, e
  <2>7. ExactPart(share, amount, supply) = n * m /\ Part(share, amount, supply) = q
    BY <1>3 DEF ExactPart, Part, M, n, m, q
  <2> QED
    BY <2>3, <2>4, <2>5, <2>6, <2>7 DEF M
<1> QED
  BY <1>2, <1>3

\* What a valuation may be asked for.
Valuable(p, pool) ==
  /\ {p.lower, p.upper, pool.activeId} \subseteq Bins /\ p.lower <= p.upper
  /\ p.upper - p.lower < MAX_BIN_PER_POSITION
  /\ p.shares \in [BinsOf(p) -> Nat]
  /\ {pool.x, pool.y, pool.supply} \subseteq [Bins -> Nat]
  /\ \A b \in Bins : /\ pool.supply[b] > 0 => SUPPLY_MULTIPLE % pool.supply[b] = 0
                     /\ b < pool.activeId => pool.x[b] = 0
                     /\ b > pool.activeId => pool.y[b] = 0

Exactly(p, pool, amount) ==
  [b \in BinsOf(p) |-> ExactPart(p.shares[b], amount[b], pool.supply[b])]

Floored(p, pool, amount) ==
  [b \in BinsOf(p) |-> Part(p.shares[b], amount[b], pool.supply[b])]

LEMMA RangeOfPosition ==
  ASSUME NEW p, NEW pool, Valuable(p, pool)
  PROVE  /\ p.lower \in Int /\ p.upper \in Int
         /\ BinsOf(p) \subseteq Bins /\ BinsOf(p) \subseteq Int /\ IsFiniteSet(BinsOf(p))
         /\ Cardinality(BinsOf(p)) = p.upper - p.lower + 1
         /\ Cardinality(BinsOf(p)) \in Nat \ {0}
         /\ BinsOf(p) = p.lower .. p.lower + Cardinality(BinsOf(p)) - 1
<1>1. Bins \subseteq Int /\ \A b \in Int : MIN_BIN_ID <= b /\ b <= MAX_BIN_ID => b \in Bins
  BY RoomAssumption DEF Bins
<1>2. p.lower \in Int /\ p.upper \in Int /\ p.lower <= p.upper
  BY <1>1 DEF Valuable
<1>3. MIN_BIN_ID <= p.lower /\ p.upper <= MAX_BIN_ID
  BY RoomAssumption DEF Valuable, Bins
<1>4. BinsOf(p) \subseteq Int /\ BinsOf(p) \subseteq Bins
  <2> SUFFICES ASSUME NEW b \in BinsOf(p) PROVE b \in Int /\ b \in Bins
    OBVIOUS
  <2>1. b \in Int /\ p.lower <= b /\ b <= p.upper
    BY <1>2 DEF BinsOf
  <2>2. MIN_BIN_ID <= b /\ b <= MAX_BIN_ID
    BY <1>2, <1>3, <2>1, RoomAssumption
  <2> QED
    BY <1>1, <2>1, <2>2
<1>5. IsFiniteSet(BinsOf(p)) /\ Cardinality(BinsOf(p)) = p.upper - p.lower + 1
  BY <1>2, FS_Interval DEF BinsOf
<1>6. p.upper = p.lower + Cardinality(BinsOf(p)) - 1
  BY <1>2, <1>5
<1>7. BinsOf(p) = p.lower .. p.lower + Cardinality(BinsOf(p)) - 1
  BY <1>6 DEF BinsOf
<1> QED
  BY <1>2, <1>4, <1>5, <1>7

\* Rounding down in every bin loses less than a unit of each.
LEMMA FlooredIsBelow ==
  ASSUME NEW p, NEW pool, Valuable(p, pool), NEW amount \in [Bins -> Nat]
  PROVE  LET e == Exactly(p, pool, amount)
             q == Floored(p, pool, amount)
         IN /\ e \in [BinsOf(p) -> Nat] /\ q \in [BinsOf(p) -> Nat]
            /\ SumAll(e) \in Nat /\ SumAll(q) \in Nat
            /\ SumAll(e) = Total(e, BinsOf(p)) /\ SumAll(q) = Total(q, BinsOf(p))
            /\ SumAll(q) * SUPPLY_MULTIPLE <= SumAll(e)
            /\ SumAll(e) < SumAll(q) * SUPPLY_MULTIPLE
                             + Cardinality(BinsOf(p)) * SUPPLY_MULTIPLE
<1> DEFINE D == BinsOf(p)
           M == SUPPLY_MULTIPLE
           e == Exactly(p, pool, amount)
           q == Floored(p, pool, amount)
           n == Cardinality(D)
<1>1. D \subseteq Bins /\ IsFiniteSet(D) /\ n \in Nat \ {0}
  BY RangeOfPosition
<1>2. M \in Nat \ {0}
  BY PositionAssumption
<1>3. ASSUME NEW b \in D
      PROVE  e[b] \in Nat /\ q[b] \in Nat /\ q[b] = e[b] \div M
  <2> DEFINE s == p.shares[b]
             a == amount[b]
             u == pool.supply[b]
  <2>1. s \in Nat /\ a \in Nat /\ u \in Nat /\ (u > 0 => SUPPLY_MULTIPLE % u = 0)
    BY <1>1 DEF Valuable
  <2>2. e[b] = ExactPart(s, a, u) /\ q[b] = Part(s, a, u)
    BY DEF Exactly, Floored
  <2> HIDE DEF s, a, u, e, q, D
  <2>3. /\ ExactPart(s, a, u) \in Nat /\ Part(s, a, u) \in Nat
        /\ Part(s, a, u) = ExactPart(s, a, u) \div SUPPLY_MULTIPLE
    BY <2>1, PartIsFloor
  <2> QED
    BY <2>2, <2>3
<1>4. DOMAIN e = D /\ DOMAIN q = D
      /\ e = [b \in D |-> e[b]] /\ q = [b \in D |-> q[b]]
  BY DEF Exactly, Floored
<1> HIDE DEF e, q, M
<1>5. e \in [D -> Nat] /\ q \in [D -> Nat] /\ q = [b \in D |-> e[b] \div M]
  BY <1>3, <1>4
<1> HIDE DEF D, n
<1>6. SumAll(e) = Total(e, D) /\ SumAll(q) = Total(q, D)
  BY <1>1, <1>4, <1>5, SumIs DEF SumAll
<1>7. Total(e, D) \in Nat /\ Total(q, D) \in Nat
  BY <1>1, <1>5, TotalIsNat
<1>8. /\ Total(q, D) * M <= Total(e, D)
      /\ Total(e, D) <= Total(q, D) * M + (M - 1) * n
  BY <1>1, <1>2, <1>5, TotalOfQuotients DEF n
<1>9. (M - 1) * n < n * M
  BY <1>1, <1>2
<1>10. Total(e, D) < Total(q, D) * M + n * M
  <2>1. Total(q, D) * M \in Int /\ (M - 1) * n \in Int /\ n * M \in Int
    BY <1>1, <1>2, <1>7
  <2> QED
    BY <1>7, <1>8, <1>9, <2>1
<1>11. SumAll(q) * M <= SumAll(e) /\ SumAll(e) < SumAll(q) * M + n * M
  BY <1>6, <1>8, <1>10
<1> QED
  BY <1>5, <1>6, <1>7, <1>11 DEF e, q, D, M, n

\* A sum over the bins that client and library find is one over the position's.
LEMMA SumInOrder ==
  ASSUME NEW p, NEW pool, Valuable(p, pool), NEW g \in [BinsOf(p) -> Nat],
         NEW f, DOMAIN f = DOMAIN Consecutive(p.lower, p.upper),
         \A i \in DOMAIN f : f[i] = g[Consecutive(p.lower, p.upper)[i]],
         f = [i \in DOMAIN f |-> f[i]]
  PROVE  SumAll(f) = SumAll(g)
<1> DEFINE D == BinsOf(p)
           n == Cardinality(D)
           C == 1 .. n
           lower == p.lower
           s == Consecutive(p.lower, p.upper)
<1>1. lower \in Int /\ n \in Nat /\ D = lower .. lower + n - 1 /\ IsFiniteSet(D)
      /\ p.upper - p.lower + 1 = n
  BY RangeOfPosition
<1>2. DOMAIN s = C /\ \A i \in C : s[i] = lower + i - 1
  BY <1>1 DEF Consecutive
<1>3. DOMAIN f = C /\ \A i \in C : f[i] = g[lower + i - 1]
  BY <1>2
<1>4. \A i \in C : lower + i - 1 \in D
  BY <1>1
<1>5. f \in [C -> Nat]
  <2> HIDE DEF C, D
  <2>1. \A i \in C : f[i] \in Nat
    BY <1>3, <1>4 DEF D
  <2> QED
    BY <1>3, <2>1
<1>6. IsFiniteSet(C)
  <2> HIDE DEF D, n
  <2>1. n \in Int /\ 1 \in Int
    BY <1>1
  <2> QED
    BY <2>1, FS_Interval
<1>7. g \in [D -> Nat] /\ C = 1 .. n
  OBVIOUS
<1> HIDE DEF C, D, n, lower, s
<1>8. Total(f, C) = Total(g, D)
  BY <1>1, <1>3, <1>5, <1>7, TotalOfShifted
<1>9. SumAll(f) = Total(f, C)
  BY <1>3, <1>5, <1>6, SumIs DEF SumAll
<1>10. SumAll(g) = Total(g, D)
  BY <1>1, <1>7, SumIs DEF SumAll
<1> QED
  BY <1>8, <1>9, <1>10

\* The client finds the exact part of each bin.
LEMMA ClientIs ==
  ASSUME NEW p, NEW pool, Valuable(p, pool)
  PROVE  ClientAmounts(p, pool, ValueArrays(p))
           = [x |-> SumAll(Exactly(p, pool, pool.x)), y |-> SumAll(Exactly(p, pool, pool.y))]
<1> DEFINE bins == Consecutive(p.lower, p.upper)
           n == p.upper - p.lower + 1
           parts(amount) ==
             [i \in DOMAIN bins |->
                IF pool.supply[bins[i]] = 0 THEN 0
                ELSE p.shares[p.lower + i - 1] * amount[bins[i]]
                     * (SUPPLY_MULTIPLE \div pool.supply[bins[i]])]
<1>1. p.lower \in Int /\ p.upper \in Int /\ p.lower <= p.upper
      /\ p.upper - p.lower < MAX_BIN_PER_POSITION /\ n \in Nat /\ n >= 1
  <2>1. p.lower \in Int /\ p.upper \in Int
    BY RangeOfPosition
  <2>2. p.lower <= p.upper /\ p.upper - p.lower < MAX_BIN_PER_POSITION
    BY DEF Valuable
  <2> QED
    BY <2>1, <2>2
<1>2. BinsBetween(p, ValueArrays(p)) = bins
  BY <1>1, BinsAreConsecutive
<1>3. DOMAIN bins = 1 .. n /\ Len(bins) = n /\ \A i \in 1 .. n : bins[i] = p.lower + i - 1
  BY <1>1 DEF Consecutive
<1>4. bins # <<>> /\ bins[1] = p.lower /\ bins[Len(bins)] = p.upper
  <2>1. 1 \in 1 .. n /\ n \in 1 .. n /\ p.lower + 1 - 1 = p.lower /\ p.lower + n - 1 = p.upper
    BY <1>1
  <2> HIDE DEF bins, n
  <2>2. bins[1] = p.lower /\ bins[n] = p.upper
    BY <1>3, <2>1
  <2>3. Len(bins) # 0
    BY <1>1, <1>3
  <2>4. Len(<<>>) = 0
    OBVIOUS
  <2> QED
    BY <1>3, <2>2, <2>3, <2>4
<1>5. \A i \in 1 .. n : p.lower + i - 1 \in BinsOf(p)
  BY <1>1 DEF BinsOf
<1>6. ASSUME NEW amount \in [Bins -> Nat]
      PROVE  SumAll(parts(amount)) = SumAll(Exactly(p, pool, amount))
  <2> DEFINE f == parts(amount)
             g == Exactly(p, pool, amount)
  <2>1. g \in [BinsOf(p) -> Nat]
    BY FlooredIsBelow
  <2>2. \A b \in BinsOf(p) : g[b] = ExactPart(p.shares[b], amount[b], pool.supply[b])
    BY DEF Exactly
  <2>3. DOMAIN f = DOMAIN bins /\ f = [i \in DOMAIN f |-> f[i]]
    OBVIOUS
  <2>4. ASSUME NEW i \in DOMAIN f PROVE f[i] = g[bins[i]]
    <3> DEFINE b == p.lower + i - 1
    <3>1. i \in DOMAIN bins /\ i \in 1 .. n /\ bins[i] = b /\ b \in BinsOf(p)
      BY <1>3, <1>5
    <3>2. f[i] = IF pool.supply[bins[i]] = 0 THEN 0
                 ELSE p.shares[b] * amount[bins[i]]
                      * (SUPPLY_MULTIPLE \div pool.supply[bins[i]])
      BY <3>1
    <3> HIDE DEF f, g, b, bins
    <3>3. f[i] = ExactPart(p.shares[b], amount[b], pool.supply[b])
      BY <3>1, <3>2 DEF ExactPart
    <3> QED
      BY <2>2, <3>1, <3>3
  <2> HIDE DEF f, g
  <2>5. SumAll(f) = SumAll(g)
    BY <2>1, <2>3, <2>4, SumInOrder
  <2> QED
    BY <2>5 DEF f, g
<1>7. pool.x \in [Bins -> Nat] /\ pool.y \in [Bins -> Nat]
  BY DEF Valuable
<1>8. ClientAmounts(p, pool, ValueArrays(p))
        = [x |-> SumAll(parts(pool.x)), y |-> SumAll(parts(pool.y))]
  <2> HIDE DEF bins
  <2> QED
    BY <1>2, <1>4 DEF ClientAmounts
<1> HIDE DEF parts
<1> QED
  BY <1>6, <1>7, <1>8

\* The library rounds them down.
LEMMA LibraryIs ==
  ASSUME NEW p, NEW pool, Valuable(p, pool)
  PROVE  LibraryAmounts(p, pool)
           = [x |-> SumAll(Floored(p, pool, pool.x)), y |-> SumAll(Floored(p, pool, pool.y))]
<1> DEFINE bins == Consecutive(p.lower, p.upper)
           n == p.upper - p.lower + 1
           parts(amount) ==
             [i \in DOMAIN bins |->
                Part(p.shares[p.lower + i - 1], amount[bins[i]], pool.supply[bins[i]])]
<1>1. p.lower \in Int /\ p.upper \in Int /\ p.lower <= p.upper
      /\ p.upper - p.lower < MAX_BIN_PER_POSITION /\ n \in Nat
  BY RangeOfPosition DEF Valuable
<1>2. LibraryBins(p) = bins
  BY <1>1, BinsAreConsecutive
<1>3. DOMAIN bins = 1 .. n /\ \A i \in 1 .. n : bins[i] = p.lower + i - 1
  BY <1>1 DEF Consecutive
<1>5. \A i \in 1 .. n : p.lower + i - 1 \in BinsOf(p)
  BY <1>1 DEF BinsOf
<1>6. ASSUME NEW amount \in [Bins -> Nat]
      PROVE  SumAll(parts(amount)) = SumAll(Floored(p, pool, amount))
  <2> DEFINE f == parts(amount)
             g == Floored(p, pool, amount)
  <2>1. g \in [BinsOf(p) -> Nat]
    BY FlooredIsBelow
  <2>2. \A b \in BinsOf(p) : g[b] = Part(p.shares[b], amount[b], pool.supply[b])
    BY DEF Floored
  <2>3. DOMAIN f = DOMAIN bins /\ f = [i \in DOMAIN f |-> f[i]]
    OBVIOUS
  <2>4. ASSUME NEW i \in DOMAIN f PROVE f[i] = g[bins[i]]
    <3> DEFINE b == p.lower + i - 1
    <3>1. i \in DOMAIN bins /\ i \in 1 .. n /\ bins[i] = b /\ b \in BinsOf(p)
      BY <1>3, <1>5
    <3>2. f[i] = Part(p.shares[b], amount[bins[i]], pool.supply[bins[i]])
      BY <3>1
    <3> HIDE DEF f, g, b, bins
    <3> QED
      BY <2>2, <3>1, <3>2
  <2> HIDE DEF f, g
  <2>5. SumAll(f) = SumAll(g)
    BY <2>1, <2>3, <2>4, SumInOrder
  <2> QED
    BY <2>5 DEF f, g
<1>7. pool.x \in [Bins -> Nat] /\ pool.y \in [Bins -> Nat]
  BY DEF Valuable
<1>8. LibraryAmounts(p, pool)
        = [x |-> SumAll(parts(pool.x)), y |-> SumAll(parts(pool.y))]
  <2> HIDE DEF bins
  <2> QED
    BY <1>2 DEF LibraryAmounts
<1> HIDE DEF parts
<1> QED
  BY <1>6, <1>7, <1>8

\* So does the program, which passes over bins without a share and tokens that
\* are not in their bin.
LEMMA ProgramIs ==
  ASSUME NEW p, NEW pool, Valuable(p, pool)
  PROVE  PositionAmounts(p, pool, ValueArrays(p))
           = [x |-> SumAll(Floored(p, pool, pool.x)), y |-> SumAll(Floored(p, pool, pool.y))]
<1> DEFINE D == BinsOf(p)
           arrays == ValueArrays(p)
           shared == {b \in D : p.shares[b] # 0}
           active == pool.activeId
           xs == {b \in shared : b >= active}
           ys == {b \in shared : b <= active}
           parts(amount) ==
             [b \in shared |->
                LET bin == GetBin(b, arrays)
                IN Part(p.shares[b], amount[bin], pool.supply[bin])]
<1>1. D \subseteq Bins /\ D \subseteq Int /\ IsFiniteSet(D) /\ active \in Int
      /\ p.lower \in Int /\ p.upper \in Int /\ p.upper - p.lower < MAX_BIN_PER_POSITION
  <2>1. active \in Int
    BY RoomAssumption DEF Valuable, Bins
  <2>2. p.upper - p.lower < MAX_BIN_PER_POSITION
    BY DEF Valuable
  <2> QED
    BY <2>1, <2>2, RangeOfPosition
<1>2. \A b \in D : GetBin(b, arrays) = b /\ b # NoArray
  BY <1>1, PositionIsCovered, NoArrayAssumption
<1>3. shared \subseteq D /\ xs \subseteq shared /\ ys \subseteq shared
  OBVIOUS
<1>4. IsFiniteSet(shared) /\ IsFiniteSet(xs) /\ IsFiniteSet(ys)
  BY <1>1, <1>3, FS_Subset
<1>5. ASSUME NEW amount \in [Bins -> Nat], NEW S, S \subseteq shared,
             \A b \in D \ S : p.shares[b] = 0 \/ amount[b] = 0
      PROVE  Sum(parts(amount), S) = SumAll(Floored(p, pool, amount))
  <2> DEFINE f == parts(amount)
             q == Floored(p, pool, amount)
  <2>1. q \in [D -> Nat] /\ SumAll(q) = Total(q, D)
    BY FlooredIsBelow
  <2>2. \A b \in D : q[b] = Part(p.shares[b], amount[b], pool.supply[b])
    BY DEF Floored
  <2>3. \A b \in shared : f[b] = q[b]
    <3> SUFFICES ASSUME NEW b \in shared PROVE f[b] = q[b]
      OBVIOUS
    <3>1. b \in D /\ GetBin(b, arrays) = b
      BY <1>2
    <3>2. f[b] = Part(p.shares[b], amount[GetBin(b, arrays)], pool.supply[GetBin(b, arrays)])
      OBVIOUS
    <3> HIDE DEF f, q
    <3> QED
      BY <2>2, <3>1, <3>2
  <2>4. DOMAIN f = shared /\ f = [b \in shared |-> f[b]]
    OBVIOUS
  <2>5. f \in [shared -> Nat]
    <3> HIDE DEF f, q, shared, D
    <3>1. \A b \in shared : f[b] \in Nat
      BY <1>3, <2>1, <2>3
    <3> QED
      BY <2>4, <3>1
  <2>6. \A b \in D \ S : q[b] = 0
    <3> SUFFICES ASSUME NEW b \in D \ S PROVE q[b] = 0
      OBVIOUS
    <3> DEFINE s == p.shares[b]
               a == amount[b]
               u == pool.supply[b]
    <3>1. s \in Nat /\ a \in Nat /\ u \in Nat /\ (u > 0 => SUPPLY_MULTIPLE % u = 0)
      BY <1>1 DEF Valuable
    <3>2. s = 0 \/ a = 0
      BY <1>5
    <3>3. q[b] = Part(s, a, u)
      BY <2>2
    <3> HIDE DEF s, a, u, q
    <3>4. s = 0 \/ a = 0 => Part(s, a, u) = 0
      BY <3>1, PartIsFloor
    <3> QED
      BY <3>2, <3>3, <3>4
  <2> HIDE DEF f, q, shared, D
  <2>7. IsFiniteSet(S) /\ S \subseteq D
    BY <1>3, <1>4, <1>5, FS_Subset
  <2>8. Sum(f, S) = Total(f, S)
    BY <1>5, <2>5, <2>7, SumIs
  <2>9. Total(f, S) = Total(q, S)
    BY <1>5, <2>3, TotalOfSame
  <2>10. Total(q, S) = Total(q, D)
    <3>1. D \subseteq D /\ \A b \in (S \ D) \cup (D \ S) : q[b] = 0
      BY <2>6, <2>7
    <3> QED
      BY <2>1, <2>7, <3>1, TotalOfSupport
  <2> QED
    BY <2>1, <2>8, <2>9, <2>10 DEF f, q
<1>6. Sum(parts(pool.x), xs) = SumAll(Floored(p, pool, pool.x))
  <2>1. pool.x \in [Bins -> Nat]
    BY DEF Valuable
  <2>2. \A b \in D \ xs : p.shares[b] = 0 \/ pool.x[b] = 0
    <3> SUFFICES ASSUME NEW b \in D, b \notin xs, p.shares[b] # 0 PROVE pool.x[b] = 0
      OBVIOUS
    <3>1. b < active /\ b \in Bins
      BY <1>1
    <3> QED
      BY <3>1 DEF Valuable
  <2> HIDE DEF parts, xs, D
  <2> QED
    BY <1>3, <1>5, <2>1, <2>2
<1>7. Sum(parts(pool.y), ys) = SumAll(Floored(p, pool, pool.y))
  <2>1. pool.y \in [Bins -> Nat]
    BY DEF Valuable
  <2>2. \A b \in D \ ys : p.shares[b] = 0 \/ pool.y[b] = 0
    <3> SUFFICES ASSUME NEW b \in D, b \notin ys, p.shares[b] # 0 PROVE pool.y[b] = 0
      OBVIOUS
    <3>1. b > active /\ b \in Bins
      BY <1>1
    <3> QED
      BY <3>1 DEF Valuable
  <2> HIDE DEF parts, ys, D
  <2> QED
    BY <1>3, <1>5, <2>1, <2>2
<1>8. ~ \E b \in shared : GetBin(b, arrays) = NoArray
  BY <1>2
<1>9. PositionAmounts(p, pool, arrays)
        = [x |-> Sum(parts(pool.x), xs), y |-> Sum(parts(pool.y), ys)]
  <2> HIDE DEF arrays
  <2> QED
    BY <1>8 DEF PositionAmounts
<1> HIDE DEF parts, xs, ys, arrays
<1>10. PositionAmounts(p, pool, arrays)
        = [x |-> SumAll(Floored(p, pool, pool.x)), y |-> SumAll(Floored(p, pool, pool.y))]
  BY <1>6, <1>7, <1>9
<1> QED
  BY <1>10 DEF arrays

\* The worth of the amounts A and B, whose unit B is worth S parts of P of an A,
\* against that of what they are rounded down from, in parts of a unit.
LEMMA WorthIs ==
  ASSUME NEW A \in Nat, NEW B \in Nat, NEW a \in Nat, NEW b \in Nat,
         NEW M \in Nat \ {0}, NEW P \in Nat \ {0}, NEW S \in Nat \ {0}, NEW n \in Nat,
         A * M <= a, a < A * M + n * M, B * M <= b, b < B * M + n * M
  PROVE  LET worth == A + (B * S) \div P
         IN /\ worth \in Nat /\ worth * (M * P) <= a * P + b * S
            /\ (a * P + b * S) - worth * (M * P) < n * M * (P + S) + M * P
<1> DEFINE bs == B * S
           q == bs \div P
           AM == A * M
           BM == B * M
           nM == n * M
           MP == M * P
           qP == q * P
<1>1. bs \in Nat /\ AM \in Nat /\ BM \in Nat /\ nM \in Nat /\ MP \in Nat
  OBVIOUS
<1>2. q \in Nat /\ qP <= bs /\ bs < qP + P
  <2> HIDE DEF bs
  <2> QED
    BY <1>1, Quotient
<1> HIDE DEF q
<1>3. qP \in Nat
  BY <1>2
<1>4. bs * M = BM * S /\ A * MP = AM * P /\ q * MP = qP * M /\ P * M = MP
  BY <1>2
<1>5. AM * P \in Nat /\ a * P \in Nat /\ nM * P \in Nat /\ nM * S \in Nat /\ BM * S \in Nat
      /\ b * S \in Nat /\ qP * M \in Nat /\ bs * M \in Nat
  <2> HIDE DEF AM, BM, nM, bs, qP
  <2> QED
    BY <1>1, <1>3
<1>6. AM * P <= a * P /\ a * P <= AM * P + nM * P
  <2> HIDE DEF AM, nM
  <2>1. AM <= a /\ a <= AM + nM
    BY <1>1 DEF AM, nM
  <2>2. (AM + nM) * P = AM * P + nM * P
    BY <1>1
  <2>3. AM * P <= a * P /\ a * P <= (AM + nM) * P
    BY <1>1, <2>1
  <2> QED
    BY <2>2, <2>3
<1>7. BM * S <= b * S /\ b * S <= BM * S + nM * S
  <2> HIDE DEF BM, nM
  <2>1. BM <= b /\ b <= BM + nM
    BY <1>1 DEF BM, nM
  <2>2. (BM + nM) * S = BM * S + nM * S
    BY <1>1
  <2>3. BM * S <= b * S /\ b * S <= (BM + nM) * S
    BY <1>1, <2>1
  <2> QED
    BY <2>2, <2>3
<1>8. qP * M <= bs * M /\ bs * M < qP * M + MP
  <2> HIDE DEF qP, bs
  <2>1. (qP + P) * M = qP * M + P * M
    BY <1>1, <1>3
  <2>2. qP * M <= bs * M /\ bs * M < (qP + P) * M
    BY <1>1, <1>2, <1>3
  <2> QED
    BY <1>4, <2>1, <2>2
<1>9. (A + q) * MP = AM * P + qP * M /\ nM * (P + S) = nM * P + nM * S
  <2> HIDE DEF AM, nM, MP, qP
  <2>1. (A + q) * MP = A * MP + q * MP
    BY <1>1, <1>2
  <2>2. nM * (P + S) = nM * P + nM * S
    BY <1>1
  <2> QED
    BY <1>4, <2>1, <2>2
<1>10. A + q \in Nat /\ (A + q) * MP <= a * P + b * S
       /\ (a * P + b * S) - (A + q) * MP < nM * (P + S) + MP
  <2> DEFINE t1 == AM * P
             t2 == a * P
             t3 == nM * P
             t4 == nM * S
             t5 == BM * S
             t6 == b * S
             t7 == qP * M
             t8 == (A + q) * MP
             t9 == nM * (P + S)
  <2>1. {t1, t2, t3, t4, t5, t6, t7} \subseteq Nat
    BY <1>5
  <2>2. t1 <= t2 /\ t2 <= t1 + t3 /\ t5 <= t6 /\ t6 <= t5 + t4 /\ t7 <= t5 /\ t5 < t7 + MP
        /\ t8 = t1 + t7 /\ t9 = t3 + t4
    BY <1>4, <1>6, <1>7, <1>8, <1>9
  <2> HIDE DEF t1, t2, t3, t4, t5, t6, t7, t8, t9, MP
  <2>3. t8 <= t2 + t6 /\ (t2 + t6) - t8 < t9 + MP
    BY <1>1, <2>1, <2>2
  <2> QED
    BY <1>2, <2>3 DEF t2, t6, t8, t9
<1> QED
  BY <1>10 DEF q

\* The program, the client and the library against x and y, what a position
\* holds in n bins in parts of M, at the price P in parts of S.
Fair(v, x, y, n, M, P, S, inX) ==
  LET unit == M * IF inX THEN P ELSE S
      exact == IF inX THEN x * P + y * S ELSE y * S + x * P
  IN /\ v.client = [x |-> x, y |-> y]
     /\ x - v.library.x * M \in 0 .. n * M - 1
     /\ y - v.library.y * M \in 0 .. n * M - 1
     /\ v.program # Failed
     /\ v.program * unit <= exact
     /\ exact - v.program * unit < n * M * (P + S) + unit

LEMMA ValuedIs ==
  ASSUME NEW c, Valuable(c.position, c.pool), c.inX \in BOOLEAN
  PROVE  Fair(Valued(c), SumAll(Exactly(c.position, c.pool, c.pool.x)),
              SumAll(Exactly(c.position, c.pool, c.pool.y)), Cardinality(BinsOf(c.position)),
              SUPPLY_MULTIPLE, Price[c.pool.activeId], SCALE, c.inX)
<1> DEFINE p == c.position
           pool == c.pool
           M == SUPPLY_MULTIPLE
           P == Price[pool.activeId]
           S == SCALE
           n == Cardinality(BinsOf(p))
           x == SumAll(Exactly(p, pool, pool.x))
           y == SumAll(Exactly(p, pool, pool.y))
           X == SumAll(Floored(p, pool, pool.x))
           Y == SumAll(Floored(p, pool, pool.y))
           amounts == [x |-> X, y |-> Y]
           program == GetPositionValue(p, pool, ValueArrays(p), c.inX)
<1>1. M \in Nat \ {0} /\ P \in Nat \ {0} /\ S \in Nat \ {0} /\ n \in Nat
  <2>1. pool.activeId \in Bins
    BY DEF Valuable
  <2> QED
    BY <2>1, PositionAssumption, PriceAssumption, RangeOfPosition
<1>2. pool.x \in [Bins -> Nat] /\ pool.y \in [Bins -> Nat]
  BY DEF Valuable
<1>3. x \in Nat /\ X \in Nat /\ X * M <= x /\ x < X * M + n * M
  BY <1>2, FlooredIsBelow
<1>4. y \in Nat /\ Y \in Nat /\ Y * M <= y /\ y < Y * M + n * M
  BY <1>2, FlooredIsBelow
<1>5. /\ Valued(c).program = program
      /\ Valued(c).client = ClientAmounts(p, pool, ValueArrays(p))
      /\ Valued(c).library = LibraryAmounts(p, pool)
  BY DEF Valued
<1>6. /\ ClientAmounts(p, pool, ValueArrays(p)) = [x |-> x, y |-> y]
      /\ LibraryAmounts(p, pool) = amounts
      /\ PositionAmounts(p, pool, ValueArrays(p)) = amounts
  BY ClientIs, LibraryIs, ProgramIs
<1> HIDE DEF p, pool, M, P, S, n, x, y, X, Y
<1>7. amounts # Failed
  <2>1. amounts \in [x : Nat, y : Nat]
    BY <1>3, <1>4
  <2> QED
    BY <2>1, FailedAssumption
<1>8. program = ValueOf(amounts, P, c.inX)
  BY <1>6, <1>7 DEF GetPositionValue, P
<1> DEFINE v == Valued(c)
<1>11. /\ v.client = [x |-> x, y |-> y]
       /\ x - v.library.x * M \in 0 .. n * M - 1
       /\ y - v.library.y * M \in 0 .. n * M - 1
  <2>1. v.client = [x |-> x, y |-> y] /\ v.library.x = X /\ v.library.y = Y
    BY <1>5, <1>6
  <2> DEFINE XM == X * M
             YM == Y * M
             nM == n * M
  <2>2. XM \in Nat /\ YM \in Nat /\ nM \in Nat
    BY <1>1, <1>3, <1>4
  <2>3. XM <= x /\ x < XM + nM /\ YM <= y /\ y < YM + nM
    BY <1>3, <1>4
  <2> HIDE DEF XM, YM, nM, v
  <2>4. x - XM \in 0 .. nM - 1 /\ y - YM \in 0 .. nM - 1
    BY <1>3, <1>4, <2>2, <2>3
  <2> QED
    BY <2>1, <2>4 DEF XM, YM, nM
<1>12. v.program = program
  BY <1>5
<1> DEFINE unit == M * IF c.inX THEN P ELSE S
           exact == IF c.inX THEN x * P + y * S ELSE y * S + x * P
<1>9. ASSUME c.inX PROVE Fair(v, x, y, n, M, P, S, c.inX)
  <2> DEFINE worth == X + (Y * S) \div P
  <2>1. program = worth
    BY <1>8, <1>9 DEF ValueOf, S
  <2>2. worth \in Nat /\ worth * (M * P) <= x * P + y * S
        /\ (x * P + y * S) - worth * (M * P) < n * M * (P + S) + M * P
    BY <1>1, <1>3, <1>4, WorthIs
  <2> HIDE DEF worth, program
  <2>3. program # Failed /\ program * (M * P) <= x * P + y * S
        /\ (x * P + y * S) - program * (M * P) < n * M * (P + S) + M * P
    BY <2>1, <2>2, FailedAssumption
  <2>4. unit = M * P /\ exact = x * P + y * S
    BY <1>9
  <2> HIDE DEF v, unit, exact
  <2>5. program * unit <= exact /\ exact - program * unit < n * M * (P + S) + unit
    <3> DEFINE dust == n * M * (P + S)
               u == M * P
               e == x * P + y * S
    <3>1. u = unit /\ e = exact
      BY <2>4
    <3>2. program * u <= e /\ e - program * u < dust + u
      BY <2>3
    <3> HIDE DEF dust, u, e
    <3>3. program * unit <= exact /\ exact - program * unit < dust + unit
      BY <3>1, <3>2
    <3> QED
      BY <3>3 DEF dust
  <2> QED
    BY <1>11, <1>12, <2>3, <2>5, Zenon DEF Fair, unit, exact
<1>10. ASSUME ~c.inX PROVE Fair(v, x, y, n, M, P, S, c.inX)
  <2> DEFINE worth == Y + (X * P) \div S
  <2>1. program = worth
    BY <1>8, <1>10 DEF ValueOf, S
  <2>2. worth \in Nat /\ worth * (M * S) <= y * S + x * P
        /\ (y * S + x * P) - worth * (M * S) < n * M * (S + P) + M * S
    BY <1>1, <1>3, <1>4, WorthIs
  <2>3. S + P = P + S
    BY <1>1
  <2> HIDE DEF worth, program
  <2>4. program # Failed /\ program * (M * S) <= y * S + x * P
        /\ (y * S + x * P) - program * (M * S) < n * M * (P + S) + M * S
    BY <2>1, <2>2, <2>3, FailedAssumption
  <2>5. unit = M * S /\ exact = y * S + x * P
    BY <1>10
  <2> HIDE DEF v, unit, exact
  <2>6. program * unit <= exact /\ exact - program * unit < n * M * (P + S) + unit
    <3> DEFINE dust == n * M * (P + S)
               u == M * S
               e == y * S + x * P
    <3>1. u = unit /\ e = exact
      BY <2>5
    <3>2. program * u <= e /\ e - program * u < dust + u
      BY <2>4
    <3> HIDE DEF dust, u, e
    <3>3. program * unit <= exact /\ exact - program * unit < dust + unit
      BY <3>1, <3>2
    <3> QED
      BY <3>3 DEF dust
  <2> QED
    BY <1>11, <1>12, <2>4, <2>6, Zenon DEF Fair, unit, exact
<1>13. Fair(v, x, y, n, M, P, S, c.inX)
  BY <1>9, <1>10
<1> QED
  BY <1>13 DEF p, pool, M, P, S, n, x, y

\* Whatever the shares, the amounts and the supplies of its bins: the client
\* finds exactly what a position holds (maiker.ts, processPosition), the library
\* less than a unit a bin below it, and the program a value that is not above
\* the exact one and below it by a unit of each token a bin and one more at most
\* (get_position_value).
THEOREM ValuesAreFair == Spec => []ValueIsFair
<1>1. ResultOfCall => ValueIsFair
  <2> SUFFICES ASSUME ResultOfCall, ReturnedOf("value")
               PROVE  ValueIsFair
    BY DEF ValueIsFair
  <2> DEFINE p == call.position
             pool == call.pool
             held(amount) ==
               SumAll([b \in BinsOf(p) |->
                         IF pool.supply[b] = 0 THEN 0
                         ELSE p.shares[b] * amount[b] * (SUPPLY_MULTIPLE \div pool.supply[b])])
             x == held(pool.x)
             y == held(pool.y)
  <2>1. Valuable(p, pool) /\ call.inX \in BOOLEAN
    <3>1. call \in Calls /\ call.kind = "value"
      BY DEF ResultOfCall, ReturnedOf
    <3> QED
      BY <3>1, CallsAssumption DEF Valuable
  <2>2. result = Valued(call)
    BY DEF ResultOfCall
  <2>3. x = SumAll(Exactly(p, pool, pool.x)) /\ y = SumAll(Exactly(p, pool, pool.y))
    BY DEF Exactly, ExactPart
  <2>4. Fair(result, x, y, Cardinality(BinsOf(p)), SUPPLY_MULTIPLE, Price[pool.activeId], SCALE,
             call.inX)
    <3> HIDE DEF x, y
    <3> QED
      BY <2>1, <2>2, <2>3, ValuedIs
  <2> QED
    BY <2>4, Zenon DEF ValueIsFair, Fair
<1> QED
  BY <1>1, ResultsHold, PTL
=============================================================================
