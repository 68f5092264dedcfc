-------------------------- MODULE BinArrays_proofs --------------------------
(***************************************************************************)
(* The indices and places of bins, for arrays of any size: the two cases   *)
(* of each computation, for bins above and below zero, agree.  And the     *)
(* search for the next array with liquidity, for bitmaps of any size.      *)
(***************************************************************************)
EXTENDS BinArrays, Data_proofs

LEMMA Quotient ==
  ASSUME NEW n \in Nat, NEW d \in Nat \ {0}
  PROVE  /\ n \div d \in Nat
         /\ (n \div d) * d <= n
         /\ n < (n \div d) * d + d
OBVIOUS

LEMMA Successor ==
  ASSUME NEW i \in Int, NEW d \in Int
  PROVE  /\ i * d \in Int
         /\ (i + 1) * d = i * d + d
         /\ (-i) * d = -(i * d)
OBVIOUS

LEMMA ProductOrder ==
  ASSUME NEW i \in Int, NEW j \in Int, NEW d \in Nat, i <= j
  PROVE  i * d <= j * d
OBVIOUS

\* binIdToBinArrayIndex rounds down on both sides of zero: a bin lies in the
\* array of its index.
THEOREM IndexIsFloor ==
  ASSUME NEW b \in Int
  PROVE  /\ BinIdToBinArrayIndex(b) \in Int
         /\ IsBinIdWithinBinArray(b, BinIdToBinArrayIndex(b))
<1> DEFINE S == MAX_BIN_ARRAY_SIZE
<1>1. S \in Nat \ {0}
  BY SizeAssumption
<1>2. CASE b >= 0
  <2>1. BinIdToBinArrayIndex(b) = b \div S
    BY <1>2 DEF BinIdToBinArrayIndex, TruncDiv
  <2> QED
    BY <2>1, <1>1, <1>2, Quotient, Successor
    DEF IsBinIdWithinBinArray, LowerBinId, UpperBinId
<1>3. CASE b < 0
  <2> DEFINE q == (-b) \div S
  <2>1. -b \in Nat
    BY <1>3
  <2>2. q \in Nat /\ q * S <= -b /\ -b < q * S + S /\ q * S \in Int
    BY <2>1, <1>1, Quotient
  <2>3. TruncDiv(b, S) = -q
    BY <1>3 DEF TruncDiv
  <2>4. TruncMod(b, S) = b - S * (-q)
    BY <2>3 DEF TruncMod
  <2>5. S * (-q) = -(q * S)
    BY <2>2, <1>1, Successor
  <2>6. BinIdToBinArrayIndex(b) = IF b + q * S # 0 THEN -q - 1 ELSE -q
    BY <1>3, <2>2, <2>3, <2>4, <2>5 DEF BinIdToBinArrayIndex
  <2>7. CASE b + q * S = 0
    <3>1. BinIdToBinArrayIndex(b) = -q /\ (-q) * S = -(q * S)
      BY <2>6, <2>7, <2>2, <1>1, Successor
    <3> QED
      BY <3>1, <2>2, <2>7, <1>1 DEF IsBinIdWithinBinArray, LowerBinId, UpperBinId
  <2>8. CASE b + q * S # 0
    <3>1. BinIdToBinArrayIndex(b) = -(q + 1)
      BY <2>6, <2>8, <2>2
    <3>2. (-(q + 1)) * S = -(q * S + S)
      BY <2>2, <1>1, Successor
    <3> QED
      BY <3>1, <3>2, <2>2, <2>8, <1>1 DEF IsBinIdWithinBinArray, LowerBinId, UpperBinId
  <2> QED
    BY <2>7, <2>8
<1> QED
  BY <1>2, <1>3

\* A bin lies in no other array.
LEMMA OneArray ==
  ASSUME NEW b \in Int, NEW i \in Int, IsBinIdWithinBinArray(b, i)
  PROVE  BinIdToBinArrayIndex(b) = i
<1> DEFINE S == MAX_BIN_ARRAY_SIZE
           j == BinIdToBinArrayIndex(b)
<1>1. S \in Nat \ {0}
  BY SizeAssumption
<1>2. j \in Int /\ j * S <= b /\ b < j * S + S /\ j * S \in Int
  BY <1>1, IndexIsFloor, Successor DEF IsBinIdWithinBinArray, LowerBinId, UpperBinId
<1>3. i * S <= b /\ b < i * S + S /\ i * S \in Int
  BY <1>1, Successor DEF IsBinIdWithinBinArray, LowerBinId, UpperBinId
<1>4. ASSUME i + 1 <= j PROVE FALSE
  <2>1. (i + 1) * S <= j * S
    BY <1>1, <1>2, <1>4, ProductOrder
  <2> QED
    BY <2>1, <1>1, <1>2, <1>3, Successor
<1>5. ASSUME j + 1 <= i PROVE FALSE
  <2>1. (j + 1) * S <= i * S
    BY <1>1, <1>2, <1>5, ProductOrder
  <2> QED
    BY <2>1, <1>1, <1>2, <1>3, Successor
<1> QED
  BY <1>2, <1>4, <1>5

\* A later bin is in the same array or a later one, and in the next one at most
\* if it is less than an array away.
LEMMA IndexOrder ==
  ASSUME NEW a \in Int, NEW b \in Int, a <= b
  PROVE  /\ BinIdToBinArrayIndex(a) <= BinIdToBinArrayIndex(b)
         /\ b - a <= MAX_BIN_ARRAY_SIZE
              => BinIdToBinArrayIndex(b) <= BinIdToBinArrayIndex(a) + 1
<1> DEFINE S == MAX_BIN_ARRAY_SIZE
           i == BinIdToBinArrayIndex(a)
           j == BinIdToBinArrayIndex(b)
<1>1. S \in Nat \ {0}
  BY SizeAssumption
<1>2. i \in Int /\ i * S <= a /\ a < i * S + S /\ i * S \in Int
  BY <1>1, IndexIsFloor, Successor DEF IsBinIdWithinBinArray, LowerBinId, UpperBinId
<1>3. j \in Int /\ j * S <= b /\ b < j * S + S /\ j * S \in Int
  BY <1>1, IndexIsFloor, Successor DEF IsBinIdWithinBinArray, LowerBinId, UpperBinId
<1>4. ASSUME j + 1 <= i PROVE FALSE
  <2>1. (j + 1) * S <= i * S
    BY <1>1, <1>2, <1>3, <1>4, ProductOrder
  <2> QED
    BY <2>1, <1>1, <1>2, <1>3, Successor
<1>5. ASSUME b - a <= S, (i + 1) + 1 <= j PROVE FALSE
  <2>1. ((i + 1) + 1) * S <= j * S
    BY <1>1, <1>2, <1>3, <1>5, ProductOrder
  <2>2. ((i + 1) + 1) * S = i * S + S + S
    BY <1>1, <1>2, Successor
  <2> QED
    BY <2>1, <2>2, <1>1, <1>2, <1>3, <1>5
<1> QED
  BY <1>2, <1>3, <1>4, <1>5

\* getBinFromBinArray reads the bin it was asked for, whichever of its two
\* formulas it takes.
THEOREM PlaceOfBin ==
  ASSUME NEW b \in Int, NEW i \in Int
  PROVE  BinAt(i, PlaceInBinArray(b, i)) = b
<1>1. MAX_BIN_ARRAY_SIZE \in Nat \ {0} /\ i * MAX_BIN_ARRAY_SIZE \in Int
  BY SizeAssumption, Successor
<1> QED
  BY <1>1 DEF BinAt, PlaceInBinArray, LowerBinId, UpperBinId

-----------------------------------------------------------------------------
(***************************************************************************)
(* The search for the next array with liquidity.                           *)
(***************************************************************************)
\* A set of bins within bounds has a first and a last one.
LEMMA FirstAndLast ==
  ASSUME NEW lower \in Int, NEW upper \in Int,
         NEW bins, bins \subseteq lower .. upper, bins # {}
  PROVE  /\ Min(bins) \in bins /\ Max(bins) \in bins
         /\ \A b \in bins : Min(bins) <= b /\ b <= Max(bins)
<1>1. Min(bins) \in bins /\ \A b \in bins : Min(bins) <= b
  <2> DEFINE T == {b - lower : b \in bins}
  <2>1. T \subseteq Nat /\ T # {}
    <3>1. \A b \in bins : b - lower \in Nat
      OBVIOUS
    <3> QED
      BY <3>1
  <2>2. PICK t \in T : \A y \in T : t <= y
    BY <2>1, LeastNat
  <2>3. PICK m \in bins : t = m - lower
    BY <2>2
  <2>4. \A b \in bins : m <= b
    <3> TAKE b \in bins
    <3>1. m - lower <= b - lower
      BY <2>2, <2>3
    <3>2. m \in Int /\ b \in Int
      OBVIOUS
    <3> QED
      BY <3>1, <3>2
  <2> QED
    BY <2>3, <2>4 DEF Min
<1>2. Max(bins) \in bins /\ \A b \in bins : b <= Max(bins)
  <2> DEFINE T == {upper - b : b \in bins}
  <2>1. T \subseteq Nat /\ T # {}
    <3>1. \A b \in bins : upper - b \in Nat
      OBVIOUS
    <3> QED
      BY <3>1
  <2>2. PICK t \in T : \A y \in T : t <= y
    BY <2>1, LeastNat
  <2>3. PICK m \in bins : t = upper - m
    BY <2>2
  <2>4. \A b \in bins : m >= b
    <3> TAKE b \in bins
    <3>1. upper - m <= upper - b
      BY <2>2, <2>3
    <3>2. m \in Int /\ b \in Int
      OBVIOUS
    <3> QED
      BY <3>1, <3>2
  <2>5. Max(bins) \in bins /\ \A b \in bins : Max(bins) >= b
    BY <2>3, <2>4 DEF Max
  <2> QED
    BY <2>5
<1> QED
  BY <1>1, <1>2

\* A number is known from its quotient and its rest.
LEMMA DivMod ==
  ASSUME NEW m \in Nat, NEW n \in Nat, NEW d \in Nat \ {0},
         m \div d = n \div d, m % d = n % d
  PROVE  m = n
<1>1. m = (m \div d) * d + (m % d) /\ n = (n \div d) * d + (n % d)
  OBVIOUS
<1> QED
  BY <1>1

\* One divisor more is one chunk further, at the same bit.
LEMMA NextChunk ==
  ASSUME NEW n \in Nat, NEW d \in Nat \ {0}
  PROVE  (n + d) \div d - 1 = n \div d /\ (n + d) % d = n % d
<1> DEFINE p == (n + d) \div d
           q == n \div d
<1>1. /\ q \in Nat /\ q * d <= n /\ n < q * d + d /\ q * d \in Int
      /\ p \in Nat /\ p * d <= n + d /\ n + d < p * d + d /\ p * d \in Int
  BY Quotient, Successor
<1>2. (n % d) = n - q * d /\ ((n + d) % d) = n + d - p * d
  OBVIOUS
<1> HIDE DEF p, q
<1>3. (q + 1) * d = q * d + d /\ (p + 1) * d = p * d + d /\ ((q + 1) + 1) * d = (q + 1) * d + d
  BY <1>1, Successor
<1>4. ASSUME p + 1 <= q + 1 PROVE FALSE
  <2>1. (p + 1) * d <= (q + 1) * d /\ p * d <= q * d
    BY <1>1, <1>4, ProductOrder
  <2> QED
    BY <2>1, <1>1, <1>3
<1>5. ASSUME q + 2 <= p PROVE FALSE
  <2>1. ((q + 1) + 1) * d <= p * d
    BY <1>1, <1>5, ProductOrder
  <2> QED
    BY <2>1, <1>1, <1>3
<1>6. p = q + 1
  BY <1>1, <1>4, <1>5
<1> QED
  BY <1>1, <1>2, <1>3, <1>6 DEF p, q

\* The bounds of the two bitmaps.
LEMMA Bounds ==
  /\ BIN_ARRAY_BITMAP_SIZE \in Nat \ {0} /\ MinIndex \in Int /\ MaxIndex \in Int
  /\ MinIndex <= -BIN_ARRAY_BITMAP_SIZE - 1 /\ BIN_ARRAY_BITMAP_SIZE <= MaxIndex
  /\ InternalIndices = -BIN_ARRAY_BITMAP_SIZE .. BIN_ARRAY_BITMAP_SIZE - 1
<1> DEFINE B == BIN_ARRAY_BITMAP_SIZE
           E == EXTENSION_BINARRAY_BITMAP_SIZE
<1>1. B \in Nat \ {0} /\ E \in Nat \ {0}
  BY SizeAssumption
<1>2. E * B \in Int /\ (E + 1) * B = E * B + B /\ 1 * B <= E * B
  BY <1>1, Successor, ProductOrder
<1>3. B * (E + 1) = (E + 1) * B /\ -B * (E + 1) = -((E + 1) * B)
  BY <1>1
<1> QED
  BY <1>1, <1>2, <1>3 DEF MinIndex, MaxIndex, InternalIndices

\* A bit of the extension is set for the arrays with liquidity, and no other.
LEMMA ExtensionBitIsSet ==
  ASSUME NEW liquid, liquid \subseteq MinIndex .. MaxIndex,
         NEW i \in Int, i \notin InternalIndices
  PROVE  ExtensionBit(Bitmaps(liquid), i) <=> i \in liquid
<1> DEFINE B == BIN_ARRAY_BITMAP_SIZE
           bit(n) == <<n \div B, n % B>>
           up == {j \in liquid : j >= B}
           down == {j \in liquid : j < -B}
<1>1. B \in Nat \ {0} /\ \A j \in liquid : j \in Int
  BY Bounds
<1>2. /\ Bitmaps(liquid).positive = {bit(d) : d \in {j - B : j \in up}}
      /\ Bitmaps(liquid).negative = {bit(d) : d \in {-B - 1 - j : j \in down}}
  BY DEF Bitmaps, ExtensionBits
<1>3. \A m, n \in Nat : bit(m) = bit(n) => m = n
  BY <1>1, DivMod
<1> HIDE DEF bit
<1>4. CASE i >= B
  <2>1. i - B \in Nat /\ i > 0 /\ (i - B) + B = i
    BY <1>1, <1>4
  <2>2. i \div B - 1 = (i - B) \div B /\ i % B = (i - B) % B
    BY <1>1, <2>1, NextChunk
  <2>3. ExtensionBit(Bitmaps(liquid), i) <=> bit(i - B) \in Bitmaps(liquid).positive
    BY <2>1, <2>2 DEF ExtensionBit, bit
  <2>4. \A j \in up : j - B \in Nat /\ (j - B = i - B => j = i)
    BY <1>1
  <2>5. bit(i - B) \in {bit(d) : d \in {j - B : j \in up}} <=> i \in up
    BY <2>1, <2>4, <1>3
  <2> QED
    BY <2>3, <2>5, <1>2, <1>4
<1>5. CASE i < -B
  <2>1. -(i + 1) - B \in Nat /\ ~(i > 0) /\ (-(i + 1) - B) + B = -(i + 1) /\ -B - 1 - i = -(i + 1) - B
    BY <1>1, <1>5
  <2>2. /\ (-(i + 1)) \div B - 1 = (-B - 1 - i) \div B
        /\ (-(i + 1)) % B = (-B - 1 - i) % B
    BY <1>1, <2>1, NextChunk
  <2>3. ExtensionBit(Bitmaps(liquid), i) <=> bit(-B - 1 - i) \in Bitmaps(liquid).negative
    BY <2>1, <2>2 DEF ExtensionBit, bit
  <2>4. \A j \in down : -B - 1 - j \in Nat /\ (-B - 1 - j = -B - 1 - i => j = i)
    BY <1>1
  <2>5. bit(-B - 1 - i) \in {bit(d) : d \in {-B - 1 - j : j \in down}} <=> i \in down
    BY <2>1, <2>4, <1>3
  <2> QED
    BY <2>3, <2>5, <1>2, <1>5
<1> QED
  BY <1>1, <1>4, <1>5, Bounds

LEMMA InternalBitIsSet ==
  ASSUME NEW liquid, NEW i \in InternalIndices
  PROVE  i + BIN_ARRAY_BITMAP_SIZE \in Bitmaps(liquid).internal <=> i \in liquid
<1>1. \A j \in InternalIndices : j + BIN_ARRAY_BITMAP_SIZE = i + BIN_ARRAY_BITMAP_SIZE => j = i
  BY Bounds
<1>2. Bitmaps(liquid).internal = {j + BIN_ARRAY_BITMAP_SIZE : j \in liquid \cap InternalIndices}
  BY DEF Bitmaps
<1> QED
  BY <1>1, <1>2

\* The arrays with liquidity from `start` on, in the direction of a trade, and
\* the nearest of them.
Onwards(swapForY, start, liquid) ==
  {i \in liquid : IF swapForY THEN i <= start ELSE start <= i}

IsNearest(swapForY, start, liquid, found) ==
  LET onwards == Onwards(swapForY, start, liquid)
  IN IF onwards = {} THEN found = NoArray
     ELSE /\ found \in onwards
          /\ \A i \in onwards : IF swapForY THEN i <= found ELSE found <= i

\* One turn of the search: the body of its loop.
Turn(swapForY, start, liquid, hasExtension) ==
  IF ~IsOverflowDefaultBinArrayBitmap(start) THEN InInternal(swapForY, start, Bitmaps(liquid))
  ELSE IF hasExtension THEN InExtension(swapForY, start, Bitmaps(liquid))
  ELSE Ends(NoArray)

LEMMA SearchIsTurns ==
  ASSUME NEW swapForY, NEW activeId, NEW liquid, NEW hasExtension
  PROVE  LET first == Turn(swapForY, BinIdToBinArrayIndex(activeId), liquid, hasExtension)
             second == IF first.going THEN Turn(swapForY, first.index, liquid, hasExtension)
                       ELSE first
             third == IF second.going THEN Turn(swapForY, second.index, liquid, hasExtension)
                      ELSE second
         IN FindNextBinArrayIndexWithLiquidity(swapForY, activeId, Bitmaps(liquid), hasExtension)
              = third.index
BY Zenon DEF FindNextBinArrayIndexWithLiquidity, Turn

\* A turn through the internal bitmap finds the nearest array, or there is none
\* before the bitmap's end and the search goes on behind it.
LEMMA InternalTurn ==
  ASSUME NEW swapForY \in BOOLEAN, NEW liquid, liquid \subseteq MinIndex .. MaxIndex,
         NEW start \in InternalIndices
  PROVE  LET t == InInternal(swapForY, start, Bitmaps(liquid))
             B == BIN_ARRAY_BITMAP_SIZE
         IN /\ t.going \in BOOLEAN
            /\ ~t.going => t.index # NoArray /\ IsNearest(swapForY, start, liquid, t.index)
            /\ t.going => /\ t.index = IF swapForY THEN -B - 1 ELSE B
                          /\ Onwards(swapForY, start, liquid) = Onwards(swapForY, t.index, liquid)
<1> DEFINE B == BIN_ARRAY_BITMAP_SIZE
           t == InInternal(swapForY, start, Bitmaps(liquid))
           set == {i \in InternalIndices : /\ i + B \in Bitmaps(liquid).internal
                                           /\ IF swapForY THEN i <= start ELSE i >= start}
           next == IF swapForY THEN -B - 1 ELSE B
           onwards == Onwards(swapForY, start, liquid)
<1>1. /\ B \in Nat \ {0} /\ InternalIndices = -B .. B - 1 /\ start \in -B .. B - 1
      /\ \A i \in liquid : i \in Int
  BY Bounds
<1>2. set = onwards \cap InternalIndices
  <2>1. \A i \in InternalIndices : i + B \in Bitmaps(liquid).internal <=> i \in liquid
    BY InternalBitIsSet
  <2>2. \A i \in InternalIndices : (IF swapForY THEN i <= start ELSE i >= start)
                               <=> (IF swapForY THEN i <= start ELSE start <= i)
    BY <1>1
  <2> QED
    BY <2>1, <2>2 DEF Onwards
<1>3. t = IF set # {} THEN Ends(IF swapForY THEN Max(set) ELSE Min(set)) ELSE GoesOn(next)
  BY Zenon DEF InInternal
<1> HIDE DEF t, set
<1>4. CASE set # {}
  <2> DEFINE found == IF swapForY THEN Max(set) ELSE Min(set)
  <2>1. t.going = FALSE /\ t.index = found
    BY <1>3, <1>4 DEF Ends
  <2>2. set \subseteq -B .. B - 1 /\ -B \in Int /\ B - 1 \in Int
    BY <1>1, <1>2
  <2>3. /\ Min(set) \in set /\ Max(set) \in set
        /\ \A i \in set : Min(set) <= i /\ i <= Max(set)
    BY <2>2, <1>4, FirstAndLast
  <2> HIDE DEF onwards
  <2>4. found \in set /\ found \in -B .. B - 1 /\ found \in onwards
    BY <2>2, <2>3, <1>2
  <2>5. \A i \in set : IF swapForY THEN i <= found ELSE found <= i
    BY <2>3
  <2> HIDE DEF found
  <2>6. ASSUME NEW i \in onwards PROVE IF swapForY THEN i <= found ELSE found <= i
    <3>1. CASE i \in InternalIndices
      BY <3>1, <2>5, <2>6, <1>2
    <3>2. CASE i \notin InternalIndices
      BY <3>2, <2>4, <2>6, <1>1 DEF onwards, Onwards
    <3> QED
      BY <3>1, <3>2
  <2>7. IsNearest(swapForY, start, liquid, found)
    BY <2>4, <2>6 DEF IsNearest, onwards
  <2>8. found # NoArray
    BY <2>4, <1>1, NoArrayAssumption
  <2> QED
    BY <2>1, <2>7, <2>8 DEF t
<1>5. CASE set = {}
  <2>1. t.going = TRUE /\ t.index = next
    BY <1>3, <1>5 DEF GoesOn
  <2>2. Onwards(swapForY, start, liquid) = Onwards(swapForY, next, liquid)
    <3>1. \A i \in liquid : i \in InternalIndices => i \notin onwards
      BY <1>2, <1>5
    <3>2. ASSUME NEW i \in liquid
          PROVE  i \in Onwards(swapForY, start, liquid) <=> i \in Onwards(swapForY, next, liquid)
      <4>1. CASE swapForY
        BY <3>1, <3>2, <1>1, <4>1 DEF Onwards
      <4>2. CASE ~swapForY
        BY <3>1, <3>2, <1>1, <4>2 DEF Onwards
      <4> QED
        BY <4>1, <4>2
    <3> QED
      BY <3>2 DEF Onwards
  <2> QED
    BY <2>1, <2>2 DEF t
<1> QED
  BY <1>4, <1>5

\* What FindSetBit returns for a stretch outside the internal bitmap.
LEMMA StretchIsSearched ==
  ASSUME NEW liquid, liquid \subseteq MinIndex .. MaxIndex,
         NEW low \in Int, NEW high \in Int, low <= high,
         (low .. high) \cap InternalIndices = {}
  PROVE  LET set == liquid \cap (low .. high)
             up == FindSetBit(low, high, Bitmaps(liquid))
             down == FindSetBit(high, low, Bitmaps(liquid))
         IN /\ set = {} => up = NoArray /\ down = NoArray
            /\ set # {} => /\ up \in set /\ \A i \in set : up <= i
                           /\ down \in set /\ \A i \in set : i <= down
<1> DEFINE set == liquid \cap (low .. high)
           bit(i) == ExtensionBit(Bitmaps(liquid), i)
           up == FindSetBit(low, high, Bitmaps(liquid))
           down == FindSetBit(high, low, Bitmaps(liquid))
<1>1. \A i \in low .. high : bit(i) <=> i \in liquid
  <2> SUFFICES ASSUME NEW i \in low .. high PROVE bit(i) <=> i \in liquid
    OBVIOUS
  <2>1. i \in Int /\ i \notin InternalIndices
    OBVIOUS
  <2> QED
    BY <2>1, ExtensionBitIsSet
<1>2. /\ (low .. high) \cup (high .. low) = low .. high
      /\ (high .. low) \cup (low .. high) = low .. high
  OBVIOUS
<1>3. /\ up = IF {i \in low .. high : bit(i)} = {} THEN NoArray
              ELSE Min({i \in low .. high : bit(i)})
      /\ down = IF {i \in low .. high : bit(i)} = {} THEN NoArray
                ELSE IF high <= low THEN Min({i \in low .. high : bit(i)})
                ELSE Max({i \in low .. high : bit(i)})
  BY <1>2 DEF FindSetBit
<1>4. {i \in low .. high : bit(i)} = set
  BY <1>1
<1>5. /\ up = IF set = {} THEN NoArray ELSE Min(set)
      /\ down = IF set = {} THEN NoArray ELSE IF high <= low THEN Min(set) ELSE Max(set)
  BY <1>3, <1>4
<1> HIDE DEF up, down
<1>6. CASE set = {}
  BY <1>5, <1>6 DEF up, down
<1>7. CASE set # {}
  <2>1. set \subseteq low .. high
    OBVIOUS
  <2> HIDE DEF set
  <2>2. /\ Min(set) \in set /\ Max(set) \in set
        /\ \A i \in set : Min(set) <= i /\ i <= Max(set)
    BY <2>1, <1>7, FirstAndLast
  <2>3. \A i \in set : i \in Int /\ low <= i /\ i <= high
    BY <2>1
  <2>4. high <= low => \A i \in set : i <= Min(set)
    BY <2>2, <2>3
  <2> QED
    BY <2>2, <2>4, <1>5, <1>7 DEF set, up, down
<1> QED
  BY <1>6, <1>7

\* A turn through the extension finds the nearest array as well, or goes on into
\* the internal bitmap, or there is none on the way.
LEMMA ExtensionTurn ==
  ASSUME NEW swapForY \in BOOLEAN, NEW liquid, liquid \subseteq MinIndex .. MaxIndex,
         NEW start \in MinIndex .. MaxIndex, start \notin InternalIndices
  PROVE  LET t == InExtension(swapForY, start, Bitmaps(liquid))
             B == BIN_ARRAY_BITMAP_SIZE
         IN /\ t.going \in BOOLEAN
            /\ ~t.going => IsNearest(swapForY, start, liquid, t.index)
            /\ t.going => /\ swapForY = (start > 0)
                          /\ t.index = IF swapForY THEN B - 1 ELSE -B
                          /\ Onwards(swapForY, start, liquid) = Onwards(swapForY, t.index, liquid)
<1> DEFINE B == BIN_ARRAY_BITMAP_SIZE
           bitmaps == Bitmaps(liquid)
           end == IF swapForY THEN (IF start < 0 THEN MinIndex ELSE B)
                  ELSE (IF start < 0 THEN -B - 1 ELSE MaxIndex)
           found == FindSetBit(start, end, bitmaps)
           next == IF start < 0 THEN -B ELSE B - 1
           t == InExtension(swapForY, start, bitmaps)
           onwards == Onwards(swapForY, start, liquid)
           low == IF swapForY THEN end ELSE start
           high == IF swapForY THEN start ELSE end
           set == liquid \cap (low .. high)
<1>1. /\ B \in Nat \ {0} /\ InternalIndices = -B .. B - 1
      /\ MinIndex \in Int /\ MaxIndex \in Int /\ MinIndex <= -B - 1 /\ B <= MaxIndex
      /\ start \in Int /\ MinIndex <= start /\ start <= MaxIndex /\ (start < -B \/ B <= start)
      /\ \A i \in liquid : i \in Int /\ MinIndex <= i /\ i <= MaxIndex
  BY Bounds
<1>2. t = IF found # NoArray \/ swapForY = (start < 0) THEN Ends(found) ELSE GoesOn(next)
  BY Zenon DEF InExtension
<1> HIDE DEF t
<1>3. /\ low \in Int /\ high \in Int /\ low <= high
      /\ (low .. high) \cap InternalIndices = {}
  BY <1>1
<1>4. /\ set = {} => found = NoArray
      /\ set # {} => /\ found \in set
                     /\ \A i \in set : IF swapForY THEN i <= found ELSE found <= i
  <2>1. CASE swapForY
    <3>1. low = end /\ high = start
      BY <2>1
    <3> HIDE DEF low, high, end, bitmaps
    <3> QED
      BY <2>1, <3>1, <1>3, StretchIsSearched DEF bitmaps
  <2>2. CASE ~swapForY
    <3>1. low = start /\ high = end
      BY <2>2
    <3> HIDE DEF low, high, end, bitmaps
    <3> QED
      BY <2>2, <3>1, <1>3, StretchIsSearched DEF bitmaps
  <2> QED
    BY <2>1, <2>2
<1> HIDE DEF found
\* Beyond the stretch there is nothing, or the internal bitmap.
<1>5. /\ set \subseteq onwards
      /\ swapForY = (start < 0) => set = onwards
  <2>1. \A i \in set : IF swapForY THEN i <= start ELSE start <= i
    BY <1>1
  <2>2. ASSUME swapForY = (start < 0), NEW i \in onwards PROVE i \in set
    <3>1. i \in liquid /\ i \in Int /\ IF swapForY THEN i <= start ELSE start <= i
      BY <1>1 DEF Onwards
    <3>2. low <= i /\ i <= high
      BY <1>1, <2>2, <3>1
    <3> HIDE DEF low, high
    <3> QED
      BY <3>1, <3>2, <1>3
  <2> QED
    BY <2>1, <2>2 DEF Onwards
<1>6. \A i \in onwards : i \notin set => IF swapForY THEN i < low ELSE i > high
  BY <1>1 DEF Onwards
<1>7. set # {} => found # NoArray
  BY <1>1, <1>4, NoArrayAssumption
<1>8. CASE set # {}
  <2>1. t.going = FALSE /\ t.index = found
    BY <1>2, <1>7, <1>8 DEF Ends
  <2>2. found \in onwards /\ found \in low .. high
    BY <1>4, <1>5, <1>8
  <2>3. \A i \in onwards : i \in Int
    BY <1>1 DEF Onwards
  <2> HIDE DEF onwards, low, high
  <2>4. \A i \in onwards : IF swapForY THEN i <= found ELSE found <= i
    <3>1. found \in Int /\ low <= found /\ found <= high
      BY <2>2, <1>3
    <3> SUFFICES ASSUME NEW i \in onwards PROVE IF swapForY THEN i <= found ELSE found <= i
      OBVIOUS
    <3>2. CASE i \in set
      BY <3>2, <1>4
    <3>3. CASE i \notin set
      BY <3>1, <3>3, <1>6, <1>3, <2>3
    <3> QED
      BY <3>2, <3>3
  <2> QED
    BY <2>1, <2>2, <2>4 DEF IsNearest, onwards, t
<1>9. CASE set = {} /\ swapForY = (start < 0)
  <2>1. t.going = FALSE /\ t.index = NoArray
    BY <1>2, <1>4, <1>9 DEF Ends
  <2>2. onwards = {}
    BY <1>5, <1>9
  <2> QED
    BY <2>1, <2>2 DEF IsNearest, t
<1>10. CASE set = {} /\ swapForY # (start < 0)
  <2>1. t.going = TRUE /\ t.index = next
    BY <1>2, <1>4, <1>10 DEF GoesOn
  <2>2. swapForY = (start > 0) /\ next = IF swapForY THEN B - 1 ELSE -B
    BY <1>1, <1>10
  <2>3. Onwards(swapForY, start, liquid) = Onwards(swapForY, next, liquid)
    <3>1. ASSUME NEW i \in liquid
          PROVE  i \in Onwards(swapForY, start, liquid) <=> i \in Onwards(swapForY, next, liquid)
      <4>1. CASE swapForY
        BY <1>1, <1>6, <1>10, <2>2, <4>1 DEF Onwards
      <4>2. CASE ~swapForY
        BY <1>1, <1>6, <1>10, <2>2, <4>2 DEF Onwards
      <4> QED
        BY <4>1, <4>2
    <3> QED
      BY <3>1 DEF Onwards
  <2> QED
    BY <2>1, <2>2, <2>3 DEF t
<1> QED
  BY <1>8, <1>9, <1>10

\* The array of a bin is one that the bitmaps have a bit for.
LEMMA IndexInBounds ==
  ASSUME NEW b \in Bins
  PROVE  BinIdToBinArrayIndex(b) \in MinIndex .. MaxIndex
<1> DEFINE S == MAX_BIN_ARRAY_SIZE
           i == BinIdToBinArrayIndex(b)
<1>1. S \in Nat \ {0} /\ MinIndex \in Int /\ MaxIndex \in Int
  BY SizeAssumption, Bounds
<1>2. /\ MinIndex * S \in Int /\ MaxIndex * S \in Int
      /\ (MinIndex - 1) * S + S = MinIndex * S /\ (MaxIndex + 1) * S = MaxIndex * S + S
  <2>1. ((MinIndex - 1) + 1) * S = (MinIndex - 1) * S + S /\ (MinIndex - 1) + 1 = MinIndex
    BY <1>1, Successor
  <2> QED
    BY <2>1, <1>1, Successor
<1>3. b \in Int /\ MinIndex * S <= b /\ b <= MaxIndex * S + S - 1
  BY <1>1, <1>2, RoomAssumption DEF Bins, LowerBinId, UpperBinId
<1>4. i \in Int /\ i * S \in Int /\ i * S <= b /\ b < i * S + S
  BY <1>1, <1>3, IndexIsFloor, Successor DEF IsBinIdWithinBinArray, LowerBinId, UpperBinId
<1> HIDE DEF i
<1>5. ASSUME i <= MinIndex - 1 PROVE FALSE
  <2>1. i * S <= (MinIndex - 1) * S /\ (MinIndex - 1) * S \in Int
    BY <1>1, <1>4, <1>5, ProductOrder
  <2> QED
    BY <2>1, <1>1, <1>2, <1>3, <1>4
<1>6. ASSUME MaxIndex + 1 <= i PROVE FALSE
  <2>1. (MaxIndex + 1) * S <= i * S
    BY <1>1, <1>4, <1>6, ProductOrder
  <2> QED
    BY <2>1, <1>1, <1>2, <1>3, <1>4
<1> QED
  BY <1>1, <1>4, <1>5, <1>6 DEF i

\* The search finds the nearest array with liquidity in its direction, on
\* whichever side of the borders between the bitmaps, and says that there is
\* none only if there is none, from wherever it starts.
THEOREM NextIsNearest ==
  ASSUME NEW swapForY \in BOOLEAN, NEW activeId,
         BinIdToBinArrayIndex(activeId) \in MinIndex .. MaxIndex,
         NEW liquid, liquid \subseteq MinIndex .. MaxIndex, NEW hasExtension \in BOOLEAN,
         ~hasExtension =>
           \/ liquid \cup {BinIdToBinArrayIndex(activeId)} \subseteq InternalIndices
           \/ Onwards(swapForY, BinIdToBinArrayIndex(activeId), liquid) = {}
  PROVE  IsNearest(swapForY, BinIdToBinArrayIndex(activeId), liquid,
                   FindNextBinArrayIndexWithLiquidity(swapForY, activeId, Bitmaps(liquid),
                                                      hasExtension))
<1> DEFINE B == BIN_ARRAY_BITMAP_SIZE
           look(start) == Turn(swapForY, start, liquid, hasExtension)
           start == BinIdToBinArrayIndex(activeId)
           first == look(start)
           second == IF first.going THEN look(first.index) ELSE first
           third == IF second.going THEN look(second.index) ELSE second
           \* Where a turn may start: without the extension, only in the internal
           \* bitmap or where nothing lies onwards.
           seen == {i \in MinIndex .. MaxIndex :
                      \/ hasExtension \/ liquid \cup {i} \subseteq InternalIndices
                      \/ Onwards(swapForY, i, liquid) = {}}
<1>1. /\ B \in Nat \ {0} /\ InternalIndices = -B .. B - 1
      /\ MinIndex \in Int /\ MaxIndex \in Int /\ MinIndex <= -B - 1 /\ B <= MaxIndex
  BY Bounds
<1>2. start \in seen
  BY Zenon
<1>3. FindNextBinArrayIndexWithLiquidity(swapForY, activeId, Bitmaps(liquid), hasExtension)
        = third.index
  BY SearchIsTurns
\* A search that goes on is behind a border, and nothing was passed by.
<1>4. ASSUME NEW i \in seen
      PROVE  /\ look(i).going \in BOOLEAN
             /\ ~look(i).going => IsNearest(swapForY, i, liquid, look(i).index)
             /\ look(i).going =>
                  /\ \/ i \in InternalIndices /\ look(i).index = IF swapForY THEN -B - 1 ELSE B
                     \/ /\ i \notin InternalIndices /\ swapForY = (i > 0)
                        /\ look(i).index = IF swapForY THEN B - 1 ELSE -B
                  /\ Onwards(swapForY, i, liquid) = Onwards(swapForY, look(i).index, liquid)
  <2>1. CASE i \in InternalIndices
    <3>1. look(i) = InInternal(swapForY, i, Bitmaps(liquid))
      BY <2>1, Zenon DEF Turn, IsOverflowDefaultBinArrayBitmap
    <3> HIDE DEF look
    <3> QED
      BY <2>1, <3>1, InternalTurn
  <2>2. CASE i \notin InternalIndices /\ hasExtension
    <3>1. look(i) = InExtension(swapForY, i, Bitmaps(liquid))
      BY <2>2, Zenon DEF Turn, IsOverflowDefaultBinArrayBitmap
    <3> HIDE DEF look
    <3> QED
      BY <2>2, <3>1, ExtensionTurn
  <2>3. CASE i \notin InternalIndices /\ ~hasExtension
    <3>1. look(i) = Ends(NoArray)
      BY <2>3, Zenon DEF Turn, IsOverflowDefaultBinArrayBitmap
    <3>2. look(i).going = FALSE /\ look(i).index = NoArray
      BY <3>1 DEF Ends
    <3> HIDE DEF look
    <3>3. Onwards(swapForY, i, liquid) = {}
      BY <2>3
    <3> QED
      BY <3>2, <3>3 DEF IsNearest
  <2> QED
    BY <2>1, <2>2, <2>3
<1> SUFFICES IsNearest(swapForY, start, liquid, third.index)
  BY <1>3
<1> HIDE DEF look, start
<1>5. \A i, j, r : Onwards(swapForY, i, liquid) = Onwards(swapForY, j, liquid)
                     /\ IsNearest(swapForY, j, liquid, r) => IsNearest(swapForY, i, liquid, r)
  BY DEF IsNearest
<1>6. \A i \in seen : look(i).going => look(i).index \in seen
  <2> SUFFICES ASSUME NEW i \in seen, look(i).going PROVE look(i).index \in seen
    OBVIOUS
  <2> DEFINE j == look(i).index
  <2>1. /\ j \in MinIndex .. MaxIndex
        /\ i \notin InternalIndices => j \in InternalIndices
    BY <1>1, <1>4
  <2>2. Onwards(swapForY, i, liquid) = Onwards(swapForY, j, liquid)
    BY <1>4
  <2>3. ASSUME ~hasExtension, i \in InternalIndices, liquid \subseteq InternalIndices
        PROVE  Onwards(swapForY, j, liquid) = {}
    <3>1. j = IF swapForY THEN -B - 1 ELSE B
      BY <1>4, <2>3
    <3>2. \A k \in liquid : k \in Int /\ -B <= k /\ k <= B - 1
      BY <1>1, <2>3
    <3> HIDE DEF j
    <3>3. \A k \in liquid : ~(IF swapForY THEN k <= j ELSE j <= k)
      BY <1>1, <3>1, <3>2
    <3> QED
      BY <3>3 DEF Onwards
  <2> QED
    BY <2>1, <2>2, <2>3
\* Behind the internal bitmap the search ends.
<1>7. \A i \in seen : look(i).going /\ look(look(i).index).going =>
        i \notin InternalIndices /\ look(i).index \in InternalIndices
  <2> SUFFICES ASSUME NEW i \in seen, look(i).going, look(look(i).index).going
               PROVE  i \notin InternalIndices /\ look(i).index \in InternalIndices
    OBVIOUS
  <2> DEFINE j == look(i).index
  <2>1. j \in seen
    BY <1>6
  <2>2. \/ i \in InternalIndices /\ j = IF swapForY THEN -B - 1 ELSE B
        \/ i \notin InternalIndices /\ j = IF swapForY THEN B - 1 ELSE -B
    BY <1>4
  <2>3. j \in InternalIndices \/ swapForY = (j > 0)
    BY <2>1, <1>4
  <2> HIDE DEF j
  <2>4. CASE i \in InternalIndices
    <3>1. j = IF swapForY THEN -B - 1 ELSE B
      BY <2>2, <2>4
    <3>2. j \notin InternalIndices /\ swapForY # (j > 0)
      BY <3>1, <1>1
    <3> QED
      BY <3>2, <2>3
  <2>5. CASE i \notin InternalIndices
    <3>1. j = IF swapForY THEN B - 1 ELSE -B
      BY <2>2, <2>5
    <3> QED
      BY <3>1, <2>5, <1>1 DEF j
  <2> QED
    BY <2>4, <2>5
<1>8. CASE ~first.going
  BY <1>2, <1>4, <1>8
<1>9. CASE first.going /\ ~second.going
  <2>1. first.index \in seen /\ second = look(first.index) /\ third = second
    BY <1>2, <1>6, <1>9
  <2>2. IsNearest(swapForY, first.index, liquid, third.index)
    BY <2>1, <1>4, <1>9
  <2>3. Onwards(swapForY, start, liquid) = Onwards(swapForY, first.index, liquid)
    BY <1>2, <1>4, <1>9
  <2> QED
    BY <2>2, <2>3, <1>5
<1>10. CASE first.going /\ second.going
  <2>1. first.index \in seen /\ second = look(first.index)
    BY <1>2, <1>6, <1>10
  <2>2. second.index \in seen /\ third = look(second.index)
    BY <2>1, <1>6, <1>10
  <2>3. first.index \in InternalIndices
    BY <2>1, <1>2, <1>7, <1>10
  <2>4. ~third.going
    BY <2>1, <2>2, <2>3, <1>7, <1>10
  <2>5. IsNearest(swapForY, second.index, liquid, third.index)
    BY <2>2, <2>4, <1>4
  <2>6. Onwards(swapForY, first.index, liquid) = Onwards(swapForY, second.index, liquid)
    BY <2>1, <1>4, <1>10
  <2>7. Onwards(swapForY, start, liquid) = Onwards(swapForY, first.index, liquid)
    BY <1>2, <1>4, <1>10
  <2> QED
    BY <2>5, <2>6, <2>7, <1>5
<1> QED
  BY <1>4, <1>2, <1>8, <1>9, <1>10

-----------------------------------------------------------------------------
(***************************************************************************)
(* Rounding, and the lesser of two numbers.                                *)
(***************************************************************************)
LEMMA Product ==
  ASSUME NEW m \in Nat, NEW n \in Nat
  PROVE  m * n \in Nat
OBVIOUS

LEMMA CeilingIs ==
  ASSUME NEW a \in Nat, NEW d \in Nat \ {0}
  PROVE  LET q == (a + d - 1) \div d
         IN /\ q \in Nat /\ a <= q * d
            /\ \A n \in Nat : a <= n * d => q <= n
            /\ (a > 0 => q > 0) /\ (a = 0 => q = 0)
<1> DEFINE q == (a + d - 1) \div d
<1>1. a + d - 1 \in Nat
  OBVIOUS
<1>2. q \in Nat /\ q * d <= a + d - 1 /\ a + d - 1 < q * d + d /\ q * d \in Int
  BY <1>1, Quotient, Successor
<1> HIDE DEF q
<1>4. a <= q * d
  BY <1>2
<1>5. ASSUME NEW n \in Nat, a <= n * d, n + 1 <= q PROVE FALSE
  <2>1. (n + 1) * d <= q * d /\ (n + 1) * d = n * d + d /\ n * d \in Int
    BY <1>2, <1>5, ProductOrder, Successor
  <2> QED
    BY <2>1, <1>2, <1>5
<1>6. \A n \in Nat : a <= n * d => q <= n
  BY <1>2, <1>5
<1>7. a > 0 => q > 0
  <2>1. q = 0 => q * d = 0
    OBVIOUS
  <2> QED
    BY <2>1, <1>2, <1>4
<1>8. a = 0 => q = 0
  <2>1. a = 0 => a <= 0 * d
    OBVIOUS
  <2> QED
    BY <2>1, <1>2, <1>6
<1> QED
  BY <1>2, <1>4, <1>6, <1>7, <1>8 DEF q

LEMMA FloorDivIs ==
  ASSUME NEW a \in Nat, NEW d \in Nat \ {0}
  PROVE  /\ a \div d \in Nat
         /\ \A n \in Nat : n * d <= a => n <= a \div d
<1> DEFINE q == a \div d
<1>1. q \in Nat /\ a < q * d + d /\ q * d \in Int
  BY Quotient, Successor
<1> HIDE DEF q
<1>2. ASSUME NEW n \in Nat, n * d <= a, q + 1 <= n PROVE FALSE
  <2>1. (q + 1) * d <= n * d /\ (q + 1) * d = q * d + d /\ n * d \in Int
    BY <1>1, <1>2, ProductOrder, Successor
  <2> QED
    BY <2>1, <1>1, <1>2
<1> QED
  BY <1>1, <1>2 DEF q

LEMMA LesserOfTwo ==
  ASSUME NEW a \in Nat, NEW b \in Nat
  PROVE  /\ Min({a, b}) \in Nat /\ Min({a, b}) <= a /\ Min({a, b}) <= b
         /\ Min({a, b}) = IF a <= b THEN a ELSE b
<1>1. {a, b} \subseteq 0 .. a + b /\ {a, b} # {}
  OBVIOUS
<1>2. Min({a, b}) \in {a, b} /\ \A n \in {a, b} : Min({a, b}) <= n
  <2> DEFINE two == {a, b}
  <2>1. two \subseteq 0 .. a + b /\ two # {} /\ 0 \in Int /\ a + b \in Int
    BY <1>1
  <2> HIDE DEF two
  <2>2. Min(two) \in two /\ \A n \in two : Min(two) <= n
    BY <2>1, FirstAndLast
  <2> QED
    BY <2>2 DEF two
<1> QED
  BY <1>2

-----------------------------------------------------------------------------
(***************************************************************************)
(* Sums, and what is left of them by rounding each part down.              *)
(***************************************************************************)
\* A fold adds up, in whatever order it takes the elements.
LEMMA SumIs ==
  ASSUME NEW D, NEW f \in [D -> Nat], NEW S, S \subseteq D, IsFiniteSet(S)
  PROVE  Sum(f, S) = Total(f, S)
<1> DEFINE first == [s \in SUBSET S |-> CHOOSE b \in s : TRUE]
           sum == CHOOSE sum : sum = [s \in SUBSET S |->
                    IF s = {} THEN 0
                    ELSE LET b == CHOOSE b \in s : TRUE IN f[b] + sum[s \ {b}]]
<1>1. Sum(f, S) = sum[S]
  BY Zenon DEF Sum, MapThenSumSet, MapThenFoldSet
<1>2. \A s \in SUBSET S : s # {} => first[s] \in s /\ first[s] = CHOOSE b \in s : TRUE
  OBVIOUS
<1> HIDE DEF first, sum
<1>3. \A iter : AddsUp(iter, f, S, first)
                  <=> iter = [s \in SUBSET S |->
                                IF s = {} THEN 0
                                ELSE LET b == CHOOSE b \in s : TRUE IN f[b] + iter[s \ {b}]]
  <2> SUFFICES ASSUME NEW iter
               PROVE  [s \in SUBSET S |-> IF s = {} THEN 0
                                          ELSE f[first[s]] + iter[s \ {first[s]}]]
                        = [s \in SUBSET S |->
                             IF s = {} THEN 0
                             ELSE LET b == CHOOSE b \in s : TRUE IN f[b] + iter[s \ {b}]]
    BY Zenon DEF AddsUp
  <2> QED
    BY <1>2
<1>4. \E iter : AddsUp(iter, f, S, first)
  BY <1>2, FoldExists
<1>5. AddsUp(sum, f, S, first)
  BY <1>3, <1>4 DEF sum
<1> QED
  BY <1>1, <1>2, <1>5, FoldIsTotal

LEMMA TotalOfQuotients ==
  ASSUME NEW D, NEW f \in [D -> Nat], NEW d \in Nat \ {0}, NEW q,
         q = [b \in D |-> f[b] \div d], NEW S, S \subseteq D, IsFiniteSet(S)
  PROVE  /\ q \in [D -> Nat] /\ Total(q, S) * d <= Total(f, S)
         /\ Total(f, S) <= Total(q, S) * d + (d - 1) * Cardinality(S)
<1> DEFINE whole == [b \in D |-> d * q[b]]
           rest == [b \in D |-> f[b] - d * q[b]]
           most == [b \in D |-> d - 1]
<1>1. \A b \in D : /\ q[b] \in Nat /\ d * q[b] \in Nat /\ f[b] \in Nat
                   /\ d * q[b] <= f[b] /\ f[b] - d * q[b] <= d - 1
  <2> SUFFICES ASSUME NEW b \in D
               PROVE  /\ q[b] \in Nat /\ d * q[b] \in Nat /\ f[b] \in Nat
                      /\ d * q[b] <= f[b] /\ f[b] - d * q[b] <= d - 1
    OBVIOUS
  <2> DEFINE n == f[b]
             k == n \div d
  <2>1. q[b] = k /\ n \in Nat
    OBVIOUS
  <2> HIDE DEF n
  <2>2. k \in Nat /\ k * d <= n /\ n < k * d + d /\ k * d \in Int
    BY <2>1, Quotient, Successor
  <2> HIDE DEF k
  <2>3. d * k = k * d
    BY <2>2
  <2> QED
    BY <2>1, <2>2, <2>3 DEF n
<1>2. whole \in [D -> Nat] /\ rest \in [D -> Nat] /\ most \in [D -> Nat] /\ q \in [D -> Nat]
  BY <1>1
<1>a. \A b \in S : f[b] = whole[b] + rest[b]
  BY <1>1
<1>b. \A b \in S : whole[b] = d * q[b]
  OBVIOUS
<1>c. \A b \in S : rest[b] <= most[b]
  BY <1>1
<1>d. \A b \in S : most[b] = d - 1
  OBVIOUS
<1> HIDE DEF whole, rest, most
<1>4. Total(f, S) = Total(whole, S) + Total(rest, S)
  <2>1. \A g, h \in [D -> Nat] : (\A u \in S : f[u] = g[u] + h[u])
                                    => Total(f, S) = Total(g, S) + Total(h, S)
    BY TotalOfSums
  <2> QED
    BY <1>2, <1>a, <2>1
<1>5. Total(whole, S) = d * Total(q, S)
  <2>1. d \in Nat
    OBVIOUS
  <2> QED
    <3>1. \A g, h \in [D -> Nat] : (\A u \in S : h[u] = d * g[u])
                                      => Total(h, S) = d * Total(g, S)
      BY <2>1, TotalOfMultiples
    <3> QED
      BY <1>2, <1>b, <3>1
<1>6. Total(rest, S) <= Total(most, S)
  BY <1>2, <1>c, TotalsInOrder, Zenon
<1>7. Total(most, S) = (d - 1) * Cardinality(S) /\ Cardinality(S) \in Nat
  <2>1. d - 1 \in Nat
    OBVIOUS
  <2> QED
    BY <1>2, <1>d, <2>1, TotalOfEqual, Zenon
<1>8. Total(q, S) \in Nat /\ Total(rest, S) \in Nat /\ Total(f, S) \in Nat
  BY <1>2, TotalIsNat
<1>9. d * Total(q, S) = Total(q, S) * d /\ Total(q, S) * d \in Nat /\ (d - 1) * Cardinality(S) \in Nat
  BY <1>7, <1>8
<1> QED
  BY <1>2, <1>4, <1>5, <1>6, <1>7, <1>8, <1>9
=============================================================================
