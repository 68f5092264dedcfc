---------------------------- MODULE Swap_proofs ----------------------------
(***************************************************************************)
(* A quote walks the bins of any pool that fits the bitmaps, through the   *)
(* nearest arrays with liquidity, jumps over no bin, fails only when these *)
(* arrays are dry, and ends; and the two kinds of quote agree.             *)
(***************************************************************************)
EXTENDS Swap, BinArrays_proofs

-----------------------------------------------------------------------------
(***************************************************************************)
(* The direction of a swap.                                                *)
(***************************************************************************)
Index(b) == BinIdToBinArrayIndex(b)

\* Number b, of a bin or of an array, is a or comes after it.
From(a, b) == IF request.swapForY THEN b <= a ELSE a <= b

\* It comes after it.
Later(a, b) == IF request.swapForY THEN b < a ELSE a < b

Liquid == LiquidArrays(pool)
Onward(b) == Onwards(request.swapForY, Index(b), Liquid)

Given == pool \in Pools /\ request \in Requests

LEMMA GivenHas ==
  ASSUME Given
  PROVE  /\ request.swapForY \in BOOLEAN /\ request.isPartialFill \in BOOLEAN
         /\ request.outAmount \in Nat /\ request.count \in Nat
         /\ request.maxExtraBinArrays \in Nat /\ request.more \in Nat
         /\ pool.activeId \in Bins /\ pool.activeId \in Int /\ pool.hasExtension \in BOOLEAN
         /\ pool.x \in [Bins -> Nat] /\ pool.y \in [Bins -> Nat]
         /\ pool.bitmaps = Bitmaps(Liquid)
         /\ ~pool.hasExtension => Liquid \cup {Index(pool.activeId)} \subseteq InternalIndices
BY PoolsAssumption, RequestsAssumption, RoomAssumption
DEF Given, Bins, Liquid, Index, MAX_EXTRA_BIN_ARRAYS

\* The loop of getBinArrayForSwap has a last turn.
LEMMA LimitIs ==
  ASSUME Given
  PROVE  Limit \in Nat
BY GivenHas, Bounds DEF Limit

LEMMA Direction ==
  ASSUME request.swapForY \in BOOLEAN, NEW a \in Int, NEW b \in Int
  PROVE  /\ (b - a) * Sign >= 0 <=> From(a, b)
         /\ (b - a) * Sign > 0 <=> Later(a, b)
         /\ Later(a, b) <=> ~From(b, a)
         /\ From(a, b) <=> Later(a, b) \/ a = b
         /\ From(a, b) => From(Index(a), Index(b))
         /\ Later(a, NextBin(a)) /\ NextBin(a) \in Int
         /\ Later(a, b) <=> From(NextBin(a), b)
         /\ From(NextBin(Index(a)), Index(b)) => From(Index(NextBin(a)), Index(b))
<1>1. Index(a) \in Int /\ Index(b) \in Int /\ NextBin(a) \in Int
  BY IndexIsFloor DEF Index, NextBin
<1>2. /\ a <= b => Index(a) <= Index(b)
      /\ b <= a => Index(b) <= Index(a)
  BY IndexOrder DEF Index
<1>3. /\ Index(a + 1) <= Index(a) + 1 /\ Index(a) <= Index(a - 1) + 1
      /\ Index(a + 1) \in Int /\ Index(a - 1) \in Int
  BY IndexIsFloor, IndexOrder, SizeAssumption DEF Index
<1>4. CASE request.swapForY
  BY <1>1, <1>2, <1>3, <1>4 DEF Sign, From, Later, NextBin
<1>5. CASE ~request.swapForY
  BY <1>1, <1>2, <1>3, <1>5 DEF Sign, From, Later, NextBin
<1> QED
  BY <1>4, <1>5

\* The bins of an array, and where the search goes on behind it.
LEMMA ArrayBins ==
  ASSUME NEW i \in Int
  PROVE  /\ LowerBinId(i) \in Int /\ UpperBinId(i) \in Int /\ LowerBinId(i) <= UpperBinId(i)
         /\ Index(LowerBinId(i)) = i /\ Index(UpperBinId(i)) = i
         /\ LowerBinId(i + 1) = UpperBinId(i) + 1
         /\ \A b \in Int : Index(b) = i <=> LowerBinId(i) <= b /\ b <= UpperBinId(i)
<1>1. /\ MAX_BIN_ARRAY_SIZE \in Nat \ {0} /\ i * MAX_BIN_ARRAY_SIZE \in Int
      /\ (i + 1) * MAX_BIN_ARRAY_SIZE = i * MAX_BIN_ARRAY_SIZE + MAX_BIN_ARRAY_SIZE
  BY SizeAssumption, Successor
<1>2. /\ LowerBinId(i) \in Int /\ UpperBinId(i) \in Int /\ LowerBinId(i) <= UpperBinId(i)
      /\ LowerBinId(i + 1) = UpperBinId(i) + 1
  BY <1>1 DEF LowerBinId, UpperBinId
<1>3. \A b \in Int : Index(b) = i <=> LowerBinId(i) <= b /\ b <= UpperBinId(i)
  BY IndexIsFloor, OneArray DEF IsBinIdWithinBinArray, Index
<1> QED
  BY <1>2, <1>3

LEMMA BehindArray ==
  ASSUME request.swapForY \in BOOLEAN, NEW i \in Int
  PROVE  /\ Behind(i) \in Int
         /\ Index(Behind(i)) = NextBin(i)
         /\ \A b \in Int : From(Index(b), i) => Later(b, Behind(i))
<1>1. /\ LowerBinId(i - 1) \in Int /\ UpperBinId(i - 1) \in Int
      /\ (i - 1) + 1 = i /\ LowerBinId((i - 1) + 1) = UpperBinId(i - 1) + 1
      /\ Index(UpperBinId(i - 1)) = i - 1
  BY ArrayBins
<1>2. /\ LowerBinId(i) \in Int /\ UpperBinId(i) \in Int /\ LowerBinId(i) <= UpperBinId(i)
      /\ LowerBinId(i + 1) = UpperBinId(i) + 1 /\ Index(LowerBinId(i + 1)) = i + 1
      /\ Index(LowerBinId(i)) = i /\ Index(UpperBinId(i)) = i
  BY ArrayBins
<1>3. /\ LowerBinId(i) - 1 = UpperBinId(i - 1)
  BY <1>1, <1>2
<1>4. \A b \in Int : /\ i <= Index(b) => LowerBinId(i) <= b
                     /\ Index(b) <= i => b <= UpperBinId(i)
  <2> SUFFICES ASSUME NEW b \in Int
               PROVE  /\ i <= Index(b) => LowerBinId(i) <= b
                      /\ Index(b) <= i => b <= UpperBinId(i)
    OBVIOUS
  <2>1. Index(b) \in Int /\ LowerBinId(Index(b)) <= b /\ b <= UpperBinId(Index(b))
    BY IndexIsFloor DEF Index, IsBinIdWithinBinArray
  <2>2. /\ b <= UpperBinId(i - 1) => Index(b) <= i - 1
        /\ LowerBinId(i + 1) <= b => i + 1 <= Index(b)
    BY <1>1, <1>2, IndexOrder DEF Index
  <2> QED
    BY <1>1, <1>2, <1>3, <2>1, <2>2
<1>5. CASE request.swapForY
  BY <1>1, <1>2, <1>3, <1>4, <1>5 DEF Behind, NextBin, From, Later
<1>6. CASE ~request.swapForY
  BY <1>1, <1>2, <1>4, <1>6 DEF Behind, NextBin, From, Later
<1> QED
  BY <1>5, <1>6

\* Within the bins that the bitmaps have room for.
Room == LowerBinId(MinIndex) .. UpperBinId(MaxIndex)

LEMMA RoomOfIndex ==
  /\ \A b \in Int : b \in Room <=> Index(b) \in MinIndex .. MaxIndex
  /\ Bins \subseteq Room
  /\ \A b \in Bins : b \in Int /\ MinIndex + 1 <= Index(b) /\ Index(b) <= MaxIndex - 1
<1> DEFINE low == LowerBinId(MinIndex)
           high == UpperBinId(MaxIndex)
<1>1. MinIndex \in Int /\ MaxIndex \in Int
  BY Bounds
<1>2. /\ low \in Int /\ high \in Int /\ Index(low) = MinIndex /\ Index(high) = MaxIndex
      /\ LowerBinId(MinIndex + 1) = UpperBinId(MinIndex) + 1
      /\ LowerBinId(MaxIndex) \in Int /\ UpperBinId(MinIndex) \in Int
  BY <1>1, ArrayBins
<1>3. /\ Index(LowerBinId(MinIndex + 1)) = MinIndex + 1 /\ LowerBinId(MinIndex + 1) \in Int
      /\ LowerBinId((MaxIndex - 1) + 1) = UpperBinId(MaxIndex - 1) + 1
      /\ (MaxIndex - 1) + 1 = MaxIndex
      /\ Index(UpperBinId(MaxIndex - 1)) = MaxIndex - 1 /\ UpperBinId(MaxIndex - 1) \in Int
  BY <1>1, ArrayBins
<1>4. ASSUME NEW b \in Int
      PROVE  b \in Room <=> Index(b) \in MinIndex .. MaxIndex
  <2>1. /\ Index(b) \in Int /\ b <= UpperBinId(Index(b)) /\ LowerBinId(Index(b)) <= b
    BY IndexIsFloor DEF Index, IsBinIdWithinBinArray
  <2>2. /\ low <= b => MinIndex <= Index(b)
        /\ b <= low => Index(b) <= MinIndex
        /\ b <= high => Index(b) <= MaxIndex
        /\ high <= b => MaxIndex <= Index(b)
    BY <1>2, IndexOrder DEF Index
  <2>3. Index(b) = MinIndex => low <= b
    BY <2>1
  <2>4. Index(b) = MaxIndex => b <= high
    BY <2>1
  <2> QED
    BY <1>1, <1>2, <2>1, <2>2, <2>3, <2>4 DEF Room
<1>5. ASSUME NEW b \in Bins
      PROVE  b \in Int /\ MinIndex + 1 <= Index(b) /\ Index(b) <= MaxIndex - 1
  <2>1. /\ MAX_BIN_ARRAY_SIZE \in Nat
        /\ LowerBinId(MinIndex + 1) = low + MAX_BIN_ARRAY_SIZE
        /\ UpperBinId(MaxIndex - 1) = high - MAX_BIN_ARRAY_SIZE
    BY <1>1, <1>2, <1>3, SizeAssumption, Successor DEF LowerBinId, UpperBinId
  <2>2. b \in Int /\ LowerBinId(MinIndex + 1) <= b /\ b <= UpperBinId(MaxIndex - 1)
    BY <1>2, <1>3, <2>1, RoomAssumption DEF Bins
  <2> QED
    BY <1>2, <1>3, <2>2, IndexOrder DEF Index
<1>6. Bins \subseteq Room
  <2>1. \A b \in Bins : Index(b) \in Int
    BY <1>5, IndexIsFloor DEF Index
  <2> QED
    BY <1>1, <1>4, <1>5, <2>1
<1> QED
  BY <1>4, <1>5, <1>6

\* The arrays with liquidity lie within the room, with one to spare.
LEMMA LiquidIsInRoom ==
  /\ Liquid \subseteq MinIndex .. MaxIndex
  /\ \A i \in Liquid : i \in Int /\ MinIndex + 1 <= i /\ i <= MaxIndex - 1
  /\ NoArray \notin Liquid
<1>1. \A b \in Bins : Index(b) \in Int
  BY RoomOfIndex, IndexIsFloor DEF Index
<1>2. \A i \in Liquid : i \in Int /\ MinIndex + 1 <= i /\ i <= MaxIndex - 1
  BY <1>1, RoomOfIndex DEF Liquid, LiquidArrays, Index
<1> QED
  BY <1>2, Bounds, NoArrayAssumption

\* A search from the active bin on finds the nearest array that has liquidity.
LEMMA Searches ==
  ASSUME Given, NEW b \in Room, From(pool.activeId, b)
  PROVE  /\ Onward(b) = {} => FindNext(b) = NoArray
         /\ Onward(b) # {} => FindNext(b) \in Onward(b)
         /\ \A i \in Onward(b) : From(FindNext(b), i)
         /\ FindNext(b) # NoArray => FindNext(b) \in Onward(b)
<1>1. /\ b \in Int /\ Index(b) \in MinIndex .. MaxIndex /\ Liquid \subseteq MinIndex .. MaxIndex
      /\ Index(b) \in Int /\ \A i \in Liquid : i \in Int
  <2>1. b \in Int
    BY Bounds, ArrayBins DEF Room
  <2> QED
    BY <2>1, RoomOfIndex, LiquidIsInRoom, IndexIsFloor DEF Index
<1>2. /\ request.swapForY \in BOOLEAN /\ pool.activeId \in Int /\ pool.hasExtension \in BOOLEAN
      /\ pool.bitmaps = Bitmaps(Liquid)
  BY GivenHas
<1>3. ASSUME ~pool.hasExtension
      PROVE  Liquid \cup {Index(b)} \subseteq InternalIndices \/ Onward(b) = {}
  <2>1. Liquid \subseteq InternalIndices /\ Index(pool.activeId) \in InternalIndices
    BY <1>3, GivenHas
  <2>2. From(Index(pool.activeId), Index(b))
    BY <1>1, <1>2, Direction
  <2>3. \A i \in Liquid : /\ -BIN_ARRAY_BITMAP_SIZE <= i /\ i <= BIN_ARRAY_BITMAP_SIZE - 1
    BY <2>1, Bounds
  <2>4. CASE Index(b) \notin InternalIndices
    <3>1. IF request.swapForY THEN Index(b) < -BIN_ARRAY_BITMAP_SIZE
                              ELSE BIN_ARRAY_BITMAP_SIZE - 1 < Index(b)
      BY <1>1, <2>1, <2>2, <2>4, Bounds DEF From
    <3>2. \A i \in Liquid : ~(IF request.swapForY THEN i <= Index(b) ELSE Index(b) <= i)
      BY <1>1, <2>3, <3>1, Bounds
    <3> QED
      BY <3>2 DEF Onward, Onwards
  <2> QED
    BY <2>1, <2>4
<1>4. IsNearest(request.swapForY, Index(b), Liquid, FindNext(b))
  BY <1>1, <1>2, <1>3, NextIsNearest DEF FindNext, Onward, Index
<1>5. /\ Onward(b) = {} => FindNext(b) = NoArray
      /\ Onward(b) # {} => /\ FindNext(b) \in Onward(b)
                           /\ \A i \in Onward(b) : From(FindNext(b), i)
  BY <1>2, <1>4 DEF IsNearest, Onward, From
<1> QED
  BY <1>5

-----------------------------------------------------------------------------
(***************************************************************************)
(* getBinArrayForSwap.                                                     *)
(***************************************************************************)
\* The arrays with liquidity that the swap may come to.
On == Onward(pool.activeId)

Within(list, i) == \E m \in DOMAIN list : list[m] = i

\* The list holds the n nearest of them, in the order of the swap.
IsNearestList(list, n) ==
  /\ list \in Seq(Int) /\ Len(list) <= n
  /\ \A m \in DOMAIN list : list[m] \in On
  /\ \A m, l \in DOMAIN list : m < l => Later(list[m], list[l])
  /\ \A i \in On : Within(list, i) \/ \A m \in DOMAIN list : Later(list[m], i)
  /\ Len(list) < n => \A i \in On : Within(list, i)

\* What the n-th turn of the loop makes of the list.
Turned(n, list) ==
  LET index == FindNext(IF n = 1 THEN pool.activeId ELSE Behind(list[n - 1]))
  IN IF Len(list) < n - 1 \/ index = NoArray THEN list ELSE Append(list, index)

LEMMA NextArrayIsFound ==
  ASSUME Given, NEW n \in Nat \ {0}, NEW list, IsNearestList(list, n - 1)
  PROVE  IsNearestList(Turned(n, list), n)
<1> DEFINE from == IF n = 1 THEN pool.activeId ELSE Behind(list[n - 1])
           index == FindNext(from)
<1>1. /\ list \in Seq(Int) /\ DOMAIN list = 1 .. Len(list) /\ Len(list) \in Nat
      /\ Len(list) <= n - 1
  BY DEF IsNearestList
<1>2. /\ request.swapForY \in BOOLEAN /\ pool.activeId \in Bins /\ pool.activeId \in Int
      /\ pool.activeId \in Room
      /\ \A i \in Liquid : i \in Int /\ MinIndex + 1 <= i /\ i <= MaxIndex - 1
  BY GivenHas, RoomOfIndex, LiquidIsInRoom
<1>3. /\ On \subseteq Liquid
      /\ \A i \in Liquid : i \in On <=> From(Index(pool.activeId), i)
  BY DEF On, Onward, Onwards, From
<1>4. CASE Len(list) < n - 1
  <2>1. Turned(n, list) = list
    BY <1>4 DEF Turned
  <2> QED
    BY <1>1, <1>4, <2>1 DEF IsNearestList
<1>5. CASE Len(list) = n - 1
  \* What lies onwards of where the search starts is what the list has not.
  <2>1. /\ from \in Room /\ From(pool.activeId, from)
        /\ \A i \in Liquid : i \in Onward(from) <=> i \in On /\ ~Within(list, i)
    <3>1. CASE n = 1
      <4>1. from = pool.activeId /\ DOMAIN list = {}
        BY <1>1, <1>5, <3>1
      <4> HIDE DEF from
      <4>2. From(pool.activeId, from) /\ Onward(from) = On
        BY <1>2, <4>1 DEF On, From
      <4> QED
        BY <1>2, <1>3, <4>1, <4>2 DEF Within
    <3>2. CASE n # 1
      <4> DEFINE last == list[n - 1]
      <4>1. n - 1 \in DOMAIN list /\ from = Behind(last) /\ last \in On
        BY <1>1, <1>5, <3>2 DEF IsNearestList
      <4>2. /\ last \in Liquid /\ last \in Int /\ MinIndex + 1 <= last /\ last <= MaxIndex - 1
            /\ From(Index(pool.activeId), last)
        BY <1>2, <1>3, <4>1
      <4> HIDE DEF last, from
      <4>3. /\ from \in Int /\ Index(from) = NextBin(last)
            /\ Later(pool.activeId, from)
        BY <1>2, <4>1, <4>2, BehindArray
      <4>4. Index(from) \in MinIndex .. MaxIndex
        BY <4>2, <4>3, Bounds DEF NextBin
      <4>5. from \in Room /\ From(pool.activeId, from)
        BY <1>2, <4>3, <4>4, RoomOfIndex, Direction
      <4>6. \A i \in Liquid : i \in Onward(from) <=> Later(last, i)
        <5>1. \A i \in Liquid : i \in Onward(from) <=> From(NextBin(last), i)
          BY <4>3 DEF Onward, Onwards, From
        <5> QED
          BY <1>2, <4>2, <5>1, Direction
      <4>7. ASSUME NEW i \in Liquid, Later(last, i)
            PROVE  i \in On /\ ~Within(list, i)
        <5>1. From(Index(pool.activeId), i)
          BY <1>2, <4>2, <4>7, IndexIsFloor DEF From, Later, Index
        <5>2. ASSUME NEW m \in DOMAIN list, list[m] = i PROVE FALSE
          <6>1. m < n - 1 => Later(i, last)
            BY <4>1, <5>2 DEF IsNearestList, last
          <6>2. m = n - 1 => i = last
            BY <5>2 DEF last
          <6> QED
            BY <1>1, <1>2, <1>5, <4>2, <4>7, <6>1, <6>2 DEF Later
        <5> QED
          BY <1>3, <5>1, <5>2 DEF Within
      <4>8. \A i \in On : ~Within(list, i) => Later(last, i)
        BY <4>1 DEF IsNearestList, last
      <4> QED
        BY <4>5, <4>6, <4>7, <4>8
    <3> QED
      BY <3>1, <3>2
  <2> HIDE DEF from
  <2>2. /\ Onward(from) = {} => index = NoArray
        /\ index # NoArray => index \in Onward(from)
        /\ Onward(from) # {} => index \in Onward(from)
        /\ \A i \in Onward(from) : From(index, i)
    BY <2>1, Searches
  <2>3. Turned(n, list) = IF index = NoArray THEN list ELSE Append(list, index)
    BY <1>1, <1>5 DEF Turned, from
  <2>4. Onward(from) \subseteq Liquid
    BY DEF Onward, Onwards
  <2> HIDE DEF index
  <2>5. CASE index = NoArray
    <3>1. \A i \in On : Within(list, i)
      BY <1>3, <2>1, <2>2, <2>4, <2>5, LiquidIsInRoom
    <3> QED
      BY <1>1, <2>3, <2>5, <3>1 DEF IsNearestList
  <2>6. CASE index # NoArray
    <3> DEFINE longer == Append(list, index)
    <3>1. index \in Liquid /\ index \in On /\ index \in Int /\ ~Within(list, index)
      BY <1>2, <2>1, <2>2, <2>4, <2>6
    <3>2. /\ longer \in Seq(Int) /\ Len(longer) = n /\ DOMAIN longer = 1 .. n
          /\ longer[n] = index /\ \A m \in 1 .. n - 1 : longer[m] = list[m]
          /\ DOMAIN list = 1 .. n - 1
      BY <1>1, <1>5, <3>1
    <3> HIDE DEF longer
    <3>3. \A m \in 1 .. n - 1 : list[m] \in On /\ Later(list[m], index)
      BY <3>1, <3>2 DEF IsNearestList
    <3>4. \A m \in 1 .. n : longer[m] \in On
      BY <3>1, <3>2, <3>3
    <3>5. \A m, l \in 1 .. n : m < l => Later(longer[m], longer[l])
      <4> SUFFICES ASSUME NEW m \in 1 .. n, NEW l \in 1 .. n, m < l
                   PROVE  Later(longer[m], longer[l])
        OBVIOUS
      <4>1. m \in 1 .. n - 1
        OBVIOUS
      <4>2. CASE l = n
        BY <3>2, <3>3, <4>1, <4>2
      <4>3. CASE l # n
        <5>1. l \in 1 .. n - 1
          BY <4>3
        <5> QED
          BY <3>2, <4>1, <5>1 DEF IsNearestList
      <4> QED
        BY <4>2, <4>3
    <3>6. ASSUME NEW i \in On
          PROVE  Within(longer, i) \/ \A m \in 1 .. n : Later(longer[m], i)
      <4>1. CASE Within(list, i)
        <5>1. PICK m \in 1 .. n - 1 : list[m] = i
          BY <3>2, <4>1 DEF Within
        <5>2. m \in 1 .. n /\ longer[m] = i
          BY <3>2, <5>1
        <5> QED
          BY <3>2, <5>2 DEF Within
      <4>2. CASE i = index
        <5>1. n \in 1 .. n
          OBVIOUS
        <5> QED
          BY <3>2, <4>2, <5>1 DEF Within
      <4>3. CASE ~Within(list, i) /\ i # index
        <5>1. i \in Onward(from) /\ i \in Int
          BY <1>2, <1>3, <2>1, <4>3
        <5>2. Later(index, i)
          BY <1>2, <2>2, <3>1, <4>3, <5>1, Direction
        <5>3. \A m \in 1 .. n - 1 : Later(list[m], i)
          BY <3>2, <4>3 DEF IsNearestList
        <5> QED
          BY <3>2, <5>2, <5>3
      <4> QED
        BY <4>1, <4>2, <4>3
    <3> QED
      BY <2>3, <2>6, <3>2, <3>4, <3>5, <3>6 DEF IsNearestList, longer
  <2> QED
    BY <2>5, <2>6
<1> QED
  BY <1>1, <1>4, <1>5

\* The loop over `count` arrays, turn by turn.
IsLoop(found, n) ==
  found = [m \in 0 .. n |-> IF m = 0 THEN <<>> ELSE Turned(m, found[m - 1])]

\* Turns that start with no array make longer and longer lists of the nearest.
LEMMA TurnsFindNearest ==
  ASSUME Given, NEW n \in Nat, NEW found, found[0] = <<>>,
         \A m \in 1 .. n : IsNearestList(found[m - 1], m - 1)
                             => found[m] = Turned(m, found[m - 1])
  PROVE  \A m \in 0 .. n : IsNearestList(found[m], m)
<1> DEFINE Wrong == {m \in 0 .. n : ~IsNearestList(found[m], m)}
<1>1. 0 \notin Wrong
  <2> DEFINE none == <<>>
  <2>1. none \in Seq(Int) /\ Len(none) = 0 /\ DOMAIN none = {}
    OBVIOUS
  <2> HIDE DEF none
  <2>2. IsNearestList(none, 0)
    BY <2>1 DEF IsNearestList
  <2> QED
    BY <2>2 DEF none
<1>2. ASSUME NEW m \in 1 .. n, m - 1 \notin Wrong
      PROVE  m \notin Wrong
  <2>1. m - 1 \in 0 .. n /\ m \in Nat \ {0}
    OBVIOUS
  <2>2. IsNearestList(found[m - 1], m - 1)
    BY <1>2, <2>1
  <2> QED
    BY <2>1, <2>2, NextArrayIsFound
<1>3. Wrong \subseteq 0 .. n
  OBVIOUS
<1>4. Wrong = {}
  <2> HIDE DEF Wrong
  <2> QED
    BY <1>1, <1>2, <1>3, NoCounterexample
<1> QED
  BY <1>4

LEMMA LoopFindsNearest ==
  ASSUME Given, NEW n \in Nat, NEW found, IsLoop(found, n)
  PROVE  IsNearestList(found[n], n)
<1>1. found[0] = <<>> /\ \A m \in 1 .. n : found[m] = Turned(m, found[m - 1])
  BY DEF IsLoop
<1>2. n \in 0 .. n
  OBVIOUS
<1> QED
  BY <1>1, <1>2, TurnsFindNearest

LEMMA LoopExists ==
  ASSUME Given, NEW n \in Nat
  PROVE  \E found : IsLoop(found, n)
<1> DEFINE V == Seq(Int)
           next == [m \in 1 .. n |->
                      [v \in V |-> IF Turned(m, v) \in V THEN Turned(m, v) ELSE v]]
<1>1. next \in [1 .. n -> [V -> V]] /\ <<>> \in V
  OBVIOUS
<1>2. \A m \in 1 .. n, v \in V : Turned(m, v) \in V => next[m][v] = Turned(m, v)
  OBVIOUS
<1> HIDE DEF next, V
<1>3. PICK f : Solves(f, V, <<>>, n, next)
  BY <1>1, RecursionHasSolution
<1>4. /\ f \in [0 .. n -> V] /\ f[0] = <<>>
      /\ \A m \in 1 .. n : f[m] = next[m][f[m - 1]] /\ f[m - 1] \in V
  BY <1>3 DEF Solves
<1>5. \A m \in 1 .. n : IsNearestList(f[m - 1], m - 1) => f[m] = Turned(m, f[m - 1])
  <2> SUFFICES ASSUME NEW m \in 1 .. n, IsNearestList(f[m - 1], m - 1)
               PROVE  f[m] = Turned(m, f[m - 1])
    OBVIOUS
  <2>1. IsNearestList(Turned(m, f[m - 1]), m)
    BY NextArrayIsFound
  <2> QED
    BY <1>2, <1>4, <2>1 DEF IsNearestList, V
<1>6. \A m \in 0 .. n : IsNearestList(f[m], m)
  BY <1>4, <1>5, TurnsFindNearest
<1>7. \A m \in 1 .. n : m - 1 \in 0 .. n
  OBVIOUS
<1>8. \A m \in 1 .. n : f[m] = Turned(m, f[m - 1])
  BY <1>5, <1>6, <1>7
<1>9. IsLoop(f, n)
  BY <1>4, <1>8 DEF IsLoop
<1> QED
  BY <1>9

LEMMA FetchDoes ==
  ASSUME Given, GetBinArrayForSwap
  PROVE  IsNearestList(arrays', Limit)
<1> DEFINE n == Limit
           found == CHOOSE found : IsLoop(found, n)
<1>1. arrays' = found[n]
  BY DEF GetBinArrayForSwap, IsLoop, Turned
<1>2. n \in Nat
  BY LimitIs
<1> HIDE DEF n
<1>3. IsLoop(found, n)
  BY <1>2, LoopExists
<1> HIDE DEF found
<1> QED
  BY <1>1, <1>2, <1>3, LoopFindsNearest DEF n

-----------------------------------------------------------------------------
(***************************************************************************)
(* The quote of one bin: what it costs to buy an amount there, and that    *)
(* paying the cost buys the amount.                                        *)
(***************************************************************************)
LEMMA CeilDivIs ==
  ASSUME NEW a \in Nat, NEW d \in Nat \ {0}
  PROVE  /\ CeilDiv(a, d) \in Nat
         /\ a <= CeilDiv(a, d) * d
         /\ \A n \in Nat : a <= n * d => CeilDiv(a, d) <= n
         /\ a > 0 => CeilDiv(a, d) > 0
         /\ a = 0 => CeilDiv(a, d) = 0
BY CeilingIs DEF CeilDiv

\* The fee rate of a bin is less than the whole.
LEMMA RateIsPart ==
  ASSUME Given, NEW b \in Int
  PROVE  /\ GetTotalFee(b) \in Nat /\ GetTotalFee(b) < FEE_PRECISION
         /\ FEE_PRECISION \in Nat \ {0} /\ FEE_PRECISION - GetTotalFee(b) \in Nat \ {0}
<1> DEFINE decayed == (pool.volatility.volatilityAccumulator * ReductionFactor) \div BASIS_POINT_MAX
           delta == b - Reference.indexReference
           distance == IF delta < 0 THEN -delta ELSE delta
           accumulator == VolatilityAccumulator(b)
           whole == BASIS_POINT_MAX * BASIS_POINT_MAX
           rate == BaseFee + GetVariableFee(b)
<1>1. /\ pool.volatility.indexReference \in Int /\ pool.activeId \in Int
      /\ pool.volatility.volatilityReference \in Nat
      /\ pool.volatility.volatilityAccumulator \in Nat
      /\ BaseFee \in Nat /\ VariableFeeControl \in Nat /\ ReductionFactor \in Nat
      /\ MaxVolatilityAccumulator \in Nat /\ BASIS_POINT_MAX \in Nat \ {0}
      /\ FEE_PRECISION \in Nat /\ MAX_FEE_RATE \in Nat /\ MAX_FEE_RATE < FEE_PRECISION
  BY PoolsAssumption, RateAssumption, GivenHas DEF Given
<1>2. decayed \in Nat
  BY <1>1, Product, Quotient
<1>3. Reference.indexReference \in Int /\ Reference.volatilityReference \in Nat
  <2> HIDE DEF decayed
  <2> QED
    BY <1>1, <1>2 DEF Reference, decayed
<1>4. accumulator \in Nat
  <2>1. distance \in Nat
    BY <1>3
  <2> HIDE DEF distance
  <2>2. Reference.volatilityReference + distance * BASIS_POINT_MAX \in Nat
    BY <1>1, <1>3, <2>1, Product
  <2> QED
    BY <1>1, <2>2, LesserOfTwo DEF VolatilityAccumulator, distance
<1>5. GetVariableFee(b) \in Nat
  <2>1. whole \in Nat \ {0}
    BY <1>1
  <2>2. GetVariableFee(b) = CeilDiv(VariableFeeControl * accumulator * accumulator, whole)
    BY DEF GetVariableFee
  <2> HIDE DEF accumulator, whole
  <2>3. VariableFeeControl * accumulator * accumulator \in Nat
    BY <1>1, <1>4, Product
  <2> QED
    BY <2>1, <2>2, <2>3, CeilDivIs
<1>6. rate \in Nat /\ GetTotalFee(b) = Min({rate, MAX_FEE_RATE})
  BY <1>1, <1>5 DEF GetTotalFee
<1> HIDE DEF rate
<1>7. GetTotalFee(b) \in Nat /\ GetTotalFee(b) <= MAX_FEE_RATE
  BY <1>1, <1>6, LesserOfTwo
<1> QED
  BY <1>1, <1>7

\* What an amount of the bin's output costs.
Pay(b, n) ==
  IF n = 0 THEN 0 ELSE LET in == GetAmountIn(b, n) IN in + ComputeFee(b, in)

LEMMA AmountInIs ==
  ASSUME Given, NEW b \in Bins, NEW n \in Nat
  PROVE  LET in == GetAmountIn(b, n)
         IN /\ in \in Nat /\ (n > 0 => in > 0)
            /\ \A m \in Nat : GetOutAmount(b, m) \in Nat /\ (in <= m => n <= GetOutAmount(b, m))
<1> DEFINE in == GetAmountIn(b, n)
           p == Price[b]
<1>1. p \in Nat \ {0} /\ SCALE \in Nat \ {0} /\ request.swapForY \in BOOLEAN
  BY PriceAssumption, GivenHas
<1> HIDE DEF p
<1>2. ASSUME NEW m \in Nat, NEW c \in Nat \ {0}, NEW d \in Nat \ {0}, NEW k \in Nat,
             n * c <= k * d, k <= m
      PROVE  n * c <= m * d
  <2>1. k * d <= m * d /\ k * d \in Int /\ m * d \in Int /\ n * c \in Int
    BY <1>2, ProductOrder
  <2> QED
    BY <2>1, <1>2
<1>3. CASE request.swapForY
  <2>1. in = CeilDiv(n * SCALE, p) /\ \A m \in Nat : GetOutAmount(b, m) = (m * p) \div SCALE
    BY <1>3 DEF GetAmountIn, GetOutAmount, p
  <2> HIDE DEF in
  <2>2. n * SCALE \in Nat /\ (n > 0 => n * SCALE > 0)
    BY <1>1
  <2>3. in \in Nat /\ n * SCALE <= in * p /\ (n > 0 => in > 0)
    BY <1>1, <2>1, <2>2, CeilDivIs
  <2>4. ASSUME NEW m \in Nat
        PROVE  GetOutAmount(b, m) \in Nat /\ (in <= m => n <= GetOutAmount(b, m))
    <3>1. m * p \in Nat
      BY <1>1
    <3>2. in <= m => n * SCALE <= m * p
      BY <1>1, <1>2, <2>3
    <3> QED
      BY <1>1, <2>1, <3>1, <3>2, FloorDivIs
  <2> QED
    BY <2>3, <2>4 DEF in
<1>4. CASE ~request.swapForY
  <2>1. in = CeilDiv(n * p, SCALE) /\ \A m \in Nat : GetOutAmount(b, m) = (m * SCALE) \div p
    BY <1>4 DEF GetAmountIn, GetOutAmount, p
  <2> HIDE DEF in
  <2>2. n * p \in Nat /\ (n > 0 => n * p > 0)
    BY <1>1
  <2>3. in \in Nat /\ n * p <= in * SCALE /\ (n > 0 => in > 0)
    BY <1>1, <2>1, <2>2, CeilDivIs
  <2>4. ASSUME NEW m \in Nat
        PROVE  GetOutAmount(b, m) \in Nat /\ (in <= m => n <= GetOutAmount(b, m))
    <3>1. m * SCALE \in Nat
      BY <1>1
    <3>2. in <= m => n * p <= m * SCALE
      BY <1>1, <1>2, <2>3
    <3> QED
      BY <1>1, <2>1, <3>1, <3>2, FloorDivIs
  <2> QED
    BY <2>3, <2>4 DEF in
<1> QED
  BY <1>3, <1>4

\* The fee taken out of an amount is no more than the fee put on top of a part
\* of it, if the amount is the two or more.
LEMMA FeesAgree ==
  ASSUME Given, NEW b \in Int, NEW t \in Nat, NEW in \in Nat
  PROVE  LET fee == ComputeFeeFromAmount(b, t)
         IN /\ fee \in Nat /\ fee <= t
            /\ ComputeFee(b, in) \in Nat
            /\ in + ComputeFee(b, in) <= t => in <= t - fee
<1> DEFINE r == GetTotalFee(b)
           P == FEE_PRECISION
           rest == P - r
           fee == ComputeFeeFromAmount(b, t)
           top == ComputeFee(b, in)
<1>1. r \in Nat /\ P \in Nat \ {0} /\ rest \in Nat \ {0} /\ P = r + rest
  BY RateIsPart
<1>2. fee = CeilDiv(t * r, P) /\ top = CeilDiv(in * r, rest)
  BY DEF ComputeFeeFromAmount, ComputeFee
<1> HIDE DEF r, P, rest, fee, top
<1>3. /\ t * r \in Nat /\ in * r \in Nat /\ t * rest \in Nat /\ in * rest \in Nat
      /\ t * P = t * r + t * rest /\ in * P = in * r + in * rest
  BY <1>1
<1>4. /\ fee \in Nat /\ \A n \in Nat : t * r <= n * P => fee <= n
      /\ top \in Nat /\ in * r <= top * rest
  BY <1>1, <1>2, <1>3, CeilDivIs
<1>5. fee <= t
  BY <1>3, <1>4
<1>6. ASSUME in + top <= t PROVE in <= t - fee
  <2>1. t - in \in Nat /\ (t - in) * P = t * P - in * P
    BY <1>1, <1>4, <1>6
  <2>2. (in + top) * rest <= t * rest /\ (in + top) * rest = in * rest + top * rest
        /\ top * rest \in Nat
    BY <1>1, <1>4, <1>6, ProductOrder
  <2>3. t * r <= (t - in) * P
    BY <1>3, <1>4, <2>1, <2>2
  <2>4. fee <= t - in
    BY <1>4, <2>1, <2>3
  <2> QED
    BY <1>4, <2>4
<1> QED
  BY <1>4, <1>5, <1>6 DEF fee, top

LEMMA PayIs ==
  ASSUME Given, NEW b \in Bins, NEW n \in Nat
  PROVE  Pay(b, n) \in Nat /\ (n > 0 => Pay(b, n) > 0)
<1>1. b \in Int
  BY RoomOfIndex
<1> DEFINE in == GetAmountIn(b, n)
<1>2. in \in Nat /\ (n > 0 => in > 0)
  BY AmountInIs
<1>3. ComputeFee(b, in) \in Nat
  <2> HIDE DEF in
  <2> QED
    BY <1>1, <1>2, FeesAgree
<1> QED
  BY <1>2, <1>3 DEF Pay

LEMMA OutputIs ==
  ASSUME Given, NEW b
  PROVE  Output(b) \in Nat /\ (Output(b) # 0 => b \in Bins /\ Index(b) \in Liquid)
<1>1. /\ pool.x \in [Bins -> Nat] /\ pool.y \in [Bins -> Nat]
  BY GivenHas
<1>2. CASE b \in Bins
  <2>1. pool.x[b] \in Nat /\ pool.y[b] \in Nat
    BY <1>1, <1>2
  <2>2. pool.x[b] + pool.y[b] > 0 => Index(b) \in Liquid
    BY <1>2 DEF Liquid, LiquidArrays, Index
  <2> QED
    BY <1>2, <2>1, <2>2 DEF Output
<1>3. CASE b \notin Bins
  BY <1>3 DEF Output
<1> QED
  BY <1>2, <1>3

\* The quote of a bin, as far as it concerns the quote of a swap.
LEMMA BinIsQuoted ==
  ASSUME Given, NEW b \in Int, quote.left \in Nat, quote.kind \in {"exactOut", "exactIn"}
  PROVE  LET fill == SwapQuoteAtBin(b)
             all == Output(b)
         IN /\ fill.in \in Nat /\ fill.out \in Nat /\ fill.fee \in Nat
            /\ fill.protocolFee \in Nat /\ fill.out <= all
            /\ quote.kind = "exactOut" =>
                 /\ fill.out = (IF quote.left <= all THEN quote.left ELSE all)
                 /\ fill.in + fill.fee = Pay(b, fill.out)
            /\ quote.kind = "exactIn" =>
                 /\ fill.in = (IF quote.left <= Pay(b, all) THEN quote.left ELSE Pay(b, all))
                 /\ \A n \in 0 .. all : Pay(b, n) <= quote.left => n <= fill.out
                 /\ Pay(b, all) < quote.left => fill.out = all
<1> DEFINE all == Output(b)
           left == quote.left
<1>1. all \in Nat /\ (all # 0 => b \in Bins)
  BY OutputIs
<1>2. ASSUME NEW in \in Nat, NEW out \in Nat, NEW fee \in Nat
      PROVE  /\ Fill(in, out, fee).in = in /\ Fill(in, out, fee).out = out
             /\ Fill(in, out, fee).fee = fee /\ Fill(in, out, fee).protocolFee \in Nat
  <2>1. ProtocolShare \in Nat /\ BASIS_POINT_MAX \in Nat \ {0}
    BY RateAssumption
  <2>2. fee * ProtocolShare \in Nat
    BY <2>1
  <2>3. ComputeProtocolFee(fee) \in Nat
    BY <2>1, <2>2, Quotient DEF ComputeProtocolFee
  <2> QED
    BY <2>3 DEF Fill
<1>3. CASE all = 0
  <2>1. SwapQuoteAtBin(b) = Fill(0, 0, 0)
    BY <1>3 DEF SwapQuoteAtBin
  <2>2. 0 \in Nat /\ Pay(b, 0) = 0 /\ left \in Nat
    BY DEF Pay
  <2>3. \A n \in 0 .. all : n = 0
    BY <1>3
  <2> QED
    BY <1>2, <1>3, <2>1, <2>2, <2>3
<1>4. CASE all # 0 /\ quote.kind = "exactOut"
  <2> DEFINE out == Min({left, all})
             in == GetAmountIn(b, out)
             fee == ComputeFee(b, in)
  <2>1. out \in Nat /\ out = (IF left <= all THEN left ELSE all)
    BY <1>1, LesserOfTwo
  <2>2. SwapQuoteAtBin(b) = Fill(in, out, fee)
    BY <1>4, Zenon DEF SwapQuoteAtBin, SwapExactOutQuoteAtBin
  <2>3. in \in Nat
    <3> HIDE DEF out
    <3> QED
      BY <1>1, <1>4, <2>1, AmountInIs
  <2>4. fee \in Nat
    <3> HIDE DEF in
    <3> QED
      BY <2>3, FeesAgree
  <2>5. out > 0 => in + fee = Pay(b, out)
    BY DEF Pay
  <2> HIDE DEF out, in, fee
  <2>6. left = 0 => out = 0
    BY <1>1, <2>1
  <2>7. out = 0 => in + fee = Pay(b, out)
    <3>1. ASSUME out = 0 PROVE in + fee = 0
      <4>1. GetAmountIn(b, 0) = 0
        <5>1. b \in Bins /\ Price[b] \in Nat \ {0} /\ SCALE \in Nat \ {0}
          BY <1>1, <1>4, PriceAssumption
        <5>2. 0 * SCALE = 0 /\ 0 * Price[b] = 0
          BY <5>1
        <5> QED
          BY <5>1, <5>2, CeilDivIs DEF GetAmountIn
      <4>2. ComputeFee(b, 0) = 0
        <5>1. 0 * GetTotalFee(b) = 0 /\ FEE_PRECISION - GetTotalFee(b) \in Nat \ {0}
          BY RateIsPart
        <5> QED
          BY <5>1, CeilDivIs DEF ComputeFee
      <4> QED
        BY <3>1, <4>1, <4>2 DEF in, fee
    <3> QED
      BY <3>1 DEF Pay
  <2>8. in + fee = Pay(b, out)
    BY <2>1, <2>5, <2>7
  <2>9. out <= all
    BY <1>1, <2>1
  <2> QED
    BY <1>2, <1>4, <2>1, <2>2, <2>3, <2>4, <2>8, <2>9
<1>5. CASE all # 0 /\ quote.kind = "exactIn"
  <2> DEFINE maxIn == GetAmountIn(b, all)
             maxFee == ComputeFee(b, maxIn)
             fee == ComputeFeeFromAmount(b, left)
             bought == GetOutAmount(b, left - fee)
             out == Min({bought, all})
  <2>1. b \in Bins
    BY <1>1, <1>5
  <2>2. maxIn \in Nat
    BY <1>1, <2>1, AmountInIs
  <2>3. maxFee \in Nat /\ fee \in Nat /\ fee <= left
    <3> HIDE DEF maxIn
    <3> QED
      BY <2>2, FeesAgree
  <2>4. Pay(b, all) = maxIn + maxFee
    BY <1>5 DEF Pay
  <2>5. SwapQuoteAtBin(b) = IF left > maxIn + maxFee THEN Fill(maxIn + maxFee, all, maxFee)
                            ELSE Fill(left, out, fee)
    BY <1>5, Zenon DEF SwapQuoteAtBin, SwapExactInQuoteAtBin
  <2>6. bought \in Nat
    <3>1. left - fee \in Nat
      BY <2>3
    <3> QED
      BY <2>1, <3>1, AmountInIs
  <2>7. ASSUME NEW n \in 0 .. all, Pay(b, n) <= left
        PROVE  n <= bought
    <3>1. CASE n = 0
      BY <2>6, <3>1
    <3>2. CASE n # 0
      <4> DEFINE in == GetAmountIn(b, n)
      <4>1. n \in Nat /\ in \in Nat
        BY <1>1, <2>1, AmountInIs
      <4>2. Pay(b, n) = in + ComputeFee(b, in)
        BY <3>2 DEF Pay
      <4> HIDE DEF in
      <4>3. in + ComputeFee(b, in) <= left
        BY <2>7, <4>2
      <4>4. in <= left - fee /\ left - fee \in Nat
        <5>1. in + ComputeFee(b, in) <= left => in <= left - ComputeFeeFromAmount(b, left)
          BY <4>1, FeesAgree
        <5> QED
          BY <2>3, <4>3, <5>1
      <4> QED
        BY <2>1, <4>1, <4>4, AmountInIs DEF in
    <3> QED
      BY <3>1, <3>2
  <2> HIDE DEF maxIn, maxFee, fee, bought
  <2>8. out \in Nat /\ out <= all /\ out = (IF bought <= all THEN bought ELSE all)
    BY <1>1, <2>6, LesserOfTwo
  <2> HIDE DEF out
  <2> DEFINE fill == SwapQuoteAtBin(b)
  <2> HIDE DEF fill
  <2>9. CASE left > maxIn + maxFee
    <3>1. maxIn + maxFee \in Nat /\ SwapQuoteAtBin(b) = Fill(maxIn + maxFee, all, maxFee)
      BY <2>2, <2>3, <2>5, <2>9
    <3>2. \A n \in 0 .. all : n <= all
      OBVIOUS
    <3>3. /\ fill.in = maxIn + maxFee /\ fill.out = all /\ fill.fee = maxFee
          /\ fill.protocolFee \in Nat
      BY <1>1, <1>2, <2>3, <3>1 DEF fill
    <3> QED
      BY <1>1, <1>5, <2>2, <2>3, <2>4, <2>9, <3>1, <3>2, <3>3 DEF fill
  <2>10. CASE ~(left > maxIn + maxFee)
    <3>1. SwapQuoteAtBin(b) = Fill(left, out, fee)
      BY <2>5, <2>10
    <3>2. left <= Pay(b, all)
      BY <2>2, <2>3, <2>4, <2>10
    <3>3. \A n \in 0 .. all : Pay(b, n) <= left => n <= out
      BY <1>1, <2>6, <2>7, <2>8
    <3>4. ~(Pay(b, all) < left)
      BY <2>2, <2>3, <2>4, <2>10
    <3>5. fill.in = left /\ fill.out = out /\ fill.fee = fee /\ fill.protocolFee \in Nat
      BY <1>2, <2>3, <2>8, <3>1 DEF fill
    <3> QED
      BY <1>5, <2>3, <2>8, <3>2, <3>3, <3>4, <3>5 DEF fill
  <2> QED
    BY <2>9, <2>10
<1> QED
  BY <1>3, <1>4, <1>5

-----------------------------------------------------------------------------
(***************************************************************************)
(* The walk over the bins.                                                 *)
(***************************************************************************)
QuoteType ==
  [pc : {"fetch", "bins", "extra", "done", "failed"}, kind : {"exactOut", "exactIn"},
   left : Nat, activeId : Int, in : Nat, out : Nat, fee : Nat, protocolFee : Nat,
   used : Seq(Int), extra : Nat]

\* The bins of the swap before a bin, all they hold, and what that costs.
Before(b) == {c \in Bins : From(pool.activeId, c) /\ Later(c, b)}
Outputs == [b \in Bins |-> Output(b)]
Costs == [b \in Bins |-> Pay(b, Output(b))]
Bought(b) == Total(Outputs, Before(b))
Paid(b) == Total(Costs, Before(b))

\* Where the quote stands.
PlaceInv ==
  /\ Given /\ quote \in QuoteType
  /\ quote.activeId \in Room /\ From(pool.activeId, quote.activeId)
  /\ quote.pc = "fetch" => /\ quote.kind = "exactOut" /\ quote.left = request.outAmount
                           /\ quote.in = 0 /\ quote.out = 0 /\ quote.used = <<>>
                           /\ quote.activeId = pool.activeId

\* The quote uses the fetched arrays in their order, and has not passed those
\* it has not used.
ListInv ==
  quote.pc # "fetch" =>
    /\ IsNearestList(arrays, Limit)
    /\ Len(quote.used) <= Len(arrays) /\ quote.used = SubSeq(arrays, 1, Len(quote.used))
    /\ \A m \in DOMAIN arrays : m > Len(quote.used) => From(Index(quote.activeId), arrays[m])

\* What was bought, and that no array with liquidity on the way is missing.
DrainInv ==
  quote.pc \in {"fetch", "bins", "failed"} =>
    /\ \A b \in Before(quote.activeId) : Index(b) \in Liquid => Fetched(Index(b))
    /\ quote.left > 0 => quote.out = Bought(quote.activeId)
    /\ Bought(quote.activeId) <= quote.out
    /\ quote.out <= Bought(quote.activeId) + Output(quote.activeId)
    /\ quote.pc = "failed" => IF quote.left > 0 THEN ~Fetched(Nearest)
                              ELSE quote.kind = "exactIn" /\ quote.in = 0

\* The amount is what the wanted output costs: the bins before the last one
\* are bought whole, and of the last one what is missing.
EndsAt(last, amount) ==
  LET part == request.outAmount - Bought(last)
  IN /\ From(pool.activeId, last) /\ Fetched(Index(last))
     /\ part > 0 /\ part <= Output(last)
     /\ amount = Paid(last) + Pay(last, part)

IsCost(amount) ==
  IF request.outAmount = 0 THEN amount = 0 ELSE \E last \in Bins : EndsAt(last, amount)

\* What the exact-out quote comes to.
AskInv ==
  quote.kind = "exactOut" =>
    /\ quote.out + quote.left = request.outAmount
    /\ quote.left > 0 => quote.pc \in {"fetch", "bins", "failed"}
                           /\ quote.in = Paid(quote.activeId)
    /\ quote.left = 0 /\ quote.pc # "fetch" => IsCost(quote.in)

\* What was asked for, which the quote back is given with `more` on top.
Asked == quote.left + quote.in - request.more

BackInv ==
  quote.kind = "exactIn" =>
    /\ Asked \in Nat /\ IsCost(Asked)
    /\ quote.pc \in {"bins", "failed"} /\ quote.left > 0 => quote.in = Paid(quote.activeId)
    /\ quote.left = 0 \/ quote.pc \in {"extra", "done"} => quote.out >= request.outAmount
    /\ quote.pc \in {"extra", "done"} /\ quote.left > 0 => request.more > 0
    /\ quote.pc = "failed" => request.more > 0 \/ request.outAmount = 0

WalkInv == PlaceInv /\ ListInv /\ DrainInv /\ AskInv /\ BackInv

LEMMA Ledgers ==
  ASSUME Given
  PROVE  /\ Outputs \in [Bins -> Nat] /\ Costs \in [Bins -> Nat]
         /\ IsFiniteSet(Bins) /\ \A b \in Int : Before(b) \subseteq Bins
         /\ \A b \in Bins : b \in Int /\ Outputs[b] = Output(b) /\ Costs[b] = Pay(b, Output(b))
         /\ Bought(pool.activeId) = 0 /\ Paid(pool.activeId) = 0
<1>1. \A b \in Bins : Output(b) \in Nat
  BY OutputIs
<1>2. \A b \in Bins : Pay(b, Output(b)) \in Nat
  BY <1>1, PayIs
<1>3. Outputs \in [Bins -> Nat] /\ Costs \in [Bins -> Nat]
  BY <1>1, <1>2 DEF Outputs, Costs
<1>4. IsFiniteSet(Bins)
  <2>1. MIN_BIN_ID \in Int /\ MAX_BIN_ID \in Int
    BY RoomAssumption
  <2> QED
    BY <2>1, FS_Interval DEF Bins
<1>5. /\ \A b \in Int : Before(b) \subseteq Bins
      /\ \A b \in Bins : Outputs[b] = Output(b) /\ Costs[b] = Pay(b, Output(b))
  BY DEF Before, Outputs, Costs
<1>6. Before(pool.activeId) = {}
  BY GivenHas, RoomOfIndex DEF Before, From, Later
<1> QED
  BY <1>3, <1>4, <1>5, <1>6, RoomOfIndex, TotalOfNone DEF Bought, Paid

\* The next bin has one bin more before it.
LEMMA BeforeNext ==
  ASSUME Given, NEW b \in Int, From(pool.activeId, b)
  PROVE  /\ Bought(b) \in Nat /\ Paid(b) \in Nat
         /\ Bought(NextBin(b)) = Bought(b) + Output(b)
         /\ Paid(NextBin(b)) = Paid(b) + Pay(b, Output(b))
         /\ Before(NextBin(b)) = Before(b) \cup ({b} \cap Bins)
<1> DEFINE next == NextBin(b)
<1>1. /\ request.swapForY \in BOOLEAN /\ pool.activeId \in Int /\ next \in Int
      /\ Later(b, next) /\ \A c \in Int : Later(b, c) <=> From(next, c)
  BY GivenHas, Direction
<1>2. \A c \in Int : Later(c, next) <=> ~From(next, c)
  BY <1>1, Direction
<1>3. \A c \in Int : /\ Later(b, c) <=> ~From(c, b)
                     /\ From(c, b) <=> Later(c, b) \/ c = b
  BY <1>1, Direction
<1>4. Before(next) = Before(b) \cup ({b} \cap Bins) /\ b \notin Before(b)
  BY <1>1, <1>2, <1>3, RoomOfIndex DEF Before, Later
<1> HIDE DEF next
<1>5. /\ Outputs \in [Bins -> Nat] /\ Costs \in [Bins -> Nat]
      /\ Before(b) \subseteq Bins /\ Before(next) \subseteq Bins
      /\ IsFiniteSet(Before(b)) /\ IsFiniteSet(Before(next))
  BY <1>1, Ledgers, FS_Subset
<1>6. Bought(b) \in Nat /\ Paid(b) \in Nat
  BY <1>5, TotalIsNat DEF Bought, Paid
<1>7. CASE b \in Bins
  <2>1. b \in Before(next) /\ Before(next) \ {b} = Before(b)
    BY <1>4, <1>7
  <2>2. /\ Bought(next) = Bought(b) + Outputs[b]
        /\ Paid(next) = Paid(b) + Costs[b]
    BY <1>5, <2>1, TotalSplit DEF Bought, Paid
  <2> QED
    BY <1>4, <1>6, <1>7, <2>2, Ledgers DEF next
<1>8. CASE b \notin Bins
  <2>1. Output(b) = 0 /\ Pay(b, 0) = 0 /\ Before(next) = Before(b)
    BY <1>4, <1>8 DEF Output, Pay
  <2> QED
    BY <1>4, <1>6, <2>1 DEF Bought, Paid, next
<1> QED
  BY <1>7, <1>8

LEMMA BeforeGrows ==
  ASSUME Given, NEW a \in Int, NEW b \in Int, From(a, b)
  PROVE  Bought(a) <= Bought(b) /\ Paid(a) <= Paid(b)
<1>1. request.swapForY \in BOOLEAN
  BY GivenHas
<1>2. Before(a) \subseteq Before(b)
  BY <1>1, RoomOfIndex DEF Before, Later, From
<1>3. /\ Outputs \in [Bins -> Nat] /\ Costs \in [Bins -> Nat]
      /\ Before(b) \subseteq Bins /\ IsFiniteSet(Before(b))
  BY Ledgers, FS_Subset
<1> QED
  BY <1>2, <1>3, TotalGrows DEF Bought, Paid

\* The more is bought of a bin, the more it costs.
LEMMA CeilDivGrows ==
  ASSUME NEW a \in Nat, NEW b \in Nat, NEW d \in Nat \ {0}, a <= b
  PROVE  CeilDiv(a, d) <= CeilDiv(b, d)
<1>1. CeilDiv(b, d) \in Nat /\ b <= CeilDiv(b, d) * d /\ CeilDiv(b, d) * d \in Int
  BY CeilDivIs
<1>2. a <= CeilDiv(b, d) * d
  BY <1>1
<1> QED
  BY <1>1, <1>2, CeilDivIs

LEMMA PayGrows ==
  ASSUME Given, NEW b \in Bins, NEW n \in Nat, NEW m \in Nat, n <= m
  PROVE  Pay(b, n) <= Pay(b, m)
<1> DEFINE less == GetAmountIn(b, n)
           more == GetAmountIn(b, m)
           r == GetTotalFee(b)
           rest == FEE_PRECISION - r
<1>1. /\ b \in Int /\ Price[b] \in Nat \ {0} /\ SCALE \in Nat \ {0}
      /\ r \in Nat /\ rest \in Nat \ {0}
  BY RoomOfIndex, PriceAssumption, RateIsPart
<1>2. less \in Nat /\ more \in Nat
  BY AmountInIs
<1>3. less <= more
  <2>1. /\ n * SCALE \in Nat /\ m * SCALE \in Nat /\ n * SCALE <= m * SCALE
        /\ n * Price[b] \in Nat /\ m * Price[b] \in Nat /\ n * Price[b] <= m * Price[b]
    BY <1>1, Product, ProductOrder
  <2> QED
    BY <1>1, <2>1, CeilDivGrows DEF GetAmountIn
<1>4. /\ ComputeFee(b, less) = CeilDiv(less * r, rest)
      /\ ComputeFee(b, more) = CeilDiv(more * r, rest)
  BY DEF ComputeFee
<1>5. CASE n = 0
  BY <1>5, PayIs DEF Pay
<1>6. CASE n # 0
  <2>1. Pay(b, n) = less + ComputeFee(b, less) /\ Pay(b, m) = more + ComputeFee(b, more)
    BY <1>6 DEF Pay
  <2> HIDE DEF less, more, r, rest
  <2>2. less * r \in Nat /\ more * r \in Nat /\ less * r <= more * r
    BY <1>1, <1>2, <1>3, Product, ProductOrder
  <2>3. /\ CeilDiv(less * r, rest) \in Nat /\ CeilDiv(more * r, rest) \in Nat
        /\ CeilDiv(less * r, rest) <= CeilDiv(more * r, rest)
    BY <1>1, <2>2, CeilDivGrows, CeilDivIs
  <2> QED
    BY <1>2, <1>3, <1>4, <2>1, <2>3
<1> QED
  BY <1>5, <1>6

LEMMA PlaceHas ==
  ASSUME PlaceInv
  PROVE  /\ Given /\ request.swapForY \in BOOLEAN /\ pool.activeId \in Int
         /\ quote.pc \in {"fetch", "bins", "extra", "done", "failed"}
         /\ quote.kind \in {"exactOut", "exactIn"} /\ quote.left \in Nat
         /\ quote.activeId \in Int /\ quote.in \in Nat /\ quote.out \in Nat
         /\ quote.fee \in Nat /\ quote.protocolFee \in Nat /\ quote.used \in Seq(Int)
         /\ quote.extra \in Nat
         /\ quote.activeId \in Room /\ From(pool.activeId, quote.activeId)
         /\ Index(quote.activeId) \in Int
         /\ From(Index(pool.activeId), Index(quote.activeId))
<1>1. /\ Given /\ quote \in QuoteType
      /\ quote.activeId \in Room /\ From(pool.activeId, quote.activeId)
  BY DEF PlaceInv
<1>2. quote.activeId \in Int
  BY <1>1 DEF QuoteType
<1>3. Index(quote.activeId) \in Int
  BY <1>2, IndexIsFloor DEF Index
<1>4. request.swapForY \in BOOLEAN /\ pool.activeId \in Int
  BY <1>1, GivenHas
<1>5. From(Index(pool.activeId), Index(quote.activeId))
  BY <1>1, <1>2, <1>4, Direction
<1> QED
  BY <1>1, <1>2, <1>3, <1>4, <1>5 DEF QuoteType

\* The nearest array, and when it is a fetched one.
LEMMA NearestIs ==
  ASSUME PlaceInv, ListInv, quote.pc # "fetch"
  PROVE  /\ Fetched(Nearest) =>
              /\ Nearest \in Liquid /\ Nearest \in On /\ Nearest \in Int
              /\ MinIndex + 1 <= Nearest /\ Nearest <= MaxIndex - 1
              /\ From(Index(quote.activeId), Nearest)
              /\ \A i \in Liquid : From(Index(quote.activeId), i) => From(Nearest, i)
              /\ Index(quote.activeId) \in Liquid => Nearest = Index(quote.activeId)
         /\ \A i \in Int : Fetched(i) /\ From(Index(quote.activeId), i) => Fetched(Nearest)
<1> DEFINE a == quote.activeId
<1>1. /\ Given /\ request.swapForY \in BOOLEAN /\ a \in Room /\ a \in Int /\ Index(a) \in Int
      /\ From(pool.activeId, a) /\ From(Index(pool.activeId), Index(a))
  BY PlaceHas
<1> HIDE DEF a
<1>2. /\ \A i \in Liquid : i \in Int /\ MinIndex + 1 <= i /\ i <= MaxIndex - 1
      /\ NoArray \notin Liquid /\ Index(pool.activeId) \in Int
  BY <1>1, LiquidIsInRoom, GivenHas, IndexIsFloor DEF Index
<1>3. /\ \A i \in Liquid : i \in Onward(a) <=> From(Index(a), i)
      /\ \A i \in Liquid : i \in On <=> From(Index(pool.activeId), i)
      /\ Onward(a) \subseteq Liquid /\ On \subseteq Liquid
  BY DEF On, Onward, Onwards, From
<1>4. IsNearestList(arrays, Limit)
  BY DEF ListInv
<1>5. \A i : Fetched(i) <=> Within(arrays, i)
  BY DEF Fetched, Within
<1>6. /\ Onward(a) # {} => Nearest \in Onward(a)
      /\ Nearest # NoArray => Nearest \in Onward(a)
      /\ \A i \in Onward(a) : From(Nearest, i)
  BY <1>1, Searches DEF Nearest, a
<1>7. \A i : Fetched(i) => i \in On
  BY <1>4, <1>5 DEF IsNearestList, Within
<1> DEFINE n == Nearest
<1> HIDE DEF n
<1>8. ASSUME Fetched(n)
      PROVE  /\ n \in Liquid /\ n \in On /\ n \in Int
             /\ MinIndex + 1 <= n /\ n <= MaxIndex - 1
             /\ From(Index(a), n)
             /\ \A i \in Liquid : From(Index(a), i) => From(n, i)
             /\ Index(a) \in Liquid => n = Index(a)
  <2>1. n \in Liquid /\ n \in On /\ n \in Int /\ n \in Onward(a)
    BY <1>2, <1>3, <1>6, <1>7, <1>8 DEF n
  <2>2. /\ From(Index(a), n)
        /\ \A i \in Liquid : From(Index(a), i) => From(n, i)
    BY <1>3, <1>6, <2>1 DEF n
  <2>3. Index(a) \in Liquid => From(n, Index(a))
    BY <1>1, <2>2 DEF From
  <2>4. Index(a) \in Liquid => n = Index(a)
    BY <1>1, <2>1, <2>2, <2>3 DEF From
  <2> QED
    BY <1>2, <2>1, <2>2, <2>4
<1>9. ASSUME NEW i \in Int, Fetched(i), From(Index(a), i)
      PROVE  Fetched(n)
  <2>1. i \in Liquid /\ i \in Onward(a)
    BY <1>3, <1>7, <1>9
  <2>2. n \in Liquid /\ n \in Int /\ From(Index(a), n) /\ From(n, i)
    BY <1>2, <1>3, <1>6, <2>1 DEF n
  <2>3. From(Index(pool.activeId), n)
    BY <1>1, <1>2, <2>2 DEF From
  <2>4. n \in On
    BY <1>3, <2>2, <2>3
  <2>5. PICK m \in DOMAIN arrays : arrays[m] = i
    BY <1>9 DEF Fetched
  <2>6. ~Later(arrays[m], n)
    BY <1>1, <2>2, <2>5 DEF From, Later
  <2>7. Within(arrays, n)
    BY <1>4, <2>4, <2>5, <2>6 DEF IsNearestList
  <2> QED
    BY <1>5, <2>7
<1> QED
  BY <1>8, <1>9 DEF a, n

\* The array that comes up is the first that is not used yet, or the last that is.
LEMMA UseIsNext ==
  ASSUME PlaceInv, ListInv, quote.pc # "fetch", Fetched(Nearest)
  PROVE  LET used == Use(Nearest)
         IN /\ used \in Seq(Int) /\ Len(used) <= Len(arrays)
            /\ used = SubSeq(arrays, 1, Len(used))
            /\ \A m \in DOMAIN arrays :
                 m > Len(used) => /\ From(Index(quote.activeId), arrays[m])
                                  /\ From(Index(NextBin(quote.activeId)), arrays[m])
                                  /\ From(Index(Behind(Nearest)), arrays[m])
<1> DEFINE a == quote.activeId
           n == Nearest
           k == Len(quote.used)
           used == Use(Nearest)
<1>1. /\ Given /\ request.swapForY \in BOOLEAN /\ a \in Int /\ Index(a) \in Int
      /\ quote.used \in Seq(Int)
  BY PlaceHas
<1>2. /\ n \in Liquid /\ n \in Int /\ From(Index(a), n)
      /\ \A i \in Liquid : From(Index(a), i) => From(n, i)
  BY NearestIs
<1>3. Fetched(n)
  OBVIOUS
<1> HIDE DEF a, n
<1>4. /\ arrays \in Seq(Int) /\ k \in Nat /\ k <= Len(arrays) /\ Len(arrays) \in Nat
      /\ quote.used = SubSeq(arrays, 1, k) /\ DOMAIN arrays = 1 .. Len(arrays)
      /\ \A m \in 1 .. Len(arrays) : arrays[m] \in Int /\ arrays[m] \in Liquid
      /\ \A m, l \in 1 .. Len(arrays) : m < l => Later(arrays[m], arrays[l])
      /\ \A m \in 1 .. Len(arrays) : m > k => From(Index(a), arrays[m])
  BY <1>1 DEF ListInv, IsNearestList, On, Onward, Onwards, a
<1>5. /\ Len(quote.used) = k /\ DOMAIN quote.used = 1 .. k
      /\ \A m \in 1 .. k : quote.used[m] = arrays[m]
  BY <1>4
<1> HIDE DEF k
<1>6. PICK p \in 1 .. Len(arrays) : arrays[p] = n
  BY <1>3, <1>4 DEF Fetched
<1>7. Used(n) <=> \E m \in 1 .. k : arrays[m] = n
  BY <1>5 DEF Used
<1>8. /\ used \in Seq(Int) /\ Len(used) <= Len(arrays) /\ used = SubSeq(arrays, 1, Len(used))
      /\ p <= Len(used) /\ k <= Len(used) /\ Len(used) \in Nat
  <2>1. CASE Used(n)
    <3>1. used = quote.used
      BY <2>1 DEF Use, n
    <3>2. PICK m \in 1 .. k : arrays[m] = n
      BY <1>7, <2>1
    <3>3. ~Later(arrays[p], arrays[m]) /\ ~Later(arrays[m], arrays[p])
      BY <1>1, <1>2, <1>6, <3>2 DEF Later
    <3>4. m \in 1 .. Len(arrays)
      BY <1>4
    <3>5. ~(p < m) /\ ~(m < p)
      BY <1>4, <1>6, <3>3, <3>4
    <3>6. p <= k
      BY <1>4, <1>6, <3>2, <3>5
    <3> QED
      BY <1>1, <1>4, <1>5, <3>1, <3>6
  <2>2. CASE ~Used(n)
    <3>1. used = Append(quote.used, n)
      BY <2>2 DEF Use, n
    <3>2. p > k
      BY <1>4, <1>6, <1>7, <2>2
    <3>3. k + 1 \in 1 .. Len(arrays) /\ k + 1 > k
      BY <1>4, <1>6, <3>2
    <3>4. From(n, arrays[k + 1])
      BY <1>2, <1>4, <3>3
    <3>5. ~Later(arrays[k + 1], n)
      BY <1>1, <1>2, <1>4, <3>3, <3>4 DEF From, Later
    <3>6. ~(k + 1 < p)
      BY <1>4, <1>6, <3>3, <3>5
    <3>7. p = k + 1
      BY <1>4, <1>6, <3>2, <3>6
    <3>8. /\ used \in Seq(Int) /\ Len(used) = k + 1
          /\ \A m \in 1 .. k + 1 : used[m] = arrays[m]
      BY <1>1, <1>2, <1>4, <1>5, <1>6, <3>1, <3>7
    <3>9. /\ SubSeq(arrays, 1, k + 1) \in Seq(Int) /\ Len(SubSeq(arrays, 1, k + 1)) = k + 1
          /\ \A m \in 1 .. k + 1 : SubSeq(arrays, 1, k + 1)[m] = arrays[m]
      BY <1>4, <3>3
    <3> HIDE DEF used
    <3>10. used = SubSeq(arrays, 1, k + 1)
      BY <3>8, <3>9
    <3> QED
      BY <1>4, <3>3, <3>7, <3>8, <3>10
  <2> QED
    BY <2>1, <2>2
<1> HIDE DEF used
<1>9. ASSUME NEW m \in DOMAIN arrays, m > Len(used)
      PROVE  /\ From(Index(a), arrays[m]) /\ From(Index(NextBin(a)), arrays[m])
             /\ From(Index(Behind(n)), arrays[m])
  <2>1. m \in 1 .. Len(arrays) /\ p < m /\ k < m /\ m \in Int
    BY <1>4, <1>6, <1>8, <1>9
  <2>2. Later(n, arrays[m]) /\ From(Index(a), arrays[m]) /\ arrays[m] \in Int
    BY <1>4, <1>6, <2>1
  <2>3. Later(Index(a), arrays[m])
    BY <1>1, <1>2, <2>2 DEF From, Later
  <2>4. From(NextBin(Index(a)), arrays[m]) /\ From(NextBin(n), arrays[m])
    BY <1>1, <1>2, <2>2, <2>3, Direction
  <2>5. From(Index(NextBin(a)), arrays[m])
    <3> DEFINE b == LowerBinId(arrays[m])
    <3>1. b \in Int /\ Index(b) = arrays[m]
      BY <2>2, ArrayBins
    <3> HIDE DEF b
    <3>2. From(NextBin(Index(a)), Index(b)) => From(Index(NextBin(a)), Index(b))
      BY <1>1, <3>1, Direction
    <3> QED
      BY <2>4, <3>1, <3>2
  <2>6. Index(Behind(n)) = NextBin(n)
    BY <1>1, <1>2, BehindArray
  <2> QED
    BY <2>2, <2>4, <2>5, <2>6
<1> QED
  BY <1>8, <1>9 DEF used, a, n

\* Behind the nearest array, as at the next bin, the walk is still in the room.
LEMMA MovesOn ==
  ASSUME PlaceInv, ListInv, quote.pc # "fetch", Fetched(Nearest),
         NEW next \in {NextBin(quote.activeId), Behind(Nearest)}
  PROVE  /\ next \in Int /\ next \in Room /\ From(pool.activeId, next)
         /\ Later(quote.activeId, next)
<1> DEFINE a == quote.activeId
           n == Nearest
<1>1. /\ Given /\ request.swapForY \in BOOLEAN /\ a \in Int /\ Index(a) \in Int /\ a \in Room
      /\ From(pool.activeId, a) /\ pool.activeId \in Int
  BY PlaceHas
<1>2. /\ n \in Int /\ MinIndex + 1 <= n /\ n <= MaxIndex - 1 /\ From(Index(a), n)
  BY NearestIs
<1>3. next \in {NextBin(a), Behind(n)}
  OBVIOUS
<1> HIDE DEF a, n
<1>4. MinIndex \in Int /\ MaxIndex \in Int /\ Index(a) \in MinIndex .. MaxIndex
  BY <1>1, Bounds, RoomOfIndex
<1>5. next \in Int /\ Later(a, next)
  <2>1. CASE next = NextBin(a)
    BY <1>1, <2>1, Direction
  <2>2. CASE next = Behind(n)
    BY <1>1, <1>2, <2>2, BehindArray
  <2> QED
    BY <1>3, <2>1, <2>2
<1>6. From(pool.activeId, next) /\ From(a, next)
  BY <1>1, <1>5 DEF From, Later
<1>7. Index(next) \in Int /\ From(Index(a), Index(next))
  BY <1>1, <1>5, <1>6, Direction, IndexIsFloor DEF Index
<1>8. From(Index(next), NextBin(n))
  <2>1. CASE next = NextBin(a)
    <3> DEFINE b == LowerBinId(NextBin(n))
    <3>1. NextBin(n) \in Int
      BY <1>1, <1>2, Direction
    <3>2. b \in Int /\ Index(b) = NextBin(n)
      BY <3>1, ArrayBins
    <3> HIDE DEF b
    <3>3. From(NextBin(Index(a)), Index(b)) => From(Index(NextBin(a)), Index(b))
      BY <1>1, <3>2, Direction
    <3>4. From(NextBin(Index(a)), NextBin(n))
      BY <1>1, <1>2 DEF From, NextBin
    <3> QED
      BY <2>1, <3>2, <3>3, <3>4
  <2>2. CASE next = Behind(n)
    <3>1. Index(next) = NextBin(n) /\ NextBin(n) \in Int
      BY <1>1, <1>2, <2>2, BehindArray, Direction
    <3> QED
      BY <3>1 DEF From
  <2> QED
    BY <1>3, <2>1, <2>2
<1>9. Index(next) \in MinIndex .. MaxIndex
  BY <1>1, <1>2, <1>4, <1>7, <1>8 DEF From, NextBin
<1> QED
  BY <1>5, <1>6, <1>9, RoomOfIndex DEF a

\* At an array the bin under way is not in, there is nothing to swap.
LEMMA BinFill ==
  ASSUME PlaceInv, ListInv, quote.pc # "fetch", Fetched(Nearest)
  PROVE  (IF IsBinIdWithinBinArray(quote.activeId, Nearest)
          THEN SwapQuoteAtBin(BinAt(Nearest, PlaceInBinArray(quote.activeId, Nearest)))
          ELSE Fill(0, 0, 0)) = SwapQuoteAtBin(quote.activeId)
<1> DEFINE a == quote.activeId
           n == Nearest
<1>1. Given /\ a \in Int /\ n \in Int /\ (Index(a) \in Liquid => n = Index(a))
  BY PlaceHas, NearestIs
<1> HIDE DEF a, n
<1>2. CASE IsBinIdWithinBinArray(a, n)
  <2>1. BinAt(n, PlaceInBinArray(a, n)) = a
    BY <1>1, <1>2, PlaceOfBin
  <2> QED
    BY <1>2, <2>1 DEF a, n
<1>3. CASE ~IsBinIdWithinBinArray(a, n)
  <2>1. n # Index(a)
    BY <1>1, <1>3, IndexIsFloor DEF Index
  <2>2. Output(a) = 0
    BY <1>1, <2>1, OutputIs
  <2>3. SwapQuoteAtBin(a) = Fill(0, 0, 0)
    BY <2>2 DEF SwapQuoteAtBin
  <2> QED
    BY <1>3, <2>3 DEF a, n
<1> QED
  BY <1>2, <1>3

LEMMA SwapDoes ==
  ASSUME PlaceInv, ListInv, SwapAtBin
  PROVE  LET a == quote.activeId
             fill == SwapQuoteAtBin(a)
         IN /\ pool' = pool /\ request' = request /\ arrays' = arrays
            /\ quote.pc = "bins" /\ quote.left > 0 /\ Fetched(Nearest)
            /\ quote' \in QuoteType
            /\ quote'.pc = "bins" /\ quote'.kind = quote.kind
            /\ quote.kind = "exactOut" => /\ quote'.left = quote.left - fill.out
                                          /\ quote'.in = quote.in + (fill.in + fill.fee)
            /\ quote.kind = "exactIn" => /\ quote'.left = quote.left - fill.in
                                         /\ quote'.in = quote.in + fill.in
            /\ quote'.out = quote.out + fill.out
            /\ quote'.used = Use(Nearest)
            /\ quote'.activeId = IF quote'.left = 0 THEN a ELSE NextBin(a)
<1> DEFINE a == quote.activeId
           f == SwapQuoteAtBin(a)
           exactOut == quote.kind = "exactOut"
           filled == IF exactOut THEN f.out > 0 ELSE f.in > 0
           left == quote.left - IF exactOut THEN f.out ELSE f.in
           out == quote.out + f.out
           fee == quote.fee + f.fee
           in == quote.in + f.in + IF exactOut THEN f.fee ELSE 0
           protocolFee == IF filled THEN 2 * f.protocolFee ELSE quote.protocolFee
           used == Use(Nearest)
           next == IF left = 0 THEN a ELSE NextBin(a)
<1>1. /\ pool' = pool /\ request' = request /\ arrays' = arrays
      /\ quote.pc = "bins" /\ quote.left > 0 /\ Fetched(Nearest)
  BY DEF SwapAtBin
<1>2. quote' = [quote EXCEPT
                  !.left = left, !.out = out, !.fee = fee, !.in = in,
                  !.protocolFee = protocolFee, !.used = used, !.activeId = next]
  <2> DEFINE fill == IF IsBinIdWithinBinArray(quote.activeId, Nearest)
                     THEN SwapQuoteAtBin(BinAt(Nearest, PlaceInBinArray(quote.activeId, Nearest)))
                     ELSE Fill(0, 0, 0)
  <2>1. fill = f
    BY <1>1, BinFill
  <2>2. quote' = [quote EXCEPT
                    !.left = quote.left - IF exactOut THEN fill.out ELSE fill.in,
                    !.out = quote.out + fill.out, !.fee = quote.fee + fill.fee,
                    !.in = quote.in + fill.in + IF exactOut THEN fill.fee ELSE 0,
                    !.protocolFee = IF IF exactOut THEN fill.out > 0 ELSE fill.in > 0
                                    THEN 2 * fill.protocolFee ELSE quote.protocolFee,
                    !.used = Use(Nearest),
                    !.activeId = IF quote.left - (IF exactOut THEN fill.out ELSE fill.in) = 0
                                 THEN quote.activeId ELSE NextBin(quote.activeId)]
    BY Zenon DEF SwapAtBin
  <2> HIDE DEF fill, f
  <2> QED
    BY <2>1, <2>2
<1>3. /\ f.in \in Nat /\ f.out \in Nat /\ f.fee \in Nat /\ f.protocolFee \in Nat
      /\ exactOut => f.out <= quote.left
      /\ ~exactOut => f.in <= quote.left
  <2>1. /\ Given /\ a \in Int /\ quote.left \in Nat /\ quote.kind \in {"exactOut", "exactIn"}
    BY PlaceHas
  <2>2. /\ f.in \in Nat /\ f.out \in Nat /\ f.fee \in Nat /\ f.protocolFee \in Nat
        /\ quote.kind = "exactOut" =>
             f.out = (IF quote.left <= Output(a) THEN quote.left ELSE Output(a))
        /\ quote.kind = "exactIn" =>
             f.in = (IF quote.left <= Pay(a, Output(a)) THEN quote.left ELSE Pay(a, Output(a)))
    BY <2>1, BinIsQuoted
  <2> HIDE DEF f, a
  <2>3. Output(a) \in Nat /\ Pay(a, Output(a)) \in Nat
    BY <2>1, OutputIs, PayIs DEF Pay
  <2> QED
    BY <2>1, <2>2, <2>3
<1>4. /\ quote \in QuoteType /\ a \in Int
      /\ quote.left \in Nat /\ quote.in \in Nat /\ quote.out \in Nat /\ quote.fee \in Nat
      /\ quote.protocolFee \in Nat /\ NextBin(a) \in Int
      /\ quote.kind \in {"exactOut", "exactIn"}
  BY PlaceHas, Direction DEF PlaceInv
<1>5. used \in Seq(Int)
  BY <1>1, UseIsNext
<1> HIDE DEF a, f
<1>6. /\ left \in Nat /\ out \in Nat /\ fee \in Nat /\ in \in Nat /\ protocolFee \in Nat
      /\ next \in Int
  BY <1>3, <1>4
<1>7. /\ exactOut => left = quote.left - f.out /\ in = quote.in + (f.in + f.fee)
      /\ ~exactOut => left = quote.left - f.in /\ in = quote.in + f.in
  BY <1>3, <1>4
<1> HIDE DEF left, out, fee, in, protocolFee, used
<1>8. /\ quote' \in QuoteType /\ quote'.pc = quote.pc /\ quote'.kind = quote.kind
      /\ quote'.left = left /\ quote'.in = in /\ quote'.out = out /\ quote'.used = used
      /\ quote'.activeId = next
  <2> HIDE DEF next
  <2> QED
    BY <1>2, <1>4, <1>5, <1>6 DEF QuoteType
<1> QED
  BY <1>1, <1>4, <1>7, <1>8 DEF a, f, out, used

-----------------------------------------------------------------------------
(***************************************************************************)
(* The steps keep the pool and the request, so that of the invariant only  *)
(* the quote and the fetched arrays are new after a step.                  *)
(***************************************************************************)
LEMMA Unmoved ==
  ASSUME pool' = pool, request' = request
  PROVE  /\ Given' = Given /\ Liquid' = Liquid /\ On' = On
         /\ \A a, b : From(a, b)' = From(a, b) /\ Later(a, b)' = Later(a, b)
         /\ \A b : Output(b)' = Output(b) /\ Before(b)' = Before(b)
         /\ \A b, n : Pay(b, n)' = Pay(b, n)
         /\ \A b : Bought(b)' = Bought(b) /\ Paid(b)' = Paid(b)
<1>1. Given' = Given /\ Liquid' = Liquid
  BY DEF Given, Liquid
<1>2. \A a, b : From(a, b)' = From(a, b) /\ Later(a, b)' = Later(a, b)
  BY DEF From, Later
<1>3. On' = On
  BY <1>1 DEF On, Onward
<1>4. \A b : Output(b)' = Output(b) /\ Before(b)' = Before(b)
  BY <1>2 DEF Output, Before
<1>5. \A b, n : Pay(b, n)' = Pay(b, n)
  <2>1. Reference' = Reference
    BY DEF Reference
  <2>2. \A b : VolatilityAccumulator(b)' = VolatilityAccumulator(b)
    BY <2>1 DEF VolatilityAccumulator
  <2>3. \A b : GetTotalFee(b)' = GetTotalFee(b)
    BY <2>2 DEF GetTotalFee, GetVariableFee
  <2>4. \A b, n : ComputeFee(b, n)' = ComputeFee(b, n)
    BY <2>3 DEF ComputeFee
  <2>5. \A b, n : GetAmountIn(b, n)' = GetAmountIn(b, n)
    BY DEF GetAmountIn
  <2> QED
    BY <2>4, <2>5 DEF Pay
<1>6. Outputs' = Outputs /\ Costs' = Costs
  BY <1>4, <1>5 DEF Outputs, Costs
<1>7. \A b : Bought(b)' = Bought(b) /\ Paid(b)' = Paid(b)
  BY <1>4, <1>6 DEF Bought, Paid
<1> QED
  BY <1>1, <1>2, <1>3, <1>4, <1>5, <1>7

LEMMA UnmovedArrays ==
  ASSUME pool' = pool, request' = request, arrays' = arrays
  PROVE  /\ \A i : Fetched(i)' = Fetched(i)
         /\ \A amount : IsCost(amount)' <=> IsCost(amount)
         /\ quote'.activeId = quote.activeId => Nearest' = Nearest
<1>1. \A i : Fetched(i)' = Fetched(i)
  BY DEF Fetched
<1>2. \A amount : IsCost(amount)' <=> IsCost(amount)
  <2>1. \A last, amount : EndsAt(last, amount)' <=> EndsAt(last, amount)
    BY <1>1, Unmoved DEF EndsAt, Index
  <2> QED
    BY <2>1 DEF IsCost
<1>3. quote'.activeId = quote.activeId => Nearest' = Nearest
  BY DEF Nearest, FindNext
<1> QED
  BY <1>1, <1>2, <1>3

LEMMA PlaceNext ==
  ASSUME Given, pool' = pool, request' = request, quote' \in QuoteType,
         quote'.activeId \in Room, From(pool.activeId, quote'.activeId), quote'.pc # "fetch"
  PROVE  PlaceInv'
BY Unmoved DEF PlaceInv

LEMMA ListNext ==
  ASSUME pool' = pool, request' = request,
         IsNearestList(arrays', Limit),
         Len(quote'.used) <= Len(arrays'), quote'.used = SubSeq(arrays', 1, Len(quote'.used)),
         \A m \in DOMAIN arrays' :
           m > Len(quote'.used) => From(Index(quote'.activeId), arrays'[m])
  PROVE  ListInv'
<1>1. IsNearestList(arrays, Limit)'
  BY Unmoved DEF IsNearestList, Within, Limit
<1> QED
  BY <1>1, Unmoved DEF ListInv, Index

LEMMA DrainNext ==
  ASSUME pool' = pool, request' = request,
         quote'.pc \in {"fetch", "bins", "failed"} =>
           /\ \A b \in Before(quote'.activeId) : Index(b) \in Liquid => Fetched(Index(b))'
           /\ quote'.left > 0 => quote'.out = Bought(quote'.activeId)
           /\ Bought(quote'.activeId) <= quote'.out
           /\ quote'.out <= Bought(quote'.activeId) + Output(quote'.activeId)
           /\ quote'.pc = "failed" => IF quote'.left > 0 THEN ~Fetched(Nearest)'
                                      ELSE quote'.kind = "exactIn" /\ quote'.in = 0
  PROVE  DrainInv'
BY Unmoved DEF DrainInv, Index

LEMMA AskNext ==
  ASSUME pool' = pool, request' = request, arrays' = arrays \/ request.outAmount = 0,
         quote'.kind = "exactOut" =>
           /\ quote'.out + quote'.left = request.outAmount
           /\ quote'.left > 0 => quote'.pc \in {"fetch", "bins", "failed"}
                                   /\ quote'.in = Paid(quote'.activeId)
           /\ quote'.left = 0 /\ quote'.pc # "fetch" => IsCost(quote'.in)
  PROVE  AskInv'
<1>1. \A amount : IsCost(amount) => IsCost(amount)'
  BY UnmovedArrays DEF IsCost
<1> QED
  BY <1>1, Unmoved DEF AskInv

LEMMA BackNext ==
  ASSUME pool' = pool, request' = request,
         quote'.kind = "exactIn" =>
           /\ arrays' = arrays
           /\ quote'.left + quote'.in - request.more \in Nat
           /\ IsCost(quote'.left + quote'.in - request.more)
           /\ quote'.pc \in {"bins", "failed"} /\ quote'.left > 0
                => quote'.in = Paid(quote'.activeId)
           /\ quote'.left = 0 \/ quote'.pc \in {"extra", "done"}
                => quote'.out >= request.outAmount
           /\ quote'.pc \in {"extra", "done"} /\ quote'.left > 0 => request.more > 0
           /\ quote'.pc = "failed" => request.more > 0 \/ request.outAmount = 0
  PROVE  BackInv'
BY Unmoved, UnmovedArrays DEF BackInv, Asked

-----------------------------------------------------------------------------
(***************************************************************************)
(* Each action keeps the invariant.                                        *)
(***************************************************************************)
LEMMA StartsRight ==
  ASSUME Init
  PROVE  WalkInv
<1>1. Given
  BY DEF Init, Given
<1>2. /\ request.swapForY \in BOOLEAN /\ request.outAmount \in Nat
      /\ pool.activeId \in Int /\ pool.activeId \in Room
  BY <1>1, GivenHas, RoomOfIndex
<1>3. /\ quote \in QuoteType
      /\ quote.pc = "fetch" /\ quote.kind = "exactOut" /\ quote.left = request.outAmount
      /\ quote.in = 0 /\ quote.out = 0 /\ quote.used = <<>> /\ quote.activeId = pool.activeId
  <2>1. quote = [pc |-> "fetch", kind |-> "exactOut", left |-> request.outAmount,
                 activeId |-> pool.activeId, in |-> 0, out |-> 0, fee |-> 0,
                 protocolFee |-> 0, used |-> <<>>, extra |-> 0]
    BY DEF Init, NewQuote
  <2>2. <<>> \in Seq(Int)
    OBVIOUS
  <2> QED
    BY <1>2, <2>1, <2>2 DEF QuoteType
<1>4. PlaceInv
  BY <1>1, <1>2, <1>3 DEF PlaceInv, From
<1>5. Before(pool.activeId) = {} /\ Output(pool.activeId) \in Nat
  BY <1>1, <1>2, OutputIs, RoomOfIndex DEF Before, From, Later
<1>6. Bought(pool.activeId) = 0 /\ Paid(pool.activeId) = 0
  BY <1>1, Ledgers
<1>7. DrainInv /\ AskInv
  BY <1>2, <1>3, <1>5, <1>6 DEF DrainInv, AskInv
<1>8. ListInv /\ BackInv
  BY <1>3 DEF ListInv, BackInv
<1> QED
  BY <1>4, <1>7, <1>8 DEF WalkInv

LEMMA FetchKeeps ==
  ASSUME WalkInv, GetBinArrayForSwap
  PROVE  WalkInv'
<1>1. /\ Given /\ quote \in QuoteType /\ quote.kind = "exactOut"
      /\ quote.left = request.outAmount /\ request.outAmount \in Nat
      /\ quote.in = 0 /\ quote.out = 0 /\ quote.used = <<>> /\ quote.activeId = pool.activeId
      /\ quote.pc = "fetch" /\ quote.activeId \in Room /\ From(pool.activeId, quote.activeId)
  BY GivenHas DEF WalkInv, PlaceInv, GetBinArrayForSwap
<1>2. pool' = pool /\ request' = request /\ quote' = [quote EXCEPT !.pc = "bins"]
  BY DEF GetBinArrayForSwap
<1>3. /\ quote' \in QuoteType /\ quote'.pc = "bins" /\ quote'.kind = "exactOut"
      /\ quote'.left = request.outAmount /\ quote'.in = 0 /\ quote'.out = 0
      /\ quote'.used = <<>> /\ quote'.activeId = pool.activeId
  BY <1>1, <1>2 DEF QuoteType
<1>4. PlaceInv'
  BY <1>1, <1>2, <1>3, PlaceNext
<1>5. ListInv'
  <2>1. IsNearestList(arrays', Limit)
    BY <1>1, FetchDoes
  <2>2. /\ arrays' \in Seq(Int)
        /\ \A m \in DOMAIN arrays' : From(Index(pool.activeId), arrays'[m])
    BY <2>1 DEF IsNearestList, On, Onward, Onwards, From
  <2>3. Len(quote'.used) = 0 /\ 0 <= Len(arrays') /\ SubSeq(arrays', 1, 0) = <<>>
    BY <1>3, <2>2
  <2> QED
    BY <1>2, <1>3, <2>1, <2>2, <2>3, ListNext
<1>6. /\ Before(pool.activeId) = {} /\ Output(pool.activeId) \in Nat
      /\ Bought(pool.activeId) = 0 /\ Paid(pool.activeId) = 0
  BY <1>1, Ledgers, OutputIs, GivenHas, RoomOfIndex DEF Before, From, Later
<1>7. DrainInv'
  BY <1>2, <1>3, <1>6, DrainNext
<1>8. AskInv'
  <2>1. request.outAmount = 0 => IsCost(0)
    BY DEF IsCost
  <2>2. CASE request.outAmount = 0
    BY <1>1, <1>2, <1>3, <2>1, <2>2, AskNext
  <2>3. CASE request.outAmount # 0
    BY <1>1, <1>2, <1>3, <1>6, <2>3, Unmoved DEF AskInv
  <2> QED
    BY <2>2, <2>3
<1>9. BackInv'
  BY <1>3 DEF BackInv
<1> QED
  BY <1>4, <1>5, <1>7, <1>8, <1>9 DEF WalkInv

\* What a turn of the loop makes of the amounts.
LEMMA TurnIs ==
  ASSUME WalkInv, SwapAtBin
  PROVE  LET a == quote.activeId
             all == Output(a)
         IN /\ quote'.left \in Nat /\ quote'.out \in Nat /\ quote'.in \in Nat
            /\ quote'.left > 0 => /\ quote'.out = Bought(NextBin(a))
                                  /\ quote'.in = Paid(NextBin(a))
            /\ Bought(a) <= quote'.out /\ quote'.out <= Bought(a) + all
            /\ quote.kind = "exactOut" =>
                 /\ quote'.out + quote'.left = quote.out + quote.left
                 /\ quote'.left = 0 => quote.left <= all /\ quote'.in = Paid(a) + Pay(a, quote.left)
            /\ quote.kind = "exactIn" =>
                 /\ quote'.left + quote'.in = quote.left + quote.in
                 /\ quote'.left = 0 => quote.left <= Pay(a, all)
                 /\ \A n \in 0 .. all : Pay(a, n) <= quote.left => Bought(a) + n <= quote'.out
<1> DEFINE a == quote.activeId
           all == Output(a)
           fill == SwapQuoteAtBin(a)
           left == quote.left
<1>1. PlaceInv /\ ListInv /\ DrainInv /\ AskInv /\ BackInv
  BY DEF WalkInv
<1>2. /\ Given /\ a \in Int /\ left \in Nat /\ quote.in \in Nat /\ quote.out \in Nat
      /\ From(pool.activeId, a) /\ quote.kind \in {"exactOut", "exactIn"}
  BY <1>1, PlaceHas
<1>3. /\ quote.pc = "bins" /\ left > 0
      /\ quote.kind = "exactOut" => /\ quote'.left = left - fill.out
                                    /\ quote'.in = quote.in + (fill.in + fill.fee)
      /\ quote.kind = "exactIn" => /\ quote'.left = left - fill.in
                                   /\ quote'.in = quote.in + fill.in
      /\ quote'.out = quote.out + fill.out
  BY <1>1, SwapDoes
<1>4. /\ fill.in \in Nat /\ fill.out \in Nat /\ fill.fee \in Nat /\ fill.out <= all
      /\ quote.kind = "exactOut" =>
           /\ fill.out = (IF left <= all THEN left ELSE all)
           /\ fill.in + fill.fee = Pay(a, fill.out)
      /\ quote.kind = "exactIn" =>
           /\ fill.in = (IF left <= Pay(a, all) THEN left ELSE Pay(a, all))
           /\ \A n \in 0 .. all : Pay(a, n) <= left => n <= fill.out
           /\ Pay(a, all) < left => fill.out = all
  BY <1>2, BinIsQuoted
<1>5. quote.out = Bought(a) /\ quote.in = Paid(a)
  BY <1>1, <1>2, <1>3 DEF DrainInv, AskInv, BackInv
<1>6. /\ Bought(a) \in Nat /\ Paid(a) \in Nat /\ all \in Nat /\ Pay(a, all) \in Nat
      /\ Bought(NextBin(a)) = Bought(a) + all /\ Paid(NextBin(a)) = Paid(a) + Pay(a, all)
  <2>1. all = 0 => Pay(a, all) \in Nat
    BY DEF Pay
  <2> QED
    BY <1>2, <2>1, BeforeNext, OutputIs, PayIs
<1> HIDE DEF a, all, fill, left
<1>7. CASE quote.kind = "exactOut"
  BY <1>2, <1>3, <1>4, <1>5, <1>6, <1>7 DEF left, a, all
<1>8. CASE quote.kind = "exactIn"
  <2>1. /\ quote'.left \in Nat /\ quote'.in \in Nat /\ quote'.out \in Nat
        /\ quote'.left + quote'.in = left + quote.in
        /\ Bought(a) <= quote'.out /\ quote'.out <= Bought(a) + all
        /\ quote'.left > 0 => Pay(a, all) < left
        /\ quote'.left = 0 => left <= Pay(a, all)
    BY <1>2, <1>3, <1>4, <1>5, <1>6, <1>8
  <2>2. quote'.left > 0 => quote'.out = Bought(NextBin(a)) /\ quote'.in = Paid(NextBin(a))
    BY <1>2, <1>3, <1>4, <1>5, <1>6, <1>8, <2>1
  <2>3. ASSUME NEW n \in 0 .. all, Pay(a, n) <= left
        PROVE  Bought(a) + n <= quote'.out
    <3>1. n <= fill.out
      BY <1>4, <1>8, <2>3
    <3> QED
      BY <1>3, <1>4, <1>5, <1>6, <3>1
  <2> QED
    BY <1>8, <2>1, <2>2, <2>3 DEF left, a, all
<1> QED
  BY <1>2, <1>7, <1>8

\* A cost that ends at a bin is above what the bins before it cost, and no more
\* than it costs to buy them and that one.
LEMMA EndIs ==
  ASSUME Given, NEW last \in Bins, NEW amount, EndsAt(last, amount)
  PROVE  /\ amount \in Nat /\ amount > 0 /\ request.outAmount \in Nat /\ last \in Int
         /\ Fetched(Index(last)) /\ From(pool.activeId, last)
         /\ \A b \in Int : Later(last, b) => request.outAmount <= Bought(b) /\ amount <= Paid(b)
         /\ \A b \in Int : From(pool.activeId, b) /\ Later(b, last)
                             => Paid(b) + Pay(b, Output(b)) < amount
<1> DEFINE part == request.outAmount - Bought(last)
<1>1. /\ From(pool.activeId, last) /\ Fetched(Index(last))
      /\ part > 0 /\ part <= Output(last)
      /\ amount = Paid(last) + Pay(last, part)
  BY DEF EndsAt
<1>2. /\ request.outAmount \in Nat /\ last \in Int /\ Output(last) \in Nat
      /\ request.swapForY \in BOOLEAN /\ pool.activeId \in Int
  BY GivenHas, RoomOfIndex, OutputIs
<1>3. /\ Bought(last) \in Nat /\ Paid(last) \in Nat
      /\ Bought(NextBin(last)) = Bought(last) + Output(last)
      /\ Paid(NextBin(last)) = Paid(last) + Pay(last, Output(last))
      /\ NextBin(last) \in Int
  BY <1>1, <1>2, BeforeNext, Direction
<1>4. part \in Nat /\ request.outAmount = Bought(last) + part
  BY <1>1, <1>2, <1>3
<1> HIDE DEF part
<1>5. /\ Pay(last, part) \in Nat /\ Pay(last, part) > 0
      /\ Pay(last, part) <= Pay(last, Output(last)) /\ Pay(last, Output(last)) \in Nat
  BY <1>1, <1>2, <1>4, PayIs, PayGrows
<1>6. ASSUME NEW b \in Int, Later(last, b)
      PROVE  request.outAmount <= Bought(b) /\ amount <= Paid(b)
  <2>1. From(NextBin(last), b) /\ From(pool.activeId, b)
    <3>1. From(NextBin(last), b)
      BY <1>2, <1>6, Direction
    <3>2. From(pool.activeId, b)
      BY <1>1, <1>2, <1>6 DEF From, Later
    <3> QED
      BY <3>1, <3>2
  <2>2. Bought(NextBin(last)) <= Bought(b) /\ Paid(NextBin(last)) <= Paid(b)
    BY <1>3, <2>1, BeforeGrows
  <2>3. Bought(b) \in Nat /\ Paid(b) \in Nat
    BY <2>1, BeforeNext
  <2> QED
    BY <1>1, <1>2, <1>3, <1>4, <1>5, <2>2, <2>3
<1>7. ASSUME NEW b \in Int, From(pool.activeId, b), Later(b, last)
      PROVE  Paid(b) + Pay(b, Output(b)) < amount
  <2>1. From(NextBin(b), last) /\ NextBin(b) \in Int
    BY <1>2, <1>7, Direction
  <2>2. Paid(NextBin(b)) <= Paid(last) /\ Paid(NextBin(b)) = Paid(b) + Pay(b, Output(b))
    BY <1>2, <1>7, <2>1, BeforeGrows, BeforeNext
  <2>3. Paid(b) \in Nat /\ Pay(b, Output(b)) \in Nat
    <3>1. Output(b) = 0 => Pay(b, Output(b)) \in Nat
      BY DEF Pay
    <3> QED
      BY <1>7, <3>1, BeforeNext, OutputIs, PayIs
  <2> QED
    BY <1>1, <1>3, <1>5, <2>2, <2>3
<1> QED
  BY <1>1, <1>2, <1>3, <1>4, <1>5, <1>6, <1>7

\* With no fetched array left, all that was asked for is bought and paid.
LEMMA DryIsPaid ==
  ASSUME WalkInv, quote.pc = "bins", quote.kind = "exactIn", quote.left > 0, ~Fetched(Nearest)
  PROVE  quote.out >= request.outAmount /\ request.more > 0
<1> DEFINE a == quote.activeId
<1>1. PlaceInv /\ ListInv /\ DrainInv /\ BackInv
  BY DEF WalkInv
<1>2. /\ Given /\ a \in Int /\ quote.left \in Nat /\ quote.in \in Nat /\ quote.out \in Nat
      /\ request.swapForY \in BOOLEAN /\ request.outAmount \in Nat /\ request.more \in Nat
  BY <1>1, PlaceHas, GivenHas
<1>3. /\ quote.out = Bought(a) /\ quote.in = Paid(a)
      /\ Asked \in Nat /\ IsCost(Asked)
  BY <1>1 DEF DrainInv, BackInv
<1>4. Asked = quote.left + quote.in - request.more
  BY DEF Asked
<1>5. CASE request.outAmount = 0
  BY <1>2, <1>3, <1>4, <1>5 DEF IsCost
<1>6. CASE request.outAmount # 0
  <2>1. PICK last \in Bins : EndsAt(last, Asked)
    BY <1>3, <1>6 DEF IsCost
  <2>2. /\ last \in Int /\ Fetched(Index(last)) /\ Index(last) \in Int
        /\ \A b \in Int : Later(last, b) => request.outAmount <= Bought(b) /\ Asked <= Paid(b)
    BY <1>2, <2>1, EndIs, IndexIsFloor DEF Index
  <2>3. ~From(Index(a), Index(last))
    BY <1>1, <2>2, NearestIs
  <2>4. Later(last, a)
    <3>1. From(a, last) => From(Index(a), Index(last))
      BY <1>2, <2>2, Direction
    <3> QED
      BY <1>2, <2>2, <2>3, <3>1 DEF From, Later
  <2>5. request.outAmount <= Bought(a) /\ Asked <= Paid(a)
    BY <1>2, <2>2, <2>4
  <2> QED
    BY <1>2, <1>3, <1>4, <2>5
<1> QED
  BY <1>5, <1>6

\* Nothing but nothing costs nothing.
LEMMA NothingIsFree ==
  ASSUME WalkInv, quote.kind = "exactIn", quote.left = 0, quote.in = 0
  PROVE  request.outAmount = 0 /\ request.more = 0
<1>1. Given /\ request.more \in Nat
  BY GivenHas DEF WalkInv, PlaceInv
<1>2. Asked \in Nat /\ IsCost(Asked)
  BY DEF WalkInv, BackInv
<1>3. Asked = 0 /\ request.more = 0
  <2>1. Asked = quote.left + quote.in - request.more
    BY DEF Asked
  <2> QED
    BY <1>1, <1>2, <2>1
<1>4. \A last \in Bins : ~EndsAt(last, 0)
  BY <1>1, EndIs
<1> QED
  BY <1>2, <1>3, <1>4 DEF IsCost

LEMMA SwapKeeps ==
  ASSUME WalkInv, SwapAtBin
  PROVE  WalkInv'
<1> DEFINE a == quote.activeId
           next == quote'.activeId
<1>1. PlaceInv /\ ListInv /\ DrainInv /\ AskInv /\ BackInv
  BY DEF WalkInv
<1>2. /\ Given /\ a \in Int /\ quote.left \in Nat /\ quote.in \in Nat /\ quote.out \in Nat
      /\ a \in Room /\ From(pool.activeId, a) /\ quote.kind \in {"exactOut", "exactIn"}
      /\ request.swapForY \in BOOLEAN /\ request.outAmount \in Nat /\ request.more \in Nat
      /\ pool.activeId \in Int /\ Index(a) \in Int
  BY <1>1, PlaceHas, GivenHas
<1>3. /\ pool' = pool /\ request' = request /\ arrays' = arrays
      /\ quote.pc = "bins" /\ quote.left > 0 /\ Fetched(Nearest)
      /\ quote' \in QuoteType
      /\ quote'.pc = "bins" /\ quote'.kind = quote.kind
      /\ quote'.used = Use(Nearest)
      /\ next = IF quote'.left = 0 THEN a ELSE NextBin(a)
  BY <1>1, SwapDoes
<1>4. /\ quote'.left \in Nat /\ quote'.out \in Nat /\ quote'.in \in Nat
      /\ quote'.left > 0 => quote'.out = Bought(NextBin(a)) /\ quote'.in = Paid(NextBin(a))
      /\ Bought(a) <= quote'.out /\ quote'.out <= Bought(a) + Output(a)
      /\ quote.kind = "exactOut" =>
           /\ quote'.out + quote'.left = quote.out + quote.left
           /\ quote'.left = 0 => /\ quote.left <= Output(a)
                                 /\ quote'.in = Paid(a) + Pay(a, quote.left)
      /\ quote.kind = "exactIn" =>
           /\ quote'.left + quote'.in = quote.left + quote.in
           /\ quote'.left = 0 => quote.left <= Pay(a, Output(a))
           /\ \A n \in 0 .. Output(a) : Pay(a, n) <= quote.left => Bought(a) + n <= quote'.out
  BY TurnIs
<1>5. quote.out = Bought(a) /\ quote.in = Paid(a)
  BY <1>1, <1>2, <1>3 DEF DrainInv, AskInv, BackInv
<1>6. /\ Bought(a) \in Nat /\ Paid(a) \in Nat /\ Output(a) \in Nat
      /\ Bought(NextBin(a)) = Bought(a) + Output(a)
      /\ Paid(NextBin(a)) = Paid(a) + Pay(a, Output(a))
      /\ Before(NextBin(a)) = Before(a) \cup ({a} \cap Bins)
      /\ NextBin(a) \in Int /\ NextBin(a) \in Room /\ From(pool.activeId, NextBin(a))
  BY <1>1, <1>2, <1>3, BeforeNext, OutputIs, MovesOn
<1>7. Index(a) \in Liquid => Fetched(Index(a))
  BY <1>1, <1>3, NearestIs
<1>8. PlaceInv'
  BY <1>2, <1>3, <1>6, PlaceNext
<1>9. ListInv'
  <2>1. IsNearestList(arrays', Limit)
    BY <1>1, <1>3 DEF ListInv
  <2>2. /\ Len(quote'.used) <= Len(arrays') /\ quote'.used = SubSeq(arrays', 1, Len(quote'.used))
        /\ \A m \in DOMAIN arrays' : m > Len(quote'.used) => From(Index(next), arrays'[m])
    BY <1>1, <1>3, UseIsNext
  <2> QED
    BY <1>3, <2>1, <2>2, ListNext
<1> HIDE DEF a
<1>10. DrainInv'
  <2>1. \A b \in Before(next) : Index(b) \in Liquid => Fetched(Index(b))
    BY <1>1, <1>3, <1>6, <1>7 DEF DrainInv, a
  <2>2. /\ quote'.left > 0 => quote'.out = Bought(next)
        /\ Bought(next) <= quote'.out /\ quote'.out <= Bought(next) + Output(next)
    <3>1. CASE quote'.left = 0
      BY <1>3, <1>4, <3>1
    <3>2. CASE quote'.left # 0
      <4>1. Output(next) \in Nat /\ Bought(NextBin(a)) \in Nat
        BY <1>2, <1>6, OutputIs
      <4> QED
        BY <1>3, <1>4, <3>2, <4>1
    <3> QED
      BY <3>1, <3>2
  <2>3. \A i : Fetched(i)' = Fetched(i)
    BY <1>3, UnmovedArrays
  <2>4. \A b \in Before(next) : Index(b) \in Liquid => Fetched(Index(b))'
    BY <2>1, <2>3 DEF Index
  <2> QED
    BY <1>3, <2>2, <2>4, DrainNext
<1>11. AskInv'
  <2> SUFFICES ASSUME quote.kind = "exactOut"
               PROVE  /\ quote'.out + quote'.left = request.outAmount
                      /\ quote'.left > 0 => quote'.in = Paid(next)
                      /\ quote'.left = 0 => IsCost(quote'.in)
    BY <1>3, AskNext
  <2>1. quote.out + quote.left = request.outAmount
    BY <1>1 DEF AskInv
  <2>2. ASSUME quote'.left = 0 PROVE IsCost(quote'.in)
    <3>1. /\ quote.left <= Output(a) /\ quote'.in = Paid(a) + Pay(a, quote.left)
          /\ request.outAmount - Bought(a) = quote.left
      BY <1>2, <1>4, <1>5, <1>6, <2>1, <2>2
    <3>2. a \in Bins /\ Fetched(Index(a))
      BY <1>2, <1>3, <1>6, <1>7, <3>1, OutputIs
    <3>3. EndsAt(a, quote'.in)
      BY <1>2, <1>3, <3>1, <3>2 DEF EndsAt
    <3> QED
      BY <1>2, <1>3, <1>5, <1>6, <2>1, <3>2, <3>3 DEF IsCost
  <2> QED
    BY <1>3, <1>4, <2>1, <2>2
<1>12. BackInv'
  <2> DEFINE asked == quote.left + quote.in - request.more
  <2> SUFFICES ASSUME quote.kind = "exactIn"
               PROVE  /\ quote'.left + quote'.in - request.more \in Nat
                      /\ IsCost(quote'.left + quote'.in - request.more)
                      /\ quote'.left > 0 => quote'.in = Paid(next)
                      /\ quote'.left = 0 => quote'.out >= request.outAmount
    BY <1>3, BackNext
  <2>1. asked \in Nat /\ IsCost(asked)
    BY <1>1 DEF BackInv, Asked
  <2>2. quote'.left + quote'.in - request.more = asked
    BY <1>2, <1>4
  <2>3. quote.left + Paid(a) = asked + request.more
    BY <1>2, <1>5, <1>6
  <2> HIDE DEF asked
  <2>4. ASSUME quote'.left = 0 PROVE quote'.out >= request.outAmount
    <3>1. CASE request.outAmount = 0
      BY <1>4, <3>1
    <3>2. CASE request.outAmount # 0
      <4>1. PICK last \in Bins : EndsAt(last, asked)
        BY <2>1, <3>2 DEF IsCost
      <4>2. /\ last \in Int
            /\ \A b \in Int : Later(last, b) => request.outAmount <= Bought(b)
            /\ \A b \in Int : From(pool.activeId, b) /\ Later(b, last)
                                => Paid(b) + Pay(b, Output(b)) < asked
        BY <1>2, <4>1, EndIs
      <4>3. CASE Later(last, a)
        <5>1. request.outAmount <= Bought(a)
          BY <1>2, <4>2, <4>3
        <5> QED
          BY <1>2, <1>4, <1>6, <5>1
      <4>4. CASE last = a
        <5> DEFINE part == request.outAmount - Bought(a)
        <5>1. part > 0 /\ part <= Output(a) /\ asked = Paid(a) + Pay(a, part)
          BY <4>1, <4>4 DEF EndsAt
        <5>2. part \in Nat /\ request.outAmount = Bought(a) + part
          BY <1>2, <1>6, <5>1
        <5> HIDE DEF part
        <5>3. part \in 0 .. Output(a) /\ Pay(a, part) \in Nat
          BY <1>2, <1>6, <4>4, <5>1, <5>2, PayIs
        <5>4. Pay(a, part) <= quote.left
          BY <1>2, <1>6, <2>3, <5>1, <5>3
        <5>5. Bought(a) + part <= quote'.out
          BY <1>4, <5>3, <5>4
        <5> QED
          BY <1>2, <1>4, <1>6, <5>2, <5>5
      <4>5. CASE Later(a, last)
        <5>1. Paid(a) + Pay(a, Output(a)) < asked /\ quote.left <= Pay(a, Output(a))
          BY <1>2, <1>4, <2>4, <4>2, <4>5
        <5>2. Pay(a, Output(a)) \in Nat
          <6>1. Output(a) = 0 => Pay(a, Output(a)) \in Nat
            BY DEF Pay
          <6> QED
            BY <1>2, <6>1, OutputIs, PayIs
        <5> QED
          BY <1>2, <1>6, <2>1, <2>3, <5>1, <5>2
      <4>6. Later(last, a) \/ last = a \/ Later(a, last)
        BY <1>2, <4>2 DEF Later
      <4> QED
        BY <4>3, <4>4, <4>5, <4>6
    <3> QED
      BY <3>1, <3>2
  <2> QED
    BY <1>3, <1>4, <2>1, <2>2, <2>4
<1> QED
  BY <1>8, <1>9, <1>10, <1>11, <1>12 DEF WalkInv

LEMMA EndKeeps ==
  ASSUME WalkInv, EndBins
  PROVE  WalkInv'
<1>1. PlaceInv /\ ListInv /\ DrainInv /\ AskInv /\ BackInv
  BY DEF WalkInv
<1>2. /\ Given /\ quote \in QuoteType /\ quote.left \in Nat /\ quote.out \in Nat
      /\ quote.activeId \in Room /\ From(pool.activeId, quote.activeId)
      /\ request.outAmount \in Nat
  BY <1>1, PlaceHas, GivenHas DEF PlaceInv
<1>3. /\ pool' = pool /\ request' = request /\ arrays' = arrays
      /\ quote' = [quote EXCEPT !.pc = "extra"] /\ quote.pc = "bins"
      /\ quote.left = 0 \/ (quote.kind = "exactIn" /\ ~Fetched(Nearest))
  BY DEF EndBins, LoopLeft
<1>4. /\ quote' \in QuoteType /\ quote'.pc = "extra" /\ quote'.kind = quote.kind
      /\ quote'.left = quote.left /\ quote'.in = quote.in /\ quote'.out = quote.out
      /\ quote'.used = quote.used /\ quote'.activeId = quote.activeId
  BY <1>2, <1>3 DEF QuoteType
<1>5. PlaceInv'
  BY <1>2, <1>3, <1>4, PlaceNext
<1>6. ListInv'
  BY <1>1, <1>3, <1>4, ListNext DEF ListInv
<1>7. DrainInv'
  BY <1>4 DEF DrainInv
<1>8. AskInv'
  BY <1>1, <1>2, <1>3, <1>4, AskNext DEF AskInv
<1>9. BackInv'
  <2>1. quote.kind = "exactIn" /\ quote.left > 0 => /\ quote.out >= request.outAmount
                                                    /\ request.more > 0
    BY <1>3, DryIsPaid
  <2> QED
    BY <1>1, <1>2, <1>3, <1>4, <2>1, BackNext DEF BackInv, Asked
<1> QED
  BY <1>5, <1>6, <1>7, <1>8, <1>9 DEF WalkInv

LEMMA FailKeeps ==
  ASSUME WalkInv, InsufficientLiquidity
  PROVE  WalkInv'
<1>1. PlaceInv /\ ListInv /\ DrainInv /\ AskInv /\ BackInv
  BY DEF WalkInv
<1>2. /\ Given /\ quote \in QuoteType /\ quote.left \in Nat /\ quote.out \in Nat
      /\ quote.in \in Nat /\ quote.kind \in {"exactOut", "exactIn"}
      /\ quote.activeId \in Room /\ From(pool.activeId, quote.activeId)
  BY <1>1, PlaceHas DEF PlaceInv
<1>3. /\ pool' = pool /\ request' = request /\ arrays' = arrays
      /\ quote' = [quote EXCEPT !.pc = "failed"] /\ quote.pc = "bins"
      /\ IF quote.left > 0 THEN ~Fetched(Nearest)
         ELSE quote.kind = "exactIn" /\ quote.in = 0
  BY <1>2 DEF InsufficientLiquidity, LoopLeft, Started
<1>4. /\ quote' \in QuoteType /\ quote'.pc = "failed" /\ quote'.kind = quote.kind
      /\ quote'.left = quote.left /\ quote'.in = quote.in /\ quote'.out = quote.out
      /\ quote'.used = quote.used /\ quote'.activeId = quote.activeId
  BY <1>2, <1>3 DEF QuoteType
<1>5. PlaceInv'
  BY <1>2, <1>3, <1>4, PlaceNext
<1>6. ListInv'
  BY <1>1, <1>3, <1>4, ListNext DEF ListInv
<1>7. DrainInv'
  <2>1. \A i : Fetched(i)' = Fetched(i)
    BY <1>3, UnmovedArrays
  <2>2. quote.left > 0 => ~Fetched(Nearest)'
    BY <1>3, <1>4, UnmovedArrays
  <2>3. \A b \in Before(quote.activeId) : Index(b) \in Liquid => Fetched(Index(b))'
    BY <1>1, <1>3, <2>1 DEF DrainInv, Index
  <2> QED
    BY <1>1, <1>3, <1>4, <2>2, <2>3, DrainNext DEF DrainInv
<1>8. AskInv'
  BY <1>1, <1>2, <1>3, <1>4, AskNext DEF AskInv
<1>9. BackInv'
  <2>1. quote.kind = "exactIn" => request.more > 0 \/ request.outAmount = 0
    BY <1>2, <1>3, DryIsPaid, NothingIsFree
  <2> QED
    BY <1>1, <1>2, <1>3, <1>4, <2>1, BackNext DEF BackInv, Asked
<1> QED
  BY <1>5, <1>6, <1>7, <1>8, <1>9 DEF WalkInv

\* What a turn of the loop over extra arrays does to the quote.
LEMMA ExtraDoes ==
  ASSUME PlaceInv, ListInv, ExtraArray
  PROVE  /\ pool' = pool /\ request' = request /\ arrays' = arrays
         /\ quote.pc = "extra" /\ quote'.pc \in {"extra", "done"}
         /\ quote' \in QuoteType /\ quote'.kind = quote.kind
         /\ quote'.left = quote.left /\ quote'.in = quote.in /\ quote'.out = quote.out
         /\ \/ /\ quote'.pc = "done" /\ quote'.used = quote.used
               /\ quote'.activeId = quote.activeId
            \/ /\ Fetched(Nearest) /\ quote'.used = Use(Nearest)
               /\ quote'.activeId \in {NextBin(quote.activeId), Behind(Nearest)}
<1>1. /\ pool' = pool /\ request' = request /\ arrays' = arrays /\ quote.pc = "extra"
  BY DEF ExtraArray
<1>2. quote \in QuoteType /\ quote.extra \in Nat /\ quote.kind \in {"exactOut", "exactIn"}
  BY PlaceHas DEF PlaceInv
<1>3. CASE quote.extra = request.maxExtraBinArrays \/ ~Fetched(Nearest)
  <2>1. quote' = [quote EXCEPT !.pc = "done"]
    BY <1>3 DEF ExtraArray
  <2> QED
    BY <1>1, <1>2, <2>1 DEF QuoteType
<1>4. CASE ~(quote.extra = request.maxExtraBinArrays \/ ~Fetched(Nearest)) /\ Used(Nearest)
  <2>1. quote' = [quote EXCEPT !.activeId = NextBin(quote.activeId)]
    BY <1>4 DEF ExtraArray
  <2>2. NextBin(quote.activeId) \in Int /\ quote.used = Use(Nearest)
    BY <1>1, <1>4, MovesOn DEF Use
  <2> QED
    BY <1>1, <1>2, <1>4, <2>1, <2>2 DEF QuoteType
<1>5. CASE ~(quote.extra = request.maxExtraBinArrays \/ ~Fetched(Nearest)) /\ ~Used(Nearest)
  <2> DEFINE used == Use(Nearest)
             next == Behind(Nearest)
             extra == quote.extra + 1
  <2>1. quote' = [quote EXCEPT !.used = used, !.extra = extra, !.activeId = next]
    BY <1>5 DEF ExtraArray
  <2>2. next \in Int /\ used \in Seq(Int) /\ extra \in Nat
    BY <1>1, <1>2, <1>5, MovesOn, UseIsNext
  <2> HIDE DEF used, next, extra
  <2>3. /\ quote' \in QuoteType /\ quote'.kind = quote.kind /\ quote'.pc = "extra"
        /\ quote'.left = quote.left /\ quote'.in = quote.in /\ quote'.out = quote.out
        /\ quote'.used = used /\ quote'.activeId = next
    BY <1>1, <1>2, <2>1, <2>2 DEF QuoteType
  <2> QED
    BY <1>1, <1>5, <2>3 DEF used, next
<1> QED
  BY <1>3, <1>4, <1>5

LEMMA ExtraKeeps ==
  ASSUME WalkInv, ExtraArray
  PROVE  WalkInv'
<1>1. PlaceInv /\ ListInv /\ AskInv /\ BackInv
  BY DEF WalkInv
<1>2. /\ Given /\ quote.left \in Nat
      /\ quote.activeId \in Room /\ From(pool.activeId, quote.activeId)
  BY <1>1, PlaceHas
<1>3. /\ pool' = pool /\ request' = request /\ arrays' = arrays
      /\ quote.pc = "extra" /\ quote'.pc \in {"extra", "done"}
      /\ quote' \in QuoteType /\ quote'.kind = quote.kind
      /\ quote'.left = quote.left /\ quote'.in = quote.in /\ quote'.out = quote.out
      /\ \/ quote'.used = quote.used /\ quote'.activeId = quote.activeId
         \/ /\ Fetched(Nearest) /\ quote'.used = Use(Nearest)
            /\ quote'.activeId \in {NextBin(quote.activeId), Behind(Nearest)}
  BY <1>1, ExtraDoes
<1>4. IsNearestList(arrays', Limit)
  BY <1>1, <1>3 DEF ListInv
<1>5. ASSUME quote'.used = quote.used /\ quote'.activeId = quote.activeId
      PROVE  PlaceInv' /\ ListInv'
  <2>1. PlaceInv'
    BY <1>2, <1>3, <1>5, PlaceNext
  <2>2. ListInv'
    BY <1>1, <1>3, <1>4, <1>5, ListNext DEF ListInv
  <2> QED
    BY <2>1, <2>2
<1>6. ASSUME /\ Fetched(Nearest) /\ quote'.used = Use(Nearest)
             /\ quote'.activeId \in {NextBin(quote.activeId), Behind(Nearest)}
      PROVE  PlaceInv' /\ ListInv'
  <2>1. quote'.activeId \in Room /\ From(pool.activeId, quote'.activeId)
    BY <1>1, <1>3, <1>6, MovesOn
  <2>2. PlaceInv'
    BY <1>2, <1>3, <2>1, PlaceNext
  <2>3. /\ Len(quote'.used) <= Len(arrays') /\ quote'.used = SubSeq(arrays', 1, Len(quote'.used))
        /\ \A m \in DOMAIN arrays' :
             m > Len(quote'.used) => From(Index(quote'.activeId), arrays'[m])
    BY <1>1, <1>3, <1>6, UseIsNext
  <2>4. ListInv'
    BY <1>3, <1>4, <2>3, ListNext
  <2> QED
    BY <2>2, <2>4
<1>7. DrainInv'
  BY <1>3 DEF DrainInv
<1>8. AskInv'
  BY <1>1, <1>2, <1>3, AskNext DEF AskInv
<1>9. BackInv'
  BY <1>1, <1>2, <1>3, BackNext DEF BackInv, Asked
<1> QED
  BY <1>3, <1>5, <1>6, <1>7, <1>8, <1>9 DEF WalkInv

LEMMA BackKeeps ==
  ASSUME WalkInv, QuoteBack
  PROVE  WalkInv'
<1> DEFINE amount == quote.in + request.more
<1>1. PlaceInv /\ ListInv /\ AskInv
  BY DEF WalkInv
<1>2. /\ Given /\ quote.in \in Nat /\ quote.left \in Nat /\ quote.out \in Nat
      /\ request.outAmount \in Nat /\ request.more \in Nat
      /\ pool.activeId \in Int /\ pool.activeId \in Room /\ request.swapForY \in BOOLEAN
  BY <1>1, PlaceHas, GivenHas, RoomOfIndex
<1>3. /\ pool' = pool /\ request' = request /\ arrays' = arrays
      /\ quote.pc = "done" /\ quote.kind = "exactOut"
      /\ quote' = [pc |-> "bins", kind |-> "exactIn", left |-> amount,
                   activeId |-> pool.activeId, in |-> 0, out |-> 0, fee |-> 0,
                   protocolFee |-> 0, used |-> <<>>, extra |-> 0]
  BY DEF QuoteBack, NewQuote
<1>4. amount \in Nat /\ amount - request.more = quote.in
  BY <1>2
<1> HIDE DEF amount
<1>5. <<>> \in Seq(Int)
  OBVIOUS
<1>6. /\ quote' \in QuoteType /\ quote'.pc = "bins" /\ quote'.kind = "exactIn"
      /\ quote'.left = amount /\ quote'.in = 0 /\ quote'.out = 0 /\ quote'.used = <<>>
      /\ quote'.activeId = pool.activeId
  BY <1>2, <1>3, <1>4, <1>5 DEF QuoteType
<1>7. From(pool.activeId, pool.activeId)
  BY <1>2 DEF From
<1>8. PlaceInv'
  BY <1>2, <1>3, <1>6, <1>7, PlaceNext
<1>9. ListInv'
  <2>1. IsNearestList(arrays', Limit)
    BY <1>1, <1>3 DEF ListInv
  <2>2. /\ arrays' \in Seq(Int)
        /\ \A m \in DOMAIN arrays' : From(Index(pool.activeId), arrays'[m])
    BY <2>1 DEF IsNearestList, On, Onward, Onwards, From
  <2>3. Len(quote'.used) = 0 /\ 0 <= Len(arrays') /\ SubSeq(arrays', 1, 0) = <<>>
    BY <1>6, <2>2
  <2> QED
    BY <1>3, <1>6, <2>1, <2>2, <2>3, ListNext
<1>10. /\ Before(pool.activeId) = {} /\ Output(pool.activeId) \in Nat
       /\ Bought(pool.activeId) = 0 /\ Paid(pool.activeId) = 0
  BY <1>2, Ledgers, OutputIs, RoomOfIndex DEF Before, From, Later
<1>11. DrainInv'
  BY <1>3, <1>6, <1>10, DrainNext
<1>12. AskInv'
  BY <1>6 DEF AskInv
<1>13. BackInv'
  <2>1. IsCost(quote.in)
    BY <1>1, <1>2, <1>3 DEF AskInv
  <2>2. quote.in = 0 => request.outAmount = 0
    <3>1. \A last \in Bins : EndsAt(last, quote.in) => quote.in > 0
      BY <1>2, EndIs
    <3> QED
      BY <2>1, <3>1 DEF IsCost
  <2>3. quote'.left + quote'.in - request.more = quote.in
    BY <1>2, <1>4, <1>6
  <2>4. quote'.left = 0 => quote.in = 0
    BY <1>2, <1>4, <1>6
  <2> QED
    BY <1>2, <1>3, <1>6, <1>10, <2>1, <2>2, <2>3, <2>4, BackNext
<1> QED
  BY <1>8, <1>9, <1>11, <1>12, <1>13 DEF WalkInv

LEMMA WalkStarts == Init => WalkInv
BY StartsRight

LEMMA WalkGoesOn == WalkInv /\ [Next]_vars => WalkInv'
<1> SUFFICES ASSUME WalkInv, [Next]_vars
             PROVE  WalkInv'
  OBVIOUS
<1>1. CASE GetBinArrayForSwap
  BY <1>1, FetchKeeps
<1>2. CASE SwapAtBin
  BY <1>2, SwapKeeps
<1>3. CASE EndBins
  BY <1>3, EndKeeps
<1>4. CASE InsufficientLiquidity
  BY <1>4, FailKeeps
<1>5. CASE ExtraArray
  BY <1>5, ExtraKeeps
<1>6. CASE QuoteBack
  BY <1>6, BackKeeps
<1>7. CASE UNCHANGED vars
  <2>1. pool' = pool /\ request' = request /\ arrays' = arrays /\ quote' = quote
    BY <1>7 DEF vars
  <2>2. PlaceInv'
    BY <2>1, Unmoved DEF WalkInv, PlaceInv
  <2>3. ListInv'
    BY <2>1, Unmoved DEF WalkInv, ListInv, IsNearestList, Within, Index, Limit
  <2>4. DrainInv'
    BY <2>1, Unmoved, UnmovedArrays DEF WalkInv, DrainInv, Index
  <2>5. AskInv'
    BY <2>1, Unmoved, UnmovedArrays DEF WalkInv, AskInv
  <2>6. BackInv'
    BY <2>1, Unmoved, UnmovedArrays DEF WalkInv, BackInv, Asked
  <2> QED
    BY <2>2, <2>3, <2>4, <2>5, <2>6 DEF WalkInv
<1> QED
  BY <1>1, <1>2, <1>3, <1>4, <1>5, <1>6, <1>7 DEF Next

-----------------------------------------------------------------------------
(***************************************************************************)
(* What the properties speak of, in the terms of the invariant.            *)
(***************************************************************************)
\* The first members of a list without repetition are as many as their places.
LEMMA FirstOfList ==
  ASSUME NEW list \in Seq(Int), NEW k \in 0 .. Len(list),
         \A m, l \in DOMAIN list : list[m] = list[l] => m = l
  PROVE  LET first == {list[m] : m \in 1 .. k}
         IN IsFiniteSet(first) /\ Cardinality(first) = k
<1> DEFINE first == {list[m] : m \in 1 .. k}
           f == [m \in 1 .. k |-> list[m]]
<1>1. 1 .. k \subseteq DOMAIN list /\ IsFiniteSet(1 .. k) /\ Cardinality(1 .. k) = k
  BY FS_Interval
<1>2. \A a, b \in 1 .. k : list[a] = list[b] => a = b
  BY <1>1
<1>3. f \in Bijection(1 .. k, first)
  BY <1>1, <1>2 DEF Bijection, Injection, Surjection, IsInjective
<1>4. ExistsBijection(1 .. k, first)
  BY <1>3 DEF ExistsBijection
<1> QED
  BY <1>1, <1>4, FS_Bijection

LEMMA AheadIsOn ==
  ASSUME Given
  PROVE  Ahead = On
<1> DEFINE a == pool.activeId
           inArray(i) == {b \in Bins : IsBinIdWithinBinArray(b, i)}
<1>1. /\ request.swapForY \in BOOLEAN /\ a \in Bins /\ a \in Int /\ Index(a) \in Int
      /\ pool.x \in [Bins -> Nat] /\ pool.y \in [Bins -> Nat]
  BY GivenHas, IndexIsFloor DEF Index
<1> HIDE DEF a
<1>2. \A i \in MinIndex .. MaxIndex : i \in Int
  BY Bounds
<1>3. \A i \in Int, b \in Bins : b \in inArray(i) <=> Index(b) = i
  BY RoomOfIndex, OneArray, IndexIsFloor DEF Index
<1>4. \A i \in MinIndex .. MaxIndex : i \in Liquid <=> \E b \in inArray(i) : pool.x[b] + pool.y[b] > 0
  BY <1>2, <1>3 DEF Liquid, LiquidArrays, Index
<1>5. \A b \in Bins : (b - a) * Sign >= 0 <=> From(a, b)
  BY <1>1, RoomOfIndex, Direction
<1> HIDE DEF inArray
<1>6. Ahead = {i \in MinIndex .. MaxIndex :
                 /\ \E b \in inArray(i) : pool.x[b] + pool.y[b] > 0
                 /\ \E b \in inArray(i) : (b - a) * Sign >= 0}
  BY DEF Ahead, inArray, a
<1>7. \A i \in Liquid : i \in On <=> From(Index(a), i)
  BY DEF On, Onward, Onwards, From, a
<1>8. ASSUME NEW i \in Ahead PROVE i \in On
  <2>1. /\ i \in MinIndex .. MaxIndex /\ i \in Liquid
        /\ \E b \in inArray(i) : (b - a) * Sign >= 0
    BY <1>4, <1>6
  <2>2. PICK b \in inArray(i) : (b - a) * Sign >= 0
    BY <2>1
  <2>3. b \in Bins
    BY DEF inArray
  <2>4. b \in Int /\ Index(b) = i /\ From(a, b)
    BY <1>2, <1>3, <1>5, <2>1, <2>2, <2>3, RoomOfIndex
  <2>5. From(Index(a), Index(b))
    BY <1>1, <2>4, Direction
  <2> QED
    BY <1>7, <2>1, <2>4, <2>5
<1>9. ASSUME NEW i \in On PROVE i \in Ahead
  <2>1. i \in Liquid /\ i \in MinIndex .. MaxIndex /\ i \in Int /\ From(Index(a), i)
    BY <1>2, <1>7, LiquidIsInRoom DEF On, Onward, Onwards
  <2>2. PICK c \in Bins : Index(c) = i
    BY <2>1 DEF Liquid, LiquidArrays, Index
  <2>3. c \in Int
    BY RoomOfIndex
  <2>4. \E b \in inArray(i) : From(a, b)
    <3>1. CASE Index(a) = i
      <4>1. a \in inArray(i) /\ From(a, a)
        BY <1>1, <1>3, <2>1, <3>1 DEF From
      <4> QED
        BY <4>1
    <3>2. CASE Index(a) # i
      <4>1. ~From(Index(c), Index(a))
        BY <1>1, <2>1, <2>2, <3>2 DEF From
      <4>2. ~From(c, a)
        BY <1>1, <2>3, <4>1, Direction
      <4>3. From(a, c) /\ c \in inArray(i)
        BY <1>1, <1>3, <2>1, <2>2, <2>3, <4>2 DEF From
      <4> QED
        BY <4>3
    <3> QED
      BY <3>1, <3>2
  <2>5. \E b \in inArray(i) : (b - a) * Sign >= 0
    BY <1>5, <2>4 DEF inArray
  <2> QED
    BY <1>4, <1>6, <2>1, <2>5
<1> QED
  BY <1>8, <1>9

LEMMA NearestAheadIs ==
  ASSUME Given, NEW list, IsNearestList(list, Limit)
  PROVE  /\ NearestAhead = {list[m] : m \in DOMAIN list}
         /\ Cardinality(NearestAhead) = Len(list)
<1> DEFINE n == Limit
           all == {list[m] : m \in DOMAIN list}
           before(i) == {j \in On : Later(j, i)}
<1>1. /\ request.swapForY \in BOOLEAN /\ n \in Nat /\ Ahead = On
      /\ \A i \in On : i \in Int
  BY GivenHas, LimitIs, AheadIsOn, LiquidIsInRoom DEF On, Onward, Onwards
<1>2. /\ list \in Seq(Int) /\ Len(list) \in Nat /\ Len(list) <= n
      /\ DOMAIN list = 1 .. Len(list)
      /\ \A m \in DOMAIN list : list[m] \in On
      /\ \A m, l \in DOMAIN list : m < l => Later(list[m], list[l])
      /\ \A i \in On : Within(list, i) \/ \A m \in DOMAIN list : Later(list[m], i)
      /\ Len(list) < n => \A i \in On : Within(list, i)
  BY <1>1 DEF IsNearestList
<1>3. \A m, l \in DOMAIN list : list[m] = list[l] => m = l
  <2>1. \A i \in On : ~Later(i, i)
    BY <1>1 DEF Later
  <2>2. \A m, l \in DOMAIN list : list[m] = list[l] => ~(m < l) /\ ~(l < m)
    BY <1>2, <2>1
  <2> QED
    BY <1>2, <2>2
<1>4. \A k \in 0 .. Len(list) : LET first == {list[m] : m \in 1 .. k}
                                IN IsFiniteSet(first) /\ Cardinality(first) = k
  BY <1>2, <1>3, FirstOfList
<1>5. IsFiniteSet(all) /\ Cardinality(all) = Len(list) /\ all \subseteq On
  <2>1. Len(list) \in 0 .. Len(list)
    BY <1>2
  <2> QED
    BY <1>2, <1>4, <2>1
<1>6. \A i \in On : {j \in Ahead : (i - j) * Sign > 0} = before(i)
  BY <1>1, Direction
<1>7. NearestAhead = {i \in On : Cardinality(before(i)) < n}
  BY <1>1, <1>6 DEF NearestAhead
<1> HIDE DEF n
<1>8. IsFiniteSet(On)
  <2>1. IsFiniteSet(MinIndex .. MaxIndex)
    BY Bounds, FS_Interval
  <2> QED
    BY <2>1, LiquidIsInRoom, FS_Subset DEF On, Onward, Onwards
<1>9. ASSUME NEW i \in all PROVE Cardinality(before(i)) < n
  <2>1. PICK k \in DOMAIN list : list[k] = i
    OBVIOUS
  <2>2. before(i) = {list[m] : m \in 1 .. k - 1}
    <3>1. ASSUME NEW j \in On, Later(j, i)
          PROVE  \E m \in 1 .. k - 1 : list[m] = j
      <4>1. ~Later(i, j) /\ i # j
        BY <1>1, <1>2, <2>1, <3>1 DEF Later
      <4>2. Within(list, j)
        BY <1>2, <2>1, <4>1
      <4>3. PICK m \in DOMAIN list : list[m] = j
        BY <4>2 DEF Within
      <4>4. ~(k < m) /\ k # m
        BY <1>2, <2>1, <4>1, <4>3
      <4> QED
        BY <1>2, <2>1, <4>3, <4>4
    <3>2. \A m \in 1 .. k - 1 : list[m] \in On /\ Later(list[m], i)
      BY <1>2, <2>1
    <3> QED
      BY <3>1, <3>2
  <2>3. k - 1 \in 0 .. Len(list)
    BY <1>2, <2>1
  <2>4. Cardinality(before(i)) = k - 1
    BY <1>4, <2>2, <2>3
  <2> QED
    BY <1>1, <1>2, <2>1, <2>4
<1>10. ASSUME NEW i \in On, i \notin all PROVE ~(Cardinality(before(i)) < n)
  <2>1. ~Within(list, i)
    BY <1>10 DEF Within
  <2>2. Len(list) = n /\ \A m \in DOMAIN list : Later(list[m], i)
    <3>1. ~(Len(list) < n) /\ \A m \in DOMAIN list : Later(list[m], i)
      BY <1>2, <1>10, <2>1
    <3>2. n \in Nat /\ Len(list) \in Nat /\ Len(list) <= n
      BY <1>1, <1>2
    <3>3. Len(list) = n
      BY <3>1, <3>2
    <3> QED
      BY <3>1, <3>3
  <2>3. all \subseteq before(i) /\ before(i) \subseteq On
    BY <1>2, <2>2
  <2>4. IsFiniteSet(before(i)) /\ Cardinality(all) <= Cardinality(before(i))
        /\ Cardinality(before(i)) \in Nat
    BY <1>8, <2>3, FS_Subset, FS_CardinalityType
  <2> QED
    BY <1>1, <1>5, <2>2, <2>4
<1> HIDE DEF before, all
<1>11. NearestAhead = all
  BY <1>5, <1>7, <1>9, <1>10
<1> QED
  BY <1>5, <1>11 DEF all

LEMMA OutputOfIs ==
  ASSUME Given, NEW bins, bins \subseteq Bins
  PROVE  OutputOf(bins) = Total(Outputs, bins)
<1>1. OutputOf(bins) = Sum(Outputs, bins)
  BY DEF OutputOf, Outputs
<1>2. Outputs \in [Bins -> Nat] /\ IsFiniteSet(bins)
  BY Ledgers, FS_Subset
<1> QED
  BY <1>1, <1>2, SumIs

\* The bins passed are those before the one under way.
LEMMA PassedIs ==
  ASSUME PlaceInv
  PROVE  /\ Passed = Before(quote.activeId)
         /\ OutputOf(Passed) = Bought(quote.activeId)
         /\ OutputOf(Bins \cap {quote.activeId}) = Output(quote.activeId)
<1> DEFINE a == quote.activeId
           here == Bins \cap {a}
<1>1. /\ Given /\ request.swapForY \in BOOLEAN /\ pool.activeId \in Int /\ a \in Int
  BY PlaceHas
<1>2. \A b \in Bins : /\ (b - pool.activeId) * Sign >= 0 <=> From(pool.activeId, b)
                      /\ (a - b) * Sign > 0 <=> Later(b, a)
  <2> SUFFICES ASSUME NEW b \in Bins
               PROVE  /\ (b - pool.activeId) * Sign >= 0 <=> From(pool.activeId, b)
                      /\ (a - b) * Sign > 0 <=> Later(b, a)
    OBVIOUS
  <2>1. b \in Int
    BY RoomOfIndex
  <2> HIDE DEF a
  <2>2. (b - pool.activeId) * Sign >= 0 <=> From(pool.activeId, b)
    BY <1>1, <2>1, Direction
  <2>3. (a - b) * Sign > 0 <=> Later(b, a)
    BY <1>1, <2>1, Direction
  <2> QED
    BY <2>2, <2>3
<1>3. Passed = Before(a)
  BY <1>2 DEF Passed, Before
<1>4. Before(a) \subseteq Bins /\ here \subseteq Bins /\ IsFiniteSet(here)
  BY <1>1, Ledgers, FS_Subset
<1>5. OutputOf(Before(a)) = Bought(a) /\ OutputOf(here) = Total(Outputs, here)
  BY <1>1, <1>4, OutputOfIs DEF Bought
<1>6. Total(Outputs, here) = Output(a)
  <2>1. CASE a \in Bins
    <3>1. a \in here /\ here \ {a} = {}
      BY <2>1
    <3>2. Total(Outputs, here) = Total(Outputs, {}) + Outputs[a]
      BY <1>1, <1>4, <3>1, Ledgers, TotalSplit
    <3> QED
      BY <1>1, <2>1, <3>2, Ledgers, TotalOfNone, OutputIs
  <2>2. CASE a \notin Bins
    <3>1. here = {}
      BY <2>2
    <3> QED
      BY <2>2, <3>1, TotalOfNone DEF Output
  <2> QED
    BY <2>1, <2>2
<1> QED
  BY <1>3, <1>5, <1>6

\* A failed quote has taken all of the arrays it was given.
LEMMA FailedIsDry ==
  ASSUME WalkInv, quote.pc = "failed", quote.left > 0
  PROVE  quote.out = OutputOf({b \in Bins : /\ (b - pool.activeId) * Sign >= 0
                                            /\ BinIdToBinArrayIndex(b) \in NearestAhead})
<1> DEFINE a == quote.activeId
           near == NearestAhead
           taken == {b \in Bins : From(pool.activeId, b) /\ Index(b) \in near}
<1>1. PlaceInv /\ ListInv /\ DrainInv
  BY DEF WalkInv
<1>2. /\ Given /\ request.swapForY \in BOOLEAN /\ pool.activeId \in Int /\ a \in Int
      /\ Index(a) \in Int
  BY <1>1, PlaceHas
<1>3. /\ quote.out = Bought(a) /\ ~Fetched(Nearest)
      /\ \A b \in Before(a) : Index(b) \in Liquid => Fetched(Index(b))
  BY <1>1 DEF DrainInv
<1>4. \A i : i \in near <=> Fetched(i)
  <2>1. near = {arrays[m] : m \in DOMAIN arrays}
    BY <1>1, <1>2, NearestAheadIs DEF ListInv
  <2> QED
    BY <2>1 DEF Fetched
<1> HIDE DEF near
<1>5. \A b \in Bins : (b - pool.activeId) * Sign >= 0 <=> From(pool.activeId, b)
  BY <1>2, RoomOfIndex, Direction
<1>6. {b \in Bins : /\ (b - pool.activeId) * Sign >= 0
                    /\ BinIdToBinArrayIndex(b) \in near} = taken
  BY <1>5 DEF Index
<1>7. ASSUME NEW b \in Before(a) \ taken PROVE Outputs[b] = 0
  <2>1. b \in Bins /\ From(pool.activeId, b) /\ Index(b) \notin near
    BY <1>7 DEF Before
  <2>2. Index(b) \notin Liquid
    BY <1>3, <1>4, <1>7, <2>1
  <2> QED
    BY <1>2, <2>1, <2>2, OutputIs, Ledgers
<1>8. taken \subseteq Before(a)
  <2> SUFFICES ASSUME NEW b \in taken, ~Later(b, a)
               PROVE  FALSE
    BY DEF Before
  <2>1. b \in Bins /\ b \in Int /\ Fetched(Index(b)) /\ Index(b) \in Int
    BY <1>4, RoomOfIndex, IndexIsFloor DEF Index
  <2>2. From(a, b)
    BY <1>2, <2>1 DEF From, Later
  <2>3. From(Index(a), Index(b))
    BY <1>2, <2>1, <2>2, Direction
  <2> QED
    BY <1>1, <1>3, <2>1, <2>3, NearestIs
<1>9. Total(Outputs, Before(a)) = Total(Outputs, taken)
  <2>1. Outputs \in [Bins -> Nat] /\ Before(a) \subseteq Bins /\ taken \subseteq Bins
    BY <1>2, Ledgers
  <2>2. \A b \in (Before(a) \ taken) \cup (taken \ Before(a)) : Outputs[b] = 0
    BY <1>7, <1>8
  <2> HIDE DEF taken
  <2> QED
    BY <2>1, <2>2, TotalOfSupport
<1>10. OutputOf(taken) = Total(Outputs, taken)
  BY <1>2, OutputOfIs
<1> QED
  BY <1>3, <1>6, <1>9, <1>10 DEF Bought, near

\* Where a step leaves the quote.
LEMMA StepAdvances ==
  ASSUME WalkInv, WalkInv', [Next]_vars
  PROVE  [/\ quote'.kind = quote.kind /\ quote'.pc = quote.pc =>
               quote'.left = 0 \/ (quote'.activeId - quote.activeId) * Sign > 0
          /\ quote'.activeId \in LowerBinId(MinIndex) .. UpperBinId(MaxIndex)]_vars
<1> DEFINE Kept == quote'.kind = quote.kind /\ quote'.pc = quote.pc
           Advances == quote'.left = 0 \/ (quote'.activeId - quote.activeId) * Sign > 0
<1>1. PlaceInv /\ ListInv
  BY DEF WalkInv
<1>2. /\ request.swapForY \in BOOLEAN /\ quote.activeId \in Int /\ quote.kind \in {"exactOut", "exactIn"}
  BY <1>1, PlaceHas
<1>3. quote'.activeId \in LowerBinId(MinIndex) .. UpperBinId(MaxIndex)
  BY DEF WalkInv, PlaceInv, Room
<1>4. ASSUME quote.pc # "fetch", Fetched(Nearest),
             quote'.activeId \in {NextBin(quote.activeId), Behind(Nearest)}
      PROVE  Advances
  <2>1. quote'.activeId \in Int /\ Later(quote.activeId, quote'.activeId)
    BY <1>1, <1>4, MovesOn
  <2>2. \A a, b \in Int : Later(a, b) => (b - a) * Sign > 0
    BY <1>2, Direction
  <2> QED
    BY <1>2, <2>1, <2>2
<1>5. CASE GetBinArrayForSwap
  <2>1. quote.pc = "fetch" /\ quote' = [quote EXCEPT !.pc = "bins"]
    BY <1>5 DEF GetBinArrayForSwap
  <2>2. quote'.pc # quote.pc
    BY <1>1, <2>1 DEF PlaceInv, QuoteType
  <2> QED
    BY <1>3, <2>2
<1>6. CASE SwapAtBin
  <2>1. /\ quote.pc = "bins" /\ Fetched(Nearest)
        /\ quote'.activeId = IF quote'.left = 0 THEN quote.activeId ELSE NextBin(quote.activeId)
    BY <1>1, <1>6, SwapDoes
  <2>2. Advances
    BY <1>4, <2>1
  <2> QED
    BY <1>3, <2>2
<1>7. CASE EndBins
  <2>1. quote.pc = "bins" /\ quote' = [quote EXCEPT !.pc = "extra"]
    BY <1>7 DEF EndBins
  <2>2. quote'.pc # quote.pc
    BY <1>1, <2>1 DEF PlaceInv, QuoteType
  <2> QED
    BY <1>3, <2>2
<1>8. CASE InsufficientLiquidity
  <2>1. quote.pc = "bins" /\ quote' = [quote EXCEPT !.pc = "failed"]
    BY <1>8 DEF InsufficientLiquidity
  <2>2. quote'.pc # quote.pc
    BY <1>1, <2>1 DEF PlaceInv, QuoteType
  <2> QED
    BY <1>3, <2>2
<1>9. CASE ExtraArray
  <2>1. /\ quote.pc = "extra"
        /\ \/ quote'.pc = "done"
           \/ /\ Fetched(Nearest)
              /\ quote'.activeId \in {NextBin(quote.activeId), Behind(Nearest)}
    BY <1>1, <1>9, ExtraDoes
  <2>2. Kept => Advances
    BY <1>4, <2>1
  <2> QED
    BY <1>3, <2>2
<1>10. CASE QuoteBack
  <2>1. quote.kind = "exactOut" /\ quote'.kind = "exactIn"
    BY <1>10 DEF QuoteBack, NewQuote
  <2> QED
    BY <1>3, <2>1
<1> QED
  BY <1>5, <1>6, <1>7, <1>8, <1>9, <1>10 DEF Next

-----------------------------------------------------------------------------
(***************************************************************************)
(* The properties, of every quote of every pool and request.               *)
(***************************************************************************)
LEMMA WalkAlways == Spec => []WalkInv
BY WalkStarts, WalkGoesOn, PTL DEF Spec

\* getBinArrayForSwap fetches the `count` nearest arrays with liquidity, and a
\* quote uses the first of them, in their order.
THEOREM FetchesTheNearest == Spec => []FetchesNearest
<1>1. WalkInv => FetchesNearest
  <2> SUFFICES ASSUME WalkInv, quote.pc # "fetch"
               PROVE  /\ {arrays[i] : i \in DOMAIN arrays} = NearestAhead
                      /\ Len(arrays) = Cardinality(NearestAhead)
                      /\ quote.used = SubSeq(arrays, 1, Len(quote.used))
    BY DEF FetchesNearest
  <2>1. /\ Given /\ IsNearestList(arrays, Limit)
        /\ quote.used = SubSeq(arrays, 1, Len(quote.used))
    BY DEF WalkInv, PlaceInv, ListInv
  <2> QED
    BY <2>1, NearestAheadIs
<1> QED
  BY <1>1, WalkAlways, PTL

\* The loop over the bins jumps over none and takes no more than a bin has.
THEOREM BinsDrainInOrder == Spec => []DrainsBinsInOrder
<1>1. WalkInv => DrainsBinsInOrder
  BY PassedIs DEF WalkInv, DrainInv, DrainsBinsInOrder
<1> QED
  BY <1>1, WalkAlways, PTL

\* SWAP_QUOTE_INSUFFICIENT_LIQUIDITY is thrown only when the arrays are dry, or
\* by swapQuote when it is asked for nothing.
THEOREM FailuresAreDry == Spec => []FailsOnlyWhenDry
<1>1. WalkInv => FailsOnlyWhenDry
  <2> SUFFICES ASSUME WalkInv, quote.pc = "failed"
               PROVE  \/ quote.kind = "exactIn" /\ request.outAmount + request.more = 0
                      \/ /\ quote.left > 0
                         /\ quote.out = OutputOf({b \in Bins :
                                                   /\ (b - pool.activeId) * Sign >= 0
                                                   /\ BinIdToBinArrayIndex(b) \in NearestAhead})
    BY DEF FailsOnlyWhenDry
  <2>1. CASE quote.left > 0
    BY <2>1, FailedIsDry
  <2>2. CASE ~(quote.left > 0)
    <3>1. quote.left = 0 /\ quote.kind = "exactIn" /\ quote.in = 0
      BY <2>2, PlaceHas DEF WalkInv, DrainInv
    <3> QED
      BY <3>1, NothingIsFree
  <2> QED
    BY <2>1, <2>2
<1> QED
  BY <1>1, WalkAlways, PTL

\* swapQuote of what swapQuoteExactOut asks for buys what was wanted, and fails
\* only if that is nothing.
THEOREM QuotesAgree == Spec => []RoundTrip
<1>1. WalkInv => RoundTrip
  <2> SUFFICES ASSUME WalkInv, quote.kind = "exactIn"
               PROVE  /\ quote.pc = "failed" => request.more > 0 \/ request.outAmount = 0
                      /\ quote.pc = "done" => /\ quote.out >= request.outAmount
                                              /\ request.more = 0 => quote.left = 0
    BY DEF RoundTrip
  <2>1. BackInv /\ quote.left \in Nat
    BY PlaceHas DEF WalkInv
  <2> QED
    BY <2>1 DEF BackInv
<1> QED
  BY <1>1, WalkAlways, PTL

\* Every turn of the loops of a quote moves on, within the bitmaps' range.
THEOREM QuotesAdvance == Spec => QuoteAdvances
BY WalkAlways, StepAdvances, PTL DEF Spec, QuoteAdvances
=============================================================================
