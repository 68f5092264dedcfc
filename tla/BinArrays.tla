----------------------------- MODULE BinArrays -----------------------------
(***************************************************************************)
(* Where the DLMM library looks for a bin, and how it finds the next bin   *)
(* array with liquidity: bins are numbered by price, arrays hold a fixed   *)
(* number of consecutive bins, and a pool keeps one bit per array, the     *)
(* middle ones in its own account (1024 bits), the outer ones in an        *)
(* extension account that need not exist (512 bits to a chunk).            *)
(***************************************************************************)
EXTENDS Integers, FiniteSetsExt

CONSTANTS MAX_BIN_ARRAY_SIZE,              \* bins in an array
          BIN_ARRAY_BITMAP_SIZE,           \* bits on one side of the internal bitmap
          EXTENSION_BINARRAY_BITMAP_SIZE,  \* chunks on one side of the extension
          MIN_BIN_ID, MAX_BIN_ID,          \* the bins of every pool
          SCALE,                           \* 2^SCALE_OFFSET, the unit of prices
          Price,                           \* price of each bin, in Y for an X
          NoArray                          \* null

ASSUME SizeAssumption ==
  /\ MAX_BIN_ARRAY_SIZE \in Nat \ {0} /\ BIN_ARRAY_BITMAP_SIZE \in Nat \ {0}
  /\ EXTENSION_BINARRAY_BITMAP_SIZE \in Nat \ {0}

ASSUME NoArrayAssumption == NoArray \notin Int

Bins == MIN_BIN_ID .. MAX_BIN_ID

ASSUME PriceAssumption == SCALE \in Nat \ {0} /\ Price \in [Bins -> Nat \ {0}]

Sum(f, bins) == MapThenSumSet(LAMBDA b : f[b], bins)
SumAll(f) == Sum(f, DOMAIN f)

\* BN.divmod rounds towards zero.
TruncDiv(a, b) == IF a >= 0 THEN a \div b ELSE -((-a) \div b)
TruncMod(a, b) == a - b * TruncDiv(a, b)

BinIdToBinArrayIndex(binId) ==
  LET idx == TruncDiv(binId, MAX_BIN_ARRAY_SIZE)
  IN IF binId < 0 /\ TruncMod(binId, MAX_BIN_ARRAY_SIZE) # 0 THEN idx - 1 ELSE idx

LowerBinId(index) == index * MAX_BIN_ARRAY_SIZE
UpperBinId(index) == LowerBinId(index) + MAX_BIN_ARRAY_SIZE - 1

IsBinIdWithinBinArray(binId, index) ==
  binId >= LowerBinId(index) /\ binId <= UpperBinId(index)

\* Mutation: the last bin of an array is at the place after its last.
MutPlaceInBinArray(binId, index) ==
  IF binId > 0 THEN binId - LowerBinId(index)
  ELSE MAX_BIN_ARRAY_SIZE - (UpperBinId(index) - binId)

\* getBinFromBinArray: the place of a bin in its array, from 0.
PlaceInBinArray(binId, index) ==
  IF binId > 0 THEN binId - LowerBinId(index)
  ELSE MAX_BIN_ARRAY_SIZE - (UpperBinId(index) - binId) - 1

\* The bin that an array keeps at a place.
BinAt(index, place) == LowerBinId(index) + place

-----------------------------------------------------------------------------
(***************************************************************************)
(* The bitmaps of a pool that has liquidity in the given arrays: bits of   *)
(* the internal map, and <<chunk, bit>> pairs of the extension.            *)
(***************************************************************************)
MinIndex == -BIN_ARRAY_BITMAP_SIZE * (EXTENSION_BINARRAY_BITMAP_SIZE + 1)
MaxIndex == BIN_ARRAY_BITMAP_SIZE * (EXTENSION_BINARRAY_BITMAP_SIZE + 1) - 1

\* Beyond the last bins the extension has room for another array (bin 443636 is
\* in array 6337 of 6656); a search beyond the room would find arrays behind it.
ASSUME RoomAssumption ==
  /\ MIN_BIN_ID \in Int /\ LowerBinId(MinIndex) <= MIN_BIN_ID - MAX_BIN_ARRAY_SIZE
  /\ MAX_BIN_ID \in Int /\ MAX_BIN_ID + MAX_BIN_ARRAY_SIZE <= UpperBinId(MaxIndex)

InternalIndices == -BIN_ARRAY_BITMAP_SIZE .. BIN_ARRAY_BITMAP_SIZE - 1

\* Bit and chunk count outwards from the internal bitmap.
ExtensionBits(distances) ==
  {<<d \div BIN_ARRAY_BITMAP_SIZE, d % BIN_ARRAY_BITMAP_SIZE>> : d \in distances}

Bitmaps(indices) ==
  [internal |-> {i + BIN_ARRAY_BITMAP_SIZE : i \in indices \cap InternalIndices},
   positive |-> ExtensionBits({i - BIN_ARRAY_BITMAP_SIZE :
                               i \in {j \in indices : j >= BIN_ARRAY_BITMAP_SIZE}}),
   negative |-> ExtensionBits({-BIN_ARRAY_BITMAP_SIZE - 1 - i :
                               i \in {j \in indices : j < -BIN_ARRAY_BITMAP_SIZE}})]

IsOverflowDefaultBinArrayBitmap(index) == index \notin InternalIndices

ExtensionBit(bitmaps, i) ==
  LET n == IF i > 0 THEN i ELSE -(i + 1)
      bit == <<n \div BIN_ARRAY_BITMAP_SIZE - 1, n % BIN_ARRAY_BITMAP_SIZE>>
  IN bit \in IF i > 0 THEN bitmaps.positive ELSE bitmaps.negative

\* The first index from start to end, upwards or downwards, whose bit is set.
FindSetBit(start, end, bitmaps) ==
  LET set == {i \in (start .. end) \cup (end .. start) : ExtensionBit(bitmaps, i)}
  IN IF set = {} THEN NoArray ELSE IF start <= end THEN Min(set) ELSE Max(set)

-----------------------------------------------------------------------------
(***************************************************************************)
(* findNextBinArrayIndexWithLiquidity.  One turn of its loop looks through *)
(* the extension or the internal bitmap and ends the search, or goes on    *)
(* from the first index of the next bitmap.                                *)
(***************************************************************************)
Ends(index) == [going |-> FALSE, index |-> index]
GoesOn(index) == [going |-> TRUE, index |-> index]

\* Mutation: a search of the extension is not continued in the internal bitmap.
MutInExtension(swapForY, start, bitmaps) ==
  LET end == IF swapForY THEN (IF start < 0 THEN MinIndex ELSE BIN_ARRAY_BITMAP_SIZE)
             ELSE (IF start < 0 THEN -BIN_ARRAY_BITMAP_SIZE - 1 ELSE MaxIndex)
  IN Ends(FindSetBit(start, end, bitmaps))

InExtension(swapForY, start, bitmaps) ==
  LET end == IF swapForY THEN (IF start < 0 THEN MinIndex ELSE BIN_ARRAY_BITMAP_SIZE)
             ELSE (IF start < 0 THEN -BIN_ARRAY_BITMAP_SIZE - 1 ELSE MaxIndex)
      found == FindSetBit(start, end, bitmaps)
  IN IF found # NoArray \/ swapForY = (start < 0) THEN Ends(found)
     ELSE GoesOn(IF start < 0 THEN -BIN_ARRAY_BITMAP_SIZE ELSE BIN_ARRAY_BITMAP_SIZE - 1)

\* Mutation: the search upwards does not look at the array it starts in.
MutInInternal(swapForY, start, bitmaps) ==
  LET set == {i \in InternalIndices : /\ i + BIN_ARRAY_BITMAP_SIZE \in bitmaps.internal
                                      /\ IF swapForY THEN i <= start ELSE i > start}
  IN IF set # {} THEN Ends(IF swapForY THEN Max(set) ELSE Min(set))
     ELSE GoesOn(IF swapForY THEN -BIN_ARRAY_BITMAP_SIZE - 1 ELSE BIN_ARRAY_BITMAP_SIZE)

InInternal(swapForY, start, bitmaps) ==
  LET set == {i \in InternalIndices : /\ i + BIN_ARRAY_BITMAP_SIZE \in bitmaps.internal
                                      /\ IF swapForY THEN i <= start ELSE i >= start}
  IN IF set # {} THEN Ends(IF swapForY THEN Max(set) ELSE Min(set))
     ELSE GoesOn(IF swapForY THEN -BIN_ARRAY_BITMAP_SIZE - 1 ELSE BIN_ARRAY_BITMAP_SIZE)

FindNextBinArrayIndexWithLiquidity(swapForY, activeId, bitmaps, hasExtension) ==
  LET look(start) ==
        IF ~IsOverflowDefaultBinArrayBitmap(start) THEN InInternal(swapForY, start, bitmaps)
        ELSE IF hasExtension THEN InExtension(swapForY, start, bitmaps)
        ELSE Ends(NoArray)
      \* Each bitmap is looked at once: three turns are enough.
      first == look(BinIdToBinArrayIndex(activeId))
      second == IF first.going THEN look(first.index) ELSE first
      third == IF second.going THEN look(second.index) ELSE second
  IN third.index

-----------------------------------------------------------------------------
\* Mutation: the array of the market price counts as beyond the liquidity in it.
MutCanSyncWithMarketPrice(marketId, activeId, bitmaps, hasExtension) ==
  LET swapForY == marketId < activeId
      to == FindNextBinArrayIndexWithLiquidity(swapForY, activeId, bitmaps, hasExtension)
      market == BinIdToBinArrayIndex(marketId)
  IN to = NoArray \/ (IF swapForY THEN market >= to ELSE market <= to)

\* Whether a pool may be moved to a market price without a trade: only if the
\* next array with liquidity on the way is beyond that of the price.
CanSyncWithMarketPrice(marketId, activeId, bitmaps, hasExtension) ==
  LET swapForY == marketId < activeId
      to == FindNextBinArrayIndexWithLiquidity(swapForY, activeId, bitmaps, hasExtension)
      market == BinIdToBinArrayIndex(marketId)
  IN to = NoArray \/ (IF swapForY THEN market > to ELSE market < to)
=============================================================================
