------------------------------- MODULE MCSwap -------------------------------
(***************************************************************************)
(* Arrays of two bins, two bits on each side of the internal bitmap and    *)
(* one chunk of extension on each side: bins -6 .. 5, of which a pool has  *)
(* liquidity in at most two, X at and above the active bin, Y at and below.*)
(***************************************************************************)
EXTENDS Swap

\* About 1.2 to the power of the bin, in quarters.
SmallPrice == [b \in Bins |-> <<1, 2, 2, 3, 3, 4, 5, 6, 7, 8, 10, 11>>[b + 7]]

LowestBin == -6

ActiveIds == {-5, -1, 0, 4}
Amount == [b \in Bins |-> 1 + ((b + 6) % 3)]

PoolOf(activeId, hasExtension, liquid) ==
  [activeId |-> activeId, hasExtension |-> hasExtension,
   x |-> [b \in Bins |-> IF b \in liquid /\ b >= activeId THEN Amount[b] ELSE 0],
   y |-> [b \in Bins |-> IF b \in liquid /\ b <= activeId THEN Amount[b] ELSE 0],
   bitmaps |-> Bitmaps({BinIdToBinArrayIndex(b) : b \in liquid}),
   volatility |-> [indexReference |-> activeId + 1, volatilityReference |-> 1,
                   volatilityAccumulator |-> 2]]

\* Without an extension, all there is fits the internal bitmap.
Fits(p) ==
  /\ p.bitmaps.positive = {} /\ p.bitmaps.negative = {}
  /\ BinIdToBinArrayIndex(p.activeId) \in InternalIndices

SomePools ==
  {p \in {PoolOf(a, e, liquid) : a \in ActiveIds, e \in BOOLEAN, liquid \in kSubset(2, Bins)} :
     p.hasExtension \/ Fits(p)}

SomeRequests ==
  {r \in [swapForY : BOOLEAN, outAmount : {0, 2, 5}, count : {0, 1, 2}, maxExtraBinArrays : {1},
          isPartialFill : BOOLEAN, elapsed : {"filtered", "decaying"}, more : {0, 4}] :
     r.isPartialFill => r.more > 0}
=============================================================================
