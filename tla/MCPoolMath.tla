----------------------------- MODULE MCPoolMath -----------------------------
(***************************************************************************)
(* Arrays of three bins, bins -6 .. 5 with prices from a sixth to two; the *)
(* outer arrays are in the bitmap extension.                               *)
(***************************************************************************)
EXTENDS PoolMath

LowestBin == -6
SmallPrice == [b \in Bins |-> <<1, 1, 2, 2, 3, 3, 4, 4, 6, 6, 12, 12>>[b + 7]]

Holdings == {[x |-> 0, y |-> 0], [x |-> 2, y |-> 0], [x |-> 0, y |-> 3], [x |-> 2, y |-> 1]}

Ranges == {<<-4, -1>>, <<-2, 1>>, <<0, 0>>, <<1, 3>>}
ActiveIds == {-5, -4, -2, -1, 0, 2, 3, 4}

DepositCalls(kind, amounts) ==
  {[kind |-> kind, lower |-> r[1], upper |-> r[2], activeId |-> a, amountX |-> m[1],
    amountY |-> m[2], inActive |-> h, strategy |-> s] :
     r \in Ranges, a \in ActiveIds, m \in amounts, h \in Holdings,
     s \in {"Spot", "Curve", "BidAsk"}}

Allocations == UNION {[r[1] .. r[2] -> {1, 3}] : r \in Ranges}

\* Bins hold X from the active bin up and Y from it down; some hold nothing.
PoolOf(activeId, empty) ==
  [activeId |-> activeId,
   x |-> [b \in Bins |-> IF b >= activeId /\ b # empty THEN 1 + ((b + 6) % 3) ELSE 0],
   y |-> [b \in Bins |-> IF b <= activeId /\ b # empty THEN 2 + (b % 2) ELSE 0],
   supply |-> [b \in Bins |-> IF b = empty THEN 0 ELSE 2 + 2 * (b % 2)]]

Positions ==
  UNION {[lower : {l}, upper : {u}, shares : [l .. u -> 0 .. 2]] :
           l \in {-5, -4, -3, -1, 0, 2}, u \in -5 .. 5}

Arrays == -2 .. 1

Liquidity ==
  {[kind |-> "liquidity", builder |-> b, lower |-> l, upper |-> l + w, activeId |-> a,
    amountX |-> m[1], amountY |-> m[2], existing |-> e,
    position |-> [lower |-> l - d, upper |-> l - d + 2]] :
     b \in {"maiker", "maikerNew", "libraryNew", "weight", "strategy", "strategyNew"}, l \in -5 .. 3, w \in 0 .. 2,
     a \in {-3, 0, 2}, m \in {<<0, 5>>, <<7, 0>>, <<4, 5>>}, e \in {{}, {-2}, {-1, 0}, Arrays},
     d \in 0 .. 1}

Removals ==
  [kind : {"remove"}, from : -5 .. 4, to : -5 .. 4,
   position : UNION {[lower : {l}, upper : {l + w}, shares : [l .. l + w -> 0 .. 1]] :
                       l \in {-4, -1, 0}, w \in 0 .. 2}]

Fees == [kind : {"fee"}, fee : [bps : 0 .. BASIS_POINT_MAX, maximum : {0, 1, 3, 100}],
         amount : 0 .. 25]

Syncs ==
  {c \in [kind : {"sync"}, activeId : Bins, marketId : Bins, liquid : SUBSET Arrays,
          hasExtension : BOOLEAN] :
     c.hasExtension \/ c.liquid \cup {BinIdToBinArrayIndex(c.activeId)} \subseteq InternalIndices}

\* Two positions of three bins that share an array, the second partly used.
Curves == {[b \in 1 .. 5 |-> <<0, 1, 3, 4, 9>>[b]], [b \in 1 .. 5 |-> <<0, 12, 31, 50, 95>>[b]]}

\* Three positions, from bin -2.
LongCurve == [b \in -2 .. 5 |-> <<0, 2, 3, 5, 6, 8, 9, 12>>[b + 3]]

Seeds ==
  [kind : {"seed"}, activeId : {-2}, curve : {LongCurve}, tokenDecimal : {0}, existing : {{0}}]
  \cup
  [kind : {"seed"}, activeId : {0}, curve : Curves, tokenDecimal : 0 .. 1, existing : {{}, {1}}]

SomeCalls ==
  DepositCalls("strategy", {<<0, 5>>, <<7, 0>>, <<4, 5>>})
  \cup {[c EXCEPT !.strategy = "Spot"] : c \in DepositCalls("weight", {<<0, 5>>, <<7, 0>>, <<4, 5>>})}
  \cup DepositCalls("autofill", {<<0, 5>>, <<7, 0>>})
  \cup [kind : {"bps"}, activeId : ActiveIds, allocations : Allocations,
        shape : {"Normal", "BidAsk", "Spot"}]
  \cup {c \in [kind : {"value"}, position : Positions, inX : BOOLEAN,
               pool : {PoolOf(a, e) : a \in {-4, 0, 1}, e \in {-1, 0, 2}}] :
          c.position.upper - c.position.lower \in 0 .. MAX_BIN_PER_POSITION - 1}
  \cup [kind : {"range"}, from : Bins, to : Bins]
  \cup Liquidity \cup Removals \cup Fees \cup Syncs \cup Seeds
=============================================================================
