---------------------------- MODULE Distribution ----------------------------
(***************************************************************************)
(* How the DLMM library spreads an amount of X and of Y over bins: by      *)
(* weights, by a named strategy, or by basis points of the totals.         *)
(*                                                                         *)
(* A distribution is a function from its bins.  Fractions (Decimal in the  *)
(* code) are exact; Token-2022 transfer fees are zero.                     *)
(***************************************************************************)
EXTENDS BinArrays, FiniteSets

CONSTANTS PRICE_MULTIPLE,      \* a common multiple of the prices
          BASIS_POINT_MAX,
          MAX_WEIGHT,          \* 65535
          DEFAULT_MAX_WEIGHT, DEFAULT_MIN_WEIGHT,
          Throws               \* an exception

ASSUME MultipleAssumption ==
  PRICE_MULTIPLE \in Nat \ {0} /\ \A b \in Bins : PRICE_MULTIPLE % Price[b] = 0

ASSUME WeightAssumption ==
  /\ {BASIS_POINT_MAX, MAX_WEIGHT} \subseteq Nat \ {0}
  /\ {DEFAULT_MIN_WEIGHT, DEFAULT_MAX_WEIGHT} \subseteq Nat \ {0}
  /\ DEFAULT_MIN_WEIGHT <= DEFAULT_MAX_WEIGHT

\* No amounts are an exception.
ASSUME ThrowsAssumption ==
  \A bins \in SUBSET Bins :
    LET amounts == [bins -> Nat] IN Throws \notin Nat \cup amounts \cup [x : amounts, y : amounts]

NoAmount(bins) == [b \in bins |-> 0]

\* What is floored, a part of total for each bin.
Parts(total, weights) ==
  LET totalWeight == SumAll(weights)
  IN IF totalWeight = 0 THEN Throws
     ELSE [b \in DOMAIN weights |-> (total * weights[b]) \div totalWeight]

\* The weight of a bin in Y, and in X (its weight divided by its price).
BidWeight(activeId, weights) == [b \in DOMAIN weights |-> IF b > activeId THEN 0 ELSE weights[b]]
AskWeight(activeId, weights) ==
  [b \in DOMAIN weights |->
     IF b < activeId THEN 0 ELSE weights[b] * (PRICE_MULTIPLE \div Price[b])]

ToAmountBidSide(activeId, totalAmount, weights) == Parts(totalAmount, BidWeight(activeId, weights))
ToAmountAskSide(activeId, totalAmount, weights) == Parts(totalAmount, AskWeight(activeId, weights))

OnlyY(amounts) == IF amounts = Throws THEN Throws
                  ELSE [x |-> NoAmount(DOMAIN amounts), y |-> amounts]
OnlyX(amounts) == IF amounts = Throws THEN Throws
                  ELSE [x |-> amounts, y |-> NoAmount(DOMAIN amounts)]

\* Weights of both sides in a common unit (`unit` of them make one).  The active
\* bin takes both tokens in the proportion it holds them, or of equal value.
BothWeights(activeId, inActive, weights) ==
  LET empty == inActive.x = 0 /\ inActive.y = 0
      ax == IF empty THEN SCALE ELSE inActive.x
      ay == IF empty THEN Price[activeId] ELSE inActive.y
      value == Price[activeId] * ax + SCALE * ay
  IN [x |-> [b \in DOMAIN weights |->
               CASE b < activeId -> 0
                 [] b = activeId -> weights[b] * ax * SCALE * PRICE_MULTIPLE
                 [] OTHER -> weights[b] * SCALE * value * (PRICE_MULTIPLE \div Price[b])],
      y |-> [b \in DOMAIN weights |->
               CASE b > activeId -> 0
                 [] b = activeId -> weights[b] * ay * SCALE * PRICE_MULTIPLE
                 [] OTHER -> weights[b] * value * PRICE_MULTIPLE],
      unit |-> value * PRICE_MULTIPLE]

\* Mutation: the larger of the two scales.
MutScaleOf(amountX, totalX, amountY, totalY) ==
  IF totalX # 0 /\ (totalY = 0 \/ amountX * totalY > amountY * totalX)
  THEN <<amountX, totalX>> ELSE <<amountY, totalY>>

\* k, the smaller of X / totalX and Y / totalY, as a fraction.  A side without
\* weight gives Infinity, or NaN if it has no amount either; X is taken if it
\* compares as the smaller one, Y otherwise.
ScaleOf(amountX, totalX, amountY, totalY) ==
  CASE totalX # 0 /\ totalY # 0 /\ amountX * totalY < amountY * totalX -> <<amountX, totalX>>
    [] totalX # 0 /\ totalY = 0 /\ amountY # 0 -> <<amountX, totalX>>
    [] OTHER -> <<amountY, totalY>>

\* An infinite amount, or NaN, is not a BN.
ToAmountBothSide(activeId, amountX, amountY, inActive, weights) ==
  CASE activeId > Max(DOMAIN weights) -> OnlyY(ToAmountBidSide(activeId, amountY, weights))
    [] activeId < Min(DOMAIN weights) -> OnlyX(ToAmountAskSide(activeId, amountX, weights))
    [] OTHER ->
         LET w == BothWeights(activeId, inActive, weights)
             k == ScaleOf(amountX, SumAll(w.x), amountY, SumAll(w.y))
         IN IF k[2] = 0 THEN Throws
            ELSE [x |-> [b \in DOMAIN weights |-> (k[1] * w.x[b]) \div k[2]],
                  y |-> [b \in DOMAIN weights |-> (k[1] * w.y[b]) \div k[2]]]

\* The amount of Y that goes with amountX, and of X that goes with amountY.
AutoFill(amount, total, other, unit) ==
  IF total = 0 THEN other \div unit ELSE (amount * other) \div total

\* Mutation: the weights of the two sides are swapped.
MutAutoFillYByWeight(activeId, amountX, inActive, weights) ==
  LET w == BothWeights(activeId, inActive, weights)
  IN AutoFill(amountX, SumAll(w.y), SumAll(w.x), w.unit)

AutoFillYByWeight(activeId, amountX, inActive, weights) ==
  LET w == BothWeights(activeId, inActive, weights)
  IN AutoFill(amountX, SumAll(w.x), SumAll(w.y), w.unit)

AutoFillXByWeight(activeId, amountY, inActive, weights) ==
  LET w == BothWeights(activeId, inActive, weights)
  IN AutoFill(amountY, SumAll(w.y), SumAll(w.x), w.unit)

-----------------------------------------------------------------------------
(***************************************************************************)
(* Strategies.                                                             *)
(***************************************************************************)
ToWeightSpotBalanced(lower, upper) == [b \in lower .. upper |-> 1]
ToWeightDescendingOrder(lower, upper) == [b \in lower .. upper |-> upper - b + 1]
ToWeightAscendingOrder(lower, upper) == [b \in lower .. upper |-> b - lower + 1]

BidWeights(strategy, lower, upper) ==
  CASE strategy = "Spot" -> ToWeightSpotBalanced(lower, upper)
    [] strategy = "Curve" -> ToWeightAscendingOrder(lower, upper)
    [] strategy = "BidAsk" -> ToWeightDescendingOrder(lower, upper)

AskWeights(strategy, lower, upper) ==
  CASE strategy = "Spot" -> ToWeightSpotBalanced(lower, upper)
    [] strategy = "Curve" -> ToWeightDescendingOrder(lower, upper)
    [] strategy = "BidAsk" -> ToWeightAscendingOrder(lower, upper)

\* The active bin takes bids, or asks in a deposit of X only.
LastBid(activeId, amountY) == IF amountY = 0 THEN activeId - 1 ELSE activeId

ToAmountsBothSideByStrategy(activeId, lower, upper, amountX, amountY, inActive, strategy) ==
  CASE activeId < lower ->
         ToAmountBothSide(activeId, amountX, amountY, inActive, AskWeights(strategy, lower, upper))
    [] activeId > upper ->
         ToAmountBothSide(activeId, amountX, amountY, inActive, BidWeights(strategy, lower, upper))
    [] OTHER ->
         LET last == LastBid(activeId, amountY)
             bids == ToAmountBidSide(activeId, amountY, BidWeights(strategy, lower, last))
             asks == ToAmountAskSide(activeId, amountX, AskWeights(strategy, last + 1, upper))
         IN [x |-> [b \in lower .. upper |-> IF b > last THEN asks[b] ELSE 0],
             y |-> [b \in lower .. upper |-> IF b <= last THEN bids[b] ELSE 0]]

\* toWeightCurve falls from the active bin, toWeightBidAsk rises.
BalancedWeights(strategy, lower, upper, activeId) ==
  LET step(width) ==
        IF width > 0 THEN (DEFAULT_MAX_WEIGHT - DEFAULT_MIN_WEIGHT) \div width ELSE 0
      away(b) == IF b < activeId THEN (activeId - b) * step(activeId - lower)
                 ELSE (b - activeId) * step(upper - activeId)
  IN IF strategy = "Spot" THEN ToWeightSpotBalanced(lower, upper)
     ELSE IF activeId \notin lower .. upper THEN Throws
     ELSE [b \in lower .. upper |-> IF strategy = "Curve" THEN DEFAULT_MAX_WEIGHT - away(b)
                                    ELSE DEFAULT_MIN_WEIGHT + away(b)]

AutoFillYByStrategy(activeId, amountX, inActive, lower, upper, strategy) ==
  LET weights == BalancedWeights(strategy, lower, upper, activeId)
  IN IF weights = Throws THEN Throws ELSE AutoFillYByWeight(activeId, amountX, inActive, weights)

AutoFillXByStrategy(activeId, amountY, inActive, lower, upper, strategy) ==
  LET weights == BalancedWeights(strategy, lower, upper, activeId)
  IN IF weights = Throws THEN Throws ELSE AutoFillXByWeight(activeId, amountY, inActive, weights)

-----------------------------------------------------------------------------
(***************************************************************************)
(* Distributions in basis points.  The allocations of the bins (a gaussian *)
(* around the active bin, or its inverse) are any positive numbers.        *)
(***************************************************************************)
ComputeAllocationBps(allocations) == Parts(BASIS_POINT_MAX, allocations)

\* What is missing to the whole goes to one bin.
AddLoss(bps, bin) == [bps EXCEPT ![bin] = @ + BASIS_POINT_MAX - SumAll(bps)]

\* The allocations of a side, of which the active bin belongs half to each.
HalvesAbove(activeId, allocations) ==
  [b \in DOMAIN allocations |->
     IF b < activeId THEN 0 ELSE IF b = activeId THEN allocations[b] ELSE 2 * allocations[b]]
HalvesBelow(activeId, allocations) ==
  [b \in DOMAIN allocations |->
     IF b > activeId THEN 0 ELSE IF b = activeId THEN allocations[b] ELSE 2 * allocations[b]]

CalculateBidAskDistribution(activeId, allocations) ==
  LET smallest == Min(DOMAIN allocations)
      largest == Max(DOMAIN allocations)
      bps == ComputeAllocationBps(allocations)
  IN CASE activeId < smallest -> OnlyX(AddLoss(bps, largest))
       [] activeId > largest -> OnlyY(AddLoss(bps, smallest))
       [] OTHER ->
            [x |-> AddLoss(ComputeAllocationBps(HalvesAbove(activeId, allocations)), largest),
             y |-> AddLoss(ComputeAllocationBps(HalvesBelow(activeId, allocations)), smallest)]

\* Mutation: the loss of X is dropped.
MutCalculateNormalDistribution(activeId, allocations) ==
  [CalculateBidAskDistribution(activeId, allocations) EXCEPT
     !.x = ComputeAllocationBps(HalvesAbove(activeId, allocations))]

\* The loss goes to the bin nearest to the active one.
CalculateNormalDistribution(activeId, allocations) ==
  LET smallest == Min(DOMAIN allocations)
      largest == Max(DOMAIN allocations)
      bps == ComputeAllocationBps(allocations)
  IN CASE activeId < smallest -> OnlyX(AddLoss(bps, smallest))
       [] activeId > largest -> OnlyY(AddLoss(bps, largest))
       [] OTHER ->
            [x |-> AddLoss([ComputeAllocationBps(HalvesAbove(activeId, allocations))
                              EXCEPT ![activeId] = 0], activeId),
             y |-> AddLoss([ComputeAllocationBps(HalvesBelow(activeId, allocations))
                              EXCEPT ![activeId] = 0], activeId)]

\* Outside the range the remainder of the division is lost: the code adds it to
\* a copy.  The active bin counts for half a bin on each side.
CalculateSpotDistribution(activeId, lower, upper) ==
  LET bins == lower .. upper
      each(count) == (2 * BASIS_POINT_MAX) \div (2 * count + 1)
      side(theirs) ==
        AddLoss([b \in bins |-> IF b \in theirs THEN each(Cardinality(theirs)) ELSE 0], activeId)
      even == [b \in bins |-> BASIS_POINT_MAX \div Cardinality(bins)]
  IN CASE activeId < lower -> [x |-> even, y |-> NoAmount(bins)]
       [] activeId > upper -> [x |-> NoAmount(bins), y |-> even]
       [] OTHER -> [x |-> side(activeId + 1 .. upper), y |-> side(lower .. activeId - 1)]

\* The weight of a bin is its part of the total value in Y; bins without weight
\* are dropped.
ToWeightDistribution(amountX, amountY, bps) ==
  LET quote == [b \in DOMAIN bps.x |->
                  (amountX * bps.x[b] * Price[b]) \div (BASIS_POINT_MAX * SCALE)
                  + (amountY * bps.y[b]) \div BASIS_POINT_MAX]
      total == SumAll(quote)
      weight(b) == (quote[b] * MAX_WEIGHT) \div total
  IN IF total = 0 THEN <<>> ELSE [b \in {b \in DOMAIN quote : weight(b) > 0} |-> weight(b)]

\* Nothing for no weights.
FromWeightDistributionToAmount(activeId, amountX, amountY, inActive, weights) ==
  IF weights = <<>> THEN [x |-> <<>>, y |-> <<>>]
  ELSE ToAmountBothSide(activeId, amountX, amountY, inActive, weights)
=============================================================================
