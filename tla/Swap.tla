-------------------------------- MODULE Swap --------------------------------
(***************************************************************************)
(* Quotes of the DLMM library: swapQuoteExactOut, and swapQuote of the     *)
(* amount it asks for.  A behaviour fetches the bin arrays of one pool,    *)
(* prices the wanted amount bin by bin, and then quotes the price back.    *)
(*                                                                         *)
(* The pool does not move meanwhile.  Token-2022 transfer fees, slippage   *)
(* and the price impact (for display) are left out.                        *)
(***************************************************************************)
EXTENDS BinArrays, FiniteSets, Sequences

CONSTANTS FEE_PRECISION, MAX_FEE_RATE, BASIS_POINT_MAX,
          BaseFee,             \* fee rate without volatility
          VariableFeeControl,  \* fee rate of one squared step of volatility
          ReductionFactor, MaxVolatilityAccumulator, ProtocolShare,
          Pools,               \* pools explored
          Requests             \* arguments explored

ASSUME RateAssumption ==
  /\ FEE_PRECISION \in Nat /\ MAX_FEE_RATE \in 0 .. FEE_PRECISION - 1
  /\ {BaseFee, VariableFeeControl, ReductionFactor, MaxVolatilityAccumulator} \subseteq Nat
  /\ BASIS_POINT_MAX \in Nat \ {0} /\ ProtocolShare \in 0 .. BASIS_POINT_MAX

\* The arrays with liquidity.
LiquidArrays(p) == {BinIdToBinArrayIndex(b) : b \in {c \in Bins : p.x[c] + p.y[c] > 0}}

\* The program keeps the bitmaps, and without an extension account neither
\* liquidity nor the active bin gets out of the internal one.
ASSUME PoolsAssumption ==
  \A p \in Pools :
    /\ p.activeId \in Bins /\ p.hasExtension \in BOOLEAN
    /\ p.x \in [Bins -> Nat] /\ p.y \in [Bins -> Nat]
    /\ p.bitmaps = Bitmaps(LiquidArrays(p))
    /\ ~p.hasExtension =>
         LiquidArrays(p) \cup {BinIdToBinArrayIndex(p.activeId)} \subseteq InternalIndices
    /\ p.volatility.indexReference \in Int
    /\ {p.volatility.volatilityReference, p.volatility.volatilityAccumulator} \subseteq Nat

\* A larger maxExtraBinArrays is refused before a quote begins.
MAX_EXTRA_BIN_ARRAYS == 3

ASSUME RequestsAssumption ==
  \A r \in Requests :
    /\ r.swapForY \in BOOLEAN /\ r.isPartialFill \in BOOLEAN
    /\ {r.outAmount, r.count, r.more} \subseteq Nat
    /\ r.maxExtraBinArrays \in 0 .. MAX_EXTRA_BIN_ARRAYS

VARIABLES pool,     \* its bins, active bin, volatility and bitmaps
          request,  \* the caller's arguments
          arrays,   \* indices of the bin arrays fetched for the swap
          quote     \* the quote under way

vars == <<pool, request, arrays, quote>>

\* The output token of a swap: Y for X, or X for Y.  The outermost arrays have
\* places beyond the last bins, which are empty.
Output(b) ==
  IF b \notin Bins THEN 0 ELSE IF request.swapForY THEN pool.y[b] ELSE pool.x[b]

\* Mutation: a swap for Y walks up the bins.
MutNextBin(b) == IF request.swapForY THEN b + 1 ELSE b - 1

NextBin(b) == IF request.swapForY THEN b - 1 ELSE b + 1

FindNext(from) ==
  FindNextBinArrayIndexWithLiquidity(request.swapForY, from, pool.bitmaps, pool.hasExtension)

NewQuote(kind, amount) ==
  [pc |-> "bins", kind |-> kind, left |-> amount, activeId |-> pool.activeId,
   in |-> 0, out |-> 0, fee |-> 0, protocolFee |-> 0, used |-> <<>>, extra |-> 0]

Init ==
  /\ pool \in Pools
  /\ request \in Requests
  /\ arrays = <<>>
  /\ quote = [NewQuote("exactOut", request.outAmount) EXCEPT !.pc = "fetch"]

\* Where the search goes on behind an array.
Behind(index) == IF request.swapForY THEN LowerBinId(index) - 1 ELSE UpperBinId(index) + 1

\* The loop stops when it has found exactly `count` arrays, which 0 never is.
Limit == IF request.count = 0 THEN MaxIndex - MinIndex + 1 ELSE request.count

\* getBinArrayForSwap: the nearest arrays with liquidity.
GetBinArrayForSwap ==
  /\ quote.pc = "fetch"
  /\ LET found[n \in 0 .. Limit] ==
           IF n = 0 THEN <<>>
           ELSE LET before == found[n - 1]
                    index == FindNext(IF n = 1 THEN pool.activeId ELSE Behind(before[n - 1]))
                IN IF Len(before) < n - 1 \/ index = NoArray THEN before
                   ELSE Append(before, index)
     IN arrays' = found[Limit]
  /\ quote' = [quote EXCEPT !.pc = "bins"]
  /\ UNCHANGED <<pool, request>>

-----------------------------------------------------------------------------
(***************************************************************************)
(* The fee of a bin.                                                       *)
(***************************************************************************)
CeilDiv(a, b) == (a + b - 1) \div b

\* updateReference: `elapsed` tells the time since the last swap from
\* filterPeriod and decayPeriod.
Reference ==
  IF request.elapsed = "filtered" THEN
    [indexReference |-> pool.volatility.indexReference,
     volatilityReference |-> pool.volatility.volatilityReference]
  ELSE
    [indexReference |-> pool.activeId,
     volatilityReference |->
       IF request.elapsed = "decayed" THEN 0
       ELSE (pool.volatility.volatilityAccumulator * ReductionFactor) \div BASIS_POINT_MAX]

\* updateVolatilityAccumulator.
VolatilityAccumulator(b) ==
  LET delta == b - Reference.indexReference
      distance == IF delta < 0 THEN -delta ELSE delta
  IN Min({Reference.volatilityReference + distance * BASIS_POINT_MAX,
          MaxVolatilityAccumulator})

\* The scale of the real variable fee (10^11) is BASIS_POINT_MAX squared here.
GetVariableFee(b) ==
  LET accumulator == VolatilityAccumulator(b)
  IN CeilDiv(VariableFeeControl * accumulator * accumulator, BASIS_POINT_MAX * BASIS_POINT_MAX)

GetTotalFee(b) == Min({BaseFee + GetVariableFee(b), MAX_FEE_RATE})

\* Mutation: the rate is taken of the amount without fees.
MutComputeFee(b, inAmount) == CeilDiv(inAmount * GetTotalFee(b), FEE_PRECISION)

\* The fee on top of an amount.
ComputeFee(b, inAmount) ==
  LET rate == GetTotalFee(b) IN CeilDiv(inAmount * rate, FEE_PRECISION - rate)

\* The fee in an amount.
ComputeFeeFromAmount(b, inAmountWithFees) ==
  CeilDiv(inAmountWithFees * GetTotalFee(b), FEE_PRECISION)

ComputeProtocolFee(fee) == (fee * ProtocolShare) \div BASIS_POINT_MAX

-----------------------------------------------------------------------------
(***************************************************************************)
(* The quote of one bin.                                                   *)
(***************************************************************************)
GetOutAmount(b, inAmount) ==
  IF request.swapForY THEN (inAmount * Price[b]) \div SCALE ELSE (inAmount * SCALE) \div Price[b]

\* Rounded up.
GetAmountIn(b, outAmount) ==
  IF request.swapForY THEN CeilDiv(outAmount * SCALE, Price[b])
  ELSE CeilDiv(outAmount * Price[b], SCALE)

Fill(in, out, fee) == [in |-> in, out |-> out, fee |-> fee, protocolFee |-> ComputeProtocolFee(fee)]

SwapExactOutQuoteAtBin(b, outAmount) ==
  LET out == Min({outAmount, Output(b)})
      in == GetAmountIn(b, out)
  IN Fill(in, out, ComputeFee(b, in))

SwapExactInQuoteAtBin(b, inAmount) ==
  LET maxIn == GetAmountIn(b, Output(b))
      maxFee == ComputeFee(b, maxIn)
      fee == ComputeFeeFromAmount(b, inAmount)
  IN IF inAmount > maxIn + maxFee THEN Fill(maxIn + maxFee, Output(b), maxFee)
     ELSE Fill(inAmount, Min({GetOutAmount(b, inAmount - fee), Output(b)}), fee)

SwapQuoteAtBin(b) ==
  IF Output(b) = 0 THEN Fill(0, 0, 0)
  ELSE IF quote.kind = "exactOut" THEN SwapExactOutQuoteAtBin(b, quote.left)
  ELSE SwapExactInQuoteAtBin(b, quote.left)

-----------------------------------------------------------------------------
(***************************************************************************)
(* The loop over the bins, and the one over extra arrays behind it.        *)
(***************************************************************************)
Fetched(index) == \E i \in DOMAIN arrays : arrays[i] = index
Used(index) == \E i \in DOMAIN quote.used : quote.used[i] = index

Nearest == FindNext(quote.activeId)
Use(index) == IF Used(index) THEN quote.used ELSE Append(quote.used, index)

\* protocolFeeAmount is set to twice the protocol fee of the bin.
SwapAtBin ==
  LET b == quote.activeId
      nearest == Nearest
      fill == IF IsBinIdWithinBinArray(b, nearest)
              THEN SwapQuoteAtBin(BinAt(nearest, PlaceInBinArray(b, nearest)))
              ELSE Fill(0, 0, 0)
      exactOut == quote.kind = "exactOut"
      filled == IF exactOut THEN fill.out > 0 ELSE fill.in > 0
      left == quote.left - IF exactOut THEN fill.out ELSE fill.in
  IN /\ quote.pc = "bins" /\ quote.left > 0
     /\ Fetched(nearest)
     /\ quote' =
          [quote EXCEPT
             !.left = left, !.out = @ + fill.out, !.fee = @ + fill.fee,
             !.in = @ + fill.in + IF exactOut THEN fill.fee ELSE 0,
             !.protocolFee = IF filled THEN 2 * fill.protocolFee ELSE @,
             !.used = Use(nearest),
             !.activeId = IF left = 0 THEN @ ELSE NextBin(@)]
     /\ UNCHANGED <<pool, request, arrays>>

\* The loop is over: filled, or a partial fill of what there was.
LoopLeft ==
  \/ quote.left = 0
  \/ quote.kind = "exactIn" /\ request.isPartialFill /\ ~Fetched(Nearest)

\* Only swapQuote asks for a bin it has started with.
Started == quote.kind = "exactOut" \/ quote.in > 0

EndBins ==
  /\ quote.pc = "bins"
  /\ LoopLeft /\ Started
  /\ quote' = [quote EXCEPT !.pc = "extra"]
  /\ UNCHANGED <<pool, request, arrays>>

\* SWAP_QUOTE_INSUFFICIENT_LIQUIDITY, thrown in the loop or behind it: by
\* swapQuote also when there is nothing to swap.
InsufficientLiquidity ==
  /\ quote.pc = "bins"
  /\ IF LoopLeft THEN ~Started ELSE ~Fetched(Nearest)
  /\ quote' = [quote EXCEPT !.pc = "failed"]
  /\ UNCHANGED <<pool, request, arrays>>

ExtraArray ==
  /\ quote.pc = "extra"
  /\ LET nearest == Nearest
     IN quote' =
          IF quote.extra = request.maxExtraBinArrays \/ ~Fetched(nearest) THEN
            [quote EXCEPT !.pc = "done"]
          ELSE IF Used(nearest) THEN [quote EXCEPT !.activeId = NextBin(@)]
          ELSE [quote EXCEPT !.used = Use(nearest), !.extra = @ + 1, !.activeId = Behind(nearest)]
  /\ UNCHANGED <<pool, request, arrays>>

\* The caller asks what the quoted input, or more, would buy.
QuoteBack ==
  /\ quote.pc = "done" /\ quote.kind = "exactOut"
  /\ quote' = NewQuote("exactIn", quote.in + request.more)
  /\ UNCHANGED <<pool, request, arrays>>

\* Returned or thrown.
Ended == quote.pc = "failed" \/ (quote.pc = "done" /\ quote.kind = "exactIn")

Next ==
  \/ GetBinArrayForSwap
  \/ SwapAtBin
  \/ EndBins
  \/ InsufficientLiquidity
  \/ ExtraArray
  \/ QuoteBack
  \/ Ended /\ UNCHANGED vars

Spec == Init /\ [][Next]_vars

-----------------------------------------------------------------------------
(***************************************************************************)
(* Properties.                                                             *)
(***************************************************************************)
Sign == IF request.swapForY THEN -1 ELSE 1

\* The arrays with liquidity in the direction of the swap, from the active bin.
Ahead ==
  LET bins(i) == {b \in Bins : IsBinIdWithinBinArray(b, i)}
  IN {i \in MinIndex .. MaxIndex : /\ \E b \in bins(i) : pool.x[b] + pool.y[b] > 0
                                   /\ \E b \in bins(i) : (b - pool.activeId) * Sign >= 0}

\* The `count` nearest of them; all of them when `count` is 0.
NearestAhead ==
  LET ahead == Ahead
  IN {i \in ahead : Cardinality({j \in ahead : (i - j) * Sign > 0}) < Limit}

OutputOf(bins) == Sum([b \in Bins |-> Output(b)], bins)

\* The bins from the active one to the one under way, which it excludes.
Passed ==
  {b \in Bins : (b - pool.activeId) * Sign >= 0 /\ (quote.activeId - b) * Sign > 0}

\* The arrays fetched are the `count` nearest with liquidity, on either side of
\* the boundaries between the bitmaps, and those a quote names are the first
\* of them, each once: the swap finds every array it walks through.
FetchesNearest ==
  quote.pc # "fetch" =>
    /\ LET near == NearestAhead
       IN {arrays[i] : i \in DOMAIN arrays} = near /\ Len(arrays) = Cardinality(near)
    /\ quote.used = SubSeq(arrays, 1, Len(quote.used))

\* No bin is jumped over and none gives more than it has: what a quote has
\* bought is all that the bins behind it hold, and part of the current one.
DrainsBinsInOrder ==
  quote.pc = "bins" =>
    LET behind == OutputOf(Passed)
    IN /\ quote.left > 0 => quote.out = behind
       /\ quote.out >= behind /\ quote.out <= behind + OutputOf(Bins \cap {quote.activeId})

\* A quote of some amount fails only when it has taken all there is in the
\* `count` nearest arrays, and that is not enough.  A quote of nothing fails in
\* swapQuote, which has not started with any bin, and in swapQuoteExactOut never.
FailsOnlyWhenDry ==
  quote.pc = "failed" =>
    \/ quote.kind = "exactIn" /\ request.outAmount + request.more = 0
    \/ /\ quote.left > 0
       /\ LET near == NearestAhead
          IN quote.out = OutputOf({b \in Bins : /\ (b - pool.activeId) * Sign >= 0
                                                /\ BinIdToBinArrayIndex(b) \in near})

\* Paying what an exact-out quote asks for buys the wanted amount, and is not
\* refused, unless it is the price of nothing: no rounding and no fee formula
\* makes the answer of one quote too little for the other.
RoundTrip ==
  quote.kind = "exactIn" =>
    /\ quote.pc = "failed" => request.more > 0 \/ request.outAmount = 0
    /\ quote.pc = "done" => /\ quote.out >= request.outAmount
                            /\ request.more = 0 => quote.left = 0

\* Every loop of a quote ends: a turn has nothing left to swap or moves on to
\* a later bin, and no quote walks past the last array.
QuoteAdvances ==
  [][/\ quote'.kind = quote.kind /\ quote'.pc = quote.pc =>
          quote'.left = 0 \/ (quote'.activeId - quote.activeId) * Sign > 0
     /\ quote'.activeId \in LowerBinId(MinIndex) .. UpperBinId(MaxIndex)]_vars
=============================================================================
