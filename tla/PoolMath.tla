------------------------------ MODULE PoolMath ------------------------------
(***************************************************************************)
(* One call of a pure function of the client libraries, and its result:    *)
(* spreading liquidity over bins, finding bin arrays, valuing a position,  *)
(* building a transaction; or seedLiquidity, called until nothing is left. *)
(***************************************************************************)
EXTENDS Seeding

CONSTANTS Calls,     \* arguments explored
          NoResult

\* Bins are integers, and a position is no wider than the program opens it.
ASSUME CallsAssumption ==
  \A c \in Calls :
    /\ c.kind \in {"value", "remove"} =>
         /\ c.position.lower \in Int /\ c.position.upper \in Int
         /\ c.position.upper - c.position.lower < MAX_BIN_PER_POSITION
    \* A pool's bins hold X from the active one up and Y from it down.
    /\ c.kind = "value" =>
         LET p == c.position
             pool == c.pool
         IN /\ {p.lower, p.upper, pool.activeId} \subseteq Bins /\ p.lower <= p.upper
            /\ p.shares \in [BinsOf(p) -> Nat]
            /\ {pool.x, pool.y, pool.supply} \subseteq [Bins -> Nat]
            /\ \A b \in Bins :
                 /\ pool.supply[b] > 0 => SUPPLY_MULTIPLE % pool.supply[b] = 0
                 /\ b < pool.activeId => pool.x[b] = 0
                 /\ b > pool.activeId => pool.y[b] = 0
            /\ c.inX \in BOOLEAN
    /\ c.kind \in {"range", "remove"} => c.from \in Int /\ c.to \in Int
    /\ c.kind = "fee" =>
         c.fee.bps \in 0 .. BASIS_POINT_MAX /\ c.fee.maximum \in Nat /\ c.amount \in Nat
    /\ c.kind \in {"strategy", "weight", "autofill"} =>
         /\ {c.activeId, c.lower, c.upper} \subseteq Bins /\ c.lower <= c.upper
         /\ {c.amountX, c.amountY, c.inActive.x, c.inActive.y} \subseteq Nat
         /\ c.strategy \in {"Spot", "Curve", "BidAsk"}
    /\ c.kind = "bps" =>
         /\ c.activeId \in Bins /\ c.shape \in {"Normal", "BidAsk", "Spot"}
         /\ \E lower, upper \in Bins :
              lower <= upper /\ c.allocations \in [lower .. upper -> Nat \ {0}]
    /\ c.kind = "liquidity" =>
         /\ c.builder \in {"maiker", "maikerNew", "libraryNew", "weight", "strategy", "strategyNew"}
         /\ {c.lower, c.upper, c.position.lower, c.position.upper} \subseteq Int
         /\ c.position.upper - c.position.lower < MAX_BIN_PER_POSITION
         /\ c.builder = "maiker" => c.upper - c.lower < MAX_BIN_PER_POSITION
    \* A pool's arrays with liquidity are in its bitmaps, and an active bin beyond
    \* the internal one got there with the extension.
    /\ c.kind = "sync" =>
         /\ c.activeId \in Bins /\ c.marketId \in Bins /\ c.hasExtension \in BOOLEAN
         /\ c.liquid \subseteq MinIndex .. MaxIndex
         /\ ~c.hasExtension =>
              c.liquid \cup {BinIdToBinArrayIndex(c.activeId)} \subseteq InternalIndices
    \* The ranges and amounts that seedLiquidity does not refuse.
    /\ c.kind = "seed" =>
         LET minBinId == Min(DOMAIN c.curve)
             maxBinId == Max(DOMAIN c.curve)
         IN /\ minBinId \in Int /\ maxBinId \in Int /\ minBinId < maxBinId
            /\ DOMAIN c.curve = minBinId .. maxBinId /\ c.activeId <= minBinId
            /\ GenerateAmountForBinRange(c.curve) # Throws

VARIABLES call, result

vars == <<call, result>>

\* Every call of seedLiquidity spreads the amount in the same way.
Init ==
  /\ call \in Calls
  /\ result = IF call.kind # "seed" THEN NoResult
              ELSE [amounts |-> SeedAmounts(call.curve, call.tokenDecimal),
                    accounts |-> NewAccounts(call.existing), pending |-> {}]

Called(kind) == result = NoResult /\ call.kind = kind /\ UNCHANGED call

Strategic(c) ==
  ToAmountsBothSideByStrategy(c.activeId, c.lower, c.upper, c.amountX, c.amountY, c.inActive,
                              c.strategy)

DepositByStrategy == Called("strategy") /\ result' = Strategic(call)

\* A deposit of a spot distribution, as addLiquidityByWeight makes it.
Weighted(c) ==
  LET bps == CalculateSpotDistribution(c.activeId, c.lower, c.upper)
      weights == ToWeightDistribution(c.amountX, c.amountY, bps)
  IN FromWeightDistributionToAmount(c.activeId, c.amountX, c.amountY, c.inActive, weights)

DepositByWeight == Called("weight") /\ result' = Weighted(call)

\* The amount to go with amountX, or with amountY, and the deposit of both.
AutoFilled(c) ==
  LET weights == BalancedWeights(c.strategy, c.lower, c.upper, c.activeId)
      x == IF c.amountX > 0 THEN c.amountX
           ELSE AutoFillXByStrategy(c.activeId, c.amountY, c.inActive, c.lower, c.upper, c.strategy)
      y == IF c.amountX = 0 THEN c.amountY
           ELSE AutoFillYByStrategy(c.activeId, c.amountX, c.inActive, c.lower, c.upper, c.strategy)
  IN [x |-> x, y |-> y,
      placed |-> IF Throws \in {x, y} THEN Throws
                 ELSE ToAmountBothSide(c.activeId, x, y, c.inActive, weights)]

DepositAutoFilled == Called("autofill") /\ result' = AutoFilled(call)

Allocated(c) ==
  CASE c.shape = "Normal" -> CalculateNormalDistribution(c.activeId, c.allocations)
    [] c.shape = "BidAsk" -> CalculateBidAskDistribution(c.activeId, c.allocations)
    [] c.shape = "Spot" -> CalculateSpotDistribution(
                             c.activeId, Min(DOMAIN c.allocations), Max(DOMAIN c.allocations))

Allocate == Called("bps") /\ result' = Allocated(call)

\* What the program, the client and the library make of a position.
Valued(c) ==
  LET arrays == ValueArrays(c.position)
  IN [program |-> GetPositionValue(c.position, c.pool, arrays, c.inX),
      client |-> ClientAmounts(c.position, c.pool, arrays),
      library |-> LibraryAmounts(c.position, c.pool)]

ValuePosition == Called("value") /\ result' = Valued(call)

FindArrays ==
  /\ Called("range")
  /\ result' = BinArraysRequiredByPositionRange(call.from, call.to)

DepositBuilt(c) ==
  CASE c.builder = "maiker" -> CreateAddLiquidityInstruction(c)
    [] c.builder = "maikerNew" -> InitializePositionByMaiker(c)
    [] c.builder = "libraryNew" -> InitializePositionByLibrary(c)
    [] c.builder = "weight" -> AddLiquidityByWeight(c)
    [] c.builder = "strategy" -> AddLiquidityByStrategy(c)
    [] c.builder = "strategyNew" -> InitializePositionByStrategy(c)

BuildDeposit == Called("liquidity") /\ result' = DepositBuilt(call)

BuildRemoval ==
  /\ Called("remove")
  /\ result' = RemoveLiquidity(call.position, call.from, call.to)

IncludeFee ==
  /\ Called("fee")
  /\ result' = TransferFeeIncluded(call.fee, call.amount)

SyncWithMarketPrice ==
  /\ Called("sync")
  /\ result' = CanSyncWithMarketPrice(call.marketId, call.activeId, Bitmaps(call.liquid),
                                      call.hasExtension)

-----------------------------------------------------------------------------
(***************************************************************************)
(* Seeding: transactions of a plan that are not settled yet are pending.   *)
(***************************************************************************)
Seeding == call.kind = "seed" /\ UNCHANGED call
Accounts == result.accounts
Pending == result.pending

\* The client read the pool before or after the extension was created.
Plan ==
  /\ Seeding /\ Pending = {}
  /\ \E hasExtension \in {FALSE, Accounts.extension} :
       LET plan == SeedLiquidity(Accounts, hasExtension, result.amounts)
       IN plan # {} /\ result' = [result EXCEPT !.pending = plan]

\* Deposits are sent when the creations are settled.
Sent(tx) == tx \in Pending /\ (tx.kind = "deposit" => \A t \in Pending : t.kind = "deposit")

Land ==
  /\ Seeding
  /\ \E tx \in Pending :
       /\ Sent(tx) /\ Succeeds(Accounts, tx)
       /\ result' = [result EXCEPT !.accounts = Executed(@, tx), !.pending = @ \ {tx}]

\* A transaction fails, or is lost and expires.
Drop ==
  /\ Seeding
  /\ \E tx \in Pending : Sent(tx) /\ result' = [result EXCEPT !.pending = @ \ {tx}]

\* Somebody else creates a bin array.
CreateElsewhere ==
  /\ Seeding
  /\ \E i \in Coverage(Min(DOMAIN call.curve), Max(DOMAIN call.curve)) \ Accounts.arrays :
       result' = [result EXCEPT !.accounts.arrays = @ \cup {i}]

Returned ==
  /\ result # NoResult /\ (call.kind = "seed" => Pending = {})
  /\ UNCHANGED vars

Next ==
  \/ DepositByStrategy \/ DepositByWeight \/ DepositAutoFilled
  \/ Allocate \/ ValuePosition \/ FindArrays
  \/ BuildDeposit \/ BuildRemoval \/ IncludeFee \/ SyncWithMarketPrice
  \/ Plan \/ Land \/ Drop \/ CreateElsewhere
  \/ Returned

Spec == Init /\ [][Next]_vars

\* The caller plans again while something is left; transactions land or expire,
\* and of those sent over and over one that can succeed does at some time.
FairSpec == Spec /\ WF_vars(Plan) /\ WF_vars(Land \/ Drop) /\ SF_vars(Land)

-----------------------------------------------------------------------------
(***************************************************************************)
(* Properties.                                                             *)
(***************************************************************************)
ReturnedOf(kind) == result # NoResult /\ call.kind = kind

Within(amounts, x, y) ==
  /\ SumAll(amounts.x) <= x /\ SumAll(amounts.y) <= y
  /\ \A b \in DOMAIN amounts.x : /\ amounts.x[b] > 0 => b >= call.activeId
                                 /\ amounts.y[b] > 0 => b <= call.activeId

DepositBins == call.lower .. call.upper
Side(before) == Cardinality({b \in DepositBins : IF before THEN b <= call.activeId ELSE b >= call.activeId})

\* No deposit asks for more of a token than there is, or puts a token where the
\* pool does not take it, and one by strategy leaves less than a unit for each
\* bin that could take the token.
DepositsTheBudget ==
  /\ ReturnedOf("weight") /\ result # Throws => Within(result, call.amountX, call.amountY)
  /\ ReturnedOf("strategy") =>
       /\ result # Throws /\ Within(result, call.amountX, call.amountY)
       /\ \A before \in BOOLEAN :
            LET rest == IF before THEN call.amountY - SumAll(result.y)
                        ELSE call.amountX - SumAll(result.x)
                \* The active bin takes Y, or X if there is no Y.
                takes == \E b \in DepositBins :
                           \/ b < call.activeId /\ before
                           \/ b > call.activeId /\ ~before
                           \/ b = call.activeId /\ before = (call.amountY > 0)
            IN takes => rest < Side(before)

\* The amount filled in is the one that the deposit can use: both amounts are
\* deposited, up to a unit a bin and the worth of the unit the fill rounded off.
\* It fails only without weight for Y, of which there is none then (and for
\* curves off the active bin).
AutoFillBalances ==
  ReturnedOf("autofill") /\ (call.activeId \in DepositBins \/ call.strategy = "Spot") =>
    LET w == BothWeights(call.activeId, call.inActive,
                         BalancedWeights(call.strategy, call.lower, call.upper, call.activeId))
        tx == SumAll(w.x)
        ty == SumAll(w.y)
    IN IF result.placed = Throws THEN ty = 0 /\ result.y = 0
       ELSE /\ Within(result.placed, result.x, result.y)
            /\ tx > 0 /\ ty > 0 =>
                 /\ (result.x - SumAll(result.placed.x) - Side(FALSE)) * ty < tx
                 /\ (result.y - SumAll(result.placed.y) - Side(TRUE)) * tx < ty

\* The basis points of a side make a whole, or nothing on the side without bins;
\* a spot distribution off the active bin loses the rest of a division.
SharesAreComplete ==
  ReturnedOf("bps") =>
    LET lower == Min(DOMAIN call.allocations)
        upper == Max(DOMAIN call.allocations)
        whole(isSide, bps) ==
          IF ~isSide THEN SumAll(bps) = 0
          ELSE /\ SumAll(bps) <= BASIS_POINT_MAX
               /\ IF call.shape = "Spot" /\ call.activeId \notin lower .. upper
                  THEN SumAll(bps) > BASIS_POINT_MAX - Cardinality(DOMAIN bps)
                  ELSE SumAll(bps) = BASIS_POINT_MAX
    IN /\ whole(call.activeId <= upper, result.x)
       /\ whole(call.activeId >= lower, result.y)

\* The program's value of a position is not more than its part of its own bins
\* at the pool's price, and less by rounding only, a unit for each bin and token;
\* the amounts that the client finds are exactly those of that part, and the
\* library's less than a unit a bin below them.
ValueIsFair ==
  ReturnedOf("value") =>
    LET p == call.position
        price == Price[call.pool.activeId]
        held(amount) ==
          SumAll([b \in BinsOf(p) |->
                    IF call.pool.supply[b] = 0 THEN 0
                    ELSE p.shares[b] * amount[b] * (SUPPLY_MULTIPLE \div call.pool.supply[b])])
        x == held(call.pool.x)
        y == held(call.pool.y)
        bins == Cardinality(BinsOf(p))
        \* The exact value and the value of a unit of each token a bin, both in
        \* parts of `unit`.
        unit == SUPPLY_MULTIPLE * IF call.inX THEN price ELSE SCALE
        exact == IF call.inX THEN x * price + y * SCALE ELSE y * SCALE + x * price
        dust == bins * SUPPLY_MULTIPLE * (price + SCALE) + unit
        lost(exactly, amount) == exactly - amount * SUPPLY_MULTIPLE
    IN /\ result.client = [x |-> x, y |-> y]
       /\ lost(x, result.library.x) \in 0 .. bins * SUPPLY_MULTIPLE - 1
       /\ lost(y, result.library.y) \in 0 .. bins * SUPPLY_MULTIPLE - 1
       /\ result.program # Failed
       /\ result.program * unit <= exact
       /\ exact - result.program * unit < dust

\* Program, valuation and fees read every bin of a position from the arrays the
\* client names, and the arrays created for a range hold every bin of it and at
\* most one array that holds none.
FindsEveryBin ==
  /\ ReturnedOf("value") =>
       \A b \in BinsOf(call.position) :
         /\ GetBin(b, ValueArrays(call.position)) = b
         /\ GetBin(b, LiquidityArrays(call.position)) = b
         /\ FeeBin(b, ValueArrays(call.position)) = b
  /\ ReturnedOf("range") =>
       LET needed == {BinIdToBinArrayIndex(b) : b \in (call.from .. call.to) \cup (call.to .. call.from)}
       IN needed \subseteq result /\ Cardinality(result \ needed) <= 1

\* Every bin that a deposit fills is in an array that the transaction names and
\* that exists or is created, only missing arrays are created, and the extension
\* is passed when the bin's array needs it.  A deposit of one token through the
\* library's weights passes none.
DepositReachesItsBins ==
  ReturnedOf("liquidity") /\ result # Throws =>
    /\ result.creates \cap call.existing = {}
    /\ \A b \in result.bins :
         LET i == BinIdToBinArrayIndex(b)
         IN /\ i \in result.named /\ i \in result.creates \cup call.existing
            /\ IsOverflowDefaultBinArrayBitmap(i) =>
                 result.extension \/ (OneSided(call) /\ call.builder \in {"libraryNew", "weight"})

\* A removal takes every share of the range asked for, and names arrays that
\* exist because the position has liquidity in them.
RemovesWhatIsThere ==
  ReturnedOf("remove") /\ result # Throws =>
    LET liquid == {b \in BinsOf(call.position) : call.position.shares[b] # 0}
    IN /\ liquid \cap (result.from .. result.to) = liquid \cap (call.from .. call.to)
       /\ result.named \subseteq {BinIdToBinArrayIndex(b) : b \in liquid}

\* What is sent with the fee included leaves the amount asked for, and the
\* smallest amount that does is at most a unit less.
FeesLeaveTheAmount ==
  ReturnedOf("fee") =>
    /\ TransferFeeExcluded(call.fee, result) >= call.amount
    /\ result > 1 => TransferFeeExcluded(call.fee, result - 2) < call.amount

\* A pool is moved to a market price exactly if there is no liquidity in the
\* arrays from its active bin to the price, on whichever side of the borders
\* between the bitmaps they are: the move never jumps over a "bin with liquidity
\* between current and market price bin" (index.ts:5944), and is not refused for
\* liquidity elsewhere.
SyncsOverNothing ==
  ReturnedOf("sync") =>
    LET active == BinIdToBinArrayIndex(call.activeId)
        market == BinIdToBinArrayIndex(call.marketId)
    IN result <=> call.liquid \cap ((active .. market) \cup (market .. active)) = {}

\* However often the plan is made and whatever of it is lost, every position is
\* filled at most once: its bins hold their amounts and no more.
SeededOnce ==
  call.kind = "seed" =>
    \A b \in DOMAIN Accounts.amounts : Accounts.amounts[b] = result.amounts[b]

Seeded == call.kind = "seed" => SumAll(Accounts.amounts) = call.curve[Max(DOMAIN call.curve)]

\* A seeding that is repeated after losses gets the whole amount into the pool.
SeedsEverything == <>[]Seeded
=============================================================================
