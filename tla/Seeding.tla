------------------------------ MODULE Seeding ------------------------------
(***************************************************************************)
(* seedLiquidity: an amount of X is spread over positions side by side     *)
(* above the price, in transactions that may be sent in any order.  The    *)
(* plan is made from the accounts that exist, so that a call after a loss  *)
(* asks only for what is missing.                                          *)
(*                                                                         *)
(* Amounts of bins are compressed into a small integer and one multiplier; *)
(* what this loses is spread over the bins, and the rest goes to the last. *)
(***************************************************************************)
EXTENDS LiquidityTx

CONSTANTS BIN_CAP   \* 2^32 - 1

ASSUME CapAssumption == BIN_CAP \in Nat \ {0}

\* The amount below each price is curve, which begins with 0 and ends with all;
\* a bin takes what it adds.
GenerateAmountForBinRange(curve) ==
  LET bins == {b \in DOMAIN curve : b + 1 \in DOMAIN curve}
      amounts == [b \in bins |-> curve[b + 1] - curve[b]]
  IN IF \E b \in bins : amounts[b] = 0 THEN Throws ELSE amounts

\* The largest power of ten that leaves something of every bin.
FindOptimumDecompressMultiplier(amounts, tokenDecimal) ==
  Max({m \in {10 ^ k : k \in 0 .. tokenDecimal} : \A b \in DOMAIN amounts : amounts[b] \div m > 0})

Compressed(amounts, m) == [b \in DOMAIN amounts |-> amounts[b] \div m]

CompressionLoss(amounts, m) == SumAll(amounts) - m * SumAll(Compressed(amounts, m))

\* Mutation: a bin at its cap counts as if it had taken its part of the loss.
MutDistributeLoss(compressed, loss, m) ==
  LET part == [b \in DOMAIN compressed |->
                 ((compressed[b] * loss) \div SumAll(compressed)) \div m]
      full(b) == compressed[b] + part[b] > BIN_CAP
  IN [amounts |-> [b \in DOMAIN part |-> IF full(b) THEN BIN_CAP ELSE compressed[b] + part[b]],
      loss |-> loss - m * SumAll(part)]

\* distributeAmountToCompressedBinsByRatio.
DistributeLoss(compressed, loss, m) ==
  LET part == [b \in DOMAIN compressed |->
                 ((compressed[b] * loss) \div SumAll(compressed)) \div m]
      amounts == [b \in DOMAIN part |-> Min({compressed[b] + part[b], BIN_CAP})]
      taken == [b \in DOMAIN part |-> amounts[b] - compressed[b]]
  IN [amounts |-> amounts, loss |-> loss - m * SumAll(taken)]

\* What each bin receives.
SeedAmounts(curve, tokenDecimal) ==
  LET amounts == GenerateAmountForBinRange(curve)
      m == FindOptimumDecompressMultiplier(amounts, tokenDecimal)
      spread == DistributeLoss(Compressed(amounts, m), CompressionLoss(amounts, m), m)
      last == Max(DOMAIN amounts)
  IN [b \in DOMAIN amounts |->
        m * spread.amounts[b] + IF b = last THEN spread.loss ELSE 0]

-----------------------------------------------------------------------------
(***************************************************************************)
(* The accounts of the pool: bin arrays, positions by their lowest bin,    *)
(* the amounts in bins, and whether the extension exists.                  *)
(***************************************************************************)
NewAccounts(existing) ==
  [arrays |-> existing, positions |-> {}, extension |-> FALSE, amounts |-> <<>>]

PositionLowers(from, to) ==
  {from + MAX_BIN_PER_POSITION * i : i \in 0 .. GetPositionCount(from, to) - 1}

UpperOf(lower) == lower + MAX_BIN_PER_POSITION - 1

\* Mutation: a position that exists counts as filled.
MutPositionDeposited(accounts, lower) == lower \in accounts.positions

PositionDeposited(accounts, lower) ==
  \E b \in lower .. UpperOf(lower) : b \in DOMAIN accounts.amounts

Creation(arrays, positions, extension) ==
  [kind |-> "create", arrays |-> arrays, positions |-> positions, extension |-> extension]

\* A group that creates a position and the arrays it is in; an array that two
\* positions share is created by both, as appendedInitBinArrayIx stays empty.
Creations(accounts, lowers) ==
  {Creation(Missing(Coverage(l, UpperOf(l)), accounts.arrays), {l} \ accounts.positions, FALSE) :
     l \in lowers} \ {Creation({}, {}, FALSE)}

\* The extension is created once, for the first position that needs it, unless
\* the client's copy of the pool has it.
ExtensionCreation(accounts, hasExtension, lowers) ==
  IF /\ ~hasExtension
     /\ \E l \in lowers : /\ ~PositionDeposited(accounts, l)
                          /\ AnyOverflow(Coverage(l, UpperOf(l)))
  THEN {Creation({}, {}, TRUE)} ELSE {}

DepositOf(lower, amounts) ==
  [kind |-> "deposit", lower |-> lower,
   amounts |-> [b \in DOMAIN amounts \cap (lower .. UpperOf(lower)) |-> amounts[b]],
   arrays |-> Coverage(lower, UpperOf(lower))]

\* Mutation: every position gets its deposit in every plan.
MutDeposits(accounts, lowers, amounts) == {DepositOf(l, amounts) : l \in lowers}

Deposits(accounts, lowers, amounts) ==
  {DepositOf(l, amounts) : l \in {m \in lowers : ~PositionDeposited(accounts, m)}}

SeedLiquidity(accounts, hasExtension, amounts) ==
  LET lowers == PositionLowers(Min(DOMAIN amounts), Max(DOMAIN amounts))
  IN Creations(accounts, lowers) \cup ExtensionCreation(accounts, hasExtension, lowers)
       \cup Deposits(accounts, lowers, amounts)

-----------------------------------------------------------------------------
(***************************************************************************)
(* The DLMM program and the chain: a transaction succeeds as a whole.  No  *)
(* account is created twice, and a deposit needs all its accounts.         *)
(***************************************************************************)
Succeeds(accounts, tx) ==
  IF tx.kind = "create"
  THEN /\ tx.arrays \cap accounts.arrays = {} /\ tx.positions \cap accounts.positions = {}
       /\ ~(tx.extension /\ accounts.extension)
  ELSE /\ tx.lower \in accounts.positions /\ tx.arrays \subseteq accounts.arrays
       /\ AnyOverflow(tx.arrays) => accounts.extension

Executed(accounts, tx) ==
  IF ~Succeeds(accounts, tx) THEN accounts
  ELSE IF tx.kind = "create"
  THEN [accounts EXCEPT !.arrays = @ \cup tx.arrays, !.positions = @ \cup tx.positions,
                        !.extension = @ \/ tx.extension]
  ELSE [accounts EXCEPT
          !.amounts = [b \in DOMAIN @ \cup DOMAIN tx.amounts |->
                         IF b \notin DOMAIN tx.amounts THEN @[b]
                         ELSE IF b \notin DOMAIN @ THEN tx.amounts[b]
                         ELSE @[b] + tx.amounts[b]]]

-----------------------------------------------------------------------------
(***************************************************************************)
(* Transfer fees of Token-2022 mints: basis points, up to a maximum.       *)
(***************************************************************************)
Ceil(a, b) == (a + b - 1) \div b

CalculateFee(fee, amount) == Min({Ceil(amount * fee.bps, BASIS_POINT_MAX), fee.maximum})

CalculatePreFeeAmount(fee, postFeeAmount) ==
  IF postFeeAmount = 0 \/ fee.bps = 0 THEN postFeeAmount
  ELSE IF fee.bps = BASIS_POINT_MAX THEN postFeeAmount + fee.maximum
  ELSE LET raw == Ceil(postFeeAmount * BASIS_POINT_MAX, BASIS_POINT_MAX - fee.bps)
       IN IF raw - postFeeAmount >= fee.maximum THEN postFeeAmount + fee.maximum ELSE raw

\* Mutation: the fee of what shall arrive is added, and not of what is sent.
MutTransferFeeIncluded(fee, amount) ==
  IF amount = 0 THEN 0
  ELSE IF fee.bps = BASIS_POINT_MAX THEN amount + fee.maximum
  ELSE amount + CalculateFee(fee, amount)

\* What to send so that amount arrives.
TransferFeeIncluded(fee, amount) ==
  IF amount = 0 THEN 0
  ELSE IF fee.bps = BASIS_POINT_MAX THEN amount + fee.maximum
  ELSE amount + CalculateFee(fee, CalculatePreFeeAmount(fee, amount))

\* What arrives of an amount.
TransferFeeExcluded(fee, amount) == amount - CalculateFee(fee, amount)
=============================================================================
