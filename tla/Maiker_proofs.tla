---------------------------- MODULE Maiker_proofs ----------------------------
(***************************************************************************)
(* Proofs about Maiker, for any users, positions, fees, scales and bounds: *)
(* its instructions use the positions as PositionRegistry allows, the type *)
(* and conservation of the share ledger, and that prices and payouts round *)
(* in favour of the shares that stay.                                      *)
(***************************************************************************)
EXTENDS Maiker, PositionRegistry_proofs

-----------------------------------------------------------------------------
(***************************************************************************)
(* Lemmas on the arithmetic of ShareMath, for every precision, fee scale   *)
(* and width: what each computation returns, and that its rounding is      *)
(* always in favour of the shares that stay.                               *)
(***************************************************************************)
\* What truncating division and remainder return.
LEMMA Division ==
  ASSUME NEW n \in Nat, NEW d \in Nat \ {0}
  PROVE  /\ n \div d \in Nat
         /\ (n \div d) * d <= n
         /\ n < (n \div d) * d + d
         /\ n % d \in 0 .. (d - 1)
OBVIOUS

\* A quotient that reaches m is one whose dividend reaches m times the divisor.
LEMMA DivisionReaches ==
  ASSUME NEW n \in Nat, NEW d \in Nat \ {0}, NEW m \in Nat, m * d <= n
  PROVE  m <= n \div d
<1> DEFINE q == n \div d
<1>1. q \in Nat /\ n < q * d + d
  BY Division
<1>2. ASSUME q < m PROVE FALSE
  <2>1. q + 1 <= m
    BY <1>1, <1>2
  <2>2. (q + 1) * d <= m * d
    BY <2>1, <1>1
  <2>3. (q + 1) * d = q * d + d
    BY <1>1
  <2> QED
    BY <2>2, <2>3, <1>1
<1> QED
  BY <1>1, <1>2

LEMMA NatProduct ==
  ASSUME NEW a \in Nat, NEW b \in Nat
  PROVE  a * b \in Nat
OBVIOUS

LEMMA AsU64Type ==
  ASSUME NEW n \in Nat
  PROVE  AsU64(n) \in U64
BY PrecisionAssumption DEF AsU64, U64

LEMMA AsU64Fits ==
  ASSUME NEW n \in Nat, n <= U64_MAX
  PROVE  AsU64(n) = n
BY PrecisionAssumption DEF AsU64

\* The cast never makes a number larger.
LEMMA AsU64AtMost ==
  ASSUME NEW n \in Nat
  PROVE  AsU64(n) <= n
BY PrecisionAssumption DEF AsU64

LEMMA ShareValueType ==
  ASSUME NEW total \in Nat, NEW shares \in Nat
  PROVE  ShareValue(total, shares) \in U64
<1>1. CASE shares = 0
  BY <1>1, PrecisionAssumption DEF ShareValue, U64
<1>2. CASE shares # 0
  <2>1. ExactShareValue(total, shares) \in Nat
    BY <1>2, PrecisionAssumption, NatProduct, Division DEF ExactShareValue
  <2> QED
    BY <1>2, <2>1, AsU64Type DEF ShareValue
<1> QED
  BY <1>1, <1>2

\* A price that fits is not truncated.
LEMMA ShareValueExact ==
  ASSUME NEW total \in Nat, NEW shares \in Nat \ {0},
         ExactShareValue(total, shares) <= U64_MAX
  PROVE  /\ ShareValue(total, shares) = ExactShareValue(total, shares)
         /\ ExactShareValue(total, shares) \in Nat
<1>1. ExactShareValue(total, shares) \in Nat
  BY PrecisionAssumption, NatProduct, Division DEF ExactShareValue
<1> QED
  BY <1>1, AsU64Fits DEF ShareValue

LEMMA SharesForDepositType ==
  ASSUME NEW amount \in Nat, NEW v \in Nat, v > 0
  PROVE  SharesForDeposit(amount, v) \in Nat
BY PrecisionAssumption, NatProduct, Division DEF SharesForDeposit

LEMMA WithdrawalAmountType ==
  ASSUME NEW shares \in Nat, NEW v \in Nat
  PROVE  WithdrawalAmount(shares, v) \in U64
BY PrecisionAssumption, NatProduct, Division, AsU64Type DEF WithdrawalAmount

LEMMA WithdrawalFeeType ==
  ASSUME NEW shares \in Nat, NEW bps \in Nat
  PROVE  WithdrawalFeeShares(shares, bps) \in Nat
BY BasisPointAssumption, NatProduct, Division DEF WithdrawalFeeShares

LEMMA PerformanceFeeType ==
  ASSUME NEW share \in Nat, NEW last \in Nat, NEW current \in Nat, NEW bps \in Nat,
         PerformanceFeeComputes(share, last, current, bps)
  PROVE  PerformanceFeeShares(share, last, current, bps) \in U64
<1>1. CASE current <= last
  BY <1>1, PrecisionAssumption DEF PerformanceFeeShares, U64
<1>2. CASE current > last
  <2>1. last \in Nat \ {0} /\ current - last \in Nat
    BY <1>2 DEF PerformanceFeeComputes
  <2>2. (current - last) * BASIS_POINT_MAX \in Nat
    BY <2>1, BasisPointAssumption, NatProduct
  <2>3. GainBps(last, current) \in Nat
    BY <2>1, <2>2, Division DEF GainBps
  <2>4. share * GainBps(last, current) * bps \in Nat
    BY <2>3, NatProduct
  <2>5. BASIS_POINT_MAX * BASIS_POINT_MAX \in Nat \ {0}
    BY BasisPointAssumption
  <2>6. (share * GainBps(last, current) * bps)
          \div (BASIS_POINT_MAX * BASIS_POINT_MAX) \in Nat
    BY <2>4, <2>5, Division
  <2>7. ~(current <= last)
    BY <1>2
  <2> QED
    BY <2>6, <2>7, AsU64Type DEF PerformanceFeeShares
<1> QED
  BY <1>1, <1>2

\* The window opens more than one hour and at most two hours later.
LEMMA WithdrawalWindow ==
  ASSUME NEW t \in Nat
  PROVE  /\ WithdrawalTimestamp(t) \in Nat
         /\ WithdrawalTimestamp(t) - t > SECONDS_IN_HOUR
         /\ WithdrawalTimestamp(t) - t <= 2 * SECONDS_IN_HOUR
<1>1. t % SECONDS_IN_HOUR \in 0 .. (SECONDS_IN_HOUR - 1) /\ t % SECONDS_IN_HOUR <= t
  BY HourAssumption
<1> QED
  BY <1>1, HourAssumption DEF WithdrawalTimestamp

-----------------------------------------------------------------------------
(***************************************************************************)
(* Rounding.  T and S are the total value and the shares, P the precision. *)
(***************************************************************************)
\* The tokens owed to n shares at price v, times P, are at most n times v.
LEMMA WithdrawalRoundsDown ==
  ASSUME NEW n \in Nat, NEW v \in Nat
  PROVE  /\ WithdrawalAmount(n, v) \in Nat
         /\ WithdrawalAmount(n, v) * SHARE_PRECISION <= n * v
<1> DEFINE q == (n * v) \div SHARE_PRECISION
<1>1. n * v \in Nat /\ SHARE_PRECISION \in Nat \ {0}
  BY NatProduct, PrecisionAssumption
<1>2. q \in Nat /\ q * SHARE_PRECISION <= n * v
  BY <1>1, Division
<1>3. WithdrawalAmount(n, v) \in Nat /\ WithdrawalAmount(n, v) <= q
  BY <1>2, AsU64Type, AsU64AtMost DEF WithdrawalAmount, U64
<1>4. WithdrawalAmount(n, v) * SHARE_PRECISION <= q * SHARE_PRECISION
  <2> HIDE DEF q
  <2> QED
    BY <1>2, <1>3, <1>1
<1>5. WithdrawalAmount(n, v) * SHARE_PRECISION \in Nat /\ q * SHARE_PRECISION \in Nat
  BY <1>1, <1>2, <1>3, NatProduct
<1> QED
  BY <1>1, <1>2, <1>3, <1>4, <1>5

\* The price times the shares is at most the scaled total, and the next
\* higher price would exceed it.
LEMMA PriceRoundsDown ==
  ASSUME NEW T \in Nat, NEW S \in Nat \ {0}
  PROVE  /\ ExactShareValue(T, S) \in Nat
         /\ ExactShareValue(T, S) * S <= T * SHARE_PRECISION
         /\ T * SHARE_PRECISION < ExactShareValue(T, S) * S + S
<1>1. T * SHARE_PRECISION \in Nat
  BY NatProduct, PrecisionAssumption
<1> QED
  BY <1>1, Division DEF ExactShareValue

\* Minting shares for a deposit at the current price does not lower the price.
LEMMA MintKeepsPrice ==
  ASSUME NEW T \in Nat, NEW S \in Nat \ {0}, NEW a \in Nat, NEW n \in Nat,
         n * ExactShareValue(T, S) <= a * SHARE_PRECISION
  PROVE  ExactShareValue(T + a, S + n) >= ExactShareValue(T, S)
<1> DEFINE v == ExactShareValue(T, S)
<1>1. v \in Nat /\ v * S <= T * SHARE_PRECISION
  BY PriceRoundsDown
<1>2. (T + a) * SHARE_PRECISION = T * SHARE_PRECISION + a * SHARE_PRECISION
  BY PrecisionAssumption
<1>3. v * (S + n) = v * S + n * v
  BY <1>1
<1>4. /\ v * S \in Nat /\ n * v \in Nat
      /\ T * SHARE_PRECISION \in Nat /\ a * SHARE_PRECISION \in Nat
  BY <1>1, NatProduct, PrecisionAssumption
<1>5. v * (S + n) <= (T + a) * SHARE_PRECISION
  BY <1>1, <1>2, <1>3, <1>4
<1>6. (T + a) * SHARE_PRECISION \in Nat /\ S + n \in Nat \ {0}
  BY <1>2, <1>4
<1>7. v <= ((T + a) * SHARE_PRECISION) \div (S + n)
  BY <1>1, <1>5, <1>6, DivisionReaches
<1> QED
  BY <1>7 DEF ExactShareValue

\* Burning shares for tokens at the current price does not lower the price.
LEMMA BurnKeepsPrice ==
  ASSUME NEW T \in Nat, NEW S \in Nat \ {0}, NEW a \in Nat, NEW n \in Nat,
         a <= T, n < S,
         a * SHARE_PRECISION <= n * ExactShareValue(T, S)
  PROVE  ExactShareValue(T - a, S - n) >= ExactShareValue(T, S)
<1> DEFINE v == ExactShareValue(T, S)
<1>1. v \in Nat /\ v * S <= T * SHARE_PRECISION
  BY PriceRoundsDown
<1>2. (T - a) * SHARE_PRECISION = T * SHARE_PRECISION - a * SHARE_PRECISION
  BY PrecisionAssumption
<1>3. v * (S - n) = v * S - n * v
  BY <1>1
<1>4. /\ v * S \in Nat /\ n * v \in Nat
      /\ T * SHARE_PRECISION \in Nat /\ a * SHARE_PRECISION \in Nat
  BY <1>1, NatProduct, PrecisionAssumption
<1>5. v * (S - n) <= (T - a) * SHARE_PRECISION
  BY <1>1, <1>2, <1>3, <1>4
<1>6. (T - a) * SHARE_PRECISION \in Nat /\ S - n \in Nat \ {0}
  BY NatProduct, PrecisionAssumption
<1>7. v <= ((T - a) * SHARE_PRECISION) \div (S - n)
  BY <1>1, <1>5, <1>6, DivisionReaches
<1> QED
  BY <1>7 DEF ExactShareValue

\* The shares minted by a deposit are worth, at the price after it, no more
\* than the tokens deposited.
LEMMA MintIsNoGain ==
  ASSUME NEW T \in Nat, NEW S \in Nat \ {0}, NEW a \in Nat, NEW n \in Nat,
         n * ExactShareValue(T, S) <= a * SHARE_PRECISION
  PROVE  n * ExactShareValue(T + a, S + n) <= a * SHARE_PRECISION
<1> DEFINE v == ExactShareValue(T, S)
           w == ExactShareValue(T + a, S + n)
           TP == T * SHARE_PRECISION
           aP == a * SHARE_PRECISION
<1>1. v \in Nat /\ TP < v * S + S
  BY PriceRoundsDown
<1>2. S + n \in Nat \ {0} /\ T + a \in Nat
  OBVIOUS
<1>3. w \in Nat /\ w * (S + n) <= (T + a) * SHARE_PRECISION
  BY <1>2, PriceRoundsDown
<1>4. (T + a) * SHARE_PRECISION = TP + aP
  BY PrecisionAssumption
<1>5. w * (S + n) = w * S + n * w
  BY <1>3
<1>6. TP \in Nat /\ aP \in Nat /\ v * S \in Nat /\ w * S \in Nat /\ n * w \in Nat
  BY <1>1, <1>3, NatProduct, PrecisionAssumption
<1>7. w >= v
  BY MintKeepsPrice
<1>8. CASE w = v
  BY <1>8
<1>9. CASE w >= v + 1
  <2>1. w * S >= (v + 1) * S
    BY <1>9, <1>1, <1>3
  <2>2. (v + 1) * S = v * S + S
    BY <1>1
  <2> QED
    BY <2>1, <2>2, <1>1, <1>3, <1>4, <1>5, <1>6
<1> QED
  BY <1>1, <1>3, <1>7, <1>8, <1>9

LEMMA ProductIsMonotonic ==
  ASSUME NEW a \in Nat, NEW b \in Nat, NEW c \in Nat, a <= b
  PROVE  a * c <= b * c
OBVIOUS

LEMMA ProductCancels ==
  ASSUME NEW a \in Nat, NEW b \in Nat, NEW c \in Nat \ {0}, a * c <= b * c
  PROVE  a <= b
<1>1. ASSUME b + 1 <= a PROVE FALSE
  <2>1. (b + 1) * c <= a * c
    BY <1>1, ProductIsMonotonic
  <2>2. (b + 1) * c = b * c + c
    OBVIOUS
  <2> QED
    BY <2>1, <2>2, NatProduct
<1> QED
  BY <1>1

\* The tokens owed to n of S shares are at most n / S of the total.
LEMMA WithdrawalIsFair ==
  ASSUME NEW T \in Nat, NEW S \in Nat, NEW n \in Nat
  PROVE  WithdrawalAmount(n, ShareValue(T, S)) * S <= n * T
<1> DEFINE v == ShareValue(T, S)
           a == WithdrawalAmount(n, v)
<1>1. v \in Nat
  BY ShareValueType DEF U64
<1>2. a \in Nat /\ a * SHARE_PRECISION <= n * v
  BY <1>1, WithdrawalRoundsDown
<1>3. n * T \in Nat
  BY NatProduct
<1> HIDE DEF a
<1>4. CASE S = 0
  <2>1. a * S = 0
    BY <1>2, <1>4
  <2> QED
    BY <2>1, <1>3 DEF a
<1>5. CASE S # 0
  <2>1. v <= ExactShareValue(T, S) /\ ExactShareValue(T, S) \in Nat
    BY <1>5, PriceRoundsDown, AsU64AtMost DEF ShareValue
  <2>2. v * S <= T * SHARE_PRECISION
    <3>1. v * S <= ExactShareValue(T, S) * S
      BY <2>1, <1>1, ProductIsMonotonic
    <3>2. ExactShareValue(T, S) * S <= T * SHARE_PRECISION
      BY <1>5, PriceRoundsDown
    <3>3. v * S \in Nat /\ ExactShareValue(T, S) * S \in Nat /\ T * SHARE_PRECISION \in Nat
      BY <1>1, <2>1, NatProduct, PrecisionAssumption
    <3> QED
      BY <3>1, <3>2, <3>3
  <2> HIDE DEF v
  <2>3. (a * SHARE_PRECISION) * S <= (n * v) * S
    BY <1>1, <1>2, NatProduct, PrecisionAssumption, ProductIsMonotonic
  <2>4. (v * S) * n <= (T * SHARE_PRECISION) * n
    BY <1>1, <2>2, NatProduct, PrecisionAssumption, ProductIsMonotonic
  <2>5. /\ (a * SHARE_PRECISION) * S = (a * S) * SHARE_PRECISION
        /\ (n * v) * S = (v * S) * n
        /\ (T * SHARE_PRECISION) * n = (n * T) * SHARE_PRECISION
    BY <1>1, <1>2, PrecisionAssumption
  <2>6. a * S \in Nat /\ (v * S) * n \in Nat
    BY <1>1, <1>2, NatProduct
  <2>7. /\ (a * S) * SHARE_PRECISION \in Nat
        /\ (n * T) * SHARE_PRECISION \in Nat
    BY <2>6, <1>3, NatProduct, PrecisionAssumption
  <2>8. (a * S) * SHARE_PRECISION <= (n * T) * SHARE_PRECISION
    BY <2>3, <2>4, <2>5, <2>6, <2>7
  <2>9. a * S <= n * T
    BY <2>6, <1>3, <2>8, ProductCancels, PrecisionAssumption
  <2> QED
    BY <2>9 DEF a, v
<1> QED
  BY <1>4, <1>5

\* The performance fee is rounded down to shares.
LEMMA PerformanceFeeRoundsDown ==
  ASSUME NEW share \in Nat, NEW last \in Nat \ {0}, NEW current \in Nat, NEW bps \in Nat,
         last <= current
  PROVE  /\ GainBps(last, current) \in Nat
         /\ PerformanceFeeShares(share, last, current, bps) \in Nat
         /\ PerformanceFeeShares(share, last, current, bps)
                * (BASIS_POINT_MAX * BASIS_POINT_MAX)
              <= share * GainBps(last, current) * bps
<1> DEFINE g == GainBps(last, current)
           B2 == BASIS_POINT_MAX * BASIS_POINT_MAX
           q == (share * g * bps) \div B2
           fee == PerformanceFeeShares(share, last, current, bps)
<1>1. g \in Nat
  <2>1. (current - last) * BASIS_POINT_MAX \in Nat
    BY BasisPointAssumption, NatProduct
  <2> QED
    BY <2>1, Division DEF GainBps
<1>2. B2 \in Nat \ {0}
  BY BasisPointAssumption
<1> HIDE DEF g, B2
<1>3. share * g * bps \in Nat
  BY <1>1, NatProduct
<1>4. q \in Nat /\ q * B2 <= share * g * bps
  BY <1>2, <1>3, Division
<1>5. fee \in Nat /\ fee <= q
  <2>1. AsU64(q) \in Nat /\ AsU64(q) <= q
    BY <1>4, AsU64Type, AsU64AtMost DEF U64
  <2> QED
    BY <2>1, <1>4 DEF PerformanceFeeShares, g, B2
<1> HIDE DEF q, fee
<1>6. fee * B2 <= q * B2
  BY <1>2, <1>4, <1>5, ProductIsMonotonic
<1>7. fee * B2 \in Nat /\ q * B2 \in Nat
  BY <1>2, <1>4, <1>5, NatProduct
<1>8. fee * B2 <= share * g * bps
  BY <1>3, <1>4, <1>6, <1>7
<1> QED
  BY <1>1, <1>5, <1>8 DEF g, B2, fee

\* Rates that leave room leave room after rounding.
LEMMA FeesFit ==
  ASSUME NEW share \in Nat, NEW last \in Nat \ {0}, NEW current \in Nat,
         NEW pbps \in Nat, NEW wbps \in Nat, last <= current,
         GainBps(last, current) * pbps + BASIS_POINT_MAX * wbps
           <= BASIS_POINT_MAX * BASIS_POINT_MAX
  PROVE  PerformanceFeeShares(share, last, current, pbps) + WithdrawalFeeShares(share, wbps)
           <= share
<1> DEFINE B == BASIS_POINT_MAX
           g == GainBps(last, current)
           a == PerformanceFeeShares(share, last, current, pbps)
           b == WithdrawalFeeShares(share, wbps)
<1>1. B \in Nat \ {0} /\ B * B \in Nat \ {0}
  BY BasisPointAssumption
<1>2. g \in Nat /\ a \in Nat /\ a * (B * B) <= share * g * pbps
  BY PerformanceFeeRoundsDown
<1>3. b \in Nat /\ b * B <= share * wbps
  BY <1>1, NatProduct, Division DEF WithdrawalFeeShares
<1>4. g * pbps + B * wbps <= B * B
  OBVIOUS
<1> HIDE DEF B, g, a, b
<1>5. b * (B * B) <= share * (B * wbps)
  <2>1. (b * B) * B <= (share * wbps) * B
    BY <1>1, <1>3, NatProduct, ProductIsMonotonic
  <2>2. (b * B) * B = b * (B * B) /\ (share * wbps) * B = share * (B * wbps)
    BY <1>1, <1>3
  <2> QED
    BY <2>1, <2>2
<1>6. /\ g * pbps \in Nat /\ B * wbps \in Nat /\ a * (B * B) \in Nat
      /\ b * (B * B) \in Nat /\ share * (g * pbps) \in Nat /\ share * (B * wbps) \in Nat
  BY <1>1, <1>2, <1>3, NatProduct
<1>7. (a + b) * (B * B) <= (g * pbps + B * wbps) * share
  <2>1. (a + b) * (B * B) = a * (B * B) + b * (B * B)
    BY <1>1, <1>2, <1>3
  <2>2. (g * pbps + B * wbps) * share = share * (g * pbps) + share * (B * wbps)
    BY <1>6
  <2>3. share * g * pbps = share * (g * pbps)
    BY <1>2
  <2> QED
    BY <2>1, <2>2, <2>3, <1>2, <1>5, <1>6
<1>8. (g * pbps + B * wbps) * share <= (B * B) * share
  BY <1>1, <1>4, <1>6, ProductIsMonotonic
<1>9. (a + b) * (B * B) <= share * (B * B)
  <2>1. (B * B) * share = share * (B * B)
    BY <1>1
  <2>2. (a + b) * (B * B) \in Nat /\ (g * pbps + B * wbps) * share \in Nat
        /\ (B * B) * share \in Nat
    BY <1>1, <1>2, <1>3, <1>6, NatProduct
  <2> QED
    BY <2>1, <2>2, <1>7, <1>8
<1>10. a + b <= share
  BY <1>1, <1>2, <1>3, <1>9, ProductCancels
<1> QED
  BY <1>10 DEF a, b

-----------------------------------------------------------------------------
(***************************************************************************)
(* The positions.                                                          *)
(***************************************************************************)
\* Every instruction is one operation of the registry, or none.
LEMMA StepMovesRegistry ==
  ASSUME [Next]_vars
  PROVE  [PositionNext]_positionVars
<1>1. ASSUME NEW u \in Users, NEW amount \in DepositAmounts, Deposit(u, amount)
      PROVE  UNCHANGED positionVars
  BY <1>1 DEF Deposit
<1>2. ASSUME NEW u \in Users, NEW shares, InitiateWithdrawal(u, shares)
      PROVE  UNCHANGED positionVars
  BY <1>2 DEF InitiateWithdrawal
<1>3. ASSUME NEW u \in Users, ProcessWithdrawal(u)
      PROVE  UNCHANGED positionVars
  BY <1>3 DEF ProcessWithdrawal
<1>4. CASE UserNext
  BY <1>1, <1>2, <1>3, <1>4 DEF UserNext
<1>5. ASSUME NEW a \in Admins, Initialize(a) \/ UpdateGlobalConfig(a)
      PROVE  UNCHANGED positionVars
  BY <1>5 DEF Initialize, UpdateGlobalConfig
<1>6. ASSUME NEW a \in Admins, NEW shares, ClaimFees(a, shares)
      PROVE  UNCHANGED positionVars
  BY <1>6 DEF ClaimFees
<1>7. ASSUME NEW a \in Admins, NEW k \in Positions,
             OpenPosition(a, k) \/ RetirePosition(a, k)
      PROVE  PositionNext
  BY <1>7 DEF OpenPosition, RetirePosition, PositionNext
<1>8. ASSUME NEW a \in Admins, NEW k \in Positions, NEW x, NEW y,
             AddLiquidity(a, k, x, y) \/ RemoveLiquidity(a, k, y)
      PROVE  PositionNext
  BY <1>8, WorthAssumption DEF AddLiquidity, RemoveLiquidity, PositionNext
<1>9. ASSUME NEW a \in Admins, NEW k, NEW x, NEW y, ClaimPositionFee(a, k, x, y)
      PROVE  UNCHANGED positionVars
  BY <1>9 DEF ClaimPositionFee
<1>10. ASSUME NEW a \in Admins, NEW in, NEW out,
              SwapXForY(a, in, out) \/ SwapYForX(a, in, out)
       PROVE  UNCHANGED positionVars
  BY <1>10 DEF SwapXForY, SwapYForX
<1>11. CASE AdminNext
  BY <1>5, <1>6, <1>7, <1>8, <1>9, <1>10, <1>11 DEF AdminNext
<1>12. CASE WorldNext
  <2>1. CASE CreateStrategy
    BY <2>1 DEF CreateStrategy
  <2>2. ASSUME NEW k \in Positions,
               (\E v \in QuotableValues : UpdateQuote(k, v)) \/ (\E w \in Worths : MarketMove(k, w))
        PROVE  PositionNext
    BY <2>2 DEF UpdateQuote, MarketMove, PositionNext
  <2>3. ASSUME NEW d \in TimeSteps, NextSlot(d)
        PROVE  PositionNext
    BY <2>3 DEF NextSlot, PositionNext
  <2> QED
    BY <1>12, <2>1, <2>2, <2>3 DEF WorldNext
<1>13. CASE UNCHANGED vars
  BY <1>13 DEF vars
<1> QED
  BY <1>4, <1>11, <1>12, <1>13 DEF Next

\* Maiker uses its positions as PositionRegistry says they may be used.
THEOREM UsesRegistry == Spec => PositionSpec
<1>1. Init => PositionInit
  BY DEF Init
<1>2. [Next]_vars => [PositionNext]_positionVars
  BY StepMovesRegistry
<1> QED
  BY <1>1, <1>2, PTL DEF Spec, PositionSpec

-----------------------------------------------------------------------------
(***************************************************************************)
(* Types.  Each instruction leaves every account in the range of its       *)
(* fields: the checked operations are the guards it needs, and a price     *)
(* that is too large is brought back by the cast.                          *)
(***************************************************************************)
LEMMA PriceType ==
  ASSUME TypeOK, PriceComputes
  PROVE  /\ TotalStrategyValue \in Nat
         /\ CurrentShareValue \in U64
BY ShareValueType DEF TypeOK, PriceComputes, CurrentShareValue, U64

LEMMA FeeType ==
  ASSUME NEW pos \in UserPosition, NEW v \in U64, globalConfig \in GlobalConfig,
         PerformanceFeeOfComputes(pos, v)
  PROVE  PerformanceFeeOf(pos, v) \in U64
<1>1. pos.strategy_share \in Nat /\ pos.last_share_value \in Nat /\ v \in Nat
  BY DEF UserPosition, U64
<1>2. globalConfig.performance_fee_bps \in Nat
  BY DEF GlobalConfig
<1> QED
  BY <1>1, <1>2, PerformanceFeeType DEF PerformanceFeeOf, PerformanceFeeOfComputes

LEMMA InitializeType ==
  ASSUME TypeOK, PositionTypeOK', NEW a \in Admins, Initialize(a) \/ UpdateGlobalConfig(a)
  PROVE  TypeOK'
<1>1. PICK b \in Admins, fees \in FeeSettings, t \in Treasuries, i \in Intervals :
        globalConfig' = Configured(b, fees, t, i)
  BY DEF Initialize, UpdateGlobalConfig
<1>2. fees[1] \in Nat /\ fees[2] \in Nat /\ i \in Nat
  BY FeeAssumption, AmountsAssumption
<1>3. globalConfig' \in GlobalConfig /\ globalConfig'.treasury \in Treasuries
  BY <1>1, <1>2 DEF Configured, GlobalConfig
<1>4. UNCHANGED <<created, shareVars, tokenVars, now>>
  BY DEF Initialize, UpdateGlobalConfig
<1> QED
  BY <1>3, <1>4 DEF TypeOK, shareVars, tokenVars

\* What a deposit mints, at parity or at the current price.
LEMMA DepositMintsNat ==
  ASSUME TypeOK, NEW u \in Users, NEW amount \in DepositAmounts, Deposit(u, amount)
  PROVE  IF strategyShares = 0 THEN amount \in Nat
         ELSE SharesForDeposit(amount, CurrentShareValue) \in Nat
<1>1. amount \in Nat
  BY AmountsAssumption DEF U64
<1>2. CASE strategyShares = 0
  BY <1>1, <1>2
<1>3. CASE strategyShares # 0
  <2>1. CurrentShareValue > 0 /\ CurrentShareValue \in Nat
    BY <1>3, PriceType DEF Deposit, DepositComputes, U64
  <2> QED
    BY <1>3, <2>1, <1>1, SharesForDepositType
<1> QED
  BY <1>2, <1>3

LEMMA DepositType ==
  ASSUME TypeOK, PositionTypeOK', NEW u \in Users, NEW amount \in DepositAmounts,
         Deposit(u, amount)
  PROVE  TypeOK'
<1> DEFINE first == strategyShares = 0
           v == IF first THEN SHARE_PRECISION ELSE CurrentShareValue
           new == IF first THEN amount ELSE SharesForDeposit(amount, v)
           pos == userPosition[u]
           fee == IF pos.open THEN PerformanceFeeOf(pos, v) ELSE 0
<1>1. amount \in Nat /\ pos \in UserPosition
  BY AmountsAssumption DEF TypeOK, U64
<1>2. v \in U64
  <2>1. CASE first
    BY <2>1, PrecisionAssumption DEF U64
  <2>2. CASE ~first
    BY <2>2, PriceType DEF Deposit
  <2> QED
    BY <2>1, <2>2
<1>3. new \in Nat
  BY DepositMintsNat
<1>4. fee \in Nat
  BY <1>1, <1>2, FeeType DEF Deposit, TypeOK, U64
<1> HIDE DEF v, new, fee
<1>5. strategyShares' \in U64 /\ feeShares' \in U64
  <2>1. strategyShares' = strategyShares + new /\ strategyShares + new <= U64_MAX
    BY DEF Deposit, v, new
  <2>2. feeShares' = feeShares + fee
    BY DEF Deposit, v, fee
  <2>3. pos.open => feeShares + fee <= U64_MAX
    BY DEF Deposit, v, fee
  <2>4. ~pos.open => fee = 0
    BY DEF fee
  <2> QED
    BY <2>1, <2>2, <2>3, <2>4, <1>3, <1>4 DEF TypeOK, U64
<1>6. userPosition' \in [Users -> UserPosition]
  <2> DEFINE new_pos == IF pos.open THEN UpdateAfterDeposit(pos, new, fee, v)
                        ELSE InitializeUser(new)
  <2>1. userPosition' = [userPosition EXCEPT ![u] = new_pos]
    BY DEF Deposit, v, new, fee
  <2>2. CASE pos.open
    <3>1. fee <= pos.strategy_share /\ pos.strategy_share - fee + new <= U64_MAX
      BY <2>2 DEF Deposit, v, new, fee
    <3>2. pos.strategy_share - fee + new \in U64
      BY <3>1, <1>1, <1>3, <1>4 DEF UserPosition, U64
    <3> QED
      BY <2>1, <2>2, <3>2, <1>2 DEF UpdateAfterDeposit, UserPosition, TypeOK
  <2>3. CASE ~pos.open
    <3>1. new \in U64 /\ SHARE_PRECISION \in U64
      <4>1. strategyShares + new <= U64_MAX /\ strategyShares \in Nat
        BY DEF Deposit, v, new, TypeOK, U64
      <4> QED
        BY <4>1, <1>3, PrecisionAssumption DEF U64
    <3> QED
      BY <2>1, <2>3, <3>1 DEF InitializeUser, UserPosition, TypeOK
  <2> QED
    BY <2>2, <2>3
<1>7. vaultX' \in U64 /\ tokenX' \in [Holders -> U64]
  <2>1. /\ vaultX' = vaultX + amount
        /\ tokenX' = [tokenX EXCEPT ![u] = @ - amount]
        /\ amount <= tokenX[u] /\ vaultX + amount <= U64_MAX
    BY DEF Deposit, CanTransfer
  <2>2. tokenX[u] \in U64
    BY DEF TypeOK, Holders
  <2>3. tokenX[u] - amount \in U64
    BY <2>1, <2>2, <1>1, PrecisionAssumption DEF U64
  <2>4. vaultX + amount \in U64
    BY <2>1, <1>1, PrecisionAssumption DEF TypeOK, U64
  <2>5. tokenX' \in [Holders -> U64]
    BY <2>1, <2>3 DEF TypeOK
  <2> QED
    BY <2>1, <2>4, <2>5
<1> QED
  BY <1>5, <1>6, <1>7 DEF Deposit, TypeOK, configVars, Initialized

LEMMA InitiateType ==
  ASSUME TypeOK, PositionTypeOK', NEW u \in Users, NEW shares \in Nat,
         InitiateWithdrawal(u, shares)
  PROVE  TypeOK'
<1> DEFINE v == CurrentShareValue
           pos == userPosition[u]
           performanceFee == PerformanceFeeOf(pos, v)
           withdrawalFee == WithdrawalFeeShares(shares, globalConfig.withdrawal_fee_bps)
           effective == shares - withdrawalFee - performanceFee
<1>1. pos \in UserPosition /\ v \in U64
  BY PriceType DEF TypeOK, InitiateWithdrawal
<1>2. performanceFee \in Nat
  BY <1>1, FeeType DEF InitiateWithdrawal, TypeOK, U64
<1>3. withdrawalFee \in Nat
  BY WithdrawalFeeType DEF TypeOK, GlobalConfig
<1> HIDE DEF v, performanceFee, withdrawalFee
<1>4. /\ shares <= pos.strategy_share
      /\ effective >= 0
      /\ feeShares + performanceFee + withdrawalFee <= U64_MAX
      /\ feeShares' = feeShares + performanceFee + withdrawalFee
  BY DEF InitiateWithdrawal, CanInitiate, v, performanceFee, withdrawalFee
<1>5. pos.strategy_share \in U64 /\ feeShares \in U64
  BY <1>1 DEF UserPosition, TypeOK
<1>6. effective \in U64 /\ pos.strategy_share - shares \in U64 /\ feeShares' \in U64
  BY <1>2, <1>3, <1>4, <1>5, PrecisionAssumption DEF U64
<1>7. WithdrawalAmount(effective, v) \in U64
  BY <1>1, <1>6, WithdrawalAmountType DEF U64
<1>8. now \in Nat /\ WithdrawalTimestamp(now) \in Nat
  BY WithdrawalWindow DEF TypeOK
<1>9. LockWithdrawal(effective, WithdrawalAmount(effective, v)) \in Pending
  BY <1>6, <1>7, <1>8 DEF LockWithdrawal, Pending
<1>10. pendingWithdrawal' \in [Users -> Pending]
  <2>1. pendingWithdrawal' = [pendingWithdrawal EXCEPT ![u] =
                                LockWithdrawal(effective, WithdrawalAmount(effective, v))]
    BY DEF InitiateWithdrawal, v, performanceFee, withdrawalFee
  <2> QED
    BY <2>1, <1>9 DEF TypeOK
<1>11. userPosition' \in [Users -> UserPosition]
  <2>1. userPosition' = [userPosition EXCEPT ![u] = UpdateAfterWithdrawal(pos, shares, v)]
    BY DEF InitiateWithdrawal, v
  <2> QED
    BY <2>1, <1>1, <1>6 DEF UpdateAfterWithdrawal, UserPosition, TypeOK
<1> QED
  BY <1>6, <1>10, <1>11 DEF InitiateWithdrawal, TypeOK, configVars, tokenVars, Initialized

LEMMA ProcessType ==
  ASSUME TypeOK, PositionTypeOK', NEW u \in Users, ProcessWithdrawal(u)
  PROVE  TypeOK'
<1> DEFINE pending == pendingWithdrawal[u]
<1>1. pending.token_amount \in U64 /\ pending.shares_amount \in U64
  BY DEF TypeOK, Pending
<1>2. tokenX[u] \in U64
  BY DEF TypeOK, Holders
<1>3. /\ pending.token_amount <= vaultX
      /\ tokenX[u] + pending.token_amount <= U64_MAX
      /\ pending.shares_amount <= strategyShares
  BY DEF ProcessWithdrawal, CanTransfer
<1>4. /\ vaultX - pending.token_amount \in U64
      /\ tokenX[u] + pending.token_amount \in U64
      /\ strategyShares - pending.shares_amount \in U64
  BY <1>1, <1>2, <1>3, PrecisionAssumption DEF TypeOK, U64
<1>5. NoPending \in Pending
  BY PrecisionAssumption DEF NoPending, Pending, U64
<1>6. /\ tokenX' \in [Holders -> U64]
      /\ pendingWithdrawal' \in [Users -> Pending]
  BY <1>4, <1>5 DEF ProcessWithdrawal, TypeOK
<1> QED
  BY <1>4, <1>6 DEF ProcessWithdrawal, TypeOK, configVars, Initialized

LEMMA ClaimType ==
  ASSUME TypeOK, PositionTypeOK', NEW a \in Admins, NEW shares \in Nat,
         ClaimFees(a, shares)
  PROVE  TypeOK'
<1> DEFINE amount == WithdrawalAmount(shares, CurrentShareValue)
           treasury == globalConfig.treasury
<1>1. amount \in U64
  BY PriceType, WithdrawalAmountType DEF ClaimFees, U64
<1>2. treasury \in Holders /\ tokenX[treasury] \in U64
  BY DEF TypeOK, ClaimFees, IsAdmin, Running, Holders
<1> HIDE DEF amount
<1>3. /\ amount <= vaultX
      /\ tokenX[treasury] + amount <= U64_MAX
      /\ shares <= strategyShares /\ shares <= feeShares
  BY DEF ClaimFees, CanTransfer, amount
<1>4. /\ vaultX - amount \in U64
      /\ tokenX[treasury] + amount \in U64
      /\ strategyShares - shares \in U64
      /\ feeShares - shares \in U64
  BY <1>1, <1>2, <1>3, PrecisionAssumption DEF TypeOK, U64
<1>5. tokenX' = [tokenX EXCEPT ![treasury] = @ + amount] /\ vaultX' = vaultX - amount
  BY DEF ClaimFees, amount
<1>6. tokenX' \in [Holders -> U64]
  BY <1>4, <1>5 DEF TypeOK
<1> QED
  BY <1>4, <1>5, <1>6 DEF ClaimFees, TypeOK, configVars, Initialized

LEMMA VaultType ==
  ASSUME TypeOK, PositionTypeOK', NEW a \in Admins, NEW k,
         NEW x \in U64, NEW y \in U64,
         \/ AddLiquidity(a, k, x, y) \/ RemoveLiquidity(a, k, y)
         \/ ClaimPositionFee(a, k, x, y)
         \/ SwapXForY(a, x, y) \/ SwapYForX(a, x, y)
  PROVE  TypeOK'
<1>1. vaultX \in U64 /\ vaultY \in U64 /\ x \in Nat /\ y \in Nat
  BY DEF TypeOK, U64
<1>2. vaultX' \in U64 /\ vaultY' \in U64
  <2>1. CASE AddLiquidity(a, k, x, y)
    BY <1>1, <2>1, PrecisionAssumption DEF AddLiquidity, U64
  <2>2. CASE RemoveLiquidity(a, k, y)
    <3>1. worth[k] \in Nat
      BY <2>2 DEF RemoveLiquidity, TypeOK, PositionTypeOK
    <3> QED
      BY <1>1, <2>2, <3>1, PrecisionAssumption DEF RemoveLiquidity, U64
  <2>3. CASE ClaimPositionFee(a, k, x, y)
    BY <1>1, <2>3, PrecisionAssumption DEF ClaimPositionFee, U64
  <2>4. CASE SwapXForY(a, x, y)
    BY <1>1, <2>4, PrecisionAssumption DEF SwapXForY, U64
  <2>5. CASE SwapYForX(a, x, y)
    BY <1>1, <2>5, PrecisionAssumption DEF SwapYForX, U64
  <2> QED
    BY <2>1, <2>2, <2>3, <2>4, <2>5
<1>3. UNCHANGED <<configVars, shareVars, tokenX, now>>
  BY DEF AddLiquidity, RemoveLiquidity, ClaimPositionFee, SwapXForY, SwapYForX
<1> QED
  BY <1>2, <1>3 DEF TypeOK, configVars, shareVars, Initialized

\* The instructions and events that touch only positions, or time.
LEMMA OutsideType ==
  ASSUME TypeOK, PositionTypeOK',
         UNCHANGED <<globalConfig, shareVars, tokenVars>>,
         created' \in BOOLEAN, now' \in Nat
  PROVE  TypeOK'
BY DEF TypeOK, shareVars, tokenVars, Initialized

LEMMA TypeInit == Init => TypeOK
<1> SUFFICES ASSUME Init PROVE TypeOK
  OBVIOUS
<1>1. PositionTypeOK
  BY RegistryInit DEF Init, RegistryInv
<1>2. 0 \in U64 /\ Funds \in U64 /\ 0 \in Nat
  BY PrecisionAssumption, AmountsAssumption DEF U64
<1>3. globalConfig \in GlobalConfig /\ ~Initialized
  BY DEF Init, GlobalConfig, Initialized
<1>4. NoUserPosition \in UserPosition /\ NoPending \in Pending
  BY <1>2 DEF NoUserPosition, NoPending, UserPosition, Pending
<1>5. tokenX \in [Holders -> U64]
  BY <1>2 DEF Init
<1>6. /\ userPosition \in [Users -> UserPosition]
      /\ pendingWithdrawal \in [Users -> Pending]
  BY <1>4 DEF Init
<1> QED
  BY <1>1, <1>2, <1>3, <1>5, <1>6 DEF Init, TypeOK

LEMMA TypeStep ==
  ASSUME TypeOK, PositionTypeOK', [Next]_vars
  PROVE  TypeOK'
<1>1. CASE UserNext
  <2>1. ASSUME NEW u \in Users, NEW shares \in 1 .. userPosition[u].strategy_share,
               InitiateWithdrawal(u, shares)
        PROVE  TypeOK'
    <3>1. shares \in Nat
      BY DEF TypeOK, UserPosition, U64
    <3> QED
      BY <2>1, <3>1, InitiateType
  <2> QED
    BY <1>1, <2>1, DepositType, ProcessType DEF UserNext
<1>2. CASE AdminNext
  <2>1. ASSUME NEW a \in Admins, NEW shares \in 0 .. feeShares, ClaimFees(a, shares)
        PROVE  TypeOK'
    <3>1. shares \in Nat
      BY DEF TypeOK, U64
    <3> QED
      BY <2>1, <3>1, ClaimType
  <2>2. ASSUME NEW a \in Admins, NEW k \in Positions,
               OpenPosition(a, k) \/ RetirePosition(a, k)
        PROVE  TypeOK'
    BY <2>2, OutsideType DEF OpenPosition, RetirePosition, configVars, TypeOK
  <2>3. ASSUME NEW a \in Admins, NEW k \in Positions, NEW p \in LiquidityPairs,
               AddLiquidity(a, k, p[1], p[2]) \/ RemoveLiquidity(a, k, p[2])
        PROVE  TypeOK'
    <3>1. p[1] \in U64 /\ p[2] \in U64
      BY AmountsAssumption
    <3> QED
      BY <2>3, <3>1, VaultType
  <2>4. ASSUME NEW a \in Admins, NEW k \in Positions, NEW p \in FeePairs,
               ClaimPositionFee(a, k, p[1], p[2])
        PROVE  TypeOK'
    <3>1. p[1] \in U64 /\ p[2] \in U64
      BY AmountsAssumption
    <3> QED
      BY <2>4, <3>1, VaultType
  <2>5. ASSUME NEW a \in Admins, NEW p \in SwapPairs,
               SwapXForY(a, p[1], p[2]) \/ SwapYForX(a, p[1], p[2])
        PROVE  TypeOK'
    <3>1. p[1] \in U64 /\ p[2] \in U64
      BY AmountsAssumption
    <3> QED
      BY <2>5, <3>1, VaultType
  <2> QED
    BY <1>2, <2>1, <2>2, <2>3, <2>4, <2>5, InitializeType DEF AdminNext
<1>3. CASE WorldNext
  <2>1. CASE CreateStrategy
    BY <2>1, OutsideType DEF CreateStrategy, TypeOK
  <2>2. ASSUME NEW k \in Positions,
               (\E v \in QuotableValues : UpdateQuote(k, v)) \/ (\E w \in Worths : MarketMove(k, w))
        PROVE  TypeOK'
    BY <2>2, OutsideType DEF UpdateQuote, MarketMove, configVars, TypeOK
  <2>3. ASSUME NEW d \in TimeSteps, NextSlot(d)
        PROVE  TypeOK'
    <3>1. now' \in Nat
      BY <2>3, AmountsAssumption DEF NextSlot, TypeOK
    <3> QED
      BY <2>3, <3>1, OutsideType DEF NextSlot, configVars, TypeOK
  <2> QED
    BY <1>3, <2>1, <2>2, <2>3 DEF WorldNext
<1>4. CASE UNCHANGED vars
  BY <1>4 DEF vars, positionVars, configVars, shareVars, tokenVars, TypeOK, Initialized
<1> QED
  BY <1>1, <1>2, <1>3, <1>4 DEF Next

\* The invariant of the types: what the positions need, and the accounts.
TypeInv == RegistryInv /\ TypeOK

LEMMA TypeInvStep ==
  ASSUME TypeInv, [Next]_vars
  PROVE  TypeInv'
<1>1. RegistryInv'
  BY StepMovesRegistry, RegistryStep DEF TypeInv
<1> QED
  BY <1>1, TypeStep DEF TypeInv, RegistryInv

LEMMA TypeInvHolds == Spec => []TypeInv
<1>1. Init => TypeInv
  BY TypeInit, RegistryInit DEF Init, TypeInv
<1>2. TypeInv /\ [Next]_vars => TypeInv'
  BY TypeInvStep
<1> QED
  BY <1>1, <1>2, PTL DEF Spec

\* Every account stays in the range of its fields and a configured strategy
\* has a treasury, so that a fee claim has an account to pay (TypeOK).
THEOREM TypesHold == Spec => []TypeOK
BY TypeInvHolds, PTL DEF TypeInv

\* A quote stamped with this slot is of an open position, and its value is one
\* the position had in this slot unless it was computed from accounts of another
\* pool or of other bins.
THEOREM FreshnessHolds == Spec => []FreshMeansThisSlot
BY UsesRegistry, RegistryFreshness, PTL

-----------------------------------------------------------------------------
(***************************************************************************)
(* Conservation of shares.                                                 *)
(***************************************************************************)
LEMMA LedgersTyped ==
  ASSUME TypeOK
  PROVE  /\ UserShares \in [Users -> Nat]
         /\ PendingShares \in [Users -> Nat]
BY DEF TypeOK, UserShares, PendingShares, UserPosition, Pending, U64

LEMMA SumsTyped ==
  ASSUME TypeOK
  PROVE  SumOver(UserShares) \in Nat /\ SumOver(PendingShares) \in Nat
BY LedgersTyped, SumIsNat, UsersAssumption, PrecisionAssumption

\* One user's shares change: so does the sum, by as much.
LEMMA UserSharesChange ==
  ASSUME TypeOK, TypeOK', NEW u \in Users, NEW p,
         userPosition' = [userPosition EXCEPT ![u] = p]
  PROVE  SumOver(UserShares)' = SumOver(UserShares) - userPosition[u].strategy_share
                                  + p.strategy_share
<1>1. UserShares \in [Users -> Nat] /\ UserShares' \in [Users -> Nat]
  <2>1. TypeOK' => UserShares' \in [Users -> Nat]
    BY DEF TypeOK, UserShares, UserPosition, U64
  <2> QED
    BY <2>1, LedgersTyped
<1>2. /\ \A v \in Users \ {u} : UserShares'[v] = UserShares[v]
      /\ UserShares[u] = userPosition[u].strategy_share
      /\ UserShares'[u] = p.strategy_share
  BY DEF UserShares, TypeOK
<1>3. SumOver(UserShares') = SumOver(UserShares) - UserShares[u] + UserShares'[u]
  BY <1>1, <1>2, SumUpdate, UsersAssumption, PrecisionAssumption
<1> QED
  BY <1>2, <1>3

\* The same of the shares in pending withdrawals.
LEMMA PendingSharesChange ==
  ASSUME TypeOK, TypeOK', NEW u \in Users, NEW p,
         pendingWithdrawal' = [pendingWithdrawal EXCEPT ![u] = p]
  PROVE  SumOver(PendingShares)' = SumOver(PendingShares)
           - pendingWithdrawal[u].shares_amount + p.shares_amount
<1>1. /\ PendingShares \in [Users -> Nat]
      /\ PendingShares' \in [Users -> Nat]
  <2>1. TypeOK' => PendingShares' \in [Users -> Nat]
    BY DEF TypeOK, PendingShares, Pending, U64
  <2> QED
    BY <2>1, LedgersTyped
<1>2. /\ \A v \in Users \ {u} : PendingShares'[v] = PendingShares[v]
      /\ PendingShares[u] = pendingWithdrawal[u].shares_amount
      /\ PendingShares'[u] = p.shares_amount
  BY DEF PendingShares, TypeOK
<1>3. SumOver(PendingShares') = SumOver(PendingShares) - PendingShares[u] + PendingShares'[u]
  BY <1>1, <1>2, SumUpdate, UsersAssumption, PrecisionAssumption
<1> QED
  BY <1>2, <1>3

LEMMA UnchangedSums ==
  /\ UNCHANGED userPosition => SumOver(UserShares)' = SumOver(UserShares)
  /\ UNCHANGED pendingWithdrawal => SumOver(PendingShares)' = SumOver(PendingShares)
BY DEF UserShares, PendingShares

\* An account that does not exist holds no shares.  SharesConserved is not
\* inductive without it: opening an account must not overwrite a balance.
ClosedAccountsEmpty ==
  \A u \in Users :
    /\ ~userPosition[u].open => userPosition[u].strategy_share = 0
    /\ ~pendingWithdrawal[u].open => pendingWithdrawal[u].shares_amount = 0

LedgerInv == ClosedAccountsEmpty /\ SharesConserved

\* An instruction that writes no share keeps the ledger as it is.
LEMMA OtherStepsKeepShares ==
  ASSUME LedgerInv, UNCHANGED shareVars
  PROVE  LedgerInv'
BY UnchangedSums DEF LedgerInv, ClosedAccountsEmpty, SharesConserved, shareVars

LEMMA DepositConserves ==
  ASSUME TypeOK, TypeOK', LedgerInv, NEW u \in Users, NEW amount \in DepositAmounts,
         Deposit(u, amount)
  PROVE  LedgerInv'
<1> DEFINE first == strategyShares = 0
           v == IF first THEN SHARE_PRECISION ELSE CurrentShareValue
           new == IF first THEN amount ELSE SharesForDeposit(amount, v)
           pos == userPosition[u]
           fee == IF pos.open THEN PerformanceFeeOf(pos, v) ELSE 0
           new_pos == IF pos.open THEN UpdateAfterDeposit(pos, new, fee, v)
                      ELSE InitializeUser(new)
<1> HIDE DEF v, new, fee
<1>1. /\ strategyShares' = strategyShares + new
      /\ feeShares' = feeShares + fee
      /\ userPosition' = [userPosition EXCEPT ![u] = new_pos]
      /\ UNCHANGED pendingWithdrawal
  BY DEF Deposit, v, new, fee
<1>2. ~pos.open => fee = 0 /\ pos.strategy_share = 0
  BY DEF fee, LedgerInv, ClosedAccountsEmpty
<1>3. /\ pos.strategy_share \in Int /\ strategyShares \in Int /\ strategyShares' \in Int
      /\ feeShares \in Int /\ feeShares' \in Int
  BY DEF TypeOK, UserPosition, U64
<1>4. new_pos.strategy_share = IF pos.open THEN pos.strategy_share - fee + new ELSE new
  BY DEF UpdateAfterDeposit, InitializeUser
<1>5. new \in Int /\ fee \in Int
  <2>1. CASE pos.open
    <3>1. fee \in Nat
      <4>1. pos \in UserPosition /\ globalConfig \in GlobalConfig
        BY DEF TypeOK
      <4>2. v \in U64
        BY PriceType, PrecisionAssumption DEF Deposit, v, U64
      <4> QED
        BY <4>1, <4>2, <2>1, FeeType DEF Deposit, v, fee, U64
    <3>2. new \in Nat
      BY DepositMintsNat DEF v, new
    <3> QED
      BY <3>1, <3>2
  <2>2. CASE ~pos.open
    BY <2>2, <1>2, DepositMintsNat DEF v, new
  <2> QED
    BY <2>1, <2>2
<1>6. /\ SumOver(UserShares)' = SumOver(UserShares) - pos.strategy_share
                                  + new_pos.strategy_share
      /\ SumOver(PendingShares)' = SumOver(PendingShares)
  BY <1>1, UserSharesChange, UnchangedSums
<1>7. SumOver(UserShares) \in Int /\ SumOver(PendingShares) \in Int
  BY SumsTyped
<1>8. strategyShares = SumOver(UserShares) + feeShares + SumOver(PendingShares)
  BY DEF LedgerInv, SharesConserved
<1>9. strategyShares' = SumOver(UserShares)' + feeShares' + SumOver(PendingShares)'
  <2>1. CASE pos.open
    BY <2>1, <1>1, <1>3, <1>4, <1>5, <1>6, <1>7, <1>8
  <2>2. CASE ~pos.open
    BY <2>2, <1>1, <1>2, <1>3, <1>4, <1>5, <1>6, <1>7, <1>8
  <2> QED
    BY <2>1, <2>2
<1>10. new_pos.open = TRUE
  BY DEF UpdateAfterDeposit, InitializeUser
<1>11. ClosedAccountsEmpty'
  BY <1>1, <1>10 DEF LedgerInv, ClosedAccountsEmpty, TypeOK
<1> QED
  BY <1>9, <1>11 DEF LedgerInv, SharesConserved

LEMMA InitiateConserves ==
  ASSUME TypeOK, TypeOK', LedgerInv, NEW u \in Users, NEW shares \in Nat,
         InitiateWithdrawal(u, shares)
  PROVE  LedgerInv'
<1> DEFINE v == CurrentShareValue
           pos == userPosition[u]
           performanceFee == PerformanceFeeOf(pos, v)
           withdrawalFee == WithdrawalFeeShares(shares, globalConfig.withdrawal_fee_bps)
           effective == shares - withdrawalFee - performanceFee
           pending == LockWithdrawal(effective, WithdrawalAmount(effective, v))
           new_pos == UpdateAfterWithdrawal(pos, shares, v)
<1>1. performanceFee \in Nat /\ withdrawalFee \in Nat
  <2>1. pos \in UserPosition /\ v \in U64
    BY PriceType DEF TypeOK, InitiateWithdrawal
  <2> QED
    BY <2>1, FeeType, WithdrawalFeeType DEF InitiateWithdrawal, TypeOK, U64, GlobalConfig
<1> HIDE DEF v, performanceFee, withdrawalFee
<1>2. /\ strategyShares' = strategyShares
      /\ feeShares' = feeShares + performanceFee + withdrawalFee
      /\ userPosition' = [userPosition EXCEPT ![u] = new_pos]
      /\ pendingWithdrawal' = [pendingWithdrawal EXCEPT ![u] = pending]
      /\ pos.open /\ ~pendingWithdrawal[u].open
  BY DEF InitiateWithdrawal, CanInitiate, v, performanceFee, withdrawalFee
<1>3. /\ pos.strategy_share \in Int /\ strategyShares \in Int /\ feeShares \in Int
  BY DEF TypeOK, UserPosition, U64
<1>4. /\ new_pos.strategy_share = pos.strategy_share - shares
      /\ pending.shares_amount = effective
      /\ pendingWithdrawal[u].shares_amount = 0
      /\ new_pos.open = TRUE /\ pending.open = TRUE
  BY <1>2 DEF UpdateAfterWithdrawal, LockWithdrawal, LedgerInv, ClosedAccountsEmpty
<1> HIDE DEF pending, new_pos
<1>5. /\ SumOver(UserShares)' = SumOver(UserShares) - pos.strategy_share
                                  + new_pos.strategy_share
      /\ SumOver(PendingShares)' = SumOver(PendingShares)
                                  - pendingWithdrawal[u].shares_amount
                                  + pending.shares_amount
  BY <1>2, UserSharesChange, PendingSharesChange
<1>6. SumOver(UserShares) \in Int /\ SumOver(PendingShares) \in Int
  BY SumsTyped
<1>7. strategyShares = SumOver(UserShares) + feeShares + SumOver(PendingShares)
  BY DEF LedgerInv, SharesConserved
<1>8. strategyShares' = SumOver(UserShares)' + feeShares' + SumOver(PendingShares)'
  BY <1>1, <1>2, <1>3, <1>4, <1>5, <1>6, <1>7
<1>9. ClosedAccountsEmpty'
  BY <1>2, <1>4 DEF LedgerInv, ClosedAccountsEmpty, TypeOK
<1> QED
  BY <1>8, <1>9 DEF LedgerInv, SharesConserved

LEMMA ProcessConserves ==
  ASSUME TypeOK, TypeOK', LedgerInv, NEW u \in Users, ProcessWithdrawal(u)
  PROVE  LedgerInv'
<1> DEFINE pending == pendingWithdrawal[u]
<1>1. /\ strategyShares' = strategyShares - pending.shares_amount
      /\ UNCHANGED feeShares
      /\ UNCHANGED userPosition
      /\ pendingWithdrawal' = [pendingWithdrawal EXCEPT ![u] = NoPending]
  BY DEF ProcessWithdrawal
<1>2. /\ pending.shares_amount \in Int /\ strategyShares \in Int /\ feeShares \in Int
      /\ NoPending.shares_amount = 0
  BY DEF TypeOK, Pending, U64, NoPending
<1>3. /\ SumOver(UserShares)' = SumOver(UserShares)
      /\ SumOver(PendingShares)' = SumOver(PendingShares) - pending.shares_amount
                                     + NoPending.shares_amount
  BY <1>1, UnchangedSums, PendingSharesChange
<1>4. SumOver(UserShares) \in Int /\ SumOver(PendingShares) \in Int
  BY SumsTyped
<1>5. SharesConserved'
  BY <1>1, <1>2, <1>3, <1>4 DEF LedgerInv, SharesConserved
<1>6. ClosedAccountsEmpty'
  BY <1>1, <1>2 DEF LedgerInv, ClosedAccountsEmpty, TypeOK
<1> QED
  BY <1>5, <1>6 DEF LedgerInv

LEMMA ClaimConserves ==
  ASSUME TypeOK, LedgerInv, NEW a \in Admins, NEW shares \in Nat, ClaimFees(a, shares)
  PROVE  LedgerInv'
<1>1. /\ strategyShares' = strategyShares - shares
      /\ feeShares' = feeShares - shares
      /\ UNCHANGED userPosition
      /\ UNCHANGED pendingWithdrawal
  BY DEF ClaimFees
<1>2. /\ SumOver(UserShares)' = SumOver(UserShares)
      /\ SumOver(PendingShares)' = SumOver(PendingShares)
  BY <1>1, UnchangedSums
<1>3. strategyShares \in Int /\ feeShares \in Int
  BY DEF TypeOK, U64
<1>4. SumOver(UserShares) \in Int /\ SumOver(PendingShares) \in Int
  BY SumsTyped
<1>5. SharesConserved'
  BY <1>1, <1>2, <1>3, <1>4 DEF LedgerInv, SharesConserved
<1>6. ClosedAccountsEmpty'
  BY <1>1 DEF LedgerInv, ClosedAccountsEmpty
<1> QED
  BY <1>5, <1>6 DEF LedgerInv

\* Only four instructions write shares or move the tokens of users and treasury.
LEMMA StepKinds ==
  ASSUME [Next]_vars
  PROVE  \/ \E u \in Users, amount \in DepositAmounts : Deposit(u, amount)
         \/ \E u \in Users : \E shares \in 1 .. userPosition[u].strategy_share :
              InitiateWithdrawal(u, shares)
         \/ \E u \in Users : ProcessWithdrawal(u)
         \/ \E a \in Admins, shares \in 0 .. feeShares : ClaimFees(a, shares)
         \/ UNCHANGED <<shareVars, tokenX>>
<1>1. CASE UserNext
  BY <1>1 DEF UserNext
<1>2. CASE AdminNext
  <2>1. ASSUME NEW a \in Admins, Initialize(a) \/ UpdateGlobalConfig(a)
        PROVE  UNCHANGED <<shareVars, tokenX>>
    BY <2>1 DEF Initialize, UpdateGlobalConfig, tokenVars
  <2>2. ASSUME NEW a \in Admins, NEW k \in Positions,
               OpenPosition(a, k) \/ RetirePosition(a, k)
        PROVE  UNCHANGED <<shareVars, tokenX>>
    BY <2>2 DEF OpenPosition, RetirePosition, tokenVars
  <2>3. ASSUME NEW a \in Admins, NEW k \in Positions, NEW x, NEW y,
               \/ AddLiquidity(a, k, x, y) \/ RemoveLiquidity(a, k, y)
               \/ ClaimPositionFee(a, k, x, y)
        PROVE  UNCHANGED <<shareVars, tokenX>>
    BY <2>3 DEF AddLiquidity, RemoveLiquidity, ClaimPositionFee
  <2>4. ASSUME NEW a \in Admins, NEW in, NEW out,
               SwapXForY(a, in, out) \/ SwapYForX(a, in, out)
        PROVE  UNCHANGED <<shareVars, tokenX>>
    BY <2>4 DEF SwapXForY, SwapYForX
  <2> QED
    BY <1>2, <2>1, <2>2, <2>3, <2>4 DEF AdminNext
<1>3. CASE WorldNext
  BY <1>3 DEF WorldNext, CreateStrategy, UpdateQuote, MarketMove, NextSlot, tokenVars
<1>4. CASE UNCHANGED vars
  BY <1>4 DEF vars, tokenVars
<1> QED
  BY <1>1, <1>2, <1>3, <1>4 DEF Next

\* A record of a pending withdrawal keeps the window its time of initiation
\* gives it.
PendingTimed ==
  \A u \in Users : pendingWithdrawal[u].open =>
    pendingWithdrawal[u].available_timestamp =
      WithdrawalTimestamp(pendingWithdrawal[u].initiation_timestamp)

\* The inductive invariant.
Inv == TypeInv /\ LedgerInv /\ PendingTimed

LEMMA InvInit == Init => Inv
<1> SUFFICES ASSUME Init PROVE Inv
  OBVIOUS
<1>1. TypeInv
  BY TypeInit, RegistryInit DEF Init, TypeInv
<1>2. ClosedAccountsEmpty /\ PendingTimed
  BY DEF Init, ClosedAccountsEmpty, PendingTimed, NoUserPosition, NoPending
<1>3. SharesConserved
  <2>1. UserShares = [u \in Users |-> 0] /\ PendingShares = [u \in Users |-> 0]
    BY DEF Init, UserShares, PendingShares, NoUserPosition, NoPending
  <2>2. SumOver(UserShares) = 0 /\ SumOver(PendingShares) = 0
    BY <2>1, SumOfZeros
  <2> QED
    BY <2>2 DEF Init, SharesConserved
<1> QED
  BY <1>1, <1>2, <1>3 DEF Inv, LedgerInv

LEMMA LedgerStep ==
  ASSUME Inv, TypeOK', [Next]_vars
  PROVE  LedgerInv'
<1>1. ASSUME NEW u \in Users, NEW shares \in 1 .. userPosition[u].strategy_share,
             InitiateWithdrawal(u, shares)
      PROVE  LedgerInv'
  <2>1. shares \in Nat
    BY DEF Inv, TypeInv, TypeOK, UserPosition, U64
  <2> QED
    BY <1>1, <2>1, InitiateConserves DEF Inv, TypeInv
<1>2. ASSUME NEW a \in Admins, NEW shares \in 0 .. feeShares, ClaimFees(a, shares)
      PROVE  LedgerInv'
  <2>1. shares \in Nat
    BY DEF Inv, TypeInv, TypeOK, U64
  <2> QED
    BY <1>2, <2>1, ClaimConserves DEF Inv, TypeInv
<1> QED
  BY <1>1, <1>2, StepKinds, DepositConserves, ProcessConserves, OtherStepsKeepShares
     DEF Inv, TypeInv

LEMMA PendingTimedStep ==
  ASSUME Inv, [Next]_vars
  PROVE  PendingTimed'
<1>1. pendingWithdrawal \in [Users -> Pending]
  BY DEF Inv, TypeInv, TypeOK
<1>2. CASE UNCHANGED pendingWithdrawal
  BY <1>2 DEF Inv, PendingTimed
<1>3. ASSUME NEW u \in Users, NEW shares, InitiateWithdrawal(u, shares)
      PROVE  PendingTimed'
  BY <1>1, <1>3 DEF InitiateWithdrawal, LockWithdrawal, Inv, PendingTimed
<1>4. ASSUME NEW u \in Users, ProcessWithdrawal(u)
      PROVE  PendingTimed'
  BY <1>1, <1>4 DEF ProcessWithdrawal, NoPending, Inv, PendingTimed
<1> QED
  BY <1>2, <1>3, <1>4, StepKinds DEF Deposit, ClaimFees, shareVars

LEMMA InvStep ==
  ASSUME Inv, [Next]_vars
  PROVE  Inv'
<1>1. TypeInv'
  BY TypeInvStep DEF Inv
<1> QED
  BY <1>1, LedgerStep, PendingTimedStep DEF Inv, TypeInv

LEMMA InvHolds == Spec => []Inv
<1>1. Init => Inv
  BY InvInit
<1>2. Inv /\ [Next]_vars => Inv'
  BY InvStep
<1> QED
  BY <1>1, <1>2, PTL DEF Spec

\* Every issued share has exactly one owner: a user, the fee pool or a
\* withdrawal in progress (mint_shares, burn_shares, add_fee_shares,
\* burn_fee_shares and the accounts of the users).
THEOREM SharesAreConserved == Spec => []SharesConserved
BY InvHolds, PTL DEF Inv, LedgerInv

-----------------------------------------------------------------------------
(***************************************************************************)
(* What a step may never do.                                               *)
(***************************************************************************)
\* The total is a number, and of its parts a user's instruction or a fee claim
\* changes the vault alone.
LEMMA TotalType ==
  ASSUME Inv
  PROVE  TotalPositionsValue \in Nat /\ TotalStrategyValue \in Nat
BY PositionsValueIsNat DEF Inv, TypeInv, TypeOK, TotalStrategyValue, U64

LEMMA PositionsKeepTotal ==
  ASSUME UNCHANGED positionVars
  PROVE  TotalPositionsValue' = TotalPositionsValue
BY DEF positionVars, TotalPositionsValue, QuotedValues

LEMMA PaysAsLockedStep ==
  ASSUME Inv, [Next]_vars
  PROVE  PaysAsLocked
<1>1. /\ tokenX \in [Holders -> U64] /\ Users \subseteq Holders
      /\ pendingWithdrawal \in [Users -> Pending]
  BY DEF Inv, TypeInv, TypeOK, Holders
<1>2. ASSUME NEW u \in Users, NEW amount \in DepositAmounts, Deposit(u, amount)
      PROVE  PaysAsLocked
  <2>1. amount \in Nat /\ tokenX' = [tokenX EXCEPT ![u] = @ - amount]
    BY <1>2, AmountsAssumption DEF Deposit, U64
  <2>2. \A w \in Users : tokenX'[w] <= tokenX[w]
    BY <1>1, <2>1 DEF U64
  <2> QED
    BY <1>1, <2>1, <2>2 DEF PaysAsLocked, U64
<1>3. ASSUME NEW u \in Users, ProcessWithdrawal(u)
      PROVE  PaysAsLocked
  <2> DEFINE p == pendingWithdrawal[u]
  <2>1. /\ p \in Pending /\ now \in Nat
        /\ p.available_timestamp = WithdrawalTimestamp(p.initiation_timestamp)
        /\ now >= p.available_timestamp
    BY <1>1, <1>3 DEF ProcessWithdrawal, IsReady, Inv, TypeInv, TypeOK, PendingTimed
  <2>2. /\ now - p.initiation_timestamp > SECONDS_IN_HOUR
        /\ p.available_timestamp - p.initiation_timestamp <= 2 * SECONDS_IN_HOUR
    <3>1. p.initiation_timestamp \in Nat
      BY <2>1 DEF Pending
    <3>2. /\ WithdrawalTimestamp(p.initiation_timestamp) \in Nat
          /\ WithdrawalTimestamp(p.initiation_timestamp) - p.initiation_timestamp
               > SECONDS_IN_HOUR
          /\ WithdrawalTimestamp(p.initiation_timestamp) - p.initiation_timestamp
               <= 2 * SECONDS_IN_HOUR
      BY <3>1, WithdrawalWindow
    <3> QED
      BY <2>1, <3>1, <3>2, HourAssumption
  <2>3. Processed(u)
    BY <1>1, <1>3 DEF ProcessWithdrawal, Processed, NoPending
  <2>4. tokenX' = [tokenX EXCEPT ![u] = @ + p.token_amount]
    BY <1>3 DEF ProcessWithdrawal
  <2>5. \A w \in Users \ {u} : tokenX'[w] = tokenX[w]
    BY <1>1, <2>4
  <2>6. tokenX'[u] = tokenX[u] + p.token_amount
    BY <1>1, <2>4
  <2>7. \A w \in Users : tokenX[w] \in Nat
    BY <1>1 DEF U64
  <2> QED
    BY <2>1, <2>2, <2>3, <2>5, <2>6, <2>7 DEF PaysAsLocked
<1>4. ASSUME NEW a \in Admins, NEW shares, ClaimFees(a, shares)
      PROVE  PaysAsLocked
  <2>1. \A w \in Users : tokenX'[w] = tokenX[w]
    <3>1. globalConfig.treasury \in Treasuries
      BY <1>4 DEF ClaimFees, IsAdmin, Running, Inv, TypeInv, TypeOK
    <3> QED
      BY <1>1, <1>4, <3>1, PartiesAssumption DEF ClaimFees
  <2>2. \A w \in Users : tokenX[w] \in Nat
    BY <1>1 DEF U64
  <2> QED
    BY <2>1, <2>2 DEF PaysAsLocked
<1>5. CASE UNCHANGED tokenX
  <2>1. \A w \in Users : tokenX[w] \in Nat
    BY <1>1 DEF U64
  <2> QED
    BY <2>1, <1>5 DEF PaysAsLocked
<1>6. ASSUME NEW u \in Users, NEW shares, InitiateWithdrawal(u, shares)
      PROVE  UNCHANGED tokenX
  BY <1>6 DEF InitiateWithdrawal, tokenVars
<1> QED
  BY <1>2, <1>3, <1>4, <1>5, <1>6, StepKinds

\* A user is paid only by a withdrawal of more than an hour before, and only
\* the amount locked then (process_withdrawal, calculate_withdrawal_timestamp).
THEOREM PaymentsAreLocked == Spec => PaidAsLocked
<1>1. Inv /\ [Next]_vars => [PaysAsLocked]_vars
  BY PaysAsLockedStep
<1> QED
  BY <1>1, InvHolds, PTL DEF Spec, PaidAsLocked

LEMMA KeepsPendingStep ==
  ASSUME Inv, [Next]_vars
  PROVE  KeepsPending
<1>1. /\ tokenX \in [Holders -> U64] /\ Users \subseteq Holders
      /\ pendingWithdrawal \in [Users -> Pending]
  BY DEF Inv, TypeInv, TypeOK, Holders
<1>2. CASE UNCHANGED pendingWithdrawal
  BY <1>2 DEF KeepsPending
<1>3. ASSUME NEW u \in Users, NEW shares, InitiateWithdrawal(u, shares)
      PROVE  KeepsPending
  BY <1>1, <1>3 DEF InitiateWithdrawal, CanInitiate, KeepsPending
<1>4. ASSUME NEW u \in Users, ProcessWithdrawal(u)
      PROVE  KeepsPending
  BY <1>1, <1>4 DEF ProcessWithdrawal, NoPending, KeepsPending, Processed
<1> QED
  BY <1>2, <1>3, <1>4, StepKinds DEF Deposit, ClaimFees, shareVars

\* The record of a pending withdrawal stays until its user processes it.
THEOREM PendingStaysLocked == Spec => PendingIsLocked
<1>1. Inv /\ [Next]_vars => [KeepsPending]_vars
  BY KeepsPendingStep
<1> QED
  BY <1>1, InvHolds, PTL DEF Spec, PendingIsLocked

LEMMA LocksFairlyStep ==
  ASSUME Inv, [Next]_vars
  PROVE  LocksFairly
<1>1. pendingWithdrawal \in [Users -> Pending]
  BY DEF Inv, TypeInv, TypeOK
<1>2. ASSUME NEW u \in Users, NEW shares \in 1 .. userPosition[u].strategy_share,
             InitiateWithdrawal(u, shares)
      PROVE  LocksFairly
  <2> DEFINE v == CurrentShareValue
             performanceFee == PerformanceFeeOf(userPosition[u], v)
             withdrawalFee == WithdrawalFeeShares(shares, globalConfig.withdrawal_fee_bps)
             effective == shares - withdrawalFee - performanceFee
  <2>1. shares \in Nat
    BY DEF Inv, TypeInv, TypeOK, UserPosition, U64
  <2>2. /\ pendingWithdrawal' = [pendingWithdrawal EXCEPT ![u] =
              LockWithdrawal(effective, WithdrawalAmount(effective, v))]
        /\ effective >= 0
    BY <1>2 DEF InitiateWithdrawal
  <2>3. effective \in Nat
    <3>1. userPosition[u] \in UserPosition /\ v \in U64 /\ globalConfig \in GlobalConfig
      BY <1>2, PriceType DEF Inv, TypeInv, TypeOK, InitiateWithdrawal
    <3>2. performanceFee \in Nat
      BY <1>2, <3>1, FeeType DEF InitiateWithdrawal, U64
    <3>3. withdrawalFee \in Nat
      BY <2>1, <3>1, WithdrawalFeeType DEF GlobalConfig
    <3> HIDE DEF performanceFee, withdrawalFee
    <3> QED
      BY <2>1, <2>2, <3>2, <3>3
  <2> HIDE DEF effective
  <2>4. WithdrawalAmount(effective, v) * strategyShares <= effective * TotalStrategyValue
    <3>1. strategyShares \in Nat /\ TotalStrategyValue \in Nat
      BY TotalType DEF Inv, TypeInv, TypeOK, U64
    <3>2. \A n \in Nat :
            WithdrawalAmount(n, ShareValue(TotalStrategyValue, strategyShares))
              * strategyShares <= n * TotalStrategyValue
      BY <3>1, WithdrawalIsFair
    <3> QED
      BY <2>3, <3>2 DEF CurrentShareValue
  <2>5. /\ pendingWithdrawal'[u].token_amount = WithdrawalAmount(effective, v)
        /\ pendingWithdrawal'[u].shares_amount = effective
        /\ \A w \in Users \ {u} : pendingWithdrawal'[w] = pendingWithdrawal[w]
    BY <1>1, <2>2 DEF LockWithdrawal
  <2> QED
    BY <2>4, <2>5 DEF LocksFairly
<1>3. ASSUME NEW u \in Users, ProcessWithdrawal(u)
      PROVE  LocksFairly
  BY <1>1, <1>3 DEF ProcessWithdrawal, NoPending, LocksFairly
<1>4. CASE UNCHANGED pendingWithdrawal
  BY <1>4 DEF LocksFairly
<1> QED
  BY <1>2, <1>3, <1>4, StepKinds DEF Deposit, ClaimFees, shareVars

\* A withdrawal locks at most its shares' part of the recorded value.
THEOREM LocksAreFair == Spec => LockedAmountIsFair
<1>1. Inv /\ [Next]_vars => [LocksFairly]_vars
  BY LocksFairlyStep
<1> QED
  BY <1>1, InvHolds, PTL DEF Spec, LockedAmountIsFair

\* A user who withdraws everything covers both fees, whatever happened to the
\* price and to the configuration since the user's last record.
THEOREM WithdrawingAllCoversFees == Spec => []FeesLeaveRoom
<1>1. Inv => FeesLeaveRoom
  <2> SUFFICES ASSUME Inv, NEW u \in Users,
                      userPosition[u].last_share_value \in 1 .. CurrentShareValue,
                      RatesLeaveRoom(userPosition[u])
               PROVE  PerformanceFeeOf(userPosition[u], CurrentShareValue)
                        + WithdrawalFeeShares(userPosition[u].strategy_share,
                                              globalConfig.withdrawal_fee_bps)
                          <= userPosition[u].strategy_share
    BY DEF FeesLeaveRoom
  <2>1. userPosition[u].strategy_share \in Nat /\ CurrentShareValue \in Nat
    <3>1. userPosition[u].strategy_share \in Nat /\ strategyShares \in Nat
      BY DEF Inv, TypeInv, TypeOK, UserPosition, U64
    <3>2. CurrentShareValue \in U64
      BY <3>1, TotalType, ShareValueType DEF CurrentShareValue
    <3> QED
      BY <3>1, <3>2 DEF U64
  <2>2. globalConfig.performance_fee_bps \in Nat /\ globalConfig.withdrawal_fee_bps \in Nat
    BY DEF Inv, TypeInv, TypeOK, GlobalConfig
  <2>3. /\ userPosition[u].last_share_value \in Nat \ {0}
        /\ userPosition[u].last_share_value <= CurrentShareValue
    BY <2>1
  <2> QED
    BY <2>1, <2>2, <2>3, FeesFit DEF RatesLeaveRoom, PerformanceFeeOf
<1> QED
  BY <1>1, InvHolds, PTL

LEMMA PriceIsExact ==
  ASSUME Inv, PriceFits, strategyShares > 0
  PROVE  /\ CurrentShareValue = ExactShareValue(TotalStrategyValue, strategyShares)
         /\ CurrentShareValue \in Nat
         /\ strategyShares \in Nat \ {0}
<1>1. strategyShares \in Nat \ {0}
  BY DEF Inv, TypeInv, TypeOK, U64
<1> QED
  BY <1>1, TotalType, ShareValueExact DEF PriceFits, CurrentShareValue

\* What a deposit into a strategy with shares does to total and shares.
LEMMA DepositMoves ==
  ASSUME Inv, PriceFits, strategyShares > 0,
         NEW u \in Users, NEW amount \in DepositAmounts, Deposit(u, amount)
  PROVE  LET new == SharesForDeposit(amount, CurrentShareValue)
         IN  /\ amount \in Nat /\ new \in Nat
             /\ TotalStrategyValue' = TotalStrategyValue + amount
             /\ vaultX' - vaultX = amount
             /\ strategyShares' = strategyShares + new
             /\ new * ExactShareValue(TotalStrategyValue, strategyShares)
                  <= amount * SHARE_PRECISION
<1> DEFINE v == CurrentShareValue
           new == SharesForDeposit(amount, v)
<1>1. amount \in Nat
  BY AmountsAssumption DEF U64
<1>2. strategyShares # 0
  BY DEF Inv, TypeInv, TypeOK, U64
<1>3. v \in Nat \ {0} /\ v = ExactShareValue(TotalStrategyValue, strategyShares)
  BY <1>2, PriceIsExact DEF Deposit, DepositComputes
<1>4. new \in Nat /\ new * v <= amount * SHARE_PRECISION
  BY <1>1, <1>3, NatProduct, Division, PrecisionAssumption DEF SharesForDeposit
<1>5. strategyShares' = strategyShares + new /\ vaultX' = vaultX + amount
  BY <1>2 DEF Deposit
<1>6. TotalPositionsValue' = TotalPositionsValue
  BY PositionsKeepTotal DEF Deposit
<1>7. vaultX \in Nat /\ TotalPositionsValue \in Nat
  BY TotalType DEF Inv, TypeInv, TypeOK, U64
<1>8. TotalStrategyValue' = TotalStrategyValue + amount /\ vaultX' - vaultX = amount
  BY <1>1, <1>5, <1>6, <1>7 DEF TotalStrategyValue
<1> QED
  BY <1>1, <1>3, <1>4, <1>5, <1>8

LEMMA MintsAtMostDepositStep ==
  ASSUME Inv, [Next]_vars
  PROVE  MintsAtMostDeposit
<1> SUFFICES ASSUME vaultX' > vaultX, strategyShares' > strategyShares,
                    PriceFits, strategyShares > 0
             PROVE  (strategyShares' - strategyShares)
                        * ExactShareValue(TotalStrategyValue', strategyShares')
                      <= (vaultX' - vaultX) * SHARE_PRECISION
  BY DEF MintsAtMostDeposit
<1>1. strategyShares \in Nat \ {0}
  BY PriceIsExact
<1>2. PICK u \in Users, amount \in DepositAmounts : Deposit(u, amount)
  <2>1. ASSUME NEW u \in Users, ProcessWithdrawal(u)
        PROVE  FALSE
    <3>1. strategyShares' = strategyShares - pendingWithdrawal[u].shares_amount
      BY <2>1 DEF ProcessWithdrawal
    <3>2. pendingWithdrawal[u].shares_amount \in Nat
      BY DEF Inv, TypeInv, TypeOK, Pending, U64
    <3> QED
      BY <3>1, <3>2, <1>1
  <2>2. ASSUME NEW a \in Admins, NEW shares \in 0 .. feeShares, ClaimFees(a, shares)
        PROVE  FALSE
    <3>1. shares \in Nat
      BY DEF Inv, TypeInv, TypeOK, U64
    <3> QED
      BY <2>2, <3>1, <1>1 DEF ClaimFees
  <2>3. strategyShares' # strategyShares
    BY <1>1
  <2> QED
    BY <2>1, <2>2, <2>3, StepKinds DEF InitiateWithdrawal, shareVars
<1> DEFINE new == SharesForDeposit(amount, CurrentShareValue)
<1>3. /\ amount \in Nat /\ new \in Nat
      /\ TotalStrategyValue' = TotalStrategyValue + amount
      /\ vaultX' - vaultX = amount
      /\ strategyShares' = strategyShares + new
      /\ new * ExactShareValue(TotalStrategyValue, strategyShares)
           <= amount * SHARE_PRECISION
  BY <1>2, DepositMoves
<1> HIDE DEF new
<1>4. new * ExactShareValue(TotalStrategyValue + amount, strategyShares + new)
        <= amount * SHARE_PRECISION
  BY <1>1, <1>3, TotalType, MintIsNoGain
<1>5. strategyShares' - strategyShares = new
  BY <1>1, <1>3
<1> QED
  BY <1>3, <1>4, <1>5

\* A depositor cannot gain from rounding (calculate_shares_for_deposit).
THEOREM DepositsDoNotProfit == Spec => DepositCannotProfit
<1>1. Inv /\ [Next]_vars => [MintsAtMostDeposit]_vars
  BY MintsAtMostDepositStep
<1> QED
  BY <1>1, InvHolds, PTL DEF Spec, DepositCannotProfit

LEMMA KeepsShareValueStep ==
  ASSUME Inv, [Next]_vars
  PROVE  KeepsShareValue
<1> SUFFICES ASSUME tokenX' # tokenX, PriceFits,
                    strategyShares > 0, strategyShares' > 0,
                    \A u \in Users : Processed(u) =>
                      pendingWithdrawal[u].token_amount <=
                        WithdrawalAmount(pendingWithdrawal[u].shares_amount,
                                         CurrentShareValue)
             PROVE  ExactShareValue(TotalStrategyValue', strategyShares') >=
                      ExactShareValue(TotalStrategyValue, strategyShares)
  BY DEF KeepsShareValue
<1>1. /\ strategyShares \in Nat \ {0} /\ CurrentShareValue \in Nat
      /\ CurrentShareValue = ExactShareValue(TotalStrategyValue, strategyShares)
      /\ TotalStrategyValue \in Nat /\ TotalPositionsValue \in Nat /\ vaultX \in Nat
  BY PriceIsExact, TotalType DEF Inv, TypeInv, TypeOK, U64
<1>2. ASSUME NEW u \in Users, NEW amount \in DepositAmounts, Deposit(u, amount)
      PROVE  ExactShareValue(TotalStrategyValue', strategyShares') >=
               ExactShareValue(TotalStrategyValue, strategyShares)
  BY <1>1, <1>2, DepositMoves, MintKeepsPrice
\* n shares leave the ledger and at most their price in tokens leaves the vault.
<1>3. ASSUME NEW n \in Nat, NEW a \in Nat,
             a <= WithdrawalAmount(n, CurrentShareValue), a <= vaultX,
             vaultX' = vaultX - a, strategyShares' = strategyShares - n,
             UNCHANGED positionVars
      PROVE  ExactShareValue(TotalStrategyValue', strategyShares') >=
               ExactShareValue(TotalStrategyValue, strategyShares)
  <2>1. TotalStrategyValue' = TotalStrategyValue - a /\ a <= TotalStrategyValue
    BY <1>1, <1>3, PositionsKeepTotal DEF TotalStrategyValue
  <2>2. n < strategyShares
    BY <1>1, <1>3
  <2>3. a * SHARE_PRECISION <= n * CurrentShareValue
    <3>1. /\ WithdrawalAmount(n, CurrentShareValue) \in Nat
          /\ WithdrawalAmount(n, CurrentShareValue) * SHARE_PRECISION
               <= n * CurrentShareValue
      BY <1>1, WithdrawalRoundsDown
    <3>2. a * SHARE_PRECISION
            <= WithdrawalAmount(n, CurrentShareValue) * SHARE_PRECISION
      BY <1>3, <3>1, ProductIsMonotonic, PrecisionAssumption
    <3>3. /\ a * SHARE_PRECISION \in Nat
          /\ WithdrawalAmount(n, CurrentShareValue) * SHARE_PRECISION \in Nat
          /\ n * CurrentShareValue \in Nat
      BY <1>1, <3>1, NatProduct, PrecisionAssumption
    <3> QED
      BY <3>1, <3>2, <3>3
  <2> QED
    BY <1>1, <1>3, <2>1, <2>2, <2>3, BurnKeepsPrice
<1>4. ASSUME NEW u \in Users, ProcessWithdrawal(u)
      PROVE  ExactShareValue(TotalStrategyValue', strategyShares') >=
               ExactShareValue(TotalStrategyValue, strategyShares)
  <2> DEFINE p == pendingWithdrawal[u]
  <2>1. p.shares_amount \in Nat /\ p.token_amount \in Nat
    BY DEF Inv, TypeInv, TypeOK, Pending, U64
  <2>2. Processed(u)
    BY <1>4 DEF ProcessWithdrawal, Processed, NoPending, Inv, TypeInv, TypeOK
  <2>3. p.token_amount <= WithdrawalAmount(p.shares_amount, CurrentShareValue)
    BY <2>2
  <2>4. /\ vaultX' = vaultX - p.token_amount /\ p.token_amount <= vaultX
        /\ strategyShares' = strategyShares - p.shares_amount
        /\ UNCHANGED positionVars
    BY <1>4 DEF ProcessWithdrawal, CanTransfer
  <2> QED
    BY <1>3, <2>1, <2>3, <2>4
<1>5. ASSUME NEW a \in Admins, NEW shares \in 0 .. feeShares, ClaimFees(a, shares)
      PROVE  ExactShareValue(TotalStrategyValue', strategyShares') >=
               ExactShareValue(TotalStrategyValue, strategyShares)
  <2> DEFINE amount == WithdrawalAmount(shares, CurrentShareValue)
  <2>1. shares \in Nat
    BY DEF Inv, TypeInv, TypeOK, U64
  <2>2. amount \in Nat
    BY <1>1, <2>1, WithdrawalAmountType DEF U64
  <2>3. /\ vaultX' = vaultX - amount /\ amount <= vaultX
        /\ strategyShares' = strategyShares - shares
        /\ UNCHANGED positionVars
    BY <1>5 DEF ClaimFees, CanTransfer
  <2> QED
    BY <1>3, <2>1, <2>2, <2>3
<1>6. ASSUME NEW u \in Users, NEW shares, InitiateWithdrawal(u, shares)
      PROVE  FALSE
  BY <1>6 DEF InitiateWithdrawal, tokenVars
<1> QED
  BY <1>2, <1>4, <1>5, <1>6, StepKinds

\* Deposits, fee claims and covered payouts leave the share value of the other
\* holders at least as high (calculate_share_value and its uses).
THEOREM NobodyIsDiluted == Spec => ShareValueNotDiluted
<1>1. Inv /\ [Next]_vars => [KeepsShareValue]_vars
  BY KeepsShareValueStep
<1> QED
  BY <1>1, InvHolds, PTL DEF Spec, ShareValueNotDiluted

LEMMA PricesOnThisSlotStep ==
  ASSUME Inv, [Next]_vars
  PROVE  PricesOnThisSlot
<1>1. ASSUME Fresh
      PROVE  \A k \in DOMAIN worth :
               /\ k \in DOMAIN registry /\ registry[k].slot = slot
               /\ k \notin misread => registry[k].value \in seen[k]
  BY <1>1 DEF Fresh, Inv, TypeInv, RegistryInv, TracksOpenPositions, FreshMeansThisSlot
<1>2. CASE Fresh
  BY <1>1, <1>2 DEF PricesOnThisSlot
<1>3. ASSUME NEW u \in Users, ProcessWithdrawal(u)
      PROVE  PricesOnThisSlot
  <2>1. strategyShares' <= strategyShares /\ feeShares' = feeShares
    BY <1>3 DEF ProcessWithdrawal, Inv, TypeInv, TypeOK, Pending, U64
  <2>2. strategyShares \in Nat /\ strategyShares' \in Int
    BY <1>3 DEF ProcessWithdrawal, Inv, TypeInv, TypeOK, Pending, U64
  <2>3. \A w \in Users : pendingWithdrawal'[w].open => pendingWithdrawal[w].open
    BY <1>3 DEF ProcessWithdrawal, NoPending, Inv, TypeInv, TypeOK
  <2> QED
    BY <2>1, <2>2, <2>3 DEF PricesOnThisSlot
<1>4. CASE UNCHANGED shareVars
  <2>1. strategyShares \in Nat
    BY DEF Inv, TypeInv, TypeOK, U64
  <2> QED
    BY <2>1, <1>4 DEF shareVars, PricesOnThisSlot
<1> QED
  BY <1>2, <1>3, <1>4, StepKinds DEF Deposit, InitiateWithdrawal, CanInitiate, ClaimFees

\* Shares are minted, charged or priced only when every open position is in the
\* total with a quote of this slot, of a value it had in this slot unless that
\* quote was computed from accounts that are not the position's
\* (validate_position_values_freshness in deposit, initiate and claim).
THEOREM PricesAreOfThisSlot == Spec => PricedOnThisSlotsQuotes
<1>1. Inv /\ [Next]_vars => [PricesOnThisSlot]_vars
  BY PricesOnThisSlotStep
<1> QED
  BY <1>1, InvHolds, PTL DEF Spec, PricedOnThisSlotsQuotes
=============================================================================
