----------------------------- MODULE ShareMath -----------------------------
(***************************************************************************)
(* The arithmetic of the program: prices of a share, shares minted by a    *)
(* deposit, tokens owed to a withdrawal, the two fees and the withdrawal   *)
(* window.  Rust's integer widths are kept: a `checked_` operation becomes *)
(* a condition of its own (an operator named ...Computes, false where the  *)
(* code returns ArithmeticOverflow), and an `as u64` cast is AsU64, which  *)
(* drops the high bits exactly as the cast does.                           *)
(*                                                                         *)
(* All scales are parameters.  The program has SHARE_PRECISION = 10^6,     *)
(* BASIS_POINT_MAX = 10^4, U64_MAX = 2^64 - 1 and SECONDS_IN_HOUR = 3600.  *)
(***************************************************************************)
EXTENDS Integers

CONSTANTS SHARE_PRECISION,  \* a share value of 1.0
          BASIS_POINT_MAX,  \* a fee of 100%
          U64_MAX,          \* the largest u64
          SECONDS_IN_HOUR   \* length of a withdrawal window

ASSUME PrecisionAssumption == /\ SHARE_PRECISION \in Nat \ {0}
                              /\ U64_MAX \in Nat
                              /\ SHARE_PRECISION <= U64_MAX
ASSUME BasisPointAssumption == BASIS_POINT_MAX \in Nat \ {0}
ASSUME HourAssumption == SECONDS_IN_HOUR \in Nat \ {0}

U64 == 0 .. U64_MAX
U128_MAX == (U64_MAX + 1) * (U64_MAX + 1) - 1

\* Mutation: the cast keeps the high bits.
MutAsU64(n) == n

\* The cast `as u64` of a wider unsigned value.
AsU64(n) == n % (U64_MAX + 1)

(***************************************************************************)
(* strategy_config.rs                                                      *)
(***************************************************************************)
\* The price of a share before the cast to u64.
ExactShareValue(total, shares) == (total * SHARE_PRECISION) \div shares

ShareValue(total, shares) ==
  IF shares = 0 THEN SHARE_PRECISION ELSE AsU64(ExactShareValue(total, shares))

DepositComputes(amount, shareValue) ==
  amount * SHARE_PRECISION <= U64_MAX /\ shareValue > 0

\* Mutation: rounded up.
MutSharesForDeposit(amount, shareValue) ==
  (amount * SHARE_PRECISION + shareValue - 1) \div shareValue

SharesForDeposit(amount, shareValue) == (amount * SHARE_PRECISION) \div shareValue

\* Mutation: rounded up.
MutWithdrawalAmount(shares, shareValue) ==
  AsU64((shares * shareValue + SHARE_PRECISION - 1) \div SHARE_PRECISION)

WithdrawalAmount(shares, shareValue) ==
  AsU64((shares * shareValue) \div SHARE_PRECISION)

(***************************************************************************)
(* user_position.rs                                                        *)
(***************************************************************************)
GainBps(last, current) == ((current - last) * BASIS_POINT_MAX) \div last

PerformanceFeeComputes(share, last, current, bps) ==
  current > last =>
    /\ last > 0
    /\ (current - last) * BASIS_POINT_MAX <= U64_MAX
    /\ share * GainBps(last, current) * bps <= U128_MAX

\* Mutation: two basis-point factors, one division.
MutPerformanceFeeShares(share, last, current, bps) ==
  IF current <= last THEN 0
  ELSE AsU64((share * GainBps(last, current) * bps) \div BASIS_POINT_MAX)

PerformanceFeeShares(share, last, current, bps) ==
  IF current <= last THEN 0
  ELSE AsU64((share * GainBps(last, current) * bps)
               \div (BASIS_POINT_MAX * BASIS_POINT_MAX))

WithdrawalFeeComputes(shares, bps) == shares * bps <= U64_MAX

WithdrawalFeeShares(shares, bps) == (shares * bps) \div BASIS_POINT_MAX

(***************************************************************************)
(* global_config.rs: one hour after the start of the next full hour.       *)
(***************************************************************************)
\* Mutation: the next full hour itself.
MutWithdrawalTimestamp(now) == (now - (now % SECONDS_IN_HOUR)) + SECONDS_IN_HOUR

WithdrawalTimestamp(now) ==
  (now - (now % SECONDS_IN_HOUR)) + SECONDS_IN_HOUR + SECONDS_IN_HOUR
=============================================================================
