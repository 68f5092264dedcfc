------------------------------- MODULE Maiker -------------------------------
(***************************************************************************)
(* One strategy of the Maiker program: shares, fees, two-step withdrawals  *)
(* and the vaults, on top of the positions of PositionRegistry.            *)
(*                                                                         *)
(* Every action is one instruction.  An instruction that fails aborts its  *)
(* transaction and leaves no trace, so a failing path is a false guard.    *)
(* Instructions of one transaction are consecutive steps in one slot.      *)
(* Token Y is measured in units worth one token X.                         *)
(***************************************************************************)
EXTENDS ShareMath, PositionRegistry

CONSTANTS Users,           \* depositors
          Admins,          \* keys that can be the global admin
          NoAccount,       \* Pubkey::default(), no account
          Treasuries,      \* owners of the fee account
          FeeSettings,     \* bound: <<performance_fee_bps, withdrawal_fee_bps>>
          Intervals,       \* bound: withdrawal_interval_seconds
          Funds,           \* token X a user starts with
          DepositAmounts,  \* bound: amounts users deposit
          LiquidityPairs,  \* bound: <<x, y>> added to or taken from a position
          FeePairs,        \* bound: <<x, y>> of trading fees DLMM pays out
          SwapPairs,       \* bound: <<in, out>> of a swap
          TimeSteps,       \* bound: seconds between two slots
          MaxTime          \* bound: the last second explored

ASSUME PartiesAssumption == /\ NoAccount \notin Admins
                            /\ Users \cap Treasuries = {}
ASSUME FeeAssumption == FeeSettings \subseteq Nat \X Nat
ASSUME AmountsAssumption == /\ Intervals \subseteq Nat
                            /\ Funds \in U64
                            /\ DepositAmounts \subseteq U64
                            /\ LiquidityPairs \subseteq U64 \X U64
                            /\ FeePairs \subseteq U64 \X U64
                            /\ SwapPairs \subseteq U64 \X U64
                            /\ TimeSteps \subseteq Nat
                            /\ MaxTime \in Nat
ASSUME UsersAssumption == IsFiniteSet(Users)

VARIABLES globalConfig,       \* the GlobalConfig account
          created,            \* create_strategy has run
          strategyShares,     \* StrategyConfig.strategy_shares
          feeShares,          \* StrategyConfig.fee_shares
          userPosition,       \* the UserPosition account of each user
          pendingWithdrawal,  \* the PendingWithdrawal account of each user
          vaultX, vaultY,     \* token accounts of the strategy
          tokenX,             \* token X accounts of users and treasuries
          now                 \* Clock::get()?.unix_timestamp

configVars == <<globalConfig, created>>
shareVars == <<strategyShares, feeShares, userPosition, pendingWithdrawal>>
tokenVars == <<vaultX, vaultY, tokenX>>
vars == <<positionVars, configVars, shareVars, tokenVars, now>>

Holders == Users \cup Treasuries

\* last_update_slot is written and never read, so it is left out.
UserPosition == [open : BOOLEAN, strategy_share : U64, last_share_value : U64]

Pending == [open : BOOLEAN, shares_amount : U64, token_amount : U64,
            initiation_timestamp : Nat, available_timestamp : Nat]

GlobalConfig ==
  [admin : Admins \cup {NoAccount}, treasury : Treasuries \cup {NoAccount},
   performance_fee_bps : Nat, withdrawal_fee_bps : Nat,
   withdrawal_interval_seconds : Nat]

NoUserPosition == [open |-> FALSE, strategy_share |-> 0, last_share_value |-> 0]

NoPending == [open |-> FALSE, shares_amount |-> 0, token_amount |-> 0,
              initiation_timestamp |-> 0, available_timestamp |-> 0]

Initialized == globalConfig.admin # NoAccount

TypeOK ==
  /\ PositionTypeOK
  /\ globalConfig \in GlobalConfig
  /\ Initialized => globalConfig.treasury \in Treasuries
  /\ created \in BOOLEAN
  /\ strategyShares \in U64
  /\ feeShares \in U64
  /\ userPosition \in [Users -> UserPosition]
  /\ pendingWithdrawal \in [Users -> Pending]
  /\ vaultX \in U64
  /\ vaultY \in U64
  /\ tokenX \in [Holders -> U64]
  /\ now \in Nat

\* Before `initialize` and `create_strategy`.
Init ==
  /\ PositionInit
  /\ globalConfig = [admin |-> NoAccount, treasury |-> NoAccount,
                     performance_fee_bps |-> 0, withdrawal_fee_bps |-> 0,
                     withdrawal_interval_seconds |-> 0]
  /\ created = FALSE
  /\ strategyShares = 0
  /\ feeShares = 0
  /\ userPosition = [u \in Users |-> NoUserPosition]
  /\ pendingWithdrawal = [u \in Users |-> NoPending]
  /\ vaultX = 0
  /\ vaultY = 0
  /\ tokenX = [h \in Holders |-> IF h \in Users THEN Funds ELSE 0]
  /\ now = 0

-----------------------------------------------------------------------------
(***************************************************************************)
(* Set-up and configuration.                                               *)
(***************************************************************************)
Running == Initialized /\ created
IsAdmin(a) == Running /\ a = globalConfig.admin

\* The configuration is stored as given: no bound on the fees is checked.
Configured(a, fees, treasury, interval) ==
  [admin |-> a, treasury |-> treasury, performance_fee_bps |-> fees[1],
   withdrawal_fee_bps |-> fees[2], withdrawal_interval_seconds |-> interval]

Initialize(a) ==
  /\ ~Initialized
  /\ \E fees \in FeeSettings, t \in Treasuries, i \in Intervals :
       globalConfig' = Configured(a, fees, t, i)
  /\ UNCHANGED <<positionVars, created, shareVars, tokenVars, now>>

\* new_admin is optional; keeping the old one is the choice b = a.
UpdateGlobalConfig(a) ==
  /\ Initialized
  /\ a = globalConfig.admin
  /\ \E fees \in FeeSettings, t \in Treasuries, i \in Intervals, b \in Admins :
       globalConfig' = Configured(b, fees, t, i)
  /\ UNCHANGED <<positionVars, created, shareVars, tokenVars, now>>

CreateStrategy ==
  /\ ~created
  /\ created' = TRUE
  /\ UNCHANGED <<positionVars, globalConfig, shareVars, tokenVars, now>>

-----------------------------------------------------------------------------
(***************************************************************************)
(* The price of a share as the handlers compute it: vault Y is left out.   *)
(***************************************************************************)
TotalStrategyValue == vaultX + TotalPositionsValue

\* The checked sum of the vault and the positions.
PriceComputes == TotalStrategyValue \in U64

\* Mutation: positions are left out of the price.
MutCurrentShareValue == ShareValue(vaultX, strategyShares)

CurrentShareValue == ShareValue(TotalStrategyValue, strategyShares)

\* An SPL transfer fails when the source is short or the target overflows.
CanTransfer(from, to, amount) == amount <= from /\ to + amount <= U64_MAX

-----------------------------------------------------------------------------
(***************************************************************************)
(* The accounts a user's instructions write.                               *)
(***************************************************************************)
InitializeUser(shares) ==
  [open |-> TRUE, strategy_share |-> shares, last_share_value |-> SHARE_PRECISION]

\* Mutation: the fee is not taken from the user.
MutUpdateAfterDeposit(pos, shares, fee, shareValue) ==
  [open |-> TRUE, strategy_share |-> pos.strategy_share + shares,
   last_share_value |-> shareValue]

UpdateAfterDeposit(pos, shares, fee, shareValue) ==
  [open |-> TRUE, strategy_share |-> pos.strategy_share - fee + shares,
   last_share_value |-> shareValue]

\* Mutation: the shares withdrawn stay with the user.
MutUpdateAfterWithdrawal(pos, shares, shareValue) ==
  [open |-> TRUE, strategy_share |-> pos.strategy_share,
   last_share_value |-> shareValue]

UpdateAfterWithdrawal(pos, shares, shareValue) ==
  [open |-> TRUE, strategy_share |-> pos.strategy_share - shares,
   last_share_value |-> shareValue]

LockWithdrawal(shares, tokens) ==
  [open |-> TRUE, shares_amount |-> shares, token_amount |-> tokens,
   initiation_timestamp |-> now, available_timestamp |-> WithdrawalTimestamp(now)]

\* Mutation: the client's strict comparison.
MutIsReady(pending) == now > pending.available_timestamp

IsReady(pending) == now >= pending.available_timestamp

PerformanceFeeOf(pos, shareValue) ==
  PerformanceFeeShares(pos.strategy_share, pos.last_share_value, shareValue,
                       globalConfig.performance_fee_bps)

PerformanceFeeOfComputes(pos, shareValue) ==
  PerformanceFeeComputes(pos.strategy_share, pos.last_share_value, shareValue,
                         globalConfig.performance_fee_bps)

-----------------------------------------------------------------------------
Deposit(u, amount) ==
  LET first == strategyShares = 0
      shareValue == IF first THEN SHARE_PRECISION ELSE CurrentShareValue
      new == IF first THEN amount ELSE SharesForDeposit(amount, shareValue)
      pos == userPosition[u]
      fee == IF pos.open THEN PerformanceFeeOf(pos, shareValue) ELSE 0
  IN /\ Running
     /\ Fresh
     /\ amount > 0
     /\ ~first => PriceComputes /\ DepositComputes(amount, shareValue)
     /\ strategyShares + new <= U64_MAX
     /\ pos.open => /\ PerformanceFeeOfComputes(pos, shareValue)
                    /\ feeShares + fee <= U64_MAX
                    /\ fee <= pos.strategy_share
                    /\ pos.strategy_share - fee + new <= U64_MAX
     /\ CanTransfer(tokenX[u], vaultX, amount)
     /\ strategyShares' = strategyShares + new
     /\ feeShares' = feeShares + fee
     /\ userPosition' =
          [userPosition EXCEPT ![u] =
             IF pos.open THEN UpdateAfterDeposit(pos, new, fee, shareValue)
             ELSE InitializeUser(new)]
     /\ vaultX' = vaultX + amount
     /\ tokenX' = [tokenX EXCEPT ![u] = @ - amount]
     /\ UNCHANGED <<positionVars, configVars, pendingWithdrawal, vaultY, now>>

\* Mutation: a second withdrawal may overwrite the first.
MutCanInitiate(u, shares) ==
  /\ Running
  /\ userPosition[u].open
  /\ Fresh
  /\ shares > 0 /\ shares <= userPosition[u].strategy_share

\* The account of the pending withdrawal is created by this instruction, so a
\* second withdrawal must wait until the first is processed.
CanInitiate(u, shares) ==
  /\ Running
  /\ userPosition[u].open
  /\ ~pendingWithdrawal[u].open
  /\ Fresh
  /\ shares > 0 /\ shares <= userPosition[u].strategy_share

\* The performance fee is charged on the whole position, the withdrawal fee on
\* the shares withdrawn, and both are taken out of the latter.
InitiateWithdrawal(u, shares) ==
  LET pos == userPosition[u]
      shareValue == CurrentShareValue
      performanceFee == PerformanceFeeOf(pos, shareValue)
      withdrawalFee == WithdrawalFeeShares(shares, globalConfig.withdrawal_fee_bps)
      effective == shares - withdrawalFee - performanceFee
  IN /\ CanInitiate(u, shares)
     /\ PriceComputes
     /\ PerformanceFeeOfComputes(pos, shareValue)
     /\ WithdrawalFeeComputes(shares, globalConfig.withdrawal_fee_bps)
     /\ effective >= 0
     /\ feeShares + performanceFee + withdrawalFee <= U64_MAX
     /\ pendingWithdrawal' =
          [pendingWithdrawal EXCEPT ![u] =
             LockWithdrawal(effective, WithdrawalAmount(effective, shareValue))]
     /\ userPosition' =
          [userPosition EXCEPT ![u] = UpdateAfterWithdrawal(pos, shares, shareValue)]
     /\ feeShares' = feeShares + performanceFee + withdrawalFee
     /\ UNCHANGED <<positionVars, configVars, strategyShares, tokenVars, now>>

ProcessWithdrawal(u) ==
  LET pending == pendingWithdrawal[u]
  IN /\ Running
     /\ pending.open
     /\ IsReady(pending)
     /\ CanTransfer(vaultX, tokenX[u], pending.token_amount)
     /\ pending.shares_amount <= strategyShares
     /\ vaultX' = vaultX - pending.token_amount
     /\ tokenX' = [tokenX EXCEPT ![u] = @ + pending.token_amount]
     /\ strategyShares' = strategyShares - pending.shares_amount
     /\ pendingWithdrawal' = [pendingWithdrawal EXCEPT ![u] = NoPending]
     /\ UNCHANGED <<positionVars, configVars, feeShares, userPosition, vaultY, now>>

\* shares_to_claim is optional and defaults to all fee shares; 0 is accepted.
ClaimFees(a, shares) ==
  LET amount == WithdrawalAmount(shares, CurrentShareValue)
      treasury == globalConfig.treasury
  IN /\ IsAdmin(a)
     /\ Fresh
     /\ feeShares > 0
     /\ shares <= feeShares
     /\ PriceComputes
     /\ CanTransfer(vaultX, tokenX[treasury], amount)
     /\ shares <= strategyShares
     /\ vaultX' = vaultX - amount
     /\ tokenX' = [tokenX EXCEPT ![treasury] = @ + amount]
     /\ strategyShares' = strategyShares - shares
     /\ feeShares' = feeShares - shares
     /\ UNCHANGED <<positionVars, configVars, userPosition, pendingWithdrawal,
                    vaultY, now>>

-----------------------------------------------------------------------------
(***************************************************************************)
(* The admin's instructions on positions and vaults, and the outside world.*)
(* None of them touches the share ledger or refreshes a quote.             *)
(***************************************************************************)
OpenPosition(a, k) ==
  /\ IsAdmin(a)
  /\ InitializePosition(k)
  /\ UNCHANGED <<configVars, shareVars, tokenVars, now>>

RetirePosition(a, k) ==
  /\ IsAdmin(a)
  /\ ClosePosition(k)
  /\ UNCHANGED <<configVars, shareVars, tokenVars, now>>

AddLiquidity(a, k, x, y) ==
  /\ IsAdmin(a)
  /\ k \in DOMAIN worth
  /\ x + y > 0 /\ x <= vaultX /\ y <= vaultY
  /\ worth[k] + x + y \in Worths
  /\ ChangeWorth(k, worth[k] + x + y)
  /\ vaultX' = vaultX - x
  /\ vaultY' = vaultY - y
  /\ UNCHANGED <<configVars, shareVars, tokenX, now>>

\* remove_all_liquidity: y of the position's worth comes back as token Y.
RemoveLiquidity(a, k, y) ==
  /\ IsAdmin(a)
  /\ k \in DOMAIN worth
  /\ worth[k] > 0 /\ y <= worth[k]
  /\ ChangeWorth(k, 0)
  /\ vaultX + worth[k] - y <= U64_MAX
  /\ vaultY + y <= U64_MAX
  /\ vaultX' = vaultX + worth[k] - y
  /\ vaultY' = vaultY + y
  /\ UNCHANGED <<configVars, shareVars, tokenX, now>>

\* claim_fee: trading fees of a position, which its worth does not include.
ClaimPositionFee(a, k, x, y) ==
  /\ IsAdmin(a)
  /\ k \in DOMAIN worth
  /\ x + y > 0
  /\ vaultX + x <= U64_MAX
  /\ vaultY + y <= U64_MAX
  /\ vaultX' = vaultX + x
  /\ vaultY' = vaultY + y
  /\ UNCHANGED <<positionVars, configVars, shareVars, tokenX, now>>

SwapXForY(a, in, out) ==
  /\ IsAdmin(a)
  /\ in <= vaultX
  /\ vaultY + out <= U64_MAX
  /\ vaultX' = vaultX - in
  /\ vaultY' = vaultY + out
  /\ UNCHANGED <<positionVars, configVars, shareVars, tokenX, now>>

SwapYForX(a, in, out) ==
  /\ IsAdmin(a)
  /\ in <= vaultY
  /\ vaultX + out <= U64_MAX
  /\ vaultY' = vaultY - in
  /\ vaultX' = vaultX + out
  /\ UNCHANGED <<positionVars, configVars, shareVars, tokenX, now>>

UpdateQuote(k, value) ==
  /\ Running
  /\ GetPositionValue(k, value)
  /\ UNCHANGED <<configVars, shareVars, tokenVars, now>>

\* Other parties trade in the pool, in the same slot or a later one; only a
\* position with liquidity is affected.
MarketMove(k, w) ==
  /\ k \in DOMAIN worth
  /\ worth[k] > 0 /\ w > 0
  /\ ChangeWorth(k, w)
  /\ UNCHANGED <<configVars, shareVars, tokenVars, now>>

NextSlot(d) ==
  /\ AdvanceSlot
  /\ now + d <= MaxTime
  /\ now' = now + d
  /\ UNCHANGED <<configVars, shareVars, tokenVars>>

UserNext ==
  \E u \in Users :
    \/ \E amount \in DepositAmounts : Deposit(u, amount)
    \/ \E shares \in 1 .. userPosition[u].strategy_share : InitiateWithdrawal(u, shares)
    \/ ProcessWithdrawal(u)

AdminNext ==
  \E a \in Admins :
    \/ Initialize(a)
    \/ UpdateGlobalConfig(a)
    \/ \E shares \in 0 .. feeShares : ClaimFees(a, shares)
    \/ \E k \in Positions :
         \/ OpenPosition(a, k)
         \/ RetirePosition(a, k)
         \/ \E p \in LiquidityPairs : \/ AddLiquidity(a, k, p[1], p[2])
                                      \/ RemoveLiquidity(a, k, p[2])
         \/ \E p \in FeePairs : ClaimPositionFee(a, k, p[1], p[2])
    \/ \E p \in SwapPairs : SwapXForY(a, p[1], p[2]) \/ SwapYForX(a, p[1], p[2])

WorldNext ==
  \/ CreateStrategy
  \/ \E k \in Positions :
       \/ \E v \in QuotableValues : UpdateQuote(k, v)
       \/ \E w \in Worths : MarketMove(k, w)
  \/ \E d \in TimeSteps : NextSlot(d)

Next == UserNext \/ AdminNext \/ WorldNext

Spec == Init /\ [][Next]_vars

\* A user whose withdrawal is pending keeps trying to process it.
FairSpec == Spec /\ \A u \in Users : SF_vars(ProcessWithdrawal(u))

-----------------------------------------------------------------------------
(***************************************************************************)
(* Properties.                                                             *)
(***************************************************************************)
UserShares == [u \in Users |-> userPosition[u].strategy_share]
PendingShares == [u \in Users |-> pendingWithdrawal[u].shares_amount]

\* Every issued share has one owner: a user, the fee pool, or a withdrawal in
\* progress.  So whoever burns shares (process_withdrawal.rs, claim_fees.rs)
\* burns shares that are there: burn_shares never fails because somebody else
\* was paid first.
SharesConserved ==
  strategyShares = SumOver(UserShares) + feeShares + SumOver(PendingShares)

Processed(u) == pendingWithdrawal[u].open /\ ~pendingWithdrawal'[u].open

PaysAsLocked ==
  \A u \in Users :
    tokenX'[u] > tokenX[u] =>
      LET p == pendingWithdrawal[u]
          delay == p.available_timestamp - p.initiation_timestamp
      IN /\ Processed(u)
         /\ tokenX'[u] = tokenX[u] + p.token_amount
         /\ now - p.initiation_timestamp > SECONDS_IN_HOUR
         /\ now >= p.available_timestamp
         /\ delay <= 2 * SECONDS_IN_HOUR

\* A user is paid only by processing a withdrawal that is more than an hour
\* and at most two hours in the making, and is paid the amount locked when it
\* was initiated (process_withdrawal.rs, calculate_withdrawal_timestamp).
PaidAsLocked == [][PaysAsLocked]_vars

KeepsPending ==
  \A u \in Users :
    pendingWithdrawal[u].open /\ pendingWithdrawal'[u] # pendingWithdrawal[u]
      => Processed(u) /\ tokenX'[u] = tokenX[u] + pendingWithdrawal[u].token_amount

\* Nothing that happens between the two steps of a withdrawal changes what it
\* will pay: its record stays until its own user processes it.
PendingIsLocked == [][KeepsPending]_vars

LocksFairly ==
  \A u \in Users :
    ~pendingWithdrawal[u].open /\ pendingWithdrawal'[u].open =>
      LET p == pendingWithdrawal'[u]
      IN p.token_amount * strategyShares <= p.shares_amount * TotalStrategyValue

\* The tokens locked by a withdrawal are at most the part of the strategy's
\* recorded value that its shares stand for (initiate_withdrawal.rs).
LockedAmountIsFair == [][LocksFairly]_vars

\* The price is not truncated by the cast to u64.
PriceFits ==
  strategyShares > 0 => ExactShareValue(TotalStrategyValue, strategyShares) <= U64_MAX

KeepsShareValue ==
  /\ tokenX' # tokenX
  /\ PriceFits
  /\ strategyShares > 0 /\ strategyShares' > 0
  /\ \A u \in Users : Processed(u) =>
       pendingWithdrawal[u].token_amount <=
         WithdrawalAmount(pendingWithdrawal[u].shares_amount, CurrentShareValue)
  => ExactShareValue(TotalStrategyValue', strategyShares') >=
       ExactShareValue(TotalStrategyValue, strategyShares)

\* Deposits, fee claims, and payouts of an amount that is still covered by the
\* current price never lower the share value of those who stay.
ShareValueNotDiluted == [][KeepsShareValue]_vars

\* A withdrawal that is never paid is one whose vault stays short for ever: a
\* user who keeps trying is never stopped by shares that others have burned, by
\* the timestamps, or by anything the admin does to the positions
\* (process_withdrawal.rs).
PaidUnlessVaultShort ==
  \A u \in Users :
    LET pending == pendingWithdrawal[u]
    IN <>[](pending.open /\ now >= pending.available_timestamp)
         => <>[](~CanTransfer(vaultX, tokenX[u], pending.token_amount))

MintsAtMostDeposit ==
  /\ vaultX' > vaultX /\ strategyShares' > strategyShares
  /\ PriceFits
  /\ strategyShares > 0
  => (strategyShares' - strategyShares)
         * ExactShareValue(TotalStrategyValue', strategyShares')
       <= (vaultX' - vaultX) * SHARE_PRECISION

\* The shares a deposit mints are worth, right after it, no more than the
\* tokens deposited: rounding never lets a depositor gain by depositing and
\* withdrawing at once (deposit.rs, calculate_shares_for_deposit).
DepositCannotProfit == [][MintsAtMostDeposit]_vars

\* The gain since the record of pos, at the fee rate, and the withdrawal fee
\* take at most everything.
RatesLeaveRoom(pos) ==
  GainBps(pos.last_share_value, CurrentShareValue) * globalConfig.performance_fee_bps
      + BASIS_POINT_MAX * globalConfig.withdrawal_fee_bps
    <= BASIS_POINT_MAX * BASIS_POINT_MAX

\* The performance fee of the whole position is taken out of the shares of one
\* withdrawal, so a withdrawal of few shares can fail for a fee it cannot
\* cover.  A user is still never locked in: unless the rates alone ask for
\* more than everything, withdrawing all shares covers both fees, whatever the
\* rounding, the price and the changes of the fees in the meantime
\* (initiate_withdrawal.rs, effective_shares_to_withdraw).
FeesLeaveRoom ==
  \A u \in Users :
    LET pos == userPosition[u]
    IN /\ pos.open
       /\ pos.last_share_value \in 1 .. CurrentShareValue
       /\ RatesLeaveRoom(pos)
       => PerformanceFeeOf(pos, CurrentShareValue)
            + WithdrawalFeeShares(pos.strategy_share, globalConfig.withdrawal_fee_bps)
              <= pos.strategy_share

PricesOnThisSlot ==
  \/ strategyShares' > strategyShares
  \/ feeShares' # feeShares
  \/ \E u \in Users : ~pendingWithdrawal[u].open /\ pendingWithdrawal'[u].open
  => \A k \in DOMAIN worth :
       /\ k \in DOMAIN registry /\ registry[k].slot = slot
       /\ k \notin misread => registry[k].value \in seen[k]

\* Shares are issued, charged or priced only when every open position is in
\* the total with a quote of this very slot.  The quoted value is one the
\* position had in this slot, whatever was opened, closed, traded or quoted
\* before, unless that quote itself was computed from accounts that are not
\* the position's, which get_position_value.rs does not rule out.
PricedOnThisSlotsQuotes == [][PricesOnThisSlot]_vars
=============================================================================
