# Maiker contracts: formal model

TLA+ models, TLC runs and TLAPS proofs for the Maiker program, a Solana
(Anchor) program that pools users' deposits of token X into a *strategy*, which
an admin invests in positions of a Meteora DLMM pool, and for the TypeScript
around it: the client SDK that builds its transactions and the DLMM client
library that these are built with. Users own shares of the strategy; the
program prices shares, charges fees in shares and pays withdrawals in two steps.
Paths below are relative to the repository; `P/` stands for
`programs/maiker-contracts/src/`, `S/` for `clients/js/src/` and `D/` for
`dlmm-ts-client/src/dlmm/`.

## 1. The system

| Part | State | Operations | Interacts with |
|---|---|---|---|
| Share ledger (`P/state/strategy_config.rs`, `user_position.rs`, `pending_withdrawal.rs`, `P/instructions/user/*`, `admin/claim_fees.rs`) | `strategy_shares`, `fee_shares`, one `UserPosition` and at most one `PendingWithdrawal` per user, vaults X and Y | `create_strategy`, `deposit`, `initiate_withdrawal`, `process_withdrawal`, `claim_fees` | reads the price from position tracking and vault X; moves tokens with the SPL token program; reads `GlobalConfig` and the clock |
| Position tracking (`strategy_config.rs`, `cpi/initialize_position.rs`, `cpi/close_position.rs`, `user/get_position_value.rs`) | three arrays of `MAX_POSITIONS` entries and `position_count` | add, remove (by swapping), quote, freshness check, total | the DLMM program opens and closes the positions; anyone may quote |
| Global configuration (`global_config.rs`, `initialize.rs`, `admin/update_global_config.rs`) | admin, treasury, two fees, an interval | initialize, update, withdrawal window | every admin instruction checks the admin |
| Pool instructions (`cpi/add_liquidity.rs`, `remove_liquidity.rs`, `claim_fee.rs`, `swap.rs`) | none of their own | move tokens between vaults and positions | CPI into DLMM |
| Valuation (`get_position_value.rs`, `P/math`, `P/extensions`) | none | sums a position's bins, converts token Y at the active price | reads DLMM accounts |
| Flash swap (`admin/flash_swap.rs`, `begin_swap`/`end_swap`, `controllers/token.rs`) | six swap fields of `StrategyConfig` | begin, end, introspection of the transaction | Jupiter, lighthouse, SPL token |
| Client SDK (`S/maiker.ts`, `S/helpers`) | copies of the strategy, its positions and pools | `refresh`, transactions for users and admin, valuation | RPC; the transactions run later, on a chain that moved on |
| Transaction builder (`S/utils/buildTxAndCheckCu.ts`) | the caller's array of instructions | simulate, set limit and price, build | RPC; its caller retries |
| DLMM client library (`D/index.ts`, `D/helpers`) | copies of a pool and its bitmap extension | swap quotes, distributions of deposits, liquidity transactions, seeding | the DLMM program; RPC |
| CLI (`cli`) | none | one instruction each | SDK |

Generated clients (`clients-codama`, `S/generated-*`,
`packages/dlmm_interface`), IDLs, events, errors and deployment scripts carry
no logic of the system.

### What is hard here

Solana executes the instructions of a strategy one at a time, and an
instruction that fails leaves no trace. There are no threads and no partial
writes; what is hard is the *order* of instructions of several parties and what
one of them left behind for the next. The clients add awaits: a copy is read in
several steps, and a transaction built from it runs later or never.

- **Interleaving over time.** A withdrawal locks an amount and pays it an hour
  or two later. Between the two, others deposit, withdraw, claim and rebalance,
  and the price moves.
- **Accounting in several places.** A share is in the total and in a user
  account, in the fee pool or in a pending withdrawal, and different
  instructions move the two entries at different times.
- **Stale values.** The price uses values that somebody quoted earlier. The
  freshness check compares slots, and a slot holds many instructions. The SDK's
  list of positions is older still.
- **Rounding and width.** Prices, shares and amounts are divided and cast; each
  rounding must favour the shares that stay. Quotes and distributions round at
  every bin.
- **Parallel arrays.** Removal moves the last entry of three arrays into a hole,
  and an entry is reused without being reset. The SDK pairs two lists by index.
- **Borders.** A bin's array and place are computed differently below zero, and
  a search for liquidity crosses from the pool's bitmap into the extension.
- **Partial failure.** A seeding is several transactions, of which some are
  lost, and it is then planned again.
- **Time boundaries.** The withdrawal window is computed from the hour of the
  clock.

`PROJECT.json` lists each of these at its line with the properties that cover
it, and says why where none does.

### What makes each part correct

- Share ledger: shares are conserved; a pending withdrawal is untouchable and is
  paid once, in time, as locked, and is paid in the end unless the vault stays
  short; no rounding favours the one who acts; a mint, a claim or a covered
  payout never lowers the value of the other shares.
- Position tracking: the arrays behave like a map from open positions to quotes;
  a new key is never fresh; shares are priced only when every
  open position has a quote of this slot.
- Configuration: a change affects later instructions only.
- Valuation: a position's value is its part of its own bins, less rounding.
- SDK: transactions are priced on the right positions, and are refused only
  because of what others did meanwhile.
- Library: quotes walk every bin in order and agree with each other; deposits
  keep to their budget and reach their bins; a seeding fills every position,
  once.

## 2. Modules

    ShareSums ──► PositionRegistry ──┐
                       ▲             ├──► Maiker ──► MCMaiker, MCMaikerDocs, MCMaikerPeak
                       │  ShareMath ─┘
         StrategyPositions (implements PositionRegistry) ──► MCStrategyPositions

    BinArrays ──► Swap ──► MCSwap
        │
        ├──► Distribution ──┐
        └──► PositionValue ─┴─► LiquidityTx ──► Seeding ──► PoolMath ──► MCPoolMath

    MaikerSDK ──► MCMaikerSDK     FlashSwap ──► MCFlashSwap     TxBuilder ──► MCTxBuilder

    Data_proofs ──┬──► StrategyPositions_proofs
                  ├──► PositionRegistry_proofs ──► Maiker_proofs
                  └──► BinArrays_proofs ──┬──► PoolMath_proofs
                                          └──► Swap_proofs
    MaikerSDK_proofs

### The program

**ShareMath** has the pure arithmetic of the program, one operator per Rust
function, parameterised by the scales (`SHARE_PRECISION`, `BASIS_POINT_MAX`,
`U64_MAX`, `SECONDS_IN_HOUR`). A `checked_` operation is a condition (an
operator named `...Computes`) that the actions take as a guard, since an error
aborts the instruction; an `as u64` cast is `AsU64`, which truncates.

**PositionRegistry** is the abstract specification of position tracking: a map
`registry` from tracked keys to the value and slot of their last quote. `worth`
is the external DLMM program: what each open position is worth now. Two history
variables: `seen` has the values a position has had in the current slot, and
`misread` the positions whose last quote was of a value they did not have. One
action per operation: `InitializePosition`, `ClosePosition`, `GetPositionValue`,
and `ChangeWorth` and `AdvanceSlot` for the outside world. `get_position_value`
checks that the position is the strategy's and takes the pair and the bin arrays
as they come, so a quote may be of any value in `QuotableValues`: what any open
position is worth, or one of `OtherQuotes`.

**StrategyPositions** is the same with the arrays of the account: `positions`,
`positions_values`, `last_position_update`, `position_count`, and
`AddPosition`, `RemovePosition` (`SwapRemove` on each array),
`UpdatePositionValue`, and the two loops. Its refinement mapping `RegistryOf`
reads the arrays as a map and `ImplementsRegistry` is `PositionSpec` under it.

**Maiker** is the whole strategy: it EXTENDS the registry and the arithmetic and
adds the ledger. Each action is one instruction, with its account constraints,
`require!`s and checked arithmetic as guards:

| Action | Code |
|---|---|
| `Initialize`, `UpdateGlobalConfig` | `initialize.rs`, `admin/update_global_config.rs` |
| `CreateStrategy` | `user/create_strategy.rs` |
| `Deposit` | `user/deposit.rs` (first deposit, new user and old user) |
| `InitiateWithdrawal` | `user/initiate_withdrawal.rs` |
| `ProcessWithdrawal` | `user/process_withdrawal.rs` |
| `ClaimFees` | `admin/claim_fees.rs` |
| `OpenPosition`, `RetirePosition` | `cpi/initialize_position.rs`, `cpi/close_position.rs` |
| `AddLiquidity`, `RemoveLiquidity`, `ClaimPositionFee`, `SwapXForY`, `SwapYForX` | the other files of `cpi/` |
| `UpdateQuote` | `user/get_position_value.rs` |
| `MarketMove`, `NextSlot` | the pool's other users; the Solana clock |

State maps one to one: `strategyShares`, `feeShares` are the fields of
`StrategyConfig`; `userPosition[u]` and `pendingWithdrawal[u]` are the accounts
(`open` says whether the account exists); `vaultX`, `vaultY`, `tokenX` are token
accounts. `open` of a user position stays TRUE for ever, as the program never
closes it; the one of a pending withdrawal is reset by Anchor's `close`.

Modelling decisions:

- The instructions of one transaction are consecutive steps in one slot, so a
  behaviour with a quote and a deposit in one slot stands for a transaction with
  both, and one with steps in between for separate transactions of the slot.
- Accounts passed unchecked (`UncheckedAccount`) to the CPI instructions are the
  intended ones: the admin passes them. Those of `get_position_value`, which
  anyone may call, need not be: its quote may be of a value that is not the
  position's.
- Token Y is counted in units worth one X; trades of other parties move `worth`.
- One strategy. Strategies share only `GlobalConfig`, which no instruction of a
  strategy writes.
- Fees and intervals are taken as given: `error.rs` has `InvalidFee`, but no code
  checks a fee against a limit.

**MCMaiker**, **MCStrategyPositions** name constants and symmetry sets for TLC.
**MCMaikerDocs** and **MCMaikerPeak** hold statements of the documents that the
code does not keep (section 4); the latter adds a history variable, the highest
share value a user was settled at.

**FlashSwap** is one transaction: a sequence of instructions with programs and
accounts, `begin_swap` with its scan of the instructions that follow,
`end_swap` with the residual, and the token accounts of admin and vault.

### The clients

**MaikerSDK** has the chain's list of open positions next to what a `MaikerSDK`
object copied of it: `strategyAcc`, `cached` (the object's `positions`) and
`lbPairs`. `refresh()` is four steps, one for each await
(`FetchStrategy`, `FetchPositions`, `FetchPools`, `FetchReserves`) and may throw
between them; `Build*` makes a transaction from the copies, `Land*` and `Refuse`
execute it, `Expire` forgets it. `OpenElsewhere`, `CloseElsewhere` and
`CreateArraysElsewhere` are other clients.

**TxBuilder** is `buildTxAndCheckCu` with the caller's array as its state: the
array is changed in place before the awaits, and each of these may throw.

**BinArrays** maps bins to arrays and places, and arrays to bits of the pool's
own bitmap and of its extension, with the search for the next array with
liquidity (`FindNextBinArrayIndexWithLiquidity`) and its use to decide whether a
pool may be moved to a market price without a trade.

**Swap** is a quote as a loop with one step a turn: arrays are fetched, bins are
drained in order, and a quote for an exact output is then asked back as a quote
for its input. The limits of the arguments are in it: a `count` of 0 fetches every
array, since the search stops at exactly `count` of them, and `swapQuote` refuses
an amount of 0, for which it never starts with a bin.

**Distribution** has how a deposit is spread: spot, curve and bid-ask weights,
amounts from weights, the automatic fill of the second token, and the shares in
basis points of `weight.ts`. **PositionValue** has the valuation by the program,
the amounts of a position as the client finds and as the library shows them, and
the arrays each of them reads.
**LiquidityTx** has which arrays a deposit or a removal names and creates.
**Seeding** has the plan of `seedLiquidity`, the chain that executes it, and
the transfer fees of Token-2022.

**PoolMath** puts these to work: `call` is a call with its arguments, one action
computes its `result`. For a seeding the result is the state of the chain and
of the plan, with `Plan`, `Land`, `Drop` and `CreateElsewhere`.

Modelling decisions of the clients:

- Prices are a constant function of the bin, as the code takes them from one
  table-like power; `Decimal` and `BN` fractions are exact, so the rounding of a
  20-digit `Decimal` is abstracted.
- A bin array exists or not; a position is its range of bins with shares.
- A deposit over 26 bins or more is split over several transactions
  (`D/index.ts:2943`); it is modelled as one.
- In `MaikerSDK` an entry of the position map is the position whose account it
  was decoded from, so that a wrong pairing shows.
- A seeding's curve, the amount below each price, is any increasing function over
  an interval of bins: the power `k` in it is abstracted.

## 3. Runs that pass

| Run | Question | Bounds |
|---|---|---|
| `positions_arrays` | Do the arrays implement the map, and do the loops read it correctly? | 4 keys in 3 entries, 2 values, 3 slots, any order of operations |
| `maiker_ledger` | Do shares and pending withdrawals survive two users acting at once, with fees, claims and trading fees paid into the vault, and can a user withdraw in spite of the fees? | 2 users, 5 seconds of time with a 2-second hour, a u64 that ends at 15 |
| `maiker_positions` | Is every price made of quotes of this slot? | 2 positions, 3 values each, each quoted at its own value or the other's, 1 user, 2 slots, a u64 that ends at 5 |
| `maiker_assets` | Is nobody diluted when value is in a position or vault Y and fees are switched on and off, and is a withdrawal paid unless the vault stays short? | 1 user, 1 position that can also be quoted at 0, a u64 that ends at 5 |
| `sdk_client` | Do transactions built from copies act on what they were meant for, and do deposits get through? | 3 positions opened in all, in 2 pools, one lost read, one `refresh()` at a time |
| `swap_quote` | Do quotes walk the right bins, end, and agree with each other? | bins -6 to 5 in arrays of 2, pools with liquidity in any 2 of them, an internal bitmap of 4 bits and one extension chunk of 2 on each side, outputs of 0, 2 and 5, one, two or all arrays |
| `pool_math` | Do deposits, the program's valuation and the client's amounts, liquidity transactions, price syncs, fees and seedings do what they promise? | bins -6 to 5 in arrays of 3, the outer arrays in the extension, positions of up to 3 bins, seedings of 2 and 3 positions |

The properties, by what would break them:

- `SharesConserved`: a forgotten or doubled move of shares anywhere (run with two
  users, where a share can end up with the wrong one).
- `PaidAsLocked`, `PendingIsLocked`: paying early, twice, another amount, or
  letting anything touch a pending withdrawal. `PaidAsLocked` also bounds the
  window: more than one hour and at most two.
- `PaidUnlessVaultShort`: a ready withdrawal that nobody can ever complete,
  because its shares were burned by others or a check never passes.
- `LockedAmountIsFair`: locking more than the shares' part of the value.
- `FeesLeaveRoom`: a user whom the fees lock in. The performance fee is taken on
  the whole position and out of the shares of one withdrawal, so a partial
  withdrawal may fail for it; one of all shares does not, unless gain times fee
  and withdrawal fee are more than 100%.
- `ShareValueNotDiluted`, `DepositCannotProfit`: rounding in favour of the
  actor. They are stated for prices that fit a u64, and payouts are covered as
  far as the price has not fallen below the locked one: a payout after a loss
  does lower the value of the remaining shares, by design of the locking.
- `PricedOnThisSlotsQuotes`, `FreshMeansThisSlot`: minting, charging or locking on
  a quote of an earlier slot, with an open position left out, or on a value of an
  earlier slot with a stamp of this one. They do not say that the value is right:
  a quote from accounts that are not the position's is stamped like any other,
  and both properties except it by name (`misread`).
- `ImplementsRegistry`, `ArraysTrackPositions`, `ArraysWellFormed`,
  `LoopsAgreeWithRegistry`, `NewPositionNeedsQuote`: values that do not follow
  their key, leaks from a removed to a new position, loops that are one short.
- `QuotesOwnPositions`, `RefreshIsExact`, `RefusedOnlyIfOutdated`: a key paired
  with another position's account, an old entry that wins over a new one, a
  current client that is refused. `DepositsGetThrough`: a client stuck for ever.
- `FetchesNearest`, `DrainsBinsInOrder`, `FailsOnlyWhenDry`: an array skipped at
  the active bin or at a border of the bitmaps, a bin jumped over or used twice,
  a refusal with liquidity at hand. (`swapQuote` refuses a quote of nothing at
  once, which `FailsOnlyWhenDry` and `RoundTrip` say.) `RoundTrip`: the two
  directions of rounding and of fees not matching. `QuoteAdvances`: a quote that
  never ends.
- `DepositsTheBudget`, `AutoFillBalances`, `SharesAreComplete`: depositing more
  than there is, or on the wrong side of the price, or losing what was rounded.
- `ValueIsFair`, `FindsEveryBin`: another bin's liquidity valued, X and Y
  swapped, a bin missing; the program's value, the client's amounts or the
  library's off by more than their rounding. The value that the client makes of
  its amounts is not compared.
- `DepositReachesItsBins`, `RemovesWhatIsThere`: arrays not named or not
  created, the extension left out, shares left behind.
- `FeesLeaveTheAmount`: a recipient who gets less than asked for.
- `SyncsOverNothing`: a pool moved to a price over somebody's liquidity, or refused
  for liquidity that is not on the way.
- `SeededOnce`, `SeedsEverything`: a retry that fills a position again, or never.

**Why the bounds are enough to be interesting.** Three entries are the smallest
array where removal can hit the first, a middle and the last entry, and four
keys let the array be full with one key waiting. Two users are the smallest
number for which one acts between the other's two steps, and funds of 3 with
deposits of 2 or 3 and trading fees of 3 give prices above, below and at 1.0 and
divisions with and without remainder at a precision of 2. Small scales make
overflow and truncation ordinary events rather than unreachable ones: a u64 that ends at 5 or 15 overflows in `checked_` operations and in casts within a few steps.
An hour of two seconds and steps of 1 and 3 seconds reach windows requested at
the full hour and in the middle of one, and leave time to pay. Three positions
in two pools let a position be closed in front of, behind and in the pool of
another during a refresh. Bins -6 to 5 have arrays on both sides of zero, and
two, or four, of them in each direction put the border of the internal bitmap
and the end of the extension within reach of one quote or one position.
Positions as wide as an array sit in one array or across two. A seeding of three
positions shares arrays between neighbours and has a part in the extension. The
bounds are constants: `MaxSlot`, `MaxTime`, `Worths`, `OtherQuotes`, `DepositAmounts`,
`LiquidityPairs`, `FeePairs`, `SwapPairs`, `FeeSettings`, `Intervals`,
`TimeSteps`, `MaxOpened`, `MaxLost`, `Calls`, `Pools`, `Requests`, `MaxTries`,
`Transactions`. What the bounds leave out is covered by the proofs, as far as
they go.

**Fairness.** Safety runs assume none. Three runs have a liveness property:

- `maiker_assets`: strong fairness of each user's `ProcessWithdrawal`. Anyone
  can send an instruction at any time, and a user who is owed money keeps
  trying; strong, because the instruction is enabled only while vault X holds
  enough. Nothing is assumed of the admin, since no code brings tokens back:
  the property therefore names a vault that stays short as the only excuse.
- `sdk_client`: weak fairness of each `refresh()` once begun (a promise
  continues), weak fairness of the fate of a signed transaction (it runs, is
  refused, or expires with its blockhash), strong fairness of building deposits
  and of their success: a client that tries over and over finds, when its list
  is current often enough, a transaction that runs before the list changes. The
  actions of others and lost reads get no fairness.
- `pool_math`: weak fairness of `Plan` (the caller asks again while something is
  missing) and of a pending transaction being settled one way or the other, and
  strong fairness of `Land`: of transactions sent over and over one that can
  succeed does at some time. Without the last, a network that loses everything
  refutes any promise.

## 4. Where documents and code differ

Each of these runs is expected to be violated: TLC produces the scenario.

| Run | Document | Code |
|---|---|---|
| `doc_entry_value` | `docs/PerformanceFee.md:145` records the price of entry for a new user | `initialize_user` records 1.0 |
| `doc_fee_on_recovery` | `docs/PerformanceFee.md:13` charges no fee on recovered losses | `last_share_value` is overwritten also after a loss |
| `sdk_map_pairing` | `S/maiker.ts:71`: "Map of position addresses to their info" | missing accounts are dropped before the answers are paired by index |
| `flash_swap` | `flash_swap.rs:140`: "Assert accounts are equal" | accounts 8 and 9 of `end_swap` are compared with the wrong ones of the struct, so equal accounts are refused |
| `tx_two_limits` | `S/utils/buildTxAndCheckCu.ts:85`: add a limit "if we don't have a set CU limit ix" | the search wants 9 bytes of data, a limit has 5: one is always added |

Plain differences that need no scenario: `tests/maiker-contracts.ts:1080` expects
the entries behind a removed position to shift down, and the last one moves into
the hole; `docs/FLOW.md:81` bases the window on the configured interval, and the
code on 3600 seconds; `docs/FLOW.md:87` reduces the total of shares at
initiation, and the code when the withdrawal is processed.

Seen while reading, and not stated as properties:

- Program: a residual in `end_swap_handler` reduces the amount that must be
  equal to the expected one (`strategy_config.rs:316`); a lighthouse instruction
  after `end_swap` is scanned until the compute limit (`flash_swap.rs:203`,
  `continue` before the increment); `begin_swap`'s amount is declared as an
  argument that `end_swap` does not have; the performance fee is a share of the
  shares and not of the gain in value (`user_position.rs:74` has a TODO); a user
  settled at a price of 0 cannot act any more; vault Y is not part of the price
  (`deposit.rs:74` has a TODO); the pool and the bin arrays of a quote are not
  compared with the position (`get_position_value.rs:21`); the price is truncated by the cast to u64.
- SDK: closed positions stay in `this.positions`, so `getStrategyValue` throws
  "Missing positions data" after a close (`maiker.ts:1186`); with a bin array
  missing `refresh()` throws (`helpers/solana.ts:29`, `maiker.ts:293`); two
  overlapping refreshes may pair wrongly (207, 223); the global configuration is
  never refreshed; a user's value is off by `SHARE_PRECISION` (1021); the value
  of Y in X and the total use different prices (1223, 1245); swaps take no
  reversed pairs (598); a removal passes no bitmap extension though an addition
  does.
- Transaction builder: `removeLastIxPostSim` cuts the price instruction; an empty
  list of fees throws.
- Library: the protocol fee of a quote is twice that of its last bin
  (`index.ts:3913`, `4126`); `calculateSpotDistribution` drops a remainder off
  the active bin (`weight.ts:156`); the search for bin 0 by `find()` fails
  (`weight.ts:25`); `toAmountBothSide` throws without weight for Y; weights that
  round to 0 drop their bins; one-sided deposits by weight pass no extension
  (`index.ts:2899`, `3352`); the set of arrays already created in a seeding is
  never added to (`index.ts:5165`), so two groups create a shared array, of
  which one fails, and the cost counts it twice; a second `seedLiquidity` while
  a deposit is in flight would deposit again; `seedLiquiditySingleBin` deposits
  on every call; `syncWithMarketPrice` takes the second and third fetched account
  for its two bin arrays although without an extension they are the first and
  second (`index.ts:6011`, `6015`); a removal that closes the position claims fees
  of the narrowed range only; a position with a bin array missing is not shown,
  since `binArray.version` is read of the missing array (`index.ts:6395`).

## 5. Proofs

`tlapm` checks every proof to the last leaf. They hold for any sets of users,
admins, positions, treasuries and calls, any fees, amounts and scales that
satisfy the assumptions. The models' bounds are constants, so the theorems are
independent of their values. TLC evaluates every assumption in the runs; they
are named in the modules:

- Program: users are finitely many and own no treasury account, amounts and
  scales are natural numbers, the precision is positive and fits a u64. A quote
  from accounts that are not the position's is any natural number
  (`QuotesAssumption`).
- Sizes (`SizeAssumption`, `RoomAssumption`, `PositionAssumption`): an array has
  bins, positions are not wider than an array, and the bitmaps have bits and room
  beyond the last bins.
- Prices (`PriceAssumption`, `MultipleAssumption`): positive, and the models'
  common multiples, which replace fractions, are multiples of them.
- Weights and shares (`WeightAssumption`): the default weights and the whole of
  the basis points are positive.
- Pools (`PoolsAssumption`, the `"value"` and `"sync"` calls of
  `CallsAssumption`): what the DLMM program keeps up. A pool's bitmaps say where
  it has liquidity, it has X from the active bin up and Y from it down, and
  without the extension account nothing is beyond the internal bitmap.
- Arguments (`RequestsAssumption`, `CallsAssumption`): amounts and counts are
  natural numbers, 0 included, extra arrays are at most the
  `MAX_EXTRA_BIN_ARRAYS` beyond which a quote is refused before it begins, ranges are ranges of the pool's bins, and seedings are those that
  `seedLiquidity` does not refuse.
- Values that mean an error (`ThrowsAssumption`, `FailedAssumption`,
  `NoArrayAssumption`) are none of the values they are told apart from.

| Theorem | States |
|---|---|
| `Maiker_proofs`: `UsesRegistry` | every step of the program is a step of `PositionSpec` or leaves the positions alone |
| `TypesHold`, `SharesAreConserved`, `WithdrawingAllCoversFees`, `FreshnessHolds` | the invariants of the runs |
| `PaymentsAreLocked`, `PendingStaysLocked`, `LocksAreFair`, `DepositsDoNotProfit`, `NobodyIsDiluted`, `PricesAreOfThisSlot` | the action properties of the runs |
| `StrategyPositions_proofs`: `ArraysImplementRegistry` | the arrays implement the map |
| `ArraysTypeOK`, `ArraysStayWellFormed`, `ArraysTrack`, `LoopsAgree`, `ListedUnquoted` | the properties of the arrays |
| `BinArrays_proofs`: `IndexIsFloor`, `PlaceOfBin` | the array of a bin and its place in it, on both sides of zero |
| `NextIsNearest` | the search for liquidity finds the nearest array, across the bitmaps |
| `PoolMath_proofs`: `EveryBinIsFound`, `DepositsReach`, `RemovalsFindTheirBins` | the arrays that valuations read and transactions name |
| `SyncsFindAllLiquidity` | a pool moves to a price only over arrays without liquidity |
| `DepositsKeepTheBudget`, `AutoFillsBalance`, `AllocationsAreWhole` | what deposits by weight, by strategy and with a filled amount ask for and leave, and the basis points of every shape |
| `ValuesAreFair` | the program's value and the amounts of client and library against the exact ones of a position |
| `FeesAreIncluded` | the amount sent with the transfer fee, and that it is nearly the smallest |
| `PositionsAreSeededOnce` | no bin gets more than its amount, whatever is lost and planned again |
| `Swap_proofs`: `FetchesTheNearest`, `BinsDrainInOrder`, `FailuresAreDry`, `QuotesAgree`, `QuotesAdvance` | the properties of `swap_quote` |
| `MaikerSDK_proofs`: `SDKTypeCorrect` | the shapes of copies, calls and transactions |
| `SharesArePricedOnOwn`, `RefusalsAreOutdated`, `RefreshesAreExact` | the safety of `sdk_client`, for refreshes that do not overlap (`OneCall`) |

**The ledger.** The invariant `Inv` has three parts.

1. `TypeInv` is `TypeOK` with `RegistryInv`, the registry's own inductive
   invariant, which `UsesRegistry` carries over. `FreshMeansThisSlot` alone is
   not inductive: when the slot advances, a stamp equal to the *new* slot would
   make an old value fresh, so `StampsNotAhead` is needed; and a new quote that
   is not `misread` has a value of this slot only because `WorthIsSeen`. `TrackedFinite` gives the
   total of the positions a value.
2. `LedgerInv` is `SharesConserved` with `ClosedAccountsEmpty`: an account that
   does not exist holds no shares. Without it, creating a user position or a
   pending withdrawal could overwrite shares that the sum counts.
3. `PendingTimed`: every open pending withdrawal has the window computed from
   its own initiation, so that a payment, which reads only the record, is known
   to be more than an hour after it.

Sums over users are `SumOver` (`ShareSums`), the cardinality of a set of units:
a cardinality is what the theorems on finite sets speak of, and `MCMaiker` has
TLC check that it agrees with a fold. `Data_proofs` shows how a sum changes with
one entry. The first part of `Maiker_proofs` has the arithmetic: the price
and the amount round down, a mint at the rounded price is worth no more than the
deposit and does not lower the price, a burn at the price does not lower it, the
window is between one and two hours, and the two fees, each rounded down, are
together at most the shares of the user when their rates leave room
(`PerformanceFeeRoundsDown`, `FeesFit`).

**The arrays.** `ArraysInv` is `TypeOK` and `ArraysWellFormed` with three facts: the keys
listed are the open positions (`ListsOpen`), a stamp of this slot vouches for the
value beside it and none is of a later slot (`StampsVouch`), and what a position
is worth was seen in this slot (`WorthIsSeen`). Keys are distinct, so the index of
a key is a function and `RegistryOf` is a map; removal moves the last key with its
value and its stamp, and the map loses just the key removed. A new key is
unquoted because `ArraysWellFormed` says the entries behind the counter are wiped.
That the loop over values is the sum over the map is a bijection between units of
entries and units of keys.

**Bin arrays.** A division that rounds towards zero, corrected below zero, is the
floor; from this a bin's array holds it, and its place in the array leads back to
it. A range as wide as a position meets at most two arrays, which are next to
each other. The theorems on transactions need the lowest and highest bin of a
set: a set of integers in a range has both, by the well-foundedness of the
natural numbers.

**The search.** A bit of the extension stands for one array only, because a number
is known from its quotient and rest (`ExtensionBitIsSet`), so that each bitmap
holds exactly the arrays with liquidity. A turn of the search that finds
something found the nearest array, as what is left out of its bitmap is farther
away; one that goes on has passed nothing by (`InternalTurn`, `ExtensionTurn`).
From a bitmap the search goes on to the next one in its direction, which is why
three turns are enough (`NextIsNearest`). Without the extension it may stop at
the border of the internal bitmap, since such a pool has no liquidity behind it.

**Seeding.** The invariant `SeedingInv` says that the amounts of the plan are those
of the curve, that the pool holds nothing else (`NothingElse`), and that a
pending deposit is for a position whose bins are still empty
(`PendingAreEmpty`). The last is what makes a retry safe: a plan asks only for
empty positions, and deposits of one plan are for positions that have no bin in
common (`PositionsApart`), so that one of them leaves the others' bins empty.

**Sums.** The client models sum over bins with a fold of the community modules.
`Data_proofs` shows that a fold over a set, in whatever order, is a `Total`, the
same cardinality as above (`FoldIsTotal`, `SumIs`), and then what the other
proofs need of totals: sums and multiples of functions, order, an element taken
out, elements that are zero left out, an interval numbered from another end, and
that a total of quotients is less than a unit an element below the quotient of
the total (`TotalOfQuotients`). The library's induction takes an operator as a
parameter; where a proof needs one it looks for the least counterexample in a
set of natural numbers (`NoCounterexample`) or builds up a set of sets
(`SetInduction`).

**Deposits.** Amounts are parts of a total in proportion to weights, rounded
down, so they are at most the total and less than a unit a bin below it
(`PartsOfAll`). Where both tokens are spread with one scale, the smaller of two,
the scale times the weights of a side is at most the amount of that side, and
equal to it on the side that gave the scale (`Rated`, `SmallerRateLeaves`). Prices
enter as multiples, which divide without a rest (`PriceDivides`). The bids of a
strategy and the asks are spread separately and put together (`Extended`); the
active bin is on one side only. An amount filled in is the other one times the
ratio of the weights, rounded down: of the two scales either is then as good as
the other up to the worth of a unit (`FilledMatches`), whichever is the smaller.

**Basis points.** Floored parts with the rest added to one bin are a whole
(`LossCompletes`), if the rest is added exactly once; in a bid-ask
distribution each half of the whole is completed on its own
(`HalvesAreComplete`).

**Fees.** The fee is a quotient rounded up and cut at the maximum. What arrives
grows with what is sent (`FeeReaches`), and the inverse, also rounded up, is
compared with it below the maximum, at the maximum and at the full rate
(`FeeIsIncluded`).

**The value of a position.** Client and library read the bins of a position in
order and each once, from one array or from two that are next to each other
(`BinsAreConsecutive`); so the sums they make are sums over the position's bins
(`SumInOrder`). What the program leaves out is zero: bins without shares, and a
token that is not in its bin. Each part rounded down is the quotient of the exact
part by the common multiple of the supplies (`PartIsFloor`), which bounds the two
totals, and the price turns them into a value with one more rounding (`WorthIs`).

**Quotes.** The invariant `WalkInv` has five parts. `PlaceInv`: where the quote is.
`ListInv`: the arrays fetched are the nearest, those used are the first of them,
and those left are not behind the current bin. `DrainInv`: what was bought is
what the bins passed hold, all arrays passed with liquidity were fetched, and a
quote that failed is not in a fetched array or had nothing to swap. `AskInv`: a quote for an output has
paid for each bin passed what draining it costs, so that in the end its input is
the cost of the output. `BackInv`: the quote for that input has paid the same for
the bins passed; therefore it cannot run dry where the other one did not, and in
the bin where the other ended, the input left buys the output left, as the fee
that was added is at least the one then taken off. It has nothing to swap only if
nothing was wanted, since no output costs nothing (`NothingIsFree`). `NextIsNearest` is what a step
of fetching needs.

**The client.** `SDKInv` says that no copy is of a position yet to be opened
(`CopiesAreOld`), that what a call has found belongs to the list it read and that
this is still the client's list (`CallFollowsList`), and that without lost reads
the copies are paired rightly and complete (`CopiesRight`). `CallFollowsList`
needs `OneCall`: a second refresh that overlaps the first replaces the list
between the two, and then keys are paired with the accounts of others. This is
the hazard at `maiker.ts:207`, and the run has one call for the same reason.

**Model-checked only.** Everything about liveness (`PaidUnlessVaultShort`,
`DepositsGetThrough`, `SeedsEverything`), which is out of the prover's reach, and the
equality of `SumOver` with a fold in `MCMaiker`. Every invariant and action
property of the passing runs is stated by a theorem.

## 6. Plan

Done: tracking and its refinement, the ledger, the flash swap, valuation,
liveness of withdrawals, the SDK beside the chain, the library's quotes,
distributions, transactions and seeding, and the proofs above.

Left, in this order:

1. The safety half of `SeedsEverything`: when a plan asks for nothing more, the
   whole amount is in the pool, which needs that spreading the loss of the
   compression loses nothing.
2. Deposits split over several transactions, of which one fails.
3. Two overlapping refreshes, once there is a statement about them that holds.

## 7. Not modelled

- CLI: parses arguments, sends single instructions and keeps no state. (A fee that
  is no number passes its bounds, and success is printed without a look at the
  result.)
- Generated encoders, IDLs, the builders of single instructions, account decoding:
  no logic of this system. These are most of the TypeScript of the repository
  (IDLs alone are more than 17,000 of some 51,000 lines), which is why the
  modelled code is a small part of its lines though it holds the decisions.
- Library: creation of pools, rewards, presets, fees and positions as views,
  `processXYAmountDistribution`, `seedLiquiditySingleBin`, the proof of ownership
  of token accounts in a seeding (`index.ts:5055`). Token-2022 fees are zero in
  quotes and distributions; the fee functions themselves are in `Seeding`.
- 128-bit fixed-point powers: TLC's integers have 32 bits. Their use, at exact
  prices, is in `PositionValue` and `Swap`.
- SDK: read-only views but for the amounts of a position.
- Events, log messages, error codes: a failing path is a false guard.
- `last_update_slot`, `last_rebalance_time`: written, never read by the program.
- Rent, account sizes and PDA derivation: an account of a user and a strategy is
  found by the pair.
