----------------------------- MODULE MaikerSDK -----------------------------
(***************************************************************************)
(* The client SDK beside the chain it copies.  A MaikerSDK object keeps    *)
(* the strategy account, a map of positions and a map of pools, refreshed  *)
(* over several awaits, and builds transactions from these copies, which   *)
(* execute later or never, while others open and close positions.          *)
(*                                                                         *)
(* Of the chain the module has what the copies are copies of: the keys the *)
(* strategy lists (as a sequence, without the fillers behind it) and which *)
(* bin arrays exist.  Values and stamps of positions are in                *)
(* StrategyPositions; prices, and so the active bin, move all the time.    *)
(* An entry of the position map is modelled by the position whose account  *)
(* it was decoded from: the pool and the bin arrays used for a key are     *)
(* those of that account.                                                  *)
(***************************************************************************)
EXTENDS Integers, FiniteSets, SequencesExt

CONSTANTS MAX_POSITIONS,
          MaxOpened,      \* positions ever opened
          Pools, PoolOf,  \* the pool each position is in
          Calls,          \* refresh() calls that may overlap
          MaxLost         \* account reads the RPC node fails to answer

\* The key of a position is a fresh keypair, and is not used again: keys are
\* numbered in the order in which they are used.
Positions == 1 .. MaxOpened
NoPosition == 0  \* Pubkey::default()

ASSUME BoundAssumption == MAX_POSITIONS \in Nat /\ MaxOpened \in Nat /\ MaxLost \in Nat
ASSUME PoolAssumption == PoolOf \in [Positions -> Pools]

VARIABLES
  positions,  \* keys the strategy lists
  opened,     \* keys used so far
  arrays,     \* positions whose bin arrays exist
  lost,       \* reads lost so far
  strategyAcc, cached, lbPairs,  \* the object's copies; cached is `positions`
  call,       \* its refresh() calls
  tx          \* the transaction that is signed and not yet executed

chainVars == <<positions, opened, arrays>>
sdkVars == <<strategyAcc, cached, lbPairs, call>>
vars == <<chainVars, lost, sdkVars, tx>>

Open == ToSet(positions)

Idle == [pc |-> "idle", keys |-> <<>>, found |-> <<>>, whole |-> TRUE]
NoPool == NoPosition
NoTx == [kind |-> "none", quotes |-> <<>>, lbPair |-> NoPool]

Found == [key : Positions \cup {NoPosition}, of : Positions]
CallType == [pc : {"idle", "positions", "pools", "reserves"},
             keys : Seq(Positions), found : Seq(Found), whole : BOOLEAN]

TypeOK ==
  /\ positions \in Seq(Positions) /\ Len(positions) <= MAX_POSITIONS
  /\ IsInjective(positions)
  /\ opened \in 0 .. MaxOpened /\ arrays \subseteq Positions
  /\ lost \in 0 .. MaxLost
  /\ strategyAcc \in Seq(Positions)
  /\ DOMAIN cached \subseteq Positions \cup {NoPosition} /\ Range(cached) \subseteq Positions
  /\ DOMAIN lbPairs \subseteq Pools
  /\ Range(lbPairs) \subseteq Pools
  /\ call \in [Calls -> CallType]
  /\ tx.kind \in {"none", "shares", "add", "create", "remove", "close"}
  /\ DOMAIN tx.quotes \subseteq Positions /\ Range(tx.quotes) \subseteq Positions

\* create: the strategy is fetched, the maps are empty.
Init ==
  /\ positions = <<>>
  /\ opened = 0 /\ arrays = {}
  /\ lost = 0
  /\ strategyAcc = positions
  /\ cached = <<>>
  /\ lbPairs = <<>>
  /\ call = [c \in Calls |-> Idle]
  /\ tx = NoTx

-----------------------------------------------------------------------------
(***************************************************************************)
(* refresh(): strategy, positions, bin arrays and pools, reserves, with an *)
(* await before each.  An account that is missing, or whose read fails, is *)
(* null, and nulls are dropped from the answers.                           *)
(***************************************************************************)
\* The answers that are not null, in order.
Answers(asked, null) ==
  LET kept[n \in 0 .. Len(asked)] ==
        IF n = 0 THEN <<>>
        ELSE IF asked[n] \in null THEN kept[n - 1]
        ELSE Append(kept[n - 1], asked[n])
  IN kept[Len(asked)]

\* What is in the map stays in it.
MutMerge(f, g) == [x \in DOMAIN f \cup DOMAIN g |-> IF x \in DOMAIN f THEN f[x] ELSE g[x]]

\* The entries of map f under those of g.
Merge(f, g) == [x \in DOMAIN f \cup DOMAIN g |-> IF x \in DOMAIN g THEN g[x] ELSE f[x]]

Lose(n) == lost + n <= MaxLost /\ lost' = lost + n

FetchStrategy(c) ==
  /\ call[c].pc = "idle"
  /\ strategyAcc' = positions
  /\ call' = [call EXCEPT ![c] = [pc |-> "positions", keys |-> positions,
                                found |-> <<>>, whole |-> TRUE]]
  /\ UNCHANGED <<chainVars, lost, cached, lbPairs, tx>>

\* chunkedGetMultipleAccountInfos: the accounts that were read, in order.
Answered(keys, missing) ==
  Answers(keys, missing \cup (Positions \ Open))

\* Off by one.
MutKeyAt(i) == IF i + 1 \in DOMAIN strategyAcc THEN strategyAcc[i + 1] ELSE NoPosition

\* strategyAcc.positions[i], a filler behind the listed keys.
KeyAt(i) == IF i \in DOMAIN strategyAcc THEN strategyAcc[i] ELSE NoPosition

\* The i-th account that was read is taken for the i-th key of the strategy.
FetchPositions(c, missing) ==
  /\ call[c].pc = "positions"
  /\ LET answered == Answered(call[c].keys, missing)
         found == [i \in DOMAIN answered |-> [key |-> KeyAt(i), of |-> answered[i]]]
     IN call' = [call EXCEPT ![c] = [pc |-> "pools", keys |-> <<>>,
                                     found |-> found, whole |-> TRUE]]
  /\ Lose(Cardinality(missing))
  /\ UNCHANGED <<chainVars, strategyAcc, cached, lbPairs, tx>>

\* The pools of the positions found, each once.
PoolsFound(c) ==
  LET found == call[c].found
      pools[n \in 0 .. Len(found)] ==
        IF n = 0 THEN <<>>
        ELSE IF PoolOf[found[n].of] \in ToSet(pools[n - 1]) THEN pools[n - 1]
        ELSE Append(pools[n - 1], PoolOf[found[n].of])
  IN pools[Len(found)]

\* With a bin array missing, the account of a pool is decoded in its place,
\* which throws.
FetchPools(c, missing) ==
  /\ call[c].pc = "pools"
  /\ \A i \in DOMAIN call[c].found : call[c].found[i].of \in arrays
  /\ LET pools == PoolsFound(c)
         answered == Answers(pools, missing)
     IN /\ lbPairs' = Merge(lbPairs,
             [p \in {pools[i] : i \in DOMAIN answered} |->
                answered[CHOOSE i \in DOMAIN answered : pools[i] = p]])
        /\ call' = [call EXCEPT ![c] = [pc |-> "reserves", keys |-> <<>>,
                                         found |-> call[c].found, whole |-> (missing = {})]]
  /\ Lose(Cardinality(missing))
  /\ UNCHANGED <<chainVars, strategyAcc, cached, tx>>

\* The entries of closed positions stay in the map.
FetchReserves(c) ==
  /\ call[c].pc = "reserves"
  /\ call[c].whole
  /\ LET found == call[c].found
     IN cached' = Merge(cached,
          [k \in {found[i].key : i \in DOMAIN found} |->
             found[CHOOSE i \in DOMAIN found : found[i].key = k].of])
  /\ call' = [call EXCEPT ![c] = Idle]
  /\ UNCHANGED <<chainVars, lost, strategyAcc, lbPairs, tx>>

\* refresh() rejects; what it has stored so far stays.
RefreshThrows(c) ==
  /\ \/ /\ call[c].pc = "pools"
        /\ \E i \in DOMAIN call[c].found : call[c].found[i].of \notin arrays
        /\ UNCHANGED lost
     \/ call[c].pc \in {"pools", "reserves"} /\ Lose(1)
     \/ call[c].pc = "reserves" /\ ~call[c].whole /\ UNCHANGED lost
  /\ call' = [call EXCEPT ![c] = Idle]
  /\ UNCHANGED <<chainVars, strategyAcc, cached, lbPairs, tx>>

-----------------------------------------------------------------------------
(***************************************************************************)
(* Transactions.  The application awaits refresh() before it builds one.   *)
(* A builder throws, and no transaction exists, when what it needs is not  *)
(* in the maps.                                                            *)
(***************************************************************************)
\* Mutation: a transaction is built while a refresh() is under way.
MutSettled == TRUE

Settled == \A c \in Calls : call[c].pc = "idle"

Build(t) ==
  /\ tx = NoTx
  /\ Settled
  /\ tx' = t
  /\ UNCHANGED <<chainVars, sdkVars>>

\* Mutation: as in getStrategyValue, the map must hold the listed positions and no more.
MutBuildShares ==
  LET keys == ToSet(strategyAcc)
  IN /\ keys = DOMAIN cached
     /\ Build([kind |-> "shares", quotes |-> Restrict(cached, keys), lbPair |-> NoPool])
     /\ UNCHANGED lost

\* createPositionValueInstructions for every listed position, and a deposit or
\* the initiation of a withdrawal behind them.
BuildShares ==
  LET keys == ToSet(strategyAcc)
  IN /\ keys \subseteq DOMAIN cached
     /\ Build([kind |-> "shares", quotes |-> Restrict(cached, keys), lbPair |-> NoPool])
     /\ UNCHANGED lost

\* createRemoveLiquidity-, createMeteoraClaimFees-, createClosePositionInstruction.
BuildOnPosition(kind, k) ==
  LET pool == PoolOf[cached[k]]
  IN /\ k \in DOMAIN cached
     /\ pool \in DOMAIN lbPairs
     /\ Build([kind |-> kind, quotes |-> Restrict(cached, {k}), lbPair |-> lbPairs[pool]])
     /\ UNCHANGED lost

\* createAddLiquidityInstruction.  The caller names position and pool; the
\* active bin comes from the map, with no slippage.  Bin arrays that seem to be
\* missing, or whose read fails, are created by the transaction.
BuildAdd(k) ==
  LET add(kind) == Build([kind |-> kind, quotes |-> [x \in {k} |-> k], lbPair |-> lbPairs[PoolOf[k]]])
  IN /\ k \in Open
     /\ PoolOf[k] \in DOMAIN lbPairs
     /\ \/ k \in arrays /\ add("add") /\ UNCHANGED lost
        \/ k \in arrays /\ add("create") /\ Lose(1)
        \/ k \notin arrays /\ add("create") /\ UNCHANGED lost

-----------------------------------------------------------------------------
(***************************************************************************)
(* Execution, in a later slot or never.  A transaction is all or nothing.  *)
(***************************************************************************)
Own == \A k \in DOMAIN tx.quotes : tx.quotes[k] = k

\* What the program and, for liquidity, the DLMM program check.  `others` are
\* the positions somebody else has valued in this slot: every listed position
\* must have been.  Nothing ties the bin arrays of a quote to its position.
CanLand(others) ==
  /\ DOMAIN tx.quotes \subseteq Open
  /\ IF tx.kind = "create" THEN DOMAIN tx.quotes \cap arrays = {}
                           ELSE Range(tx.quotes) \subseteq arrays
  /\ tx.kind = "shares" => Open \subseteq DOMAIN tx.quotes \cup others
  /\ tx.kind # "shares" => \A k \in DOMAIN tx.quotes :
       PoolOf[tx.quotes[k]] = PoolOf[k] /\ tx.lbPair = PoolOf[k]

Finish ==
  /\ tx' = NoTx
  /\ UNCHANGED <<lost, sdkVars, opened>>

LandShares ==
  /\ tx.kind = "shares"
  /\ \E others \in SUBSET Open : CanLand(others)
  /\ Finish
  /\ UNCHANGED <<positions, arrays>>

\* Mutation: the place of the removed key is not cut off.
MutWithout(k) ==
  [i \in 1 .. Len(positions) |-> IF positions[i] = k THEN positions[Len(positions)] ELSE positions[i]]

\* remove_position: the last key moves into the hole.
Without(k) ==
  LET last == Len(positions)
  IN SubSeq([i \in 1 .. last |-> IF positions[i] = k THEN positions[last] ELSE positions[i]],
            1, last - 1)

LandOnPosition(k) ==
  /\ tx.kind \notin {"none", "shares"} /\ k \in DOMAIN tx.quotes
  /\ CanLand({})
  /\ positions' = IF tx.kind = "close" THEN Without(k) ELSE positions
  /\ arrays' = arrays \cup {k}
  /\ Finish

\* Also when the accounts are those of another position, when what is closed
\* still holds liquidity, and when the active bin is not the one of the copy.
Refuse ==
  /\ tx # NoTx
  /\ \/ \E others \in SUBSET Open : ~(CanLand(others) /\ Own)
     \/ tx.kind \in {"close", "add", "create"}
  /\ Finish
  /\ UNCHANGED <<positions, arrays>>

\* Dropped, or its blockhash is too old.
Expire ==
  /\ tx # NoTx
  /\ Finish
  /\ UNCHANGED <<positions, arrays>>

-----------------------------------------------------------------------------
(***************************************************************************)
(* Everybody else.                                                         *)
(***************************************************************************)
Elsewhere == UNCHANGED <<lost, sdkVars, tx>>

OpenElsewhere ==
  /\ opened < MaxOpened
  /\ Len(positions) < MAX_POSITIONS
  /\ opened' = opened + 1
  /\ positions' = Append(positions, opened')
  /\ Elsewhere /\ UNCHANGED arrays

CloseElsewhere(k) ==
  /\ k \in Open
  /\ positions' = Without(k)
  /\ Elsewhere /\ UNCHANGED <<opened, arrays>>

CreateArraysElsewhere(k) ==
  /\ k \notin arrays
  /\ arrays' = arrays \cup {k}
  /\ Elsewhere /\ UNCHANGED <<positions, opened>>

-----------------------------------------------------------------------------
RefreshNext(c) ==
  \/ FetchStrategy(c)
  \/ \E missing \in SUBSET ToSet(call[c].keys) : FetchPositions(c, missing)
  \/ \E missing \in SUBSET ToSet(PoolsFound(c)) : FetchPools(c, missing)
  \/ FetchReserves(c)
  \/ RefreshThrows(c)

BuildNext ==
  \/ BuildShares
  \/ \E k \in Positions : \/ \E kind \in {"remove", "close"} : BuildOnPosition(kind, k)
                          \/ BuildAdd(k)

LandNext == LandShares \/ (\E k \in Positions : LandOnPosition(k)) \/ Refuse \/ Expire

ElsewhereNext ==
  \/ OpenElsewhere
  \/ \E k \in Positions : CloseElsewhere(k) \/ CreateArraysElsewhere(k)

Next == (\E c \in Calls : RefreshNext(c)) \/ BuildNext \/ LandNext \/ ElsewhereNext

Spec == Init /\ [][Next]_vars

(***************************************************************************)
(* The event loop runs every continuation.  An application that wants a    *)
(* deposit keeps refreshing and building, a signed transaction is executed *)
(* or expires, and not every one that could execute is dropped.            *)
(***************************************************************************)
FairSpec ==
  /\ Spec
  /\ \A c \in Calls : WF_vars(RefreshNext(c))
  /\ WF_vars(LandNext)
  /\ SF_vars(BuildShares) /\ SF_vars(LandShares)

-----------------------------------------------------------------------------
(***************************************************************************)
(* Properties.                                                             *)
(***************************************************************************)

\* maiker.ts:71 calls the map "Map of position addresses to their info".
MapOfTheirInfo == \A k \in DOMAIN cached : cached[k] = k

\* While no account read was lost, shares are priced on quotes that were each
\* computed from the bin arrays of the position quoted, however positions were
\* opened and closed during and after the refresh.
QuotesOwnPositions == [][LandShares /\ lost = 0 => Own]_vars

\* While no read was lost, a deposit is turned down only when a position was
\* opened or closed behind the client's back: a client whose list is current
\* gets through.
RefusedOnlyIfOutdated ==
  [][Refuse /\ tx.kind = "shares" /\ lost = 0 => DOMAIN tx.quotes # Open]_vars

\* A refresh that completes with the list it began with has every open
\* position, its own account and its pool, whatever older entries said.
RefreshIsExact ==
  [][\A c \in Calls : FetchReserves(c) /\ lost = 0 /\ strategyAcc = positions
       => \A k \in Open : /\ k \in DOMAIN cached' /\ cached'[k] = k
                          /\ PoolOf[k] \in DOMAIN lbPairs]_vars

\* Once positions are left alone, deposits get through again and again, unless
\* an open position has no bin arrays: then no refresh() completes.
DepositsGetThrough == <>[](Open \ arrays # {}) \/ []<><<LandShares>>_vars
=============================================================================
