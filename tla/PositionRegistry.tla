-------------------------- MODULE PositionRegistry --------------------------
(***************************************************************************)
(* What a strategy promises about the DLMM positions it tracks: a map from *)
(* the key of every open position to the value last quoted for it and the  *)
(* slot of that quote.  StrategyPositions implements this map with three   *)
(* fixed arrays and a counter; Maiker builds the share ledger on it.       *)
(*                                                                         *)
(* The DLMM program is external.  worth[k] is the value, in token X, that  *)
(* get_position_value computes for position k at this moment from the pool *)
(* and the bin arrays of k; it is moved by liquidity instructions and by   *)
(* trades of other parties.  The instruction does not compare the pool and *)
(* the arrays it is given with the position, so the value it records may   *)
(* be another one.                                                         *)
(***************************************************************************)
EXTENDS ShareSums, Functions

CONSTANTS Positions,      \* keys a position account can have
          MAX_POSITIONS,  \* slots in the strategy account
          Worths,         \* bound: the values a position can have
          OtherQuotes,    \* bound: values that accounts of no position imply
          MaxSlot         \* bound: the last slot explored

ASSUME MaxPositionsAssumption == MAX_POSITIONS \in Nat
ASSUME WorthAssumption == Worths \subseteq Nat /\ 0 \in Worths
ASSUME QuotesAssumption == OtherQuotes \subseteq Nat
ASSUME SlotAssumption == MaxSlot \in Nat

VARIABLES registry,  \* tracked key -> [value, slot] of its last quote
          worth,     \* open DLMM position -> its value now
          seen,      \* history: open position -> values it had in this slot
          misread,   \* history: positions last quoted at a value they did not have
          slot       \* Clock::get()?.slot

positionVars == <<registry, worth, seen, misread, slot>>

Quote == [value : Nat, slot : Nat]

PositionTypeOK ==
  /\ DOMAIN registry \subseteq Positions
  /\ \A k \in DOMAIN registry : registry[k] \in Quote
  /\ DOMAIN worth \subseteq Positions
  /\ \A k \in DOMAIN worth : worth[k] \in Nat
  /\ DOMAIN seen = DOMAIN worth
  /\ \A k \in DOMAIN seen : seen[k] \subseteq Nat
  /\ misread \subseteq DOMAIN worth
  /\ slot \in Nat

\* A program is deployed after the genesis slot, so slot 0 never comes back.
PositionInit ==
  /\ registry = [k \in {} |-> 0]
  /\ worth = [k \in {} |-> 0]
  /\ seen = [k \in {} |-> {}]
  /\ misread = {}
  /\ slot = 1

-----------------------------------------------------------------------------
\* f with entry k set to v.
Put(f, k, v) == [j \in DOMAIN f \cup {k} |-> IF j = k THEN v ELSE f[j]]

\* Mutation: a quote may be one slot old.
MutFresh == \A k \in DOMAIN registry : registry[k].slot >= slot - 1

\* Every tracked position was quoted in the current slot.
Fresh == \A k \in DOMAIN registry : registry[k].slot = slot

QuotedValues == [k \in DOMAIN registry |-> registry[k].value]

TotalPositionsValue == SumOver(QuotedValues)

\* initialize_position: the CPI opens an empty position, which is then
\* tracked without a quote.  A full strategy aborts the whole instruction.
InitializePosition(k) ==
  /\ k \notin DOMAIN worth
  /\ Cardinality(DOMAIN registry) < MAX_POSITIONS
  /\ registry' = Put(registry, k, [value |-> 0, slot |-> 0])
  /\ worth' = Put(worth, k, 0)
  /\ seen' = Put(seen, k, {0})
  /\ UNCHANGED <<misread, slot>>

\* close_position: DLMM closes only an empty position.
ClosePosition(k) ==
  /\ k \in DOMAIN worth
  /\ worth[k] = 0
  /\ k \in DOMAIN registry
  /\ registry' = Restrict(registry, DOMAIN registry \ {k})
  /\ worth' = Restrict(worth, DOMAIN worth \ {k})
  /\ seen' = Restrict(seen, DOMAIN seen \ {k})
  /\ misread' = misread \ {k}
  /\ UNCHANGED slot

\* The accounts of a quote can be those of any open position, or others.
QuotableValues == Range(worth) \cup OtherQuotes

\* The positions misread after a quote of k.
Misread(k, value) == IF value = worth[k] THEN misread \ {k} ELSE misread \cup {k}

\* Mutation: the stamp is refreshed, the value is not.
MutGetPositionValue(k, value) ==
  /\ k \in DOMAIN worth
  /\ k \in DOMAIN registry
  /\ registry' = [registry EXCEPT ![k].slot = slot]
  /\ misread' = Misread(k, value)
  /\ UNCHANGED <<worth, seen, slot>>

\* get_position_value: anyone may quote a tracked position, at the value the
\* pool and the bin arrays of the call imply for it.
GetPositionValue(k, value) ==
  /\ k \in DOMAIN worth
  /\ k \in DOMAIN registry
  /\ registry' = [registry EXCEPT ![k] = [value |-> value, slot |-> slot]]
  /\ misread' = Misread(k, value)
  /\ UNCHANGED <<worth, seen, slot>>

\* A trade in the pool, or a liquidity instruction, changes what k is worth.
ChangeWorth(k, w) ==
  /\ k \in DOMAIN worth
  /\ worth' = [worth EXCEPT ![k] = w]
  /\ seen' = [seen EXCEPT ![k] = @ \cup {w}]
  /\ UNCHANGED <<registry, misread, slot>>

AdvanceSlot ==
  /\ slot < MaxSlot
  /\ slot' = slot + 1
  /\ seen' = [k \in DOMAIN worth |-> {worth[k]}]
  /\ UNCHANGED <<registry, worth, misread>>

PositionNext ==
  \/ \E k \in Positions :
       \/ InitializePosition(k)
       \/ ClosePosition(k)
       \/ \E v \in QuotableValues : GetPositionValue(k, v)
       \/ \E w \in Worths : ChangeWorth(k, w)
  \/ AdvanceSlot

PositionSpec == PositionInit /\ [][PositionNext]_positionVars

-----------------------------------------------------------------------------
\* The strategy tracks exactly the DLMM positions it owns: close_position and
\* initialize_position update both or neither.
TracksOpenPositions == DOMAIN registry = DOMAIN worth

\* What freshness really gives (strategy_config.rs, validate_position_values_
\* freshness): a value stamped with this slot is one the position had at some
\* moment of this slot, which need not be its value now, unless it was
\* computed from accounts that are not the position's own.  No stale value
\* gets a new stamp.
FreshMeansThisSlot ==
  \A k \in DOMAIN registry :
    registry[k].slot = slot /\ k \notin misread
      => k \in DOMAIN seen /\ registry[k].value \in seen[k]
=============================================================================
