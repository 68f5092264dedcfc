------------------------- MODULE StrategyPositions -------------------------
(***************************************************************************)
(* Position tracking as the StrategyConfig account stores it: three arrays *)
(* of MAX_POSITIONS entries and position_count, with removal by swapping   *)
(* the last entry into the hole.  Implements PositionRegistry.  Indices    *)
(* run from 1 here and from 0 in the code.                                 *)
(***************************************************************************)
EXTENDS ShareSums, Functions

CONSTANTS Positions, MAX_POSITIONS, Worths, OtherQuotes, MaxSlot,
          NoPosition  \* Pubkey::default(), the filler of unused entries

ASSUME FillerAssumption == NoPosition \notin Positions
ASSUME CapacityAssumption == MAX_POSITIONS \in Nat
ASSUME ValueAssumption == Worths \subseteq Nat /\ 0 \in Worths
ASSUME OtherQuotesAssumption == OtherQuotes \subseteq Nat
ASSUME ClockAssumption == MaxSlot \in Nat

VARIABLES position_count, positions, positions_values, last_position_update,
          worth, seen, misread, slot   \* as in PositionRegistry

arrayVars == <<position_count, positions, positions_values, last_position_update>>
vars == <<arrayVars, worth, seen, misread, slot>>

Index == 1 .. MAX_POSITIONS
Used == 1 .. position_count

TypeOK ==
  /\ position_count \in 0 .. MAX_POSITIONS
  /\ positions \in [Index -> Positions \cup {NoPosition}]
  /\ positions_values \in [Index -> Nat]
  /\ last_position_update \in [Index -> Nat]
  /\ DOMAIN worth \subseteq Positions
  /\ \A k \in DOMAIN worth : worth[k] \in Nat
  /\ DOMAIN seen = DOMAIN worth
  /\ \A k \in DOMAIN seen : seen[k] \subseteq Nat
  /\ misread \subseteq DOMAIN worth
  /\ slot \in Nat

\* initialize_strategy
Init ==
  /\ position_count = 0
  /\ positions = [i \in Index |-> NoPosition]
  /\ positions_values = [i \in Index |-> 0]
  /\ last_position_update = [i \in Index |-> 0]
  /\ worth = [k \in {} |-> 0]
  /\ seen = [k \in {} |-> {}]
  /\ misread = {}
  /\ slot = 1

-----------------------------------------------------------------------------
\* f with entry k set to v.
Put(f, k, v) == [j \in DOMAIN f \cup {k} |-> IF j = k THEN v ELSE f[j]]

\* The entry a search from the front finds.
Holds(i, k) == i \in Used /\ positions[i] = k /\ \A j \in 1 .. (i - 1) : positions[j] # k

\* Mutation: one entry too many.
MutAddPosition(k) ==
  /\ position_count <= MAX_POSITIONS
  /\ positions' = [positions EXCEPT ![position_count + 1] = k]
  /\ position_count' = position_count + 1
  /\ UNCHANGED <<positions_values, last_position_update>>

AddPosition(k) ==
  /\ position_count < MAX_POSITIONS
  /\ positions' = [positions EXCEPT ![position_count + 1] = k]
  /\ position_count' = position_count + 1
  /\ UNCHANGED <<positions_values, last_position_update>>

\* Mutation: the last entry is not reset.
MutSwapRemove(a, i, filler) == [a EXCEPT ![i] = a[position_count]]

\* Copy the last entry of array a over entry i, then reset the last entry.
SwapRemove(a, i, filler) == [a EXCEPT ![i] = a[position_count], ![position_count] = filler]

\* Mutation: values and stamps do not follow their key.
MutRemovePosition(k) ==
  \E i \in Used :
    /\ Holds(i, k)
    /\ positions' = SwapRemove(positions, i, NoPosition)
    /\ positions_values' = [positions_values EXCEPT ![position_count] = 0]
    /\ last_position_update' = [last_position_update EXCEPT ![position_count] = 0]
    /\ position_count' = position_count - 1

RemovePosition(k) ==
  \E i \in Used :
    /\ Holds(i, k)
    /\ positions' = SwapRemove(positions, i, NoPosition)
    /\ positions_values' = SwapRemove(positions_values, i, 0)
    /\ last_position_update' = SwapRemove(last_position_update, i, 0)
    /\ position_count' = position_count - 1

\* Mutation: the stamp is not refreshed.
MutUpdatePositionValue(k, value) ==
  /\ positions_values' =
       [i \in Index |-> IF Holds(i, k) THEN value ELSE positions_values[i]]
  /\ UNCHANGED <<last_position_update, position_count, positions>>

UpdatePositionValue(k, value) ==
  /\ positions_values' =
       [i \in Index |-> IF Holds(i, k) THEN value ELSE positions_values[i]]
  /\ last_position_update' =
       [i \in Index |-> IF Holds(i, k) THEN slot ELSE last_position_update[i]]
  /\ UNCHANGED <<position_count, positions>>

ValidatePositionValuesFreshness ==
  \A i \in Used : positions[i] # NoPosition => last_position_update[i] = slot

\* Mutation: the loop stops one entry early.
MutGetTotalPositionsValue ==
  SumOver([i \in 1 .. (position_count - 1) |-> positions_values[i]])

GetTotalPositionsValue ==
  SumOver([i \in {j \in Used : positions[j] # NoPosition} |-> positions_values[i]])

-----------------------------------------------------------------------------
(***************************************************************************)
(* The handlers: a DLMM call, then the update of the arrays.               *)
(***************************************************************************)
InitializePosition(k) ==
  /\ k \notin DOMAIN worth
  /\ worth' = Put(worth, k, 0)
  /\ seen' = Put(seen, k, {0})
  /\ AddPosition(k)
  /\ UNCHANGED <<misread, slot>>

ClosePosition(k) ==
  /\ k \in DOMAIN worth
  /\ worth[k] = 0
  /\ worth' = Restrict(worth, DOMAIN worth \ {k})
  /\ seen' = Restrict(seen, DOMAIN seen \ {k})
  /\ misread' = misread \ {k}
  /\ RemovePosition(k)
  /\ UNCHANGED slot

\* `contains` looks at all MAX_POSITIONS entries, the unused ones included.  The
\* value is the one that the pool and the bin arrays of the call imply.
GetPositionValue(k, value) ==
  /\ \E i \in Index : positions[i] = k
  /\ k \in DOMAIN worth
  /\ UpdatePositionValue(k, value)
  /\ misread' = IF value = worth[k] THEN misread \ {k} ELSE misread \cup {k}
  /\ UNCHANGED <<worth, seen, slot>>

ChangeWorth(k, w) ==
  /\ k \in DOMAIN worth
  /\ worth' = [worth EXCEPT ![k] = w]
  /\ seen' = [seen EXCEPT ![k] = @ \cup {w}]
  /\ UNCHANGED <<arrayVars, misread, slot>>

AdvanceSlot ==
  /\ slot < MaxSlot
  /\ slot' = slot + 1
  /\ seen' = [k \in DOMAIN worth |-> {worth[k]}]
  /\ UNCHANGED <<arrayVars, worth, misread>>

Next ==
  \/ \E k \in Positions :
       \/ InitializePosition(k)
       \/ ClosePosition(k)
       \/ \E v \in Range(worth) \cup OtherQuotes : GetPositionValue(k, v)
       \/ \E w \in Worths : ChangeWorth(k, w)
  \/ AdvanceSlot

Spec == Init /\ [][Next]_vars

-----------------------------------------------------------------------------
\* The map the arrays stand for.
Tracked == {positions[i] : i \in Used}

IndexOf(k) == CHOOSE i \in Used : positions[i] = k

RegistryOf ==
  [k \in Tracked |-> [value |-> positions_values[IndexOf(k)],
                      slot |-> last_position_update[IndexOf(k)]]]

Registry == INSTANCE PositionRegistry WITH registry <- RegistryOf

\* The arrays implement the map: every handler moves them as the map's
\* operation does, so values and stamps stay with their key when an entry is
\* swapped into a hole (strategy_config.rs, add_position to
\* update_position_value).
ImplementsRegistry == Registry!PositionSpec

\* The used entries are distinct keys and the unused ones are wiped: a key is
\* found at one index only, and add_position, which resets neither value nor
\* stamp, reuses an entry without inheriting those of a closed position.
ArraysWellFormed ==
  /\ \A i, j \in Used : positions[i] = positions[j] => i = j
  /\ \A i \in Used : positions[i] # NoPosition
  /\ \A i \in Index \ Used : /\ positions[i] = NoPosition
                             /\ positions_values[i] = 0
                             /\ last_position_update[i] = 0

\* The two loops over the arrays agree with the map: a strategy passes the
\* freshness check exactly when every tracked key is fresh, and no value is
\* left out of, or counted twice in, the total (strategy_config.rs,
\* validate_position_values_freshness and get_total_positions_value).
LoopsAgreeWithRegistry ==
  /\ ValidatePositionValuesFreshness <=> Registry!Fresh
  /\ GetTotalPositionsValue = Registry!TotalPositionsValue

\* The strategy lists exactly the open positions, and a value stamped with
\* this slot is one its own position had in this slot, unless it was computed
\* from accounts that are not the position's.
ArraysTrackPositions == Registry!TracksOpenPositions /\ Registry!FreshMeansThisSlot

\* A key enters the arrays unquoted, so the strategy refuses deposits and
\* withdrawals until it is valued, also when a key was removed from the same
\* entry, or the same key from any entry, earlier in the slot: add_position
\* writes the key only and relies on what remove_position left behind.
NewPositionNeedsQuote ==
  [][\A k \in Positions :
       k \in Tracked' /\ k \notin Tracked => ~ValidatePositionValuesFreshness']_vars
=============================================================================
