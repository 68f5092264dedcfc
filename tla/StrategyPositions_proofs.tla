----------------------- MODULE StrategyPositions_proofs -----------------------
(***************************************************************************)
(* The three arrays of a strategy implement the map of open positions, for *)
(* every capacity, set of keys, of values and number of slots.             *)
(***************************************************************************)
EXTENDS StrategyPositions, Data_proofs

\* The arrays list the open positions.
ListsOpen == Tracked = DOMAIN worth

\* A stamp of this slot vouches for the value beside it, and no stamp is of a
\* later slot.
StampsVouch ==
  \A i \in Used :
    /\ last_position_update[i] <= slot
    /\ last_position_update[i] = slot /\ positions[i] \notin misread
         => positions_values[i] \in seen[positions[i]]

WorthIsSeen == \A k \in DOMAIN worth : worth[k] \in seen[k]

\* There is no slot 0: an entry without a stamp is stale.
ArraysInv ==
  /\ TypeOK
  /\ ArraysWellFormed
  /\ ListsOpen
  /\ StampsVouch
  /\ WorthIsSeen
  /\ slot >= 1

-----------------------------------------------------------------------------
\* A key is found at its own index.
LEMMA IndexOfKey ==
  ASSUME ArraysWellFormed, NEW i \in Used
  PROVE  IndexOf(positions[i]) = i
BY DEF ArraysWellFormed, IndexOf

\* A search finds the entry of a tracked key.
LEMMA SearchFinds ==
  ASSUME TypeOK, ArraysWellFormed, NEW i \in Used, NEW k
  PROVE  Holds(i, k) <=> positions[i] = k
BY DEF TypeOK, ArraysWellFormed, Holds, Used

\* A tracked key is a position's key.
LEMMA TrackedAreKeys ==
  ASSUME TypeOK, ArraysWellFormed
  PROVE  Tracked \subseteq Positions
<1>1. Used \subseteq Index
  BY CapacityAssumption DEF TypeOK, Used, Index
<1> QED
  BY <1>1 DEF TypeOK, ArraysWellFormed, Tracked

\* There are as many tracked keys as used entries.
LEMMA TrackedCount ==
  ASSUME TypeOK, ArraysWellFormed
  PROVE  IsFiniteSet(Tracked) /\ Cardinality(Tracked) = position_count
<1> DEFINE f == [i \in 1 .. position_count |-> positions[i]]
<1>1. f \in Bijection(1 .. position_count, Tracked)
  BY DEF ArraysWellFormed, Tracked, Used, Bijection, Injection, Surjection, IsInjective
<1>2. position_count \in Nat
  BY DEF TypeOK
<1>3. ExistsBijection(1 .. position_count, Tracked)
  BY <1>1 DEF ExistsBijection
<1> QED
  BY <1>2, <1>3, FS_NatBijection, FS_CountingElements

\* What an entry is after the swap.
LEMMA AfterRemove ==
  ASSUME TypeOK, NEW k \in Positions, NEW i \in Used, Holds(i, k), NEW a, NEW filler,
         DOMAIN a = Index
  PROVE  /\ DOMAIN SwapRemove(a, i, filler) = Index
         /\ SwapRemove(a, i, filler)[position_count] = filler
         /\ \A j \in Index \ {position_count} :
              SwapRemove(a, i, filler)[j] = IF j = i THEN a[position_count] ELSE a[j]
BY CapacityAssumption DEF TypeOK, SwapRemove, Used, Index

\* A removal in terms of the entry it frees.
LEMMA RemovedEntry ==
  ASSUME TypeOK, ArraysWellFormed, NEW k \in Positions, RemovePosition(k)
  PROVE  \E i \in Used :
           /\ positions[i] = k /\ Holds(i, k)
           /\ positions' = SwapRemove(positions, i, NoPosition)
           /\ positions_values' = SwapRemove(positions_values, i, 0)
           /\ last_position_update' = SwapRemove(last_position_update, i, 0)
           /\ position_count' = position_count - 1
BY SearchFinds DEF RemovePosition

-----------------------------------------------------------------------------
\* A new strategy.
LEMMA ArraysInit == Init => ArraysInv
BY CapacityAssumption DEF Init, ArraysInv, TypeOK, ArraysWellFormed, ListsOpen, StampsVouch,
                          WorthIsSeen, Tracked, Used, Index

\* initialize_position.
LEMMA InitializeKeeps ==
  ASSUME ArraysInv, NEW k \in Positions, InitializePosition(k)
  PROVE  ArraysInv'
<1> USE DEF ArraysInv
<1>0. /\ position_count \in 0 .. MAX_POSITIONS /\ position_count < MAX_POSITIONS
      /\ position_count + 1 \in Index /\ Used' = Used \cup {position_count + 1}
      /\ position_count + 1 \notin Used /\ Used \subseteq Index
  BY CapacityAssumption DEF TypeOK, InitializePosition, AddPosition, Used, Index
<1>1. /\ positions'[position_count + 1] = k
      /\ \A j \in Index \ {position_count + 1} : positions'[j] = positions[j]
      /\ UNCHANGED <<positions_values, last_position_update, slot>>
  BY <1>0 DEF TypeOK, InitializePosition, AddPosition
<1>2. /\ k \notin Tracked /\ worth' = Put(worth, k, 0) /\ seen' = Put(seen, k, {0})
      /\ misread' = misread
  BY DEF InitializePosition, ListsOpen
<1>3. TypeOK'
  <2>1. positions' \in [Index -> Positions \cup {NoPosition}]
    BY <1>0 DEF TypeOK, InitializePosition, AddPosition
  <2>2. position_count' \in 0 .. MAX_POSITIONS
    BY <1>0, CapacityAssumption DEF InitializePosition, AddPosition
  <2> QED
    BY <2>1, <2>2, <1>1, <1>2 DEF TypeOK, Put
<1>4. ArraysWellFormed'
  BY <1>0, <1>1, <1>2, FillerAssumption DEF ArraysWellFormed, Tracked
<1>5. Tracked' = Tracked \cup {k}
  BY <1>0, <1>1 DEF Tracked
<1>6. ListsOpen'
  BY <1>2, <1>5 DEF ListsOpen, Put
<1>7. StampsVouch'
  <2> SUFFICES ASSUME NEW i \in Used'
               PROVE  /\ last_position_update'[i] <= slot'
                      /\ last_position_update'[i] = slot' /\ positions'[i] \notin misread' =>
                           positions_values'[i] \in seen'[positions'[i]]
    BY DEF StampsVouch
  <2>1. CASE i = position_count + 1
    BY <2>1, <1>0, <1>1, <1>2 DEF ArraysWellFormed, TypeOK, Put
  <2>2. CASE i \in Used
    <3>1. positions'[i] = positions[i] /\ positions[i] \in Tracked
      BY <2>2, <1>0, <1>1 DEF Tracked
    <3>2. seen'[positions[i]] = seen[positions[i]]
      BY <3>1, <1>2 DEF Put, TypeOK, ListsOpen
    <3> QED
      BY <2>2, <3>1, <3>2, <1>1, <1>2 DEF StampsVouch
  <2> QED
    BY <2>1, <2>2, <1>0
<1>8. WorthIsSeen'
  BY <1>2 DEF WorthIsSeen, TypeOK, Put
<1> QED
  BY <1>1, <1>3, <1>4, <1>6, <1>7, <1>8

\* close_position.
LEMMA CloseKeeps ==
  ASSUME ArraysInv, NEW k \in Positions, ClosePosition(k)
  PROVE  ArraysInv' /\ Tracked' = Tracked \ {k}
<1> USE DEF ArraysInv
<1>1. PICK i \in Used : /\ positions[i] = k /\ Holds(i, k)
                        /\ positions' = SwapRemove(positions, i, NoPosition)
                        /\ positions_values' = SwapRemove(positions_values, i, 0)
                        /\ last_position_update' = SwapRemove(last_position_update, i, 0)
                        /\ position_count' = position_count - 1
  BY RemovedEntry DEF ClosePosition
<1>2. /\ position_count \in 1 .. MAX_POSITIONS /\ position_count' \in 0 .. MAX_POSITIONS
      /\ position_count \in Index /\ i \in Index
      /\ Used' = Used \ {position_count} /\ Used \subseteq Index
      /\ Index \ Used' = (Index \ Used) \cup {position_count}
  BY <1>1, CapacityAssumption DEF TypeOK, Used, Index
<1> DEFINE last == position_count
           from(j) == IF j = i THEN last ELSE j
<1>3. \A j \in Index \ {last} : /\ positions'[j] = positions[from(j)]
                                /\ positions_values'[j] = positions_values[from(j)]
                                /\ last_position_update'[j] = last_position_update[from(j)]
  BY <1>1, AfterRemove DEF TypeOK
<1>4. /\ positions'[last] = NoPosition /\ positions_values'[last] = 0
      /\ last_position_update'[last] = 0
  BY <1>1, AfterRemove DEF TypeOK
<1>5. UNCHANGED slot /\ worth' = Restrict(worth, DOMAIN worth \ {k})
      /\ seen' = Restrict(seen, DOMAIN seen \ {k})
      /\ misread' = misread \ {k}
  BY DEF ClosePosition
<1>6. \A j \in Used' : /\ from(j) \in Used /\ from(j) # i
                       /\ positions'[j] = positions[from(j)]
                       /\ positions_values'[j] = positions_values[from(j)]
                       /\ last_position_update'[j] = last_position_update[from(j)]
  BY <1>2, <1>3 DEF Used
<1>7. TypeOK'
  <2>1. positions' \in [Index -> Positions \cup {NoPosition}]
    BY <1>1, <1>2 DEF TypeOK, SwapRemove
  <2>2. positions_values' \in [Index -> Nat] /\ last_position_update' \in [Index -> Nat]
    BY <1>1, <1>2 DEF TypeOK, SwapRemove
  <2> QED
    BY <2>1, <2>2, <1>2, <1>5 DEF TypeOK, Restrict
<1>8. ArraysWellFormed'
  <2>1. ASSUME NEW a \in Used', NEW b \in Used', positions'[a] = positions'[b]
        PROVE  a = b
    <3>1. from(a) = from(b)
      BY <1>6, <2>1 DEF ArraysWellFormed
    <3>2. a # last /\ b # last
      BY <1>2 DEF Used
    <3> QED
      BY <3>1, <3>2
  <2>2. \A a \in Used' : positions'[a] # NoPosition
    BY <1>6 DEF ArraysWellFormed
  <2>3. \A a \in Index \ Used' : /\ positions'[a] = NoPosition /\ positions_values'[a] = 0
                                 /\ last_position_update'[a] = 0
    <3>1. \A a \in Index \ Used : a # i
      BY <1>1
    <3> QED
      BY <1>2, <1>3, <1>4, <3>1 DEF ArraysWellFormed
  <2> QED
    BY <2>1, <2>2, <2>3 DEF ArraysWellFormed
<1>9. Tracked' = Tracked \ {k}
  <2>1. \A j \in Used' : positions'[j] \in Tracked /\ positions'[j] # k
    BY <1>1, <1>6 DEF Tracked, ArraysWellFormed
  <2>2. ASSUME NEW j \in Used, positions[j] # k
        PROVE  \E a \in Used' : positions'[a] = positions[j]
    <3>1. CASE j # last
      BY <3>1, <1>1, <1>2, <1>3, <2>2
    <3>2. CASE j = last
      BY <3>2, <1>1, <1>2, <1>3, <2>2
    <3> QED
      BY <3>1, <3>2
  <2> QED
    BY <2>1, <2>2 DEF Tracked
<1>10. ListsOpen'
  BY <1>5, <1>9 DEF ListsOpen, Restrict
<1>11. StampsVouch'
  <2> SUFFICES ASSUME NEW j \in Used'
               PROVE  /\ last_position_update'[j] <= slot'
                      /\ last_position_update'[j] = slot' /\ positions'[j] \notin misread' =>
                           positions_values'[j] \in seen'[positions'[j]]
    BY DEF StampsVouch
  <2>1. positions'[j] \in Tracked /\ positions'[j] # k
    BY <1>9 DEF Tracked
  <2>2. seen'[positions'[j]] = seen[positions'[j]]
    BY <2>1, <1>5 DEF Restrict, TypeOK, ListsOpen
  <2> QED
    BY <2>1, <2>2, <1>5, <1>6 DEF StampsVouch
<1>12. WorthIsSeen'
  BY <1>5 DEF WorthIsSeen, TypeOK, Restrict
<1> QED
  BY <1>5, <1>7, <1>8, <1>9, <1>10, <1>11, <1>12

\* get_position_value.
LEMMA QuoteKeeps ==
  ASSUME ArraysInv, NEW k \in Positions, NEW v \in Range(worth) \cup OtherQuotes,
         GetPositionValue(k, v)
  PROVE  ArraysInv' /\ Tracked' = Tracked
<1> USE DEF ArraysInv
<1>1. UNCHANGED <<position_count, positions, worth, seen, slot>>
  BY DEF GetPositionValue, UpdatePositionValue
<1>2. /\ Used' = Used /\ Tracked' = Tracked /\ Used \subseteq Index
  BY <1>1, CapacityAssumption DEF Used, Tracked, TypeOK, Index
<1>3. /\ DOMAIN positions_values' = Index /\ DOMAIN last_position_update' = Index
      /\ \A j \in Index :
           /\ positions_values'[j] = IF Holds(j, k) THEN v ELSE positions_values[j]
           /\ last_position_update'[j] = IF Holds(j, k) THEN slot ELSE last_position_update[j]
      /\ k \in DOMAIN worth
      /\ misread' = IF v = worth[k] THEN misread \ {k} ELSE misread \cup {k}
  BY DEF GetPositionValue, UpdatePositionValue
<1>4. TypeOK'
  <2>0. v \in Nat
    BY OtherQuotesAssumption DEF TypeOK, Range
  <2>1. positions_values' \in [Index -> Nat]
    BY <1>3, <2>0 DEF TypeOK, GetPositionValue, UpdatePositionValue
  <2>2. last_position_update' \in [Index -> Nat]
    BY <1>3 DEF TypeOK, GetPositionValue, UpdatePositionValue
  <2> QED
    BY <2>1, <2>2, <1>1, <1>3 DEF TypeOK
<1>5. ArraysWellFormed'
  <2>1. \A j \in Index \ Used : ~Holds(j, k)
    BY DEF Holds
  <2> QED
    BY <2>1, <1>1, <1>2, <1>3 DEF ArraysWellFormed
<1>6. ListsOpen' /\ WorthIsSeen'
  BY <1>1, <1>2 DEF ListsOpen, WorthIsSeen
<1>7. StampsVouch'
  <2> SUFFICES ASSUME NEW j \in Used
               PROVE  /\ last_position_update'[j] <= slot
                      /\ last_position_update'[j] = slot /\ positions[j] \notin misread' =>
                           positions_values'[j] \in seen[positions[j]]
    BY <1>1, <1>2 DEF StampsVouch
  <2>1. CASE Holds(j, k)
    BY <2>1, <1>2, <1>3 DEF Holds, WorthIsSeen, TypeOK
  <2>2. CASE ~Holds(j, k)
    <3>1. positions[j] # k
      BY <2>2, SearchFinds
    <3> QED
      BY <2>2, <3>1, <1>2, <1>3 DEF StampsVouch
  <2> QED
    BY <2>1, <2>2
<1> QED
  BY <1>1, <1>2, <1>4, <1>5, <1>6, <1>7

\* Trades and time leave the arrays alone.
LEMMA OutsideKeeps ==
  ASSUME ArraysInv,
         AdvanceSlot \/ (\E k \in Positions, w \in Worths : ChangeWorth(k, w)) \/ UNCHANGED vars
  PROVE  ArraysInv' /\ UNCHANGED arrayVars
<1> USE DEF ArraysInv, arrayVars
<1>1. UNCHANGED arrayVars
  BY DEF AdvanceSlot, ChangeWorth, vars
<1>2. Used' = Used /\ Tracked' = Tracked /\ ArraysWellFormed'
  BY <1>1 DEF Used, Tracked, ArraysWellFormed, Index
<1>3. CASE AdvanceSlot
  <2>1. \A i \in Used : last_position_update[i] < slot'
    BY <1>3, CapacityAssumption DEF AdvanceSlot, TypeOK, StampsVouch, Used, Index
  <2>2. \A i \in Used : last_position_update[i] \in Nat
    BY CapacityAssumption DEF TypeOK, Used, Index
  <2>3. StampsVouch'
    BY <2>1, <2>2, <1>1, <1>2, <1>3 DEF AdvanceSlot, StampsVouch, TypeOK
  <2> QED
    BY <2>3, <1>1, <1>2, <1>3 DEF AdvanceSlot, TypeOK, ListsOpen, WorthIsSeen
<1>4. ASSUME NEW k \in Positions, NEW w \in Worths, ChangeWorth(k, w)
      PROVE  ArraysInv'
  <2>1. TypeOK' /\ ListsOpen' /\ WorthIsSeen'
    BY <1>1, <1>2, <1>4, ValueAssumption DEF ChangeWorth, TypeOK, ListsOpen, WorthIsSeen
  <2>2. \A x \in DOMAIN seen : seen[x] \subseteq seen'[x]
    BY <1>4 DEF ChangeWorth
  <2>3. \A i \in Used : positions[i] \in DOMAIN seen
    BY DEF Tracked, ListsOpen, TypeOK
  <2>4. StampsVouch'
    BY <2>2, <2>3, <1>1, <1>2, <1>4 DEF ChangeWorth, StampsVouch
  <2> QED
    BY <2>1, <2>4, <1>2, <1>4 DEF ChangeWorth
<1>5. CASE UNCHANGED vars
  BY <1>1, <1>2, <1>5 DEF vars, TypeOK, ListsOpen, StampsVouch, WorthIsSeen
<1> QED
  BY <1>1, <1>3, <1>4, <1>5

LEMMA ArraysStep ==
  ASSUME ArraysInv, [Next]_vars
  PROVE  ArraysInv'
BY InitializeKeeps, CloseKeeps, QuoteKeeps, OutsideKeeps DEF Next

LEMMA ArraysInvariant == Spec => []ArraysInv
BY ArraysInit, ArraysStep, PTL DEF Spec

-----------------------------------------------------------------------------
\* The arrays never overflow and hold only keys, values and stamps.
THEOREM ArraysTypeOK == Spec => []TypeOK
<1>1. ArraysInv => TypeOK
  BY DEF ArraysInv
<1> QED
  BY <1>1, ArraysInvariant, PTL

\* No key is listed twice, none is the filler, and what is not used is wiped
\* (add_position, remove_position).
THEOREM ArraysStayWellFormed == Spec => []ArraysWellFormed
<1>1. ArraysInv => ArraysWellFormed
  BY DEF ArraysInv
<1> QED
  BY <1>1, ArraysInvariant, PTL

\* The arrays list the open positions, and a value with a stamp of this slot is
\* one its position had in this slot, unless other accounts were quoted.
THEOREM ArraysTrack == Spec => []ArraysTrackPositions
<1>1. ASSUME ArraysInv
      PROVE  ArraysTrackPositions
  <2>1. Registry!TracksOpenPositions
    BY <1>1 DEF ArraysInv, ListsOpen, Registry!TracksOpenPositions, RegistryOf
  <2>2. ASSUME NEW i \in Used, RegistryOf[positions[i]].slot = slot, positions[i] \notin misread
        PROVE  /\ positions[i] \in DOMAIN seen
               /\ RegistryOf[positions[i]].value \in seen[positions[i]]
    <3>1. positions[i] \in Tracked /\ IndexOf(positions[i]) = i
      BY <1>1, IndexOfKey DEF Tracked, ArraysInv
    <3> QED
      BY <1>1, <2>2, <3>1 DEF RegistryOf, ArraysInv, StampsVouch, ListsOpen, TypeOK
  <2>3. Registry!FreshMeansThisSlot
    BY <2>2 DEF Registry!FreshMeansThisSlot, RegistryOf, Tracked
  <2> QED
    BY <2>1, <2>3 DEF ArraysTrackPositions
<1> QED
  BY <1>1, ArraysInvariant, PTL

\* A key that has just been listed is not fresh, whatever the entry it got held
\* before (add_position writes the key only).
THEOREM ListedUnquoted == Spec => NewPositionNeedsQuote
<1> DEFINE Unquoted ==
      \A k \in Positions :
        k \in Tracked' /\ k \notin Tracked => ~ValidatePositionValuesFreshness'
<1>1. ASSUME ArraysInv, [Next]_vars
      PROVE  Unquoted
  <2>1. ASSUME NEW k \in Positions, InitializePosition(k)
        PROVE  ~ValidatePositionValuesFreshness'
    <3>1. position_count + 1 \in Used' /\ position_count + 1 \in Index \ Used
      BY <1>1, <2>1, CapacityAssumption
      DEF ArraysInv, TypeOK, InitializePosition, AddPosition, Used, Index
    <3>2. positions'[position_count + 1] = k /\ last_position_update'[position_count + 1] = 0
      BY <1>1, <2>1, <3>1
      DEF ArraysInv, TypeOK, ArraysWellFormed, InitializePosition, AddPosition
    <3>3. slot' # 0 /\ k # NoPosition
      BY <1>1, <2>1, FillerAssumption DEF ArraysInv, TypeOK, InitializePosition
    <3> QED
      BY <3>1, <3>2, <3>3 DEF ValidatePositionValuesFreshness
  <2>2. ASSUME NEW k \in Positions,
               ClosePosition(k) \/ \E v \in Range(worth) \cup OtherQuotes : GetPositionValue(k, v)
        PROVE  Tracked' \subseteq Tracked
    BY <1>1, <2>2, CloseKeeps, QuoteKeeps
  <2>3. ASSUME AdvanceSlot \/ (\E k \in Positions, w \in Worths : ChangeWorth(k, w))
                 \/ UNCHANGED vars
        PROVE  Tracked' \subseteq Tracked
    <3>1. UNCHANGED arrayVars
      BY <1>1, <2>3, OutsideKeeps
    <3> QED
      BY <3>1 DEF arrayVars, Tracked, Used
  <2>4. Tracked' \subseteq Tracked \/ ~ValidatePositionValuesFreshness'
    BY <1>1, <2>1, <2>2, <2>3 DEF Next
  <2> QED
    BY <2>4
<1> QED
  BY <1>1, ArraysInvariant, PTL DEF Spec, NewPositionNeedsQuote

-----------------------------------------------------------------------------
(***************************************************************************)
(* Refinement: each handler moves the arrays as the operation on the map   *)
(* moves the map.                                                          *)
(***************************************************************************)
Entry(i) == [value |-> positions_values[i], slot |-> last_position_update[i]]

\* The map read off the arrays, entry by entry.
LEMMA RegistryAt ==
  ASSUME ArraysInv
  PROVE  /\ DOMAIN RegistryOf = Tracked
         /\ \A i \in Used : RegistryOf[positions[i]] = Entry(i)
BY IndexOfKey DEF ArraysInv, RegistryOf, Entry, Tracked

\* A map that agrees with every entry after a step is the map after it.
LEMMA RegistryBecomes ==
  ASSUME ArraysInv', NEW f, f = [k \in DOMAIN f |-> f[k]], DOMAIN f = Tracked',
         \A i \in Used' : f[positions'[i]] = Entry(i)'
  PROVE  RegistryOf' = f
<1>1. ASSUME NEW i \in Used'
      PROVE  (IndexOf(positions[i]))' = i
  BY DEF ArraysInv, ArraysWellFormed, IndexOf
<1>2. \A i \in Used' : (RegistryOf[positions[i]])' = f[positions'[i]]
  BY <1>1 DEF RegistryOf, Entry, Tracked
<1>3. RegistryOf' = [k \in Tracked' |-> RegistryOf'[k]]
  BY DEF RegistryOf
<1>4. \A k \in Tracked' : RegistryOf'[k] = f[k]
  BY <1>2 DEF Tracked
<1> QED
  BY <1>3, <1>4

\* The map counts its keys as the arrays do.
LEMMA SameCardinality == \A S : Registry!Cardinality(S) = Cardinality(S)
BY DEF Registry!Cardinality, Cardinality

\* A new strategy is an empty map.
LEMMA InitRefines == Init => Registry!PositionInit
BY DEF Init, Registry!PositionInit, RegistryOf, Tracked, Used

LEMMA InitializeRefines ==
  ASSUME ArraysInv, NEW k \in Positions, InitializePosition(k)
  PROVE  Registry!InitializePosition(k)
<1> DEFINE new == [value |-> 0, slot |-> 0]
           f == Registry!Put(RegistryOf, k, new)
<1>1. ArraysInv'
  BY InitializeKeeps
<1>2. /\ Used' = Used \cup {position_count + 1} /\ position_count + 1 \in Index \ Used
      /\ Used \subseteq Index /\ position_count < MAX_POSITIONS
  BY CapacityAssumption
  DEF ArraysInv, TypeOK, InitializePosition, AddPosition, Used, Index
<1>3. /\ positions'[position_count + 1] = k
      /\ \A j \in Used : positions'[j] = positions[j]
      /\ UNCHANGED <<positions_values, last_position_update, slot>>
  BY <1>2 DEF ArraysInv, TypeOK, InitializePosition, AddPosition
<1>4. k \notin Tracked /\ Tracked' = Tracked \cup {k}
  BY <1>2, <1>3 DEF InitializePosition, ArraysInv, ListsOpen, Tracked
<1>5. DOMAIN RegistryOf = Tracked /\ \A i \in Used : RegistryOf[positions[i]] = Entry(i)
  BY RegistryAt
<1>6. DOMAIN f = Tracked' /\ f = [x \in DOMAIN f |-> f[x]]
  BY <1>4, <1>5 DEF Registry!Put
<1>7. f[k] = new /\ \A x \in Tracked : f[x] = RegistryOf[x]
  BY <1>4, <1>5 DEF Registry!Put
<1>8. ASSUME NEW i \in Used'
      PROVE  f[positions'[i]] = Entry(i)'
  <2>1. CASE i = position_count + 1
    BY <2>1, <1>2, <1>3, <1>7 DEF Entry, ArraysInv, ArraysWellFormed
  <2>2. CASE i \in Used
    <3>1. positions[i] \in Tracked /\ positions'[i] = positions[i]
      BY <2>2, <1>3 DEF Tracked
    <3> QED
      BY <2>2, <3>1, <1>3, <1>5, <1>7 DEF Entry
  <2> QED
    BY <2>1, <2>2, <1>2
<1>9. RegistryOf' = f
  <2> HIDE DEF f
  <2> QED
    BY <1>1, <1>6, <1>8, RegistryBecomes
<1>10. Cardinality(DOMAIN RegistryOf) < MAX_POSITIONS
  BY <1>2, <1>5, TrackedCount DEF ArraysInv
<1> QED
  BY <1>9, <1>10, SameCardinality DEF Registry!InitializePosition, InitializePosition, Put, Registry!Put

LEMMA CloseRefines ==
  ASSUME ArraysInv, NEW k \in Positions, ClosePosition(k)
  PROVE  Registry!ClosePosition(k)
<1> DEFINE f == Restrict(RegistryOf, Tracked \ {k})
<1>1. ArraysInv' /\ Tracked' = Tracked \ {k} /\ k \in Tracked
  BY CloseKeeps DEF ClosePosition, ArraysInv, ListsOpen
<1>2. PICK i \in Used : /\ positions[i] = k /\ Holds(i, k)
                        /\ positions' = SwapRemove(positions, i, NoPosition)
                        /\ positions_values' = SwapRemove(positions_values, i, 0)
                        /\ last_position_update' = SwapRemove(last_position_update, i, 0)
                        /\ position_count' = position_count - 1
  BY RemovedEntry DEF ClosePosition, ArraysInv
<1> DEFINE from(j) == IF j = i THEN position_count ELSE j
<1>3. /\ Used' = Used \ {position_count} /\ position_count \in Used /\ Used \subseteq Index
  BY <1>2, CapacityAssumption DEF ArraysInv, TypeOK, Used, Index
<1>4. \A j \in Used' : /\ from(j) \in Used
                       /\ positions'[j] = positions[from(j)]
                       /\ Entry(j)' = Entry(from(j))
  <2>1. /\ DOMAIN positions = Index
        /\ DOMAIN positions_values = Index
        /\ DOMAIN last_position_update = Index
        /\ TypeOK
    BY DEF ArraysInv, TypeOK
  <2>2. \A j \in Index \ {position_count} : positions'[j] = positions[from(j)]
    BY <1>2, <2>1, AfterRemove
  <2>3. \A j \in Index \ {position_count} : positions_values'[j] = positions_values[from(j)]
    BY <1>2, <2>1, AfterRemove
  <2>4. \A j \in Index \ {position_count} :
          last_position_update'[j] = last_position_update[from(j)]
    BY <1>2, <2>1, AfterRemove
  <2>5. \A j \in Used' : j \in Index \ {position_count} /\ from(j) \in Used
    BY <1>3
  <2> QED
    BY <2>2, <2>3, <2>4, <2>5 DEF Entry
<1>5. DOMAIN RegistryOf = Tracked /\ \A j \in Used : RegistryOf[positions[j]] = Entry(j)
  BY RegistryAt
<1>6. /\ DOMAIN f = Tracked' /\ f = [x \in DOMAIN f |-> f[x]]
      /\ \A x \in Tracked' : f[x] = RegistryOf[x]
  BY <1>1, <1>5 DEF Restrict
<1>7. ASSUME NEW j \in Used'
      PROVE  f[positions'[j]] = Entry(j)'
  <2>1. positions'[j] \in Tracked'
    BY DEF Tracked
  <2> QED
    BY <2>1, <1>4, <1>5, <1>6
<1>8. RegistryOf' = f
  <2> HIDE DEF f
  <2> QED
    BY <1>1, <1>6, <1>7, RegistryBecomes
<1> QED
  BY <1>1, <1>5, <1>8
  DEF Registry!ClosePosition, ClosePosition, Restrict, Registry!Restrict

LEMMA QuoteRefines ==
  ASSUME ArraysInv, NEW k \in Positions, NEW v \in Range(worth) \cup OtherQuotes,
         GetPositionValue(k, v)
  PROVE  Registry!GetPositionValue(k, v)
<1> DEFINE new == [value |-> v, slot |-> slot]
           f == [RegistryOf EXCEPT ![k] = new]
<1>1. ArraysInv' /\ Tracked' = Tracked /\ k \in Tracked
  BY QuoteKeeps DEF GetPositionValue, ArraysInv, ListsOpen
<1>2. /\ UNCHANGED <<position_count, positions, worth, seen, slot>>
      /\ Used' = Used /\ Used \subseteq Index
  BY CapacityAssumption
  DEF GetPositionValue, UpdatePositionValue, ArraysInv, TypeOK, Used, Index
<1>3. \A j \in Used : Entry(j)' = IF positions[j] = k THEN new ELSE Entry(j)
  <2>1. \A j \in Used : Holds(j, k) <=> positions[j] = k
    BY SearchFinds DEF ArraysInv
  <2> QED
    BY <2>1, <1>2 DEF GetPositionValue, UpdatePositionValue, Entry
<1>4. DOMAIN RegistryOf = Tracked /\ \A j \in Used : RegistryOf[positions[j]] = Entry(j)
  BY RegistryAt
<1>5. /\ DOMAIN f = Tracked' /\ f = [x \in DOMAIN f |-> f[x]]
      /\ f[k] = new /\ \A x \in Tracked \ {k} : f[x] = RegistryOf[x]
  BY <1>1, <1>4
<1>6. ASSUME NEW j \in Used'
      PROVE  f[positions'[j]] = Entry(j)'
  <2>1. positions[j] \in Tracked
    BY <1>2 DEF Tracked
  <2> QED
    BY <2>1, <1>2, <1>3, <1>4, <1>5
<1>7. RegistryOf' = f
  <2> HIDE DEF f
  <2> QED
    BY <1>1, <1>5, <1>6, RegistryBecomes
<1> QED
  BY <1>1, <1>2, <1>4, <1>7 DEF Registry!GetPositionValue, Registry!Misread, GetPositionValue

\* With the arrays unchanged the map is.
LEMMA SameArraysSameMap ==
  ASSUME UNCHANGED arrayVars
  PROVE  UNCHANGED RegistryOf
BY DEF arrayVars, RegistryOf, Tracked, Used, IndexOf

LEMMA StepRefines ==
  ASSUME ArraysInv, [Next]_vars
  PROVE  [Registry!PositionNext]_(Registry!positionVars)
<1>1. ASSUME NEW k \in Positions, NEW w \in Worths, ChangeWorth(k, w)
      PROVE  Registry!ChangeWorth(k, w)
  BY <1>1, SameArraysSameMap, OutsideKeeps DEF ChangeWorth, Registry!ChangeWorth
<1>2. CASE AdvanceSlot
  BY <1>2, SameArraysSameMap, OutsideKeeps
  DEF AdvanceSlot, Registry!AdvanceSlot, Registry!PositionNext
<1>3. CASE UNCHANGED vars
  BY <1>3, SameArraysSameMap DEF vars, arrayVars, Registry!positionVars
<1> QED
  BY <1>1, <1>2, <1>3, InitializeRefines, CloseRefines, QuoteRefines
  DEF Next, Registry!PositionNext, Registry!QuotableValues, Registry!Range, Range

\* The arrays implement the map of open positions.
THEOREM ArraysImplementRegistry == Spec => ImplementsRegistry
BY ArraysInvariant, InitRefines, StepRefines, PTL
DEF Spec, ImplementsRegistry, Registry!PositionSpec

\* The units of the values are those of the map, under another name.
LEMMA SameTotal ==
  ASSUME ArraysInv
  PROVE  GetTotalPositionsValue = Registry!TotalPositionsValue
<1> DEFINE v == [i \in Used |-> positions_values[i]]
           q == Registry!QuotedValues
           g == [p \in Units(v) |-> <<positions[p[1]], p[2]>>]
<1>1. DOMAIN RegistryOf = Tracked /\ \A i \in Used : RegistryOf[positions[i]] = Entry(i)
  BY RegistryAt
<1>2. DOMAIN q = Tracked /\ \A i \in Used : q[positions[i]] = v[i]
  <2>1. \A i \in Used : positions[i] \in Tracked
    BY DEF Tracked
  <2>2. \A i \in Used : Entry(i).value = v[i]
    BY DEF Entry
  <2> QED
    BY <2>1, <2>2, <1>1 DEF Registry!QuotedValues
<1>3. \A i, j \in Used : positions[i] = positions[j] => i = j
  BY DEF ArraysInv, ArraysWellFormed
<1>4. {j \in Used : positions[j] # NoPosition} = Used
  BY DEF ArraysInv, ArraysWellFormed
<1>5. GetTotalPositionsValue = Cardinality(Units(v))
  BY <1>4 DEF GetTotalPositionsValue, SumOver
<1>6. Registry!TotalPositionsValue = Cardinality(Units(q))
  BY SameCardinality DEF Registry!TotalPositionsValue, Registry!SumOver, Registry!Units, Units
<1>7. \A p : p \in Units(v) <=> p = <<p[1], p[2]>> /\ p[1] \in Used /\ p[2] \in 1 .. v[p[1]]
  BY DEF Units
<1>8. \A p : p \in Units(q) <=> p = <<p[1], p[2]>> /\ p[1] \in Tracked /\ p[2] \in 1 .. q[p[1]]
  BY <1>2 DEF Units
<1>9. g \in Bijection(Units(v), Units(q))
  <2> HIDE DEF v, q
  <2>1. ASSUME NEW p \in Units(v)
        PROVE  g[p] \in Units(q)
    BY <1>2, <1>7, <1>8 DEF Tracked
  <2>2. ASSUME NEW p \in Units(v), NEW r \in Units(v), g[p] = g[r]
        PROVE  p = r
    BY <2>2, <1>3, <1>7
  <2>3. ASSUME NEW r \in Units(q)
        PROVE  \E p \in Units(v) : g[p] = r
    <3>1. PICK i \in Used : positions[i] = r[1]
      BY <1>8 DEF Tracked
    <3>2. <<i, r[2]>> \in Units(v)
      BY <3>1, <1>2, <1>7, <1>8
    <3> QED
      BY <3>1, <3>2, <1>8
  <2> QED
    BY <2>1, <2>2, <2>3 DEF Bijection, Injection, Surjection, IsInjective
<1>10. IsFiniteSet(Units(v))
  <2>1. IsFiniteSet(Used)
    BY FS_Interval DEF ArraysInv, TypeOK, Used
  <2>2. v \in [Used -> Nat]
    BY CapacityAssumption DEF ArraysInv, TypeOK, Used, Index
  <2> QED
    BY <2>1, <2>2, UnitsFinite
<1>11. Cardinality(Units(v)) = Cardinality(Units(q))
  <2> HIDE DEF v, q, g
  <2> QED
    BY <1>9, <1>10, FS_Bijection DEF ExistsBijection
<1> QED
  BY <1>5, <1>6, <1>11

\* A strategy passes the freshness check exactly when every tracked key has
\* been valued in this slot, and the total leaves no value out and counts none
\* twice (validate_position_values_freshness, get_total_positions_value).
THEOREM LoopsAgree == Spec => []LoopsAgreeWithRegistry
<1>1. ASSUME ArraysInv
      PROVE  LoopsAgreeWithRegistry
  <2>1. DOMAIN RegistryOf = Tracked /\ \A i \in Used : RegistryOf[positions[i]] = Entry(i)
    BY <1>1, RegistryAt
  <2>2. \A i \in Used : positions[i] # NoPosition
    BY <1>1 DEF ArraysInv, ArraysWellFormed
  <2>3. \A i \in Used : RegistryOf[positions[i]].slot = last_position_update[i]
    <3>1. \A i \in Used : Entry(i).slot = last_position_update[i]
      BY DEF Entry
    <3> QED
      BY <2>1, <3>1
  <2>4. ValidatePositionValuesFreshness <=> Registry!Fresh
    BY <2>1, <2>2, <2>3 DEF ValidatePositionValuesFreshness, Registry!Fresh, Tracked
  <2> QED
    BY <1>1, <2>4, SameTotal DEF LoopsAgreeWithRegistry
<1> QED
  BY <1>1, ArraysInvariant, PTL
=============================================================================
