-------------------------- MODULE MaikerSDK_proofs --------------------------
(***************************************************************************)
(* Proofs about MaikerSDK, for any number of positions, any pools and any  *)
(* number of lost reads: the type of the state, and, for a client that     *)
(* awaits its refresh() before it starts the next one, that shares are     *)
(* priced on the client's own positions.                                   *)
(***************************************************************************)
EXTENDS MaikerSDK, Data_proofs, SequenceTheorems

-----------------------------------------------------------------------------
(***************************************************************************)
(* The sequences of a refresh() and of the strategy.                       *)
(***************************************************************************)
LEMMA AppendedTo ==
  ASSUME NEW X, NEW s \in Seq(X), NEW x \in X
  PROVE  /\ Append(s, x) \in Seq(X) /\ Len(Append(s, x)) = Len(s) + 1
         /\ ToSet(Append(s, x)) = ToSet(s) \cup {x}
         /\ \A i \in 1 .. Len(s) : Append(s, x)[i] = s[i]
         /\ Append(s, x)[Len(s) + 1] = x
<1>1. Append(s, x) \in Seq(X) /\ Len(Append(s, x)) = Len(s) + 1
  OBVIOUS
<1>2. /\ \A i \in 1 .. Len(s) : Append(s, x)[i] = s[i]
      /\ Append(s, x)[Len(s) + 1] = x
  OBVIOUS
<1>3. DOMAIN s = 1 .. Len(s) /\ DOMAIN Append(s, x) = (1 .. Len(s)) \cup {Len(s) + 1}
  BY <1>1
<1>4. \A y : y \in ToSet(Append(s, x)) <=> y \in ToSet(s) \/ y = x
  BY <1>2, <1>3 DEF ToSet
<1> QED
  BY <1>1, <1>2, <1>4

\* The answers are those of the keys asked for that are not null; with none
\* null they are the keys, each at its place.
LEMMA AnswersAreOfAsked ==
  ASSUME NEW X, NEW asked \in Seq(X), NEW null
  PROVE  LET answers == Answers(asked, null)
         IN /\ answers \in Seq(X) /\ Len(answers) <= Len(asked)
            /\ ToSet(answers) = ToSet(asked) \ null
            /\ ToSet(asked) \cap null = {} => answers = asked
<1> DEFINE n == Len(asked)
           V == Seq(X)
           Step(m, v) == IF asked[m] \in null THEN v ELSE Append(v, asked[m])
           next == [m \in 1 .. n |-> [v \in V |-> Step(m, v)]]
           Kept(g) == g = [m \in 0 .. n |-> IF m = 0 THEN <<>> ELSE Step(m, g[m - 1])]
           kept == CHOOSE g : Kept(g)
<1>1. n \in Nat /\ <<>> \in V
  OBVIOUS
<1>2. \A m \in 1 .. n, v \in V : Step(m, v) \in V
  <2>1. \A m \in 1 .. n : asked[m] \in X
    OBVIOUS
  <2> QED
    BY <2>1
<1>3. Answers(asked, null) = kept[n]
  BY DEF Answers
<1> HIDE DEF n, V, Step
<1>4. \E g : Kept(g)
  <2>1. next \in [1 .. n -> [V -> V]]
    BY <1>2
  <2>2. \A m \in 1 .. n, v \in V : next[m][v] = Step(m, v)
    OBVIOUS
  <2> HIDE DEF next
  <2>3. PICK g : Solves(g, V, <<>>, n, next)
    BY <1>1, <2>1, RecursionHasSolution
  <2>4. /\ g \in [0 .. n -> V] /\ g[0] = <<>>
        /\ \A m \in 1 .. n : g[m] = Step(m, g[m - 1])
    <3>1. \A m \in 1 .. n : g[m - 1] \in V
      BY <1>1, <2>3 DEF Solves
    <3> QED
      BY <2>2, <2>3, <3>1 DEF Solves
  <2>5. Kept(g)
    BY <1>1, <2>3, <2>4
  <2> QED
    BY <2>5
<1>5. kept = [m \in 0 .. n |-> IF m = 0 THEN <<>> ELSE Step(m, kept[m - 1])]
  BY <1>4
<1> HIDE DEF kept
<1>6. kept[0] = <<>> /\ \A m \in 1 .. n : kept[m] = Step(m, kept[m - 1])
  BY <1>1, <1>5
<1> USE DEF n, Step
<1> DEFINE Right(m) ==
             /\ kept[m] \in Seq(X) /\ Len(kept[m]) <= m
             /\ ToSet(kept[m]) = {asked[i] : i \in 1 .. m} \ null
             /\ (\A i \in 1 .. m : asked[i] \notin null) =>
                  Len(kept[m]) = m /\ \A i \in 1 .. m : kept[m][i] = asked[i]
           Wrong == {m \in 0 .. n : ~Right(m)}
<1>7. 0 \notin Wrong
  <2>1. ToSet(kept[0]) = {} /\ kept[0] \in Seq(X) /\ Len(kept[0]) = 0 /\ (1 .. 0) = {}
    BY <1>6 DEF ToSet
  <2>2. Right(0)
    BY <2>1
  <2> QED
    BY <2>2
<1>8. ASSUME NEW m \in 1 .. n, m - 1 \notin Wrong
      PROVE  m \notin Wrong
  <2>1. Right(m - 1)
    BY <1>1, <1>8
  <2>2. asked[m] \in X /\ (1 .. m) = (1 .. (m - 1)) \cup {m}
    BY <1>1
  <2>3. CASE asked[m] \in null
    <3>1. kept[m] = kept[m - 1]
      BY <1>6, <2>3
    <3> QED
      BY <2>1, <2>2, <2>3, <3>1
  <2>4. CASE asked[m] \notin null
    <3>1. kept[m] = Append(kept[m - 1], asked[m])
      BY <1>6, <2>4
    <3>2. kept[m] \in Seq(X) /\ Len(kept[m]) = Len(kept[m - 1]) + 1
      BY <2>1, <2>2, <3>1
    <3>3. ToSet(kept[m]) = ToSet(kept[m - 1]) \cup {asked[m]}
      BY <2>1, <2>2, <3>1, AppendedTo
    <3>4. ToSet(kept[m]) = {asked[i] : i \in 1 .. m} \ null
      BY <2>1, <2>2, <2>4, <3>3
    <3>5. ASSUME \A i \in 1 .. m : asked[i] \notin null
          PROVE  Len(kept[m]) = m /\ \A i \in 1 .. m : kept[m][i] = asked[i]
      BY <2>1, <2>2, <3>1, <3>2, <3>5
    <3> QED
      BY <2>1, <3>2, <3>4, <3>5
  <2> QED
    BY <2>3, <2>4
<1>9. Right(n)
  <2>1. Wrong = {}
    <3>1. Wrong \subseteq 0 .. n
      OBVIOUS
    <3> HIDE DEF Wrong
    <3> QED
      BY <1>1, <1>7, <1>8, <3>1, NoCounterexample
  <2>2. n \in 0 .. n
    BY <1>1
  <2> QED
    BY <2>1, <2>2
<1>10. ToSet(asked) = {asked[i] : i \in 1 .. n}
  BY DEF ToSet
<1>11. ASSUME ToSet(asked) \cap null = {}
       PROVE  kept[n] = asked
  <2>1. \A i \in 1 .. n : asked[i] \notin null
    BY <1>10, <1>11
  <2> QED
    BY <1>9, <2>1
<1> QED
  BY <1>3, <1>9, <1>10, <1>11

LEMMA CallFields ==
  ASSUME TypeOK, NEW c \in Calls
  PROVE  /\ call[c] \in CallType
         /\ call[c].pc \in {"idle", "positions", "pools", "reserves"}
         /\ call[c].keys \in Seq(Positions)
         /\ call[c].found \in Seq(Found)
         /\ call[c].whole \in BOOLEAN
BY DEF TypeOK, CallType

LEMMA FoundFields ==
  ASSUME TypeOK, NEW c \in Calls, NEW i \in DOMAIN call[c].found
  PROVE  call[c].found[i].key \in Positions \cup {NoPosition} /\ call[c].found[i].of \in Positions
<1> DEFINE found == call[c].found
<1>1. found \in Seq(Found) /\ i \in DOMAIN found
  BY CallFields
<1> HIDE DEF found
<1>2. i \in 1 .. Len(found)
  BY <1>1
<1>3. found[i] \in Found
  BY <1>1, <1>2, ElementOfSeq
<1> QED
  BY <1>3 DEF Found, found

\* The pools a refresh() asks for are those of the positions it has found.
LEMMA PoolsAreOfFound ==
  ASSUME TypeOK, NEW c \in Calls
  PROVE  /\ PoolsFound(c) \in Seq(Pools)
         /\ ToSet(PoolsFound(c)) =
              {PoolOf[call[c].found[i].of] : i \in DOMAIN call[c].found}
<1> DEFINE found == call[c].found
           n == Len(found)
           pool(m) == PoolOf[found[m].of]
           V == Seq(Pools)
           Step(m, v) == IF pool(m) \in ToSet(v) THEN v ELSE Append(v, pool(m))
           next == [m \in 1 .. n |-> [v \in V |-> Step(m, v)]]
           Kept(g) == g = [m \in 0 .. n |-> IF m = 0 THEN <<>> ELSE Step(m, g[m - 1])]
           kept == CHOOSE g : Kept(g)
<1>1. found \in Seq(Found)
  BY CallFields
<1>2. n \in Nat /\ DOMAIN found = 1 .. n /\ <<>> \in V
  BY <1>1
<1>3. \A m \in 1 .. n : pool(m) \in Pools
  <2>1. \A m \in 1 .. n : found[m].of \in Positions
    BY <1>2, FoundFields
  <2> QED
    BY <2>1, PoolAssumption
<1>4. PoolsFound(c) = kept[n]
  BY DEF PoolsFound
<1> HIDE DEF found, n, pool
<1>5. \A m \in 1 .. n, v \in V : Step(m, v) \in V
  BY <1>3
<1> HIDE DEF V, Step
<1>6. \E g : Kept(g)
  <2>1. next \in [1 .. n -> [V -> V]]
    BY <1>5
  <2>2. \A m \in 1 .. n, v \in V : next[m][v] = Step(m, v)
    OBVIOUS
  <2> HIDE DEF next
  <2>3. PICK g : Solves(g, V, <<>>, n, next)
    BY <1>2, <2>1, RecursionHasSolution
  <2>4. /\ g \in [0 .. n -> V] /\ g[0] = <<>>
        /\ \A m \in 1 .. n : g[m] = Step(m, g[m - 1])
    <3>1. \A m \in 1 .. n : g[m - 1] \in V
      BY <1>2, <2>3 DEF Solves
    <3> QED
      BY <2>2, <2>3, <3>1 DEF Solves
  <2>5. Kept(g)
    BY <1>2, <2>4
  <2> QED
    BY <2>5
<1>7. kept = [m \in 0 .. n |-> IF m = 0 THEN <<>> ELSE Step(m, kept[m - 1])]
  BY <1>6
<1> HIDE DEF kept, next
<1>8. kept[0] = <<>> /\ \A m \in 1 .. n : kept[m] = Step(m, kept[m - 1])
  BY <1>2, <1>7
<1> DEFINE Right(m) == kept[m] \in Seq(Pools) /\ ToSet(kept[m]) = {pool(i) : i \in 1 .. m}
           Wrong == {m \in 0 .. n : ~Right(m)}
<1>9. 0 \notin Wrong
  <2>1. ToSet(kept[0]) = {} /\ kept[0] \in Seq(Pools) /\ (1 .. 0) = {}
    BY <1>8 DEF ToSet
  <2> QED
    BY <2>1
<1>10. ASSUME NEW m \in 1 .. n, m - 1 \notin Wrong
       PROVE  m \notin Wrong
  <2>1. Right(m - 1)
    BY <1>2, <1>10
  <2>2. pool(m) \in Pools /\ (1 .. m) = (1 .. (m - 1)) \cup {m}
    BY <1>2, <1>3
  <2>3. CASE pool(m) \in ToSet(kept[m - 1])
    <3>1. kept[m] = kept[m - 1]
      BY <1>8, <2>3 DEF Step
    <3> QED
      BY <2>1, <2>2, <2>3, <3>1
  <2>4. CASE pool(m) \notin ToSet(kept[m - 1])
    <3>1. kept[m] = Append(kept[m - 1], pool(m))
      BY <1>8, <2>4 DEF Step
    <3>2. kept[m] \in Seq(Pools) /\ ToSet(kept[m]) = ToSet(kept[m - 1]) \cup {pool(m)}
      BY <2>1, <2>2, <3>1, AppendedTo
    <3> QED
      BY <2>1, <2>2, <3>2
  <2> QED
    BY <2>3, <2>4
<1>11. Wrong = {}
  <2>1. Wrong \subseteq 0 .. n
    OBVIOUS
  <2> HIDE DEF Wrong
  <2> QED
    BY <1>2, <1>9, <1>10, <2>1, NoCounterexample
<1>12. Right(n)
  <2>1. n \in 0 .. n
    BY <1>2
  <2> QED
    BY <1>11, <2>1
<1> QED
  BY <1>2, <1>4, <1>12 DEF found, pool

\* remove_position takes one key off the list and leaves the others.
LEMMA WithoutTakesOne ==
  ASSUME positions \in Seq(Positions), IsInjective(positions), NEW k \in Open
  PROVE  /\ Without(k) \in Seq(Positions) /\ Len(Without(k)) = Len(positions) - 1
         /\ IsInjective(Without(k))
         /\ ToSet(Without(k)) = Open \ {k}
<1> DEFINE last == Len(positions)
           at(i) == IF positions[i] = k THEN positions[last] ELSE positions[i]
           moved == [i \in 1 .. last |-> at(i)]
<1>1. last \in Nat /\ last # 0 /\ DOMAIN positions = 1 .. last
  BY DEF Open, ToSet
<1>2. PICK h \in 1 .. last : positions[h] = k
  BY <1>1 DEF Open, ToSet
<1>3. \A i \in 1 .. last : at(i) \in Positions
  BY <1>1
<1>4. moved \in Seq(Positions) /\ Len(moved) = last
  BY <1>1, <1>3
<1>5. Without(k) = SubSeq(moved, 1, last - 1)
  BY DEF Without
<1> HIDE DEF moved
<1>6. /\ Without(k) \in Seq(Positions) /\ Len(Without(k)) = last - 1
      /\ \A i \in 1 .. (last - 1) : Without(k)[i] = moved[i]
  BY <1>1, <1>4, <1>5
<1>7. DOMAIN Without(k) = 1 .. (last - 1)
  BY <1>1, <1>6
<1>8. \A i \in 1 .. (last - 1) :
        Without(k)[i] = IF i = h THEN positions[last] ELSE positions[i]
  <2> TAKE i \in 1 .. (last - 1)
  <2>1. i \in 1 .. last /\ moved[i] = at(i)
    BY <1>1 DEF moved
  <2>2. positions[i] = k <=> i = h
    BY <1>1, <1>2, <2>1 DEF IsInjective
  <2> QED
    BY <1>6, <2>1, <2>2
<1>9. \A i, j \in 1 .. last : positions[i] = positions[j] => i = j
  BY <1>1 DEF IsInjective
<1>10. IsInjective(Without(k))
  BY <1>1, <1>2, <1>7, <1>8, <1>9 DEF IsInjective
<1>11. ToSet(Without(k)) = {Without(k)[i] : i \in 1 .. (last - 1)}
  BY <1>7 DEF ToSet
<1>12. \A i \in 1 .. last : i # h =>
         \E j \in 1 .. (last - 1) : Without(k)[j] = positions[i]
  <2> SUFFICES ASSUME NEW i \in 1 .. last, i # h
               PROVE  \E j \in 1 .. (last - 1) : Without(k)[j] = positions[i]
    OBVIOUS
  <2> HIDE DEF last
  <2>1. ASSUME i # last PROVE i \in 1 .. (last - 1) /\ Without(k)[i] = positions[i]
    BY <1>1, <1>8, <2>1
  <2>2. ASSUME i = last PROVE h \in 1 .. (last - 1) /\ Without(k)[h] = positions[i]
    BY <1>1, <1>2, <1>8, <2>2
  <2> QED
    BY <2>1, <2>2
<1>13. \A j \in 1 .. (last - 1) : Without(k)[j] \in Open \ {k}
  BY <1>1, <1>2, <1>8, <1>9 DEF Open, ToSet
<1>14. \A x \in Open \ {k} : x \in ToSet(Without(k))
  BY <1>1, <1>2, <1>11, <1>12 DEF Open, ToSet
<1> QED
  BY <1>6, <1>10, <1>11, <1>13, <1>14

-----------------------------------------------------------------------------
(***************************************************************************)
(* The type of the state.                                                  *)
(***************************************************************************)
LEMMA IdleType == Idle \in CallType
BY DEF Idle, CallType

LEMMA TypeInit == Init => TypeOK
<1> SUFFICES ASSUME Init PROVE TypeOK
  OBVIOUS
<1>1. <<>> \in Seq(Positions) /\ Len(<<>>) = 0 /\ IsInjective(<<>>)
  BY DEF IsInjective
<1>2. DOMAIN <<>> = {} /\ Range(<<>>) = {}
  BY DEF Range
<1>3. call \in [Calls -> CallType]
  BY IdleType DEF Init
<1>4. opened \in 0 .. MaxOpened /\ lost \in 0 .. MaxLost
  BY BoundAssumption DEF Init
<1>5. tx.kind = "none" /\ tx.quotes = <<>>
  BY DEF Init, NoTx
<1> QED
  BY <1>1, <1>2, <1>3, <1>4, <1>5, BoundAssumption DEF Init, TypeOK

LEMMA ListIsFinite ==
  ASSUME NEW X, NEW s \in Seq(X)
  PROVE  IsFiniteSet(ToSet(s))
<1>1. Len(s) \in Nat /\ DOMAIN s = 1 .. Len(s)
  OBVIOUS
<1>2. IsFiniteSet(1 .. Len(s))
  BY <1>1, FS_Interval
<1>3. s \in Surjection(1 .. Len(s), ToSet(s))
  BY <1>1 DEF Surjection, ToSet
<1> QED
  BY <1>2, <1>3, FS_Surjection

\* Reads are lost one by one, and no more than the bound.
LEMMA LoseKeeps ==
  ASSUME lost \in 0 .. MaxLost, NEW n \in Nat, Lose(n)
  PROVE  lost' \in 0 .. MaxLost /\ lost <= lost' /\ (lost' = 0 => n = 0 /\ lost = 0)
BY BoundAssumption DEF Lose

LEMMA FetchStrategyType ==
  ASSUME TypeOK, NEW c \in Calls, FetchStrategy(c)
  PROVE  TypeOK'
<1>1. [pc |-> "positions", keys |-> positions, found |-> <<>>, whole |-> TRUE] \in CallType
  BY DEF TypeOK, CallType
<1>2. call' \in [Calls -> CallType]
  BY <1>1 DEF TypeOK, FetchStrategy
<1> QED
  BY <1>2 DEF TypeOK, FetchStrategy, chainVars

LEMMA FetchPositionsDoes ==
  ASSUME TypeOK, NEW c \in Calls, NEW missing \in SUBSET ToSet(call[c].keys),
         FetchPositions(c, missing)
  PROVE  LET answered == Answered(call[c].keys, missing)
         IN /\ call' \in [Calls -> CallType]
            /\ call'[c].pc = "pools"
            /\ call'[c].found = [i \in DOMAIN answered |->
                                   [key |-> KeyAt(i), of |-> answered[i]]]
            /\ answered \in Seq(Positions)
            /\ \A d \in Calls \ {c} : call'[d] = call[d]
            /\ Cardinality(missing) \in Nat
            /\ Cardinality(missing) = 0 => missing = {}
<1> DEFINE answered == Answered(call[c].keys, missing)
           found == [i \in DOMAIN answered |-> [key |-> KeyAt(i), of |-> answered[i]]]
<1>1. call[c].keys \in Seq(Positions)
  BY CallFields
<1>2. answered \in Seq(Positions)
  BY <1>1, AnswersAreOfAsked DEF Answered
<1>3. \A i \in DOMAIN answered : KeyAt(i) \in Positions \cup {NoPosition}
  <2>1. \A i \in DOMAIN strategyAcc : strategyAcc[i] \in Positions
    BY DEF TypeOK
  <2> QED
    BY <2>1 DEF KeyAt
<1>4. found \in Seq(Found)
  <2>1. \A i \in DOMAIN answered : answered[i] \in Positions
    BY <1>2
  <2>2. \A i \in DOMAIN answered : found[i] \in Found
    BY <1>3, <2>1 DEF Found
  <2>3. Len(answered) \in Nat /\ DOMAIN answered = 1 .. Len(answered)
    BY <1>2
  <2> HIDE DEF answered
  <2>4. [i \in 1 .. Len(answered) |-> [key |-> KeyAt(i), of |-> answered[i]]] \in Seq(Found)
    BY <2>2, <2>3
  <2> QED
    BY <2>3, <2>4
<1>5. IsFiniteSet(missing)
  BY <1>1, ListIsFinite, FS_Subset
<1>6. /\ Cardinality(missing) \in Nat
      /\ Cardinality(missing) = 0 => missing = {}
  BY <1>5, FS_CardinalityType, FS_EmptySet
<1>7. call' = [call EXCEPT ![c] = [pc |-> "pools", keys |-> <<>>,
                                   found |-> found, whole |-> TRUE]]
  BY DEF FetchPositions
<1> HIDE DEF found, answered
<1>8. [pc |-> "pools", keys |-> <<>>, found |-> found, whole |-> TRUE] \in CallType
  BY <1>4 DEF CallType
<1> QED
  BY <1>2, <1>6, <1>7, <1>8 DEF TypeOK, found, answered

LEMMA MergeHas ==
  ASSUME NEW f, NEW g
  PROVE  /\ DOMAIN Merge(f, g) = DOMAIN f \cup DOMAIN g
         /\ \A x \in DOMAIN g : Merge(f, g)[x] = g[x]
         /\ \A x \in DOMAIN f \ DOMAIN g : Merge(f, g)[x] = f[x]
BY DEF Merge

LEMMA FetchPoolsDoes ==
  ASSUME TypeOK, NEW c \in Calls, NEW missing \in SUBSET ToSet(PoolsFound(c)),
         FetchPools(c, missing)
  PROVE  /\ call' \in [Calls -> CallType]
         /\ call'[c].pc = "reserves" /\ call'[c].found = call[c].found
         /\ \A d \in Calls \ {c} : call'[d] = call[d]
         /\ DOMAIN lbPairs' \subseteq Pools /\ Range(lbPairs') \subseteq Pools
         /\ DOMAIN lbPairs \subseteq DOMAIN lbPairs'
         /\ missing = {} => /\ call'[c].whole
                            /\ \A i \in DOMAIN call[c].found :
                                 PoolOf[call[c].found[i].of] \in DOMAIN lbPairs'
         /\ Cardinality(missing) \in Nat
         /\ Cardinality(missing) = 0 => missing = {}
<1> DEFINE pools == PoolsFound(c)
           answered == Answers(pools, missing)
           asked == {pools[i] : i \in DOMAIN answered}
           taken == [p \in asked |-> answered[CHOOSE i \in DOMAIN answered : pools[i] = p]]
<1>1. pools \in Seq(Pools)
      /\ ToSet(pools) = {PoolOf[call[c].found[i].of] : i \in DOMAIN call[c].found}
  BY PoolsAreOfFound
<1>2. /\ answered \in Seq(Pools) /\ Len(answered) <= Len(pools)
      /\ missing = {} => answered = pools
  BY <1>1, AnswersAreOfAsked
<1>3. lbPairs' = Merge(lbPairs, taken)
  BY DEF FetchPools
<1>4. call' = [call EXCEPT ![c] = [pc |-> "reserves", keys |-> <<>>,
                                   found |-> call[c].found, whole |-> (missing = {})]]
  BY DEF FetchPools
<1> HIDE DEF pools, answered
<1>5. DOMAIN taken = asked /\ \A p \in asked : \E i \in DOMAIN answered : taken[p] = answered[i]
  OBVIOUS
<1>6. DOMAIN answered = 1 .. Len(answered) /\ DOMAIN pools = 1 .. Len(pools)
      /\ Len(answered) \in Nat /\ Len(pools) \in Nat
  BY <1>1, <1>2
<1>7. asked \subseteq Pools
  BY <1>1, <1>2, <1>6
<1>8. missing = {} => asked = ToSet(pools)
  BY <1>2 DEF ToSet
<1>9. \A p \in asked : taken[p] \in Pools
  BY <1>2, <1>5
<1> HIDE DEF taken, asked
<1>10. DOMAIN lbPairs' = DOMAIN lbPairs \cup asked
       /\ \A p \in DOMAIN lbPairs' : lbPairs'[p] \in Pools
  <2>1. \A p \in DOMAIN lbPairs : lbPairs[p] \in Pools
    BY DEF TypeOK, Range
  <2>2. /\ DOMAIN Merge(lbPairs, taken) = DOMAIN lbPairs \cup DOMAIN taken
        /\ \A x \in DOMAIN taken : Merge(lbPairs, taken)[x] = taken[x]
        /\ \A x \in DOMAIN lbPairs \ DOMAIN taken : Merge(lbPairs, taken)[x] = lbPairs[x]
    BY MergeHas
  <2> QED
    BY <1>3, <1>5, <1>9, <2>1, <2>2
<1>11. DOMAIN lbPairs' \subseteq Pools /\ Range(lbPairs') \subseteq Pools
       /\ DOMAIN lbPairs \subseteq DOMAIN lbPairs'
  BY <1>7, <1>10 DEF TypeOK, Range
<1>12. missing = {} => \A i \in DOMAIN call[c].found :
                          PoolOf[call[c].found[i].of] \in DOMAIN lbPairs'
  BY <1>1, <1>8, <1>10
<1>13. IsFiniteSet(missing)
  BY <1>1, ListIsFinite, FS_Subset DEF pools
<1>14. Cardinality(missing) \in Nat /\ (Cardinality(missing) = 0 => missing = {})
  BY <1>13, FS_CardinalityType, FS_EmptySet
<1>15. [pc |-> "reserves", keys |-> <<>>, found |-> call[c].found,
        whole |-> (missing = {})] \in CallType
  <2> DEFINE w == (missing = {})
  <2>1. w \in BOOLEAN
    OBVIOUS
  <2> HIDE DEF w
  <2>2. [pc |-> "reserves", keys |-> <<>>, found |-> call[c].found, whole |-> w] \in CallType
    BY <2>1, CallFields DEF CallType
  <2> QED
    BY <2>2 DEF w
<1>16. /\ call' \in [Calls -> CallType]
       /\ call'[c] = [pc |-> "reserves", keys |-> <<>>, found |-> call[c].found,
                      whole |-> (missing = {})]
       /\ \A d \in Calls \ {c} : call'[d] = call[d]
  BY <1>4, <1>15 DEF TypeOK
<1>17. /\ call'[c].pc = "reserves" /\ call'[c].found = call[c].found
       /\ missing = {} => call'[c].whole
  <2> DEFINE w == (missing = {})
  <2>1. call'[c] = [pc |-> "reserves", keys |-> <<>>, found |-> call[c].found, whole |-> w]
    BY <1>16
  <2>2. missing = {} => w
    OBVIOUS
  <2> HIDE DEF w
  <2> QED
    BY <2>1, <2>2
<1> QED
  BY <1>11, <1>12, <1>14, <1>16, <1>17

\* The map gets an entry under every key found, and keeps the others.
LEMMA FetchReservesDoes ==
  ASSUME TypeOK, NEW c \in Calls, FetchReserves(c)
  PROVE  LET found == call[c].found
         IN /\ call' = [call EXCEPT ![c] = Idle] /\ call' \in [Calls -> CallType]
            /\ DOMAIN cached' = DOMAIN cached \cup {found[i].key : i \in DOMAIN found}
            /\ \A i \in DOMAIN found : \E j \in DOMAIN found :
                 found[j].key = found[i].key /\ cached'[found[i].key] = found[j].of
            /\ \A k \in DOMAIN cached :
                 (\A i \in DOMAIN found : found[i].key # k) => cached'[k] = cached[k]
            /\ DOMAIN cached' \subseteq Positions \cup {NoPosition}
            /\ Range(cached') \subseteq Positions
<1> DEFINE found == call[c].found
           keys == {found[i].key : i \in DOMAIN found}
           taken == [k \in keys |-> found[CHOOSE i \in DOMAIN found : found[i].key = k].of]
<1>1. cached' = Merge(cached, taken) /\ call' = [call EXCEPT ![c] = Idle]
  BY DEF FetchReserves
<1>2. \A i \in DOMAIN found :
        found[i].key \in Positions \cup {NoPosition} /\ found[i].of \in Positions
  BY FoundFields
<1> HIDE DEF found
<1>3. DOMAIN taken = keys
      /\ \A i \in DOMAIN found : \E j \in DOMAIN found :
           found[j].key = found[i].key /\ taken[found[i].key] = found[j].of
  OBVIOUS
<1>4. keys \subseteq Positions \cup {NoPosition}
  BY <1>2
<1>5. \A k \in keys : taken[k] \in Positions
  BY <1>2, <1>3
<1>6. \A i \in DOMAIN found : found[i].key \in keys
  OBVIOUS
<1>7. \A k : (\A i \in DOMAIN found : found[i].key # k) => k \notin keys
  OBVIOUS
<1> HIDE DEF taken, keys
<1>8. /\ DOMAIN cached' = DOMAIN cached \cup keys
      /\ \A k \in keys : cached'[k] = taken[k]
      /\ \A k \in DOMAIN cached \ keys : cached'[k] = cached[k]
  <2>1. /\ DOMAIN Merge(cached, taken) = DOMAIN cached \cup DOMAIN taken
        /\ \A x \in DOMAIN taken : Merge(cached, taken)[x] = taken[x]
        /\ \A x \in DOMAIN cached \ DOMAIN taken : Merge(cached, taken)[x] = cached[x]
    BY MergeHas
  <2> QED
    BY <1>1, <1>3, <2>1
<1>9. \A k \in DOMAIN cached' : cached'[k] \in Positions
  BY <1>5, <1>8 DEF TypeOK, Range
<1>10. DOMAIN cached' \subseteq Positions \cup {NoPosition} /\ Range(cached') \subseteq Positions
  BY <1>4, <1>8, <1>9 DEF TypeOK, Range
<1>11. call' \in [Calls -> CallType]
  BY <1>1, IdleType DEF TypeOK
<1>12. \A i \in DOMAIN found : \E j \in DOMAIN found :
         found[j].key = found[i].key /\ cached'[found[i].key] = found[j].of
  BY <1>3, <1>6, <1>8
<1>13. \A k \in DOMAIN cached :
         (\A i \in DOMAIN found : found[i].key # k) => cached'[k] = cached[k]
  BY <1>7, <1>8
<1> QED
  BY <1>1, <1>8, <1>10, <1>11, <1>12, <1>13 DEF found, keys

LEMMA RefreshType ==
  ASSUME TypeOK, NEW c \in Calls, RefreshNext(c)
  PROVE  TypeOK'
<1>1. lost \in 0 .. MaxLost
  BY DEF TypeOK
<1>2. CASE FetchStrategy(c)
  BY <1>2, FetchStrategyType
<1>3. ASSUME NEW missing \in SUBSET ToSet(call[c].keys), FetchPositions(c, missing)
      PROVE  TypeOK'
  <2>1. call' \in [Calls -> CallType] /\ Cardinality(missing) \in Nat
    BY <1>3, FetchPositionsDoes
  <2>2. lost' \in 0 .. MaxLost
    BY <1>1, <1>3, <2>1, LoseKeeps DEF FetchPositions
  <2> QED
    BY <1>3, <2>1, <2>2 DEF FetchPositions, chainVars, TypeOK
<1>4. ASSUME NEW missing \in SUBSET ToSet(PoolsFound(c)), FetchPools(c, missing)
      PROVE  TypeOK'
  <2>1. /\ call' \in [Calls -> CallType] /\ Cardinality(missing) \in Nat
        /\ DOMAIN lbPairs' \subseteq Pools /\ Range(lbPairs') \subseteq Pools
    BY <1>4, FetchPoolsDoes
  <2>2. lost' \in 0 .. MaxLost
    BY <1>1, <1>4, <2>1, LoseKeeps DEF FetchPools
  <2>3. UNCHANGED <<chainVars, strategyAcc, cached, tx>>
    BY <1>4 DEF FetchPools
  <2> QED
    BY <2>1, <2>2, <2>3 DEF chainVars, TypeOK
<1>5. CASE FetchReserves(c)
  <2>1. /\ call' \in [Calls -> CallType]
        /\ DOMAIN cached' \subseteq Positions \cup {NoPosition}
        /\ Range(cached') \subseteq Positions
    BY <1>5, FetchReservesDoes
  <2>2. UNCHANGED <<chainVars, lost, strategyAcc, lbPairs, tx>>
    BY <1>5 DEF FetchReserves
  <2> QED
    BY <2>1, <2>2 DEF chainVars, TypeOK
<1>6. CASE RefreshThrows(c)
  <2>1. call' \in [Calls -> CallType]
    BY <1>6, IdleType DEF RefreshThrows, TypeOK
  <2>2. lost' \in 0 .. MaxLost
    BY <1>1, <1>6, LoseKeeps DEF RefreshThrows
  <2> QED
    BY <1>6, <2>1, <2>2 DEF RefreshThrows, chainVars, TypeOK
<1> QED
  BY <1>2, <1>3, <1>4, <1>5, <1>6 DEF RefreshNext

LEMMA BuildType ==
  ASSUME TypeOK, BuildNext
  PROVE  TypeOK'
<1>1. UNCHANGED <<chainVars, sdkVars>> /\ lost' \in 0 .. MaxLost
  <2>1. lost \in 0 .. MaxLost
    BY DEF TypeOK
  <2> QED
    BY <2>1, LoseKeeps DEF BuildNext, BuildShares, BuildOnPosition, BuildAdd, Build
<1>2. \A k \in DOMAIN cached : cached[k] \in Positions
  BY DEF TypeOK, Range
<1>3. CASE BuildShares
  <2> DEFINE keys == ToSet(strategyAcc)
  <2>1. keys \subseteq Positions
    BY DEF TypeOK, ToSet
  <2>2. keys \subseteq DOMAIN cached /\ tx'.kind = "shares" /\ tx'.quotes = Restrict(cached, keys)
    BY <1>3 DEF BuildShares, Build
  <2> HIDE DEF keys
  <2>3. DOMAIN tx'.quotes \subseteq Positions /\ Range(tx'.quotes) \subseteq Positions
    BY <1>2, <2>1, <2>2 DEF Restrict, Range
  <2> QED
    BY <1>1, <2>2, <2>3 DEF TypeOK, chainVars, sdkVars
<1>4. ASSUME NEW k \in Positions, NEW kind \in {"remove", "close"}, BuildOnPosition(kind, k)
      PROVE  TypeOK'
  <2>1. k \in DOMAIN cached /\ tx'.kind = kind /\ tx'.quotes = Restrict(cached, {k})
    BY <1>4 DEF BuildOnPosition, Build
  <2>2. DOMAIN tx'.quotes \subseteq Positions /\ Range(tx'.quotes) \subseteq Positions
    BY <1>2, <2>1 DEF Restrict, Range
  <2> QED
    BY <1>1, <2>1, <2>2 DEF TypeOK, chainVars, sdkVars
<1>5. ASSUME NEW k \in Positions, BuildAdd(k)
      PROVE  TypeOK'
  <2>1. tx'.kind \in {"add", "create"} /\ tx'.quotes = [x \in {k} |-> k]
    BY <1>5 DEF BuildAdd, Build
  <2>2. DOMAIN tx'.quotes \subseteq Positions /\ Range(tx'.quotes) \subseteq Positions
    BY <2>1 DEF Range
  <2> QED
    BY <1>1, <2>1, <2>2 DEF TypeOK, chainVars, sdkVars
<1> QED
  BY <1>3, <1>4, <1>5 DEF BuildNext

\* What landing and the others do to the chain leaves it well typed.
LEMMA LandDoes ==
  ASSUME TypeOK, LandNext
  PROVE  /\ tx' = NoTx /\ UNCHANGED <<lost, sdkVars, opened>>
         /\ arrays \subseteq arrays' /\ arrays' \subseteq Positions
         /\ \/ positions' = positions
            \/ \E k \in Open : positions' = Without(k)
<1>1. ASSUME NEW k \in Positions, LandOnPosition(k)
      PROVE  /\ arrays \subseteq arrays' /\ arrays' \subseteq Positions
             /\ positions' = positions \/ \E h \in Open : positions' = Without(h)
  <2>1. k \in Open
    BY <1>1 DEF LandOnPosition, CanLand
  <2> QED
    BY <1>1, <2>1 DEF LandOnPosition, TypeOK
<1>2. tx' = NoTx /\ UNCHANGED <<lost, sdkVars, opened>>
  BY DEF LandNext, LandShares, LandOnPosition, Refuse, Expire, Finish
<1>3. ASSUME LandShares \/ Refuse \/ Expire
      PROVE  UNCHANGED <<positions, arrays>> /\ arrays \subseteq Positions
  BY <1>3 DEF LandShares, Refuse, Expire, TypeOK
<1> QED
  BY <1>1, <1>2, <1>3 DEF LandNext

LEMMA PositionsType ==
  ASSUME TypeOK, NEW k \in Open, positions' = Without(k)
  PROVE  /\ positions' \in Seq(Positions) /\ Len(positions') <= MAX_POSITIONS
         /\ IsInjective(positions')
<1>1. /\ Without(k) \in Seq(Positions) /\ Len(Without(k)) = Len(positions) - 1
      /\ IsInjective(Without(k))
  BY WithoutTakesOne DEF TypeOK
<1>2. Len(positions) \in Nat /\ Len(positions) <= MAX_POSITIONS
  BY DEF TypeOK
<1> QED
  BY <1>1, <1>2, BoundAssumption

LEMMA NoTxType ==
  /\ NoTx.kind = "none" /\ NoTx.quotes = <<>> /\ DOMAIN NoTx.quotes = {}
  /\ Range(NoTx.quotes) = {}
BY DEF NoTx, Range

LEMMA LandType ==
  ASSUME TypeOK, LandNext
  PROVE  TypeOK'
<1>1. /\ positions' \in Seq(Positions) /\ Len(positions') <= MAX_POSITIONS
      /\ IsInjective(positions')
  <2>1. CASE positions' = positions
    BY <2>1 DEF TypeOK
  <2>2. ASSUME NEW k \in Open, positions' = Without(k)
        PROVE  /\ positions' \in Seq(Positions) /\ Len(positions') <= MAX_POSITIONS
               /\ IsInjective(positions')
    BY <2>2, PositionsType
  <2> QED
    BY <2>1, <2>2, LandDoes
<1>2. arrays' \subseteq Positions /\ UNCHANGED <<lost, sdkVars, opened>> /\ tx' = NoTx
  BY LandDoes
<1> QED
  BY <1>1, <1>2, NoTxType DEF TypeOK, sdkVars

LEMMA OpenElsewhereDoes ==
  ASSUME TypeOK, OpenElsewhere
  PROVE  /\ positions' \in Seq(Positions) /\ Len(positions') <= MAX_POSITIONS
         /\ opened' \in 0 .. MaxOpened /\ opened' = opened + 1
         /\ Open' = Open \cup {opened'}
         /\ Open \subseteq 1 .. opened => IsInjective(positions')
<1>1. opened' \in Positions /\ opened' \in 0 .. MaxOpened /\ opened' = opened + 1
  BY BoundAssumption DEF OpenElsewhere, TypeOK, Positions
<1>2. positions \in Seq(Positions) /\ positions' = Append(positions, opened')
  BY DEF OpenElsewhere, TypeOK
<1>3. /\ positions' \in Seq(Positions) /\ Len(positions') = Len(positions) + 1
      /\ Open' = Open \cup {opened'}
      /\ \A i \in 1 .. Len(positions) : positions'[i] = positions[i]
      /\ positions'[Len(positions) + 1] = opened'
  BY <1>1, <1>2, AppendedTo DEF Open
<1>4. Len(positions) \in Nat /\ Len(positions) < MAX_POSITIONS
  BY <1>2 DEF OpenElsewhere
<1>5. Len(positions') <= MAX_POSITIONS
  BY <1>3, <1>4, BoundAssumption
<1>6. ASSUME Open \subseteq 1 .. opened
      PROVE  IsInjective(positions')
  <2>1. /\ DOMAIN positions = 1 .. Len(positions)
        /\ DOMAIN positions' = (1 .. Len(positions)) \cup {Len(positions) + 1}
    BY <1>2, <1>3, <1>4
  <2>2. \A i \in 1 .. Len(positions) : positions[i] # opened'
    <3>1. \A i \in 1 .. Len(positions) : positions[i] \in Open
      BY <2>1 DEF Open, ToSet
    <3>2. opened \in Nat
      BY DEF TypeOK
    <3> QED
      BY <1>1, <1>6, <3>1, <3>2
  <2> QED
    BY <1>3, <2>1, <2>2 DEF IsInjective, TypeOK
<1> QED
  BY <1>1, <1>3, <1>5, <1>6

\* Type and once-used keys are preserved together: a position opened under a
\* key that is listed already would be listed twice.
KeysOfPositions == TypeOK /\ Open \subseteq 1 .. opened

LEMMA ElsewhereType ==
  ASSUME KeysOfPositions, ElsewhereNext
  PROVE  TypeOK'
<1>1. CASE OpenElsewhere
  <2>1. /\ positions' \in Seq(Positions) /\ Len(positions') <= MAX_POSITIONS
        /\ opened' \in 0 .. MaxOpened /\ IsInjective(positions')
    BY <1>1, OpenElsewhereDoes DEF KeysOfPositions
  <2>2. UNCHANGED <<arrays, lost, sdkVars, tx>>
    BY <1>1 DEF OpenElsewhere, Elsewhere
  <2> QED
    BY <2>1, <2>2 DEF KeysOfPositions, TypeOK, sdkVars
<1>2. ASSUME NEW k \in Positions, CloseElsewhere(k)
      PROVE  TypeOK'
  <2>1. /\ positions' \in Seq(Positions) /\ Len(positions') <= MAX_POSITIONS
        /\ IsInjective(positions')
    BY <1>2, PositionsType DEF CloseElsewhere, KeysOfPositions
  <2>2. UNCHANGED <<opened, arrays, lost, sdkVars, tx>>
    BY <1>2 DEF CloseElsewhere, Elsewhere
  <2> QED
    BY <2>1, <2>2 DEF KeysOfPositions, TypeOK, sdkVars
<1>3. ASSUME NEW k \in Positions, CreateArraysElsewhere(k)
      PROVE  TypeOK'
  BY <1>3 DEF CreateArraysElsewhere, Elsewhere, KeysOfPositions, TypeOK, sdkVars
<1> QED
  BY <1>1, <1>2, <1>3 DEF ElsewhereNext

LEMMA StepKeepsType ==
  ASSUME KeysOfPositions, [Next]_vars
  PROVE  TypeOK'
<1>1. ASSUME NEW c \in Calls, RefreshNext(c)
      PROVE  TypeOK'
  BY <1>1, RefreshType DEF KeysOfPositions
<1>2. CASE UNCHANGED vars
  BY <1>2 DEF KeysOfPositions, TypeOK, vars, chainVars, sdkVars
<1> QED
  BY <1>1, <1>2, BuildType, LandType, ElsewhereType DEF Next, KeysOfPositions

\* What becomes of the open positions in a step: one is closed, or one is
\* opened under a new key.
LEMMA OpenChanges ==
  ASSUME KeysOfPositions, [Next]_vars
  PROVE  \/ opened' = opened /\ Open' \subseteq Open
         \/ opened' = opened + 1 /\ Open' = Open \cup {opened'} /\ OpenElsewhere
<1>1. ASSUME positions' = positions \/ \E k \in Open : positions' = Without(k)
      PROVE  Open' \subseteq Open
  <2>1. CASE positions' = positions
    BY <2>1 DEF Open
  <2>2. ASSUME NEW k \in Open, positions' = Without(k)
        PROVE  Open' \subseteq Open
    <3>1. ToSet(Without(k)) = Open \ {k}
      BY WithoutTakesOne DEF KeysOfPositions, TypeOK
    <3> QED
      BY <2>2, <3>1 DEF Open
  <2> QED
    BY <1>1, <2>1, <2>2
<1>2. ASSUME NEW c \in Calls, RefreshNext(c)
      PROVE  UNCHANGED <<positions, opened>>
  BY <1>2 DEF RefreshNext, FetchStrategy, FetchPositions, FetchPools, FetchReserves,
              RefreshThrows, chainVars
<1>3. CASE BuildNext
  BY <1>1, <1>3 DEF BuildNext, BuildShares, BuildOnPosition, BuildAdd, Build, chainVars
<1>4. CASE LandNext
  <2>1. UNCHANGED opened /\ (positions' = positions \/ \E k \in Open : positions' = Without(k))
    BY <1>4, LandDoes DEF KeysOfPositions
  <2> QED
    BY <1>1, <2>1
<1>5. CASE OpenElsewhere
  BY <1>5, OpenElsewhereDoes DEF KeysOfPositions
<1>6. ASSUME NEW k \in Positions, CloseElsewhere(k) \/ CreateArraysElsewhere(k)
      PROVE  opened' = opened /\ (positions' = positions \/ \E h \in Open : positions' = Without(h))
  BY <1>6 DEF CloseElsewhere, CreateArraysElsewhere
<1>7. CASE UNCHANGED vars
  BY <1>1, <1>7 DEF vars, chainVars
<1> QED
  BY <1>1, <1>2, <1>3, <1>4, <1>5, <1>6, <1>7 DEF Next, ElsewhereNext

LEMMA KeysOfPositionsKeep ==
  ASSUME KeysOfPositions, [Next]_vars
  PROVE  KeysOfPositions'
<1>1. opened \in Nat
  BY BoundAssumption DEF KeysOfPositions, TypeOK
<1>2. Open' \subseteq 1 .. opened'
  <2>1. Open \subseteq 1 .. opened
    BY DEF KeysOfPositions
  <2>2. CASE opened' = opened /\ Open' \subseteq Open
    BY <2>1, <2>2
  <2>3. CASE opened' = opened + 1 /\ Open' = Open \cup {opened'}
    BY <1>1, <2>1, <2>3
  <2> QED
    BY <2>2, <2>3, OpenChanges
<1> QED
  BY <1>2, StepKeepsType DEF KeysOfPositions

LEMMA KeysOfPositionsInit == Init => KeysOfPositions
<1>1. Init => Open = {}
  BY DEF Init, Open, ToSet
<1> QED
  BY <1>1, TypeInit DEF KeysOfPositions

LEMMA KeysOfPositionsHold == Spec => []KeysOfPositions
BY KeysOfPositionsInit, KeysOfPositionsKeep, PTL DEF Spec

\* The object's copies and its transaction are of positions, pools and reads
\* that exist, for any number of calls that overlap.
THEOREM SDKTypeCorrect == Spec => []TypeOK
<1>1. KeysOfPositions => TypeOK
  BY DEF KeysOfPositions
<1> QED
  BY <1>1, KeysOfPositionsHold, PTL

-----------------------------------------------------------------------------
(***************************************************************************)
(* One refresh() at a time, as an application that awaits it runs them.    *)
(* Two that overlap store answers for one list under the keys of another.  *)
(***************************************************************************)
OneCall == \A c, d \in Calls : c = d

Listed == ToSet(strategyAcc)

\* No copy is of a position yet to be opened: what was closed stays closed.
CopiesAreOld ==
  /\ Listed \subseteq 1 .. opened
  /\ DOMAIN cached \subseteq 1 .. opened
  /\ DOMAIN tx.quotes \subseteq 1 .. opened

\* The call under way works on the list the object has.
CallFollowsList ==
  \A c \in Calls :
    /\ call[c].pc = "positions" => call[c].keys = strategyAcc
    /\ call[c].pc \in {"pools", "reserves"} =>
         \A i \in DOMAIN call[c].found :
           call[c].found[i].key \in Listed /\ call[c].found[i].of \in Listed

\* Every listed position that is still open was found, and under its own key
\* unless another one of the list was closed.
FoundOwn ==
  \A c \in Calls : call[c].pc \in {"pools", "reserves"} =>
    /\ \A k \in Listed \cap Open : \E i \in DOMAIN call[c].found : call[c].found[i].of = k
    /\ Listed \subseteq Open =>
         \A i \in DOMAIN call[c].found : call[c].found[i].key = call[c].found[i].of

\* A call that has come to the reserves has the bin arrays and pools it needs.
FoundIsComplete ==
  \A c \in Calls : call[c].pc = "reserves" =>
    /\ call[c].whole
    /\ \A i \in DOMAIN call[c].found :
         /\ call[c].found[i].of \in arrays
         /\ PoolOf[call[c].found[i].of] \in DOMAIN lbPairs

\* A position without bin arrays was never stored.
CachedHaveArrays == DOMAIN cached \cap Open \subseteq arrays

\* Between calls, the listed positions are in the map with their own accounts,
\* or one of them is closed or was never stored.
CopiesOwn ==
  Settled /\ Listed \subseteq Open /\ Listed \subseteq DOMAIN cached =>
    \A k \in Listed : cached[k] = k

QuotesOwn ==
  tx.kind = "shares" /\ DOMAIN tx.quotes \subseteq Open =>
    Own /\ DOMAIN tx.quotes \subseteq arrays

CopiesRight ==
  lost = 0 => FoundOwn /\ FoundIsComplete /\ CachedHaveArrays /\ CopiesOwn /\ QuotesOwn

SDKInv == KeysOfPositions /\ CopiesAreOld /\ CallFollowsList /\ CopiesRight

LEMMA SDKInvInit == Init => SDKInv
<1> SUFFICES ASSUME Init PROVE SDKInv
  OBVIOUS
<1>1. KeysOfPositions
  BY KeysOfPositionsInit
<1>2. Listed = {} /\ DOMAIN cached = {} /\ DOMAIN tx.quotes = {}
  BY NoTxType DEF Init, Listed, ToSet
<1>3. \A c \in Calls : call[c].pc = "idle"
  BY DEF Init, Idle
<1>4. tx.kind = "none"
  BY NoTxType DEF Init
<1>5. CopiesAreOld /\ CallFollowsList
  BY <1>2, <1>3 DEF CopiesAreOld, CallFollowsList
<1>6. CopiesRight
  BY <1>2, <1>3, <1>4 DEF CopiesRight, FoundOwn, FoundIsComplete, CachedHaveArrays,
                          CopiesOwn, QuotesOwn
<1> QED
  BY <1>1, <1>5, <1>6 DEF SDKInv

\* Keys that were used are open after a step only if they were before it.
LEMMA NoReopening ==
  ASSUME KeysOfPositions, [Next]_vars, NEW X, X \subseteq 1 .. opened
  PROVE  X \cap Open' \subseteq Open /\ X \subseteq 1 .. opened'
<1>1. opened \in Nat
  BY BoundAssumption DEF KeysOfPositions, TypeOK
<1>2. CASE opened' = opened /\ Open' \subseteq Open
  BY <1>2
<1>3. CASE opened' = opened + 1 /\ Open' = Open \cup {opened'}
  BY <1>1, <1>3
<1> QED
  BY <1>2, <1>3, OpenChanges

\* Steps of the application, of the chain and of others leave the copies right.
LEMMA OthersKeepCopies ==
  ASSUME SDKInv, [Next]_vars, UNCHANGED sdkVars, arrays \subseteq arrays'
  PROVE  /\ Listed' \subseteq 1 .. opened' /\ DOMAIN cached' \subseteq 1 .. opened'
         /\ CallFollowsList'
         /\ lost = 0 => FoundOwn' /\ FoundIsComplete' /\ CachedHaveArrays' /\ CopiesOwn'
<1>1. strategyAcc' = strategyAcc /\ cached' = cached /\ lbPairs' = lbPairs /\ call' = call
  BY DEF sdkVars
<1>2. Listed' = Listed /\ (Settled' <=> Settled)
  BY <1>1 DEF Listed, Settled
<1>3. /\ Listed \cap Open' \subseteq Open /\ Listed \subseteq 1 .. opened'
      /\ DOMAIN cached \cap Open' \subseteq Open /\ DOMAIN cached \subseteq 1 .. opened'
  BY NoReopening DEF SDKInv, CopiesAreOld
<1>4. CallFollowsList'
  BY <1>1, <1>2 DEF SDKInv, CallFollowsList
<1>5. ASSUME lost = 0
      PROVE  FoundOwn' /\ FoundIsComplete' /\ CachedHaveArrays' /\ CopiesOwn'
  <2>1. FoundOwn /\ FoundIsComplete /\ CachedHaveArrays /\ CopiesOwn
    BY <1>5 DEF SDKInv, CopiesRight
  <2>2. FoundOwn'
    BY <1>1, <1>2, <1>3, <2>1 DEF FoundOwn
  <2>3. FoundIsComplete'
    BY <1>1, <2>1 DEF FoundIsComplete
  <2>4. CachedHaveArrays'
    BY <1>1, <1>3, <2>1 DEF CachedHaveArrays
  <2>5. CopiesOwn'
    BY <1>1, <1>2, <1>3, <2>1 DEF CopiesOwn
  <2> QED
    BY <2>2, <2>3, <2>4, <2>5
<1> QED
  BY <1>1, <1>2, <1>3, <1>4, <1>5

\* A call that begins replaces the list before anything is stored for it.
LEMMA FetchStrategyKeeps ==
  ASSUME OneCall, SDKInv, NEW c \in Calls, FetchStrategy(c)
  PROVE  CopiesAreOld' /\ CallFollowsList' /\ CopiesRight'
<1>1. /\ strategyAcc' = positions /\ UNCHANGED <<positions, opened, arrays, lost, cached, lbPairs, tx>>
      /\ call' = [call EXCEPT ![c] = [pc |-> "positions", keys |-> positions,
                                      found |-> <<>>, whole |-> TRUE]]
  BY DEF FetchStrategy, chainVars
<1>2. call'[c].pc = "positions" /\ call'[c].keys = positions
  BY <1>1 DEF SDKInv, KeysOfPositions, TypeOK
<1>3. Listed' = Open /\ Open' = Open
  BY <1>1 DEF Listed, Open
<1>4. CopiesAreOld'
  BY <1>1, <1>3 DEF SDKInv, CopiesAreOld, KeysOfPositions
<1>5. CallFollowsList'
  BY <1>1, <1>2 DEF OneCall, CallFollowsList
<1>6. FoundOwn' /\ FoundIsComplete' /\ CopiesOwn'
  BY <1>2 DEF OneCall, FoundOwn, FoundIsComplete, CopiesOwn, Settled
<1>7. CachedHaveArrays => CachedHaveArrays'
  BY <1>1, <1>3 DEF CachedHaveArrays
<1>8. QuotesOwn => QuotesOwn'
  BY <1>1, <1>3 DEF QuotesOwn, Own
<1>9. CopiesRight'
  BY <1>1, <1>6, <1>7, <1>8 DEF SDKInv, CopiesRight
<1> QED
  BY <1>4, <1>5, <1>9

LEMMA FetchPositionsKeeps ==
  ASSUME OneCall, SDKInv, NEW c \in Calls, NEW missing \in SUBSET ToSet(call[c].keys),
         FetchPositions(c, missing)
  PROVE  CopiesAreOld' /\ CallFollowsList' /\ CopiesRight'
<1> DEFINE answered == Answered(call[c].keys, missing)
<1>1. /\ UNCHANGED <<positions, opened, arrays, strategyAcc, cached, lbPairs, tx>>
      /\ call[c].pc = "positions" /\ Lose(Cardinality(missing))
  BY DEF FetchPositions, chainVars
<1>2. /\ call'[c].pc = "pools"
      /\ call'[c].found = [i \in DOMAIN answered |-> [key |-> KeyAt(i), of |-> answered[i]]]
      /\ Cardinality(missing) \in Nat /\ (Cardinality(missing) = 0 => missing = {})
  BY FetchPositionsDoes DEF SDKInv, KeysOfPositions
<1>3. call[c].keys = strategyAcc /\ strategyAcc \in Seq(Positions)
  BY <1>1 DEF SDKInv, CallFollowsList, KeysOfPositions, TypeOK
<1>4. /\ answered \in Seq(Positions) /\ Len(answered) <= Len(strategyAcc)
      /\ ToSet(answered) = Listed \ (missing \cup (Positions \ Open))
      /\ Listed \cap (missing \cup (Positions \ Open)) = {} => answered = strategyAcc
  BY <1>3, AnswersAreOfAsked DEF Answered, Listed
<1> HIDE DEF answered
<1>5. \A i \in DOMAIN answered : i \in DOMAIN strategyAcc /\ KeyAt(i) = strategyAcc[i]
  BY <1>3, <1>4 DEF KeyAt
<1>6. DOMAIN call'[c].found = DOMAIN answered
      /\ \A i \in DOMAIN answered : /\ call'[c].found[i].key = strategyAcc[i]
                                    /\ call'[c].found[i].of = answered[i]
  BY <1>2, <1>5
<1>7. Listed' = Listed /\ Open' = Open /\ Listed \subseteq Positions
  BY <1>1, <1>3 DEF Listed, Open, ToSet
<1>8. \A i \in DOMAIN answered : strategyAcc[i] \in Listed /\ answered[i] \in Listed
  BY <1>4, <1>5 DEF Listed, ToSet
<1>9. CopiesAreOld'
  BY <1>1, <1>7 DEF SDKInv, CopiesAreOld
<1>10. CallFollowsList'
  BY <1>2, <1>6, <1>7, <1>8 DEF OneCall, CallFollowsList
<1>11. ASSUME lost' = 0
       PROVE  CopiesRight'
  <2>1. missing = {} /\ lost = 0
    BY <1>1, <1>2, <1>11, LoseKeeps DEF SDKInv, KeysOfPositions, TypeOK
  <2>2. FoundOwn'
    <3>1. \A k \in Listed \cap Open : \E i \in DOMAIN answered : answered[i] = k
      BY <1>4, <1>7, <2>1 DEF ToSet
    <3>2. Listed \subseteq Open => answered = strategyAcc
      BY <1>4, <2>1
    <3> QED
      BY <1>6, <1>7, <3>1, <3>2 DEF OneCall, FoundOwn
  <2>3. FoundIsComplete' /\ CopiesOwn'
    BY <1>2 DEF OneCall, FoundIsComplete, CopiesOwn, Settled
  <2>4. CachedHaveArrays' /\ QuotesOwn'
    BY <1>1, <1>7, <2>1 DEF SDKInv, CopiesRight, CachedHaveArrays, QuotesOwn, Own
  <2> QED
    BY <2>2, <2>3, <2>4 DEF CopiesRight
<1>12. CopiesRight'
  BY <1>11 DEF CopiesRight
<1> QED
  BY <1>9, <1>10, <1>12

LEMMA FetchPoolsKeeps ==
  ASSUME OneCall, SDKInv, NEW c \in Calls, NEW missing \in SUBSET ToSet(PoolsFound(c)),
         FetchPools(c, missing)
  PROVE  CopiesAreOld' /\ CallFollowsList' /\ CopiesRight'
<1>1. /\ UNCHANGED <<positions, opened, arrays, strategyAcc, cached, tx>>
      /\ call[c].pc = "pools" /\ Lose(Cardinality(missing))
      /\ \A i \in DOMAIN call[c].found : call[c].found[i].of \in arrays
  BY DEF FetchPools, chainVars
<1>2. /\ call'[c].pc = "reserves" /\ call'[c].found = call[c].found
      /\ missing = {} => /\ call'[c].whole
                         /\ \A i \in DOMAIN call[c].found :
                              PoolOf[call[c].found[i].of] \in DOMAIN lbPairs'
      /\ Cardinality(missing) \in Nat /\ (Cardinality(missing) = 0 => missing = {})
  BY FetchPoolsDoes DEF SDKInv, KeysOfPositions
<1>3. Listed' = Listed /\ Open' = Open
  BY <1>1 DEF Listed, Open
<1>4. CopiesAreOld'
  BY <1>1, <1>3 DEF SDKInv, CopiesAreOld
<1>5. CallFollowsList'
  BY <1>1, <1>2, <1>3 DEF OneCall, SDKInv, CallFollowsList
<1>6. ASSUME lost' = 0
      PROVE  CopiesRight'
  <2>1. missing = {} /\ lost = 0
    BY <1>1, <1>2, <1>6, LoseKeeps DEF SDKInv, KeysOfPositions, TypeOK
  <2>2. FoundOwn'
    BY <1>1, <1>2, <1>3, <2>1 DEF OneCall, SDKInv, CopiesRight, FoundOwn
  <2>3. FoundIsComplete'
    BY <1>1, <1>2, <2>1 DEF OneCall, FoundIsComplete
  <2>4. CopiesOwn'
    BY <1>2 DEF CopiesOwn, Settled
  <2>5. CachedHaveArrays' /\ QuotesOwn'
    BY <1>1, <1>3, <2>1 DEF SDKInv, CopiesRight, CachedHaveArrays, QuotesOwn, Own
  <2> QED
    BY <2>2, <2>3, <2>4, <2>5 DEF CopiesRight
<1>7. CopiesRight'
  BY <1>6 DEF CopiesRight
<1> QED
  BY <1>4, <1>5, <1>7

\* With every listed position found under its own key, what is stored is right.
LEMMA FetchReservesKeeps ==
  ASSUME OneCall, SDKInv, NEW c \in Calls, FetchReserves(c)
  PROVE  CopiesAreOld' /\ CallFollowsList' /\ CopiesRight'
<1> DEFINE found == call[c].found
<1>1. /\ UNCHANGED <<positions, opened, arrays, lost, strategyAcc, lbPairs, tx>>
      /\ call[c].pc = "reserves"
  BY DEF FetchReserves, chainVars
<1>2. /\ call' = [call EXCEPT ![c] = Idle]
      /\ DOMAIN cached' = DOMAIN cached \cup {found[i].key : i \in DOMAIN found}
      /\ \A i \in DOMAIN found : \E j \in DOMAIN found :
           found[j].key = found[i].key /\ cached'[found[i].key] = found[j].of
  BY FetchReservesDoes DEF SDKInv, KeysOfPositions
<1>3. call'[c].pc = "idle"
  BY <1>2 DEF SDKInv, KeysOfPositions, TypeOK, Idle
<1>4. Listed' = Listed /\ Open' = Open
  BY <1>1 DEF Listed, Open
<1>5. \A i \in DOMAIN found : found[i].key \in Listed /\ found[i].of \in Listed
  BY <1>1 DEF SDKInv, CallFollowsList
<1>6. CopiesAreOld'
  BY <1>1, <1>2, <1>4, <1>5 DEF SDKInv, CopiesAreOld
<1>7. CallFollowsList'
  BY <1>3 DEF OneCall, CallFollowsList
<1>8. ASSUME lost' = 0
      PROVE  CopiesRight'
  <2>1. /\ FoundIsComplete /\ CachedHaveArrays /\ QuotesOwn
        /\ \A k \in Listed \cap Open : \E i \in DOMAIN found : found[i].of = k
        /\ Listed \subseteq Open => \A i \in DOMAIN found : found[i].key = found[i].of
    BY <1>1, <1>8 DEF SDKInv, CopiesRight, FoundOwn
  <2>2. FoundOwn' /\ FoundIsComplete'
    BY <1>3 DEF OneCall, FoundOwn, FoundIsComplete
  <2>3. CachedHaveArrays'
    <3>1. \A i \in DOMAIN found : found[i].of \in arrays
      BY <1>1, <2>1 DEF FoundIsComplete
    <3>2. Listed \cap Open \subseteq arrays
      BY <2>1, <3>1
    <3> QED
      BY <1>1, <1>2, <1>4, <1>5, <2>1, <3>2 DEF CachedHaveArrays
  <2>4. CopiesOwn'
    <3>1. ASSUME Listed \subseteq Open, NEW k \in Listed
          PROVE  cached'[k] = k
      <4>1. PICK i \in DOMAIN found : found[i].of = k
        BY <2>1, <3>1
      <4>2. found[i].key = k
        BY <2>1, <3>1, <4>1
      <4>3. PICK j \in DOMAIN found : found[j].key = k /\ cached'[k] = found[j].of
        BY <1>2, <4>2
      <4> QED
        BY <2>1, <3>1, <4>3
    <3> QED
      BY <1>4, <3>1 DEF CopiesOwn
  <2>5. QuotesOwn'
    BY <1>1, <1>4, <2>1 DEF QuotesOwn, Own
  <2> QED
    BY <2>2, <2>3, <2>4, <2>5 DEF CopiesRight
<1>9. CopiesRight'
  BY <1>8 DEF CopiesRight
<1> QED
  BY <1>6, <1>7, <1>9

\* With no read lost a refresh() throws only over a listed position without
\* bin arrays, which was never stored.
LEMMA RefreshThrowsKeeps ==
  ASSUME OneCall, SDKInv, NEW c \in Calls, RefreshThrows(c)
  PROVE  CopiesAreOld' /\ CallFollowsList' /\ CopiesRight'
<1>1. /\ UNCHANGED <<positions, opened, arrays, strategyAcc, cached, lbPairs, tx>>
      /\ call' = [call EXCEPT ![c] = Idle]
  BY DEF RefreshThrows, chainVars
<1>2. call'[c].pc = "idle"
  BY <1>1 DEF SDKInv, KeysOfPositions, TypeOK, Idle
<1>3. Listed' = Listed /\ Open' = Open
  BY <1>1 DEF Listed, Open
<1>4. CopiesAreOld' /\ CallFollowsList'
  BY <1>1, <1>2, <1>3 DEF OneCall, SDKInv, CopiesAreOld, CallFollowsList
<1>5. ASSUME lost' = 0
      PROVE  CopiesRight'
  <2>1. lost = 0
    BY <1>5, LoseKeeps DEF RefreshThrows, SDKInv, KeysOfPositions, TypeOK
  <2>2. \/ call[c].pc = "pools" /\ \E i \in DOMAIN call[c].found : call[c].found[i].of \notin arrays
        \/ call[c].pc = "reserves" /\ ~call[c].whole
    BY <1>5, LoseKeeps DEF RefreshThrows, SDKInv, KeysOfPositions, TypeOK
  <2>3. FoundIsComplete /\ CachedHaveArrays /\ QuotesOwn
    BY <2>1 DEF SDKInv, CopiesRight
  <2>4. PICK i \in DOMAIN call[c].found :
          call[c].found[i].of \in Listed /\ call[c].found[i].of \notin arrays
    BY <2>2, <2>3 DEF SDKInv, FoundIsComplete, CallFollowsList
  <2>5. ~(Listed \subseteq Open /\ Listed \subseteq DOMAIN cached)
    BY <2>3, <2>4 DEF CachedHaveArrays
  <2>6. FoundOwn' /\ FoundIsComplete'
    BY <1>2 DEF OneCall, FoundOwn, FoundIsComplete
  <2>7. CopiesOwn'
    BY <1>1, <1>3, <2>5 DEF CopiesOwn
  <2>8. CachedHaveArrays' /\ QuotesOwn'
    BY <1>1, <1>3, <2>3 DEF CachedHaveArrays, QuotesOwn, Own
  <2> QED
    BY <2>6, <2>7, <2>8 DEF CopiesRight
<1>6. CopiesRight'
  BY <1>5 DEF CopiesRight
<1> QED
  BY <1>4, <1>6

LEMMA RefreshKeeps ==
  ASSUME OneCall, SDKInv, NEW c \in Calls, RefreshNext(c)
  PROVE  CopiesAreOld' /\ CallFollowsList' /\ CopiesRight'
BY FetchStrategyKeeps, FetchPositionsKeeps, FetchPoolsKeeps, FetchReservesKeeps,
   RefreshThrowsKeeps DEF RefreshNext

\* A deposit or withdrawal is built on the copies of the listed positions.
LEMMA BuildKeeps ==
  ASSUME SDKInv, BuildNext
  PROVE  /\ UNCHANGED <<chainVars, sdkVars>> /\ (lost' = 0 => lost = 0)
         /\ DOMAIN tx'.quotes \subseteq 1 .. opened
         /\ lost = 0 => QuotesOwn'
<1>1. /\ lost \in 0 .. MaxLost /\ MaxLost \in Nat
      /\ DOMAIN cached \subseteq 1 .. opened /\ Open \subseteq 1 .. opened
  BY BoundAssumption DEF SDKInv, KeysOfPositions, TypeOK, CopiesAreOld
<1>2. CASE BuildShares
  <2>1. /\ Listed \subseteq DOMAIN cached /\ Settled /\ UNCHANGED <<chainVars, sdkVars, lost>>
        /\ tx' = [kind |-> "shares", quotes |-> Restrict(cached, Listed), lbPair |-> NoPool]
    BY <1>2 DEF BuildShares, Build, Listed
  <2>2. /\ tx'.quotes = Restrict(cached, Listed)
        /\ DOMAIN tx'.quotes = Listed /\ \A k \in Listed : tx'.quotes[k] = cached[k]
    BY <2>1 DEF Restrict
  <2>3. ASSUME lost = 0
        PROVE  QuotesOwn'
    <3>1. CachedHaveArrays /\ CopiesOwn
      BY <2>3 DEF SDKInv, CopiesRight
    <3>2. arrays' = arrays /\ Open' = Open
      BY <2>1 DEF chainVars, Open
    <3>3. Listed \subseteq Open => Listed \subseteq arrays /\ \A k \in Listed : tx'.quotes[k] = k
      BY <2>1, <2>2, <3>1 DEF CachedHaveArrays, CopiesOwn
    <3> QED
      BY <2>2, <3>2, <3>3 DEF QuotesOwn, Own
  <2> QED
    BY <1>1, <2>1, <2>2, <2>3
<1>3. ASSUME NEW k \in Positions, NEW kind \in {"remove", "close"}, BuildOnPosition(kind, k)
      PROVE  /\ UNCHANGED <<chainVars, sdkVars>> /\ (lost' = 0 => lost = 0)
             /\ DOMAIN tx'.quotes \subseteq 1 .. opened /\ tx'.kind # "shares"
  <2>1. /\ k \in DOMAIN cached /\ UNCHANGED <<chainVars, sdkVars, lost>>
        /\ tx' = [kind |-> kind, quotes |-> Restrict(cached, {k}), lbPair |-> lbPairs[PoolOf[cached[k]]]]
    BY <1>3 DEF BuildOnPosition, Build
  <2>2. tx'.kind = kind /\ tx'.quotes = Restrict(cached, {k})
    BY <2>1
  <2>3. DOMAIN Restrict(cached, {k}) \subseteq {k}
    BY DEF Restrict
  <2> QED
    BY <1>1, <2>1, <2>2, <2>3
<1>4. ASSUME NEW k \in Positions, BuildAdd(k)
      PROVE  /\ UNCHANGED <<chainVars, sdkVars>> /\ (lost' = 0 => lost = 0)
             /\ DOMAIN tx'.quotes \subseteq 1 .. opened /\ tx'.kind # "shares"
  <2>1. /\ k \in Open /\ UNCHANGED <<chainVars, sdkVars>> /\ (UNCHANGED lost \/ Lose(1))
        /\ \E kind \in {"add", "create"} :
             tx' = [kind |-> kind, quotes |-> [x \in {k} |-> k], lbPair |-> lbPairs[PoolOf[k]]]
    BY <1>4 DEF BuildAdd, Build
  <2>2. tx'.kind # "shares" /\ DOMAIN tx'.quotes = {k}
    BY <2>1
  <2> QED
    BY <1>1, <2>1, <2>2 DEF Lose
<1>5. tx'.kind # "shares" => QuotesOwn'
  BY DEF QuotesOwn
<1> QED
  BY <1>2, <1>3, <1>4, <1>5 DEF BuildNext

LEMMA SDKInvKeeps ==
  ASSUME OneCall, SDKInv, [Next]_vars
  PROVE  SDKInv'
<1>1. KeysOfPositions'
  BY KeysOfPositionsKeep DEF SDKInv
<1>2. /\ DOMAIN tx.quotes \cap Open' \subseteq Open /\ DOMAIN tx.quotes \subseteq 1 .. opened'
  BY NoReopening DEF SDKInv, CopiesAreOld
<1>3. ASSUME UNCHANGED sdkVars, arrays \subseteq arrays', lost' = 0 => lost = 0,
             DOMAIN tx'.quotes \subseteq 1 .. opened', lost = 0 => QuotesOwn'
      PROVE  SDKInv'
  <2>1. /\ Listed' \subseteq 1 .. opened' /\ DOMAIN cached' \subseteq 1 .. opened'
        /\ CallFollowsList'
        /\ lost = 0 => FoundOwn' /\ FoundIsComplete' /\ CachedHaveArrays' /\ CopiesOwn'
    BY <1>3, OthersKeepCopies
  <2>2. CopiesAreOld'
    BY <1>3, <2>1 DEF CopiesAreOld
  <2>3. CopiesRight'
    BY <1>3, <2>1 DEF CopiesRight
  <2> QED
    BY <1>1, <2>1, <2>2, <2>3 DEF SDKInv
<1>4. ASSUME NEW c \in Calls, RefreshNext(c)
      PROVE  SDKInv'
  BY <1>1, <1>4, RefreshKeeps DEF SDKInv
<1>5. CASE BuildNext
  BY <1>3, <1>5, BuildKeeps DEF chainVars
<1>6. CASE LandNext
  <2>1. /\ UNCHANGED sdkVars /\ arrays \subseteq arrays' /\ lost' = lost /\ tx' = NoTx
    BY <1>6 DEF LandNext, LandShares, LandOnPosition, Refuse, Expire, Finish
  <2>2. DOMAIN tx'.quotes = {} /\ tx'.kind = "none"
    BY <2>1, NoTxType
  <2> QED
    BY <1>3, <2>1, <2>2 DEF QuotesOwn
<1>7. ASSUME UNCHANGED <<sdkVars, tx, lost>>, arrays \subseteq arrays'
      PROVE  SDKInv'
  <2>1. lost = 0 => QuotesOwn
    BY DEF SDKInv, CopiesRight
  <2>2. lost = 0 => QuotesOwn'
    BY <1>2, <1>7, <2>1 DEF QuotesOwn, Own
  <2> QED
    BY <1>2, <1>3, <1>7, <2>2
<1>8. CASE ElsewhereNext
  BY <1>7, <1>8 DEF ElsewhereNext, OpenElsewhere, CloseElsewhere, CreateArraysElsewhere, Elsewhere
<1>9. CASE UNCHANGED vars
  BY <1>7, <1>9 DEF vars, chainVars
<1> QED
  BY <1>4, <1>5, <1>6, <1>8, <1>9 DEF Next

\* The copies an object keeps are right as long as no account read was lost.
LEMMA SDKInvHolds == OneCall => (Spec => []SDKInv)
<1> SUFFICES ASSUME OneCall PROVE Spec => []SDKInv
  OBVIOUS
<1>1. SDKInv /\ [Next]_vars => SDKInv'
  BY SDKInvKeeps
<1> QED
  BY <1>1, SDKInvInit, PTL DEF Spec

\* A deposit or withdrawal that is executed was priced on quotes that were each
\* computed from the bin arrays of the position they are for, whatever was
\* opened and closed since, if no account read was lost.
THEOREM SharesArePricedOnOwn == OneCall => (Spec => QuotesOwnPositions)
<1> SUFFICES ASSUME OneCall PROVE Spec => QuotesOwnPositions
  OBVIOUS
<1>1. SDKInv => [LandShares /\ lost = 0 => Own]_vars
  <2> SUFFICES ASSUME SDKInv, LandShares, lost = 0 PROVE Own
    OBVIOUS
  <2>1. QuotesOwn
    BY DEF SDKInv, CopiesRight
  <2> QED
    BY <2>1 DEF LandShares, CanLand, QuotesOwn
<1>2. Spec => []SDKInv
  BY SDKInvHolds
<1> QED
  BY <1>1, <1>2, PTL DEF QuotesOwnPositions

\* The program refuses a deposit or withdrawal of a client whose reads were all
\* answered only if the open positions are no longer the ones it quotes.
THEOREM RefusalsAreOutdated == OneCall => (Spec => RefusedOnlyIfOutdated)
<1> SUFFICES ASSUME OneCall PROVE Spec => RefusedOnlyIfOutdated
  OBVIOUS
<1>1. SDKInv => [Refuse /\ tx.kind = "shares" /\ lost = 0 => DOMAIN tx.quotes # Open]_vars
  <2> SUFFICES ASSUME SDKInv, Refuse, tx.kind = "shares", lost = 0, DOMAIN tx.quotes = Open
               PROVE  FALSE
    OBVIOUS
  <2>1. Own /\ Open \subseteq arrays
    BY DEF SDKInv, CopiesRight, QuotesOwn
  <2>2. Range(tx.quotes) \subseteq arrays
    BY <2>1 DEF Own, Range
  <2>3. \A others \in SUBSET Open : CanLand(others)
    BY <2>2 DEF CanLand
  <2> QED
    BY <2>1, <2>3 DEF Refuse
<1>2. Spec => []SDKInv
  BY SDKInvHolds
<1> QED
  BY <1>1, <1>2, PTL DEF RefusedOnlyIfOutdated

\* What a refresh() stores is exact if the list has not changed under it.
THEOREM RefreshesAreExact == OneCall => (Spec => RefreshIsExact)
<1> SUFFICES ASSUME OneCall PROVE Spec => RefreshIsExact
  OBVIOUS
<1>1. SDKInv =>
        [\A c \in Calls : FetchReserves(c) /\ lost = 0 /\ strategyAcc = positions
           => \A k \in Open : /\ k \in DOMAIN cached' /\ cached'[k] = k
                              /\ PoolOf[k] \in DOMAIN lbPairs]_vars
  <2> SUFFICES ASSUME SDKInv, NEW c \in Calls, FetchReserves(c), lost = 0,
                      strategyAcc = positions, NEW k \in Open
               PROVE  /\ k \in DOMAIN cached' /\ cached'[k] = k
                      /\ PoolOf[k] \in DOMAIN lbPairs
    OBVIOUS
  <2>1. Listed = Open /\ call[c].pc = "reserves"
    BY DEF Listed, Open, FetchReserves
  <2>2. FoundOwn /\ FoundIsComplete
    BY DEF SDKInv, CopiesRight
  <2>3. PICK i \in DOMAIN call[c].found : call[c].found[i].of = k
    BY <2>1, <2>2 DEF FoundOwn
  <2>4. \A j \in DOMAIN call[c].found : call[c].found[j].key = call[c].found[j].of
    BY <2>1, <2>2 DEF FoundOwn
  <2>5. /\ DOMAIN cached' = DOMAIN cached \cup
                             {call[c].found[m].key : m \in DOMAIN call[c].found}
        /\ \A m \in DOMAIN call[c].found : \E j \in DOMAIN call[c].found :
             /\ call[c].found[j].key = call[c].found[m].key
             /\ cached'[call[c].found[m].key] = call[c].found[j].of
    BY FetchReservesDoes DEF SDKInv, KeysOfPositions
  <2>6. call[c].found[i].key = k
    BY <2>3, <2>4
  <2>7. PoolOf[k] \in DOMAIN lbPairs
    BY <2>1, <2>2, <2>3 DEF FoundIsComplete
  <2> QED
    BY <2>4, <2>5, <2>6, <2>7
<1>2. Spec => []SDKInv
  BY SDKInvHolds
<1> QED
  BY <1>1, <1>2, PTL DEF RefreshIsExact
=============================================================================
