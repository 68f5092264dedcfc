---------------------------- MODULE Data_proofs ----------------------------
(***************************************************************************)
(* What the proofs about the components need of numbers, of functions      *)
(* defined by recursion and of sums.                                       *)
(***************************************************************************)
EXTENDS ShareSums, FiniteSetTheorems, WellFoundedInduction, TLAPS

\* A set of natural numbers that has a member has a least one: what holds of a
\* number whenever it holds of those below it holds of every number.
LEMMA LeastNat ==
  ASSUME NEW T, T \subseteq Nat, T # {}
  PROVE  \E x \in T : \A y \in T : x <= y
<1> DEFINE R == {ss \in Nat \X Nat : ss[1] < ss[2]}
<1>1. R = OpToRel(<, Nat)
  BY DEF OpToRel
<1>2. IsWellFoundedOn(R, Nat)
  BY <1>1, NatLessThanWellFounded, Zenon
<1>3. \A x, y \in Nat : y < x => <<y, x>> \in R
  OBVIOUS
<1> HIDE DEF R
<1>4. PICK x \in T : \A y \in T : ~(<<y, x>> \in R)
  BY <1>2, WFMin
<1>5. \A y \in T : x <= y
  <2> TAKE y \in T
  <2>1. x \in Nat /\ y \in Nat /\ ~(<<y, x>> \in R)
    BY <1>4
  <2>2. ~(y < x)
    BY <2>1, <1>3
  <2> QED
    BY <2>1, <2>2
<1> QED
  BY <1>5

\* Induction: a set of counterexamples, none of which is 0 or the first one
\* after a number that is none, is empty.
LEMMA NoCounterexample ==
  ASSUME NEW n \in Nat, NEW Bad, Bad \subseteq 0 .. n, 0 \notin Bad,
         \A m \in 1 .. n : m - 1 \notin Bad => m \notin Bad
  PROVE  Bad = {}
<1>1. ASSUME Bad # {} PROVE FALSE
  <2>1. Bad \subseteq Nat
    OBVIOUS
  <2>2. PICK m \in Bad : \A k \in Bad : m <= k
    BY <1>1, <2>1, LeastNat
  <2>3. m \in 1 .. n
    OBVIOUS
  <2>4. m - 1 \notin Bad
    BY <2>2, <2>3
  <2> QED
    BY <2>3, <2>4
<1> QED
  BY <1>1

\* f solves a recursive definition on 0 .. n with values in V.
Solves(f, V, base, n, next) ==
  /\ f \in [0 .. n -> V]
  /\ f[0] = base
  /\ \A i \in 1 .. n : f[i] = next[i][f[i - 1]]

\* The function that a recursive definition describes exists, so CHOOSE finds one.
LEMMA RecursionHasSolution ==
  ASSUME NEW V, NEW base \in V, NEW n \in Nat, NEW next \in [1 .. n -> [V -> V]]
  PROVE  \E f : Solves(f, V, base, n, next)
<1> DEFINE Unsolved == {m \in 0 .. n : \A f : ~Solves(f, V, base, m, next)}
<1>1. 0 \notin Unsolved
  <2>1. Solves([i \in 0 .. 0 |-> base], V, base, 0, next)
    BY DEF Solves
  <2> QED
    BY <2>1
<1>2. ASSUME NEW m \in 1 .. n, m - 1 \notin Unsolved
      PROVE  m \notin Unsolved
  <2>1. m - 1 \in 0 .. n
    OBVIOUS
  <2>2. PICK f : Solves(f, V, base, m - 1, next)
    BY <1>2, <2>1
  <2> DEFINE g == [i \in 0 .. m |-> IF i = m THEN next[m][f[m - 1]] ELSE f[i]]
  <2>3. f[m - 1] \in V
    BY <2>2 DEF Solves
  <2>4. next[m][f[m - 1]] \in V
    BY <2>3
  <2>5. g \in [0 .. m -> V] /\ g[0] = base
    BY <2>2, <2>4 DEF Solves
  <2>6. \A i \in 1 .. m : g[i] = next[i][g[i - 1]]
    BY <2>2 DEF Solves
  <2>7. Solves(g, V, base, m, next)
    BY <2>5, <2>6 DEF Solves
  <2> HIDE DEF g
  <2> QED
    BY <2>7
<1>3. Unsolved \subseteq 0 .. n
  OBVIOUS
<1>4. Unsolved = {}
  <2> HIDE DEF Unsolved
  <2> QED
    BY <1>1, <1>2, <1>3, NoCounterexample
<1>5. n \in 0 .. n
  OBVIOUS
<1> QED
  BY <1>4, <1>5

-----------------------------------------------------------------------------
(***************************************************************************)
(* SumOver: the sum of the empty ledger, of a ledger in which one entry    *)
(* changes, and that a sum bounds its entries.                             *)
(***************************************************************************)
\* The units of one entry.
Column(u, n) == {u} \X (1 .. n)

\* The units of every other entry.
Rest(f, u) == {p \in Units(f) : p[1] # u}

\* One entry n contributes n units.
LEMMA ColumnCardinality ==
  ASSUME NEW u, NEW n \in Nat
  PROVE  IsFiniteSet(Column(u, n)) /\ Cardinality(Column(u, n)) = n
<1>1. IsFiniteSet(1 .. n) /\ Cardinality(1 .. n) = n
  BY FS_Interval
<1>2. IsFiniteSet({u}) /\ Cardinality({u}) = 1
  BY FS_Singleton
<1>3. Cardinality({u} \X (1 .. n)) = 1 * n /\ IsFiniteSet({u} \X (1 .. n))
  BY <1>1, <1>2, FS_Product
<1> QED
  BY <1>3 DEF Column

\* A ledger with finitely many entries has finitely many units.
LEMMA UnitsFinite ==
  ASSUME NEW S, IsFiniteSet(S), NEW f \in [S -> Nat]
  PROVE  IsFiniteSet(Units(f))
<1> DEFINE columns == {{u} \X (1 .. f[u]) : u \in S}
           column == [u \in S |-> {u} \X (1 .. f[u])]
<1>1. IsFiniteSet(columns)
  <2>1. column \in Surjection(S, columns)
    BY DEF Surjection
  <2> QED
    BY <2>1, FS_Surjection
<1>2. \A T \in columns : IsFiniteSet(T)
  <2> SUFFICES ASSUME NEW u \in S
               PROVE  IsFiniteSet({u} \X (1 .. f[u]))
    OBVIOUS
  <2>1. f[u] \in Nat
    OBVIOUS
  <2> QED
    BY <2>1, ColumnCardinality DEF Column
<1>3. IsFiniteSet(UNION columns)
  BY <1>1, <1>2, FS_UNION
<1> QED
  BY <1>3 DEF Units

\* A sum of natural numbers is a natural number.
LEMMA SumIsNat ==
  ASSUME NEW S, IsFiniteSet(S), NEW f \in [S -> Nat]
  PROVE  SumOver(f) \in Nat
BY UnitsFinite, FS_CardinalityType DEF SumOver

\* The units of f are those of the entry u and those of the rest.
LEMMA SumSplit ==
  ASSUME NEW S, IsFiniteSet(S), NEW f \in [S -> Nat], NEW u \in S
  PROVE  /\ IsFiniteSet(Rest(f, u))
         /\ SumOver(f) = Cardinality(Rest(f, u)) + f[u]
<1>1. f[u] \in Nat
  OBVIOUS
<1>2. Units(f) = Rest(f, u) \cup Column(u, f[u])
  <2>1. Column(u, f[u]) \subseteq Units(f)
    BY DEF Column, Units
  <2>2. ASSUME NEW p \in Units(f), p[1] = u
        PROVE  p \in Column(u, f[u])
    <3>1. PICK v \in S : p \in {v} \X (1 .. f[v])
      BY DEF Units
    <3>2. v = u
      BY <3>1, <2>2
    <3> QED
      BY <3>1, <3>2 DEF Column
  <2> QED
    BY <2>1, <2>2 DEF Rest
<1>3. Rest(f, u) \cap Column(u, f[u]) = {}
  BY DEF Rest, Column
<1>4. IsFiniteSet(Rest(f, u))
  <2>1. Rest(f, u) \subseteq Units(f)
    BY DEF Rest
  <2> QED
    BY <2>1, UnitsFinite, FS_Subset
<1>5. IsFiniteSet(Column(u, f[u])) /\ Cardinality(Column(u, f[u])) = f[u]
  BY <1>1, ColumnCardinality
<1>6. Cardinality(Units(f)) = Cardinality(Rest(f, u)) + f[u] - Cardinality({})
  BY <1>2, <1>3, <1>4, <1>5, FS_Union
<1>7. Cardinality(Rest(f, u)) \in Nat /\ Cardinality({}) = 0
  BY <1>4, FS_CardinalityType, FS_EmptySet
<1> QED
  BY <1>1, <1>4, <1>6, <1>7 DEF SumOver

\* Changing one entry changes the sum by the difference.
LEMMA SumUpdate ==
  ASSUME NEW S, IsFiniteSet(S),
         NEW f \in [S -> Nat], NEW g \in [S -> Nat], NEW u \in S,
         \A v \in S \ {u} : g[v] = f[v]
  PROVE  SumOver(g) = SumOver(f) - f[u] + g[u]
<1>1. Rest(g, u) = Rest(f, u)
  <2>1. ASSUME NEW h \in [S -> Nat]
        PROVE  Rest(h, u) = UNION {{v} \X (1 .. h[v]) : v \in S \ {u}}
    BY DEF Rest, Units
  <2> QED
    BY <2>1
<1>2. SumOver(f) = Cardinality(Rest(f, u)) + f[u]
  BY SumSplit
<1>3. SumOver(g) = Cardinality(Rest(f, u)) + g[u]
  BY <1>1, SumSplit
<1>4. Cardinality(Rest(f, u)) \in Nat /\ f[u] \in Nat /\ g[u] \in Nat
  BY SumSplit, FS_CardinalityType
<1> QED
  BY <1>2, <1>3, <1>4

\* No entry exceeds the sum.
LEMMA EntryBelowSum ==
  ASSUME NEW S, IsFiniteSet(S), NEW f \in [S -> Nat], NEW u \in S
  PROVE  f[u] <= SumOver(f)
<1>1. Cardinality(Rest(f, u)) \in Nat /\ f[u] \in Nat
  BY SumSplit, FS_CardinalityType
<1> QED
  BY <1>1, SumSplit

\* The sum of an empty ledger is zero.
LEMMA SumOfZeros ==
  ASSUME NEW S
  PROVE  SumOver([u \in S |-> 0]) = 0
<1>1. Units([u \in S |-> 0]) = {}
  BY DEF Units
<1> QED
  BY <1>1, FS_EmptySet DEF SumOver

-----------------------------------------------------------------------------
(***************************************************************************)
(* The sum of a function over some of the elements of its domain, and that *)
(* a fold over a set, in whatever order, adds it up.                       *)
(***************************************************************************)
Total(f, S) == SumOver([u \in S |-> f[u]])

LEMMA TotalIsNat ==
  ASSUME NEW D, NEW f \in [D -> Nat], NEW S, S \subseteq D, IsFiniteSet(S)
  PROVE  Total(f, S) \in Nat
<1>1. [u \in S |-> f[u]] \in [S -> Nat]
  OBVIOUS
<1> QED
  BY <1>1, SumIsNat DEF Total

LEMMA TotalOfNone ==
  ASSUME NEW f
  PROVE  Total(f, {}) = 0
<1>1. Units([u \in {} |-> f[u]]) = {}
  BY DEF Units
<1> QED
  BY <1>1, FS_EmptySet DEF Total, SumOver

LEMMA TotalSplit ==
  ASSUME NEW D, NEW f \in [D -> Nat], NEW S, S \subseteq D, IsFiniteSet(S), NEW x \in S
  PROVE  Total(f, S) = Total(f, S \ {x}) + f[x]
<1> DEFINE g == [u \in S |-> f[u]]
           h == [u \in S \ {x} |-> f[u]]
<1>1. g \in [S -> Nat] /\ g[x] = f[x]
  OBVIOUS
<1>2. Rest(g, x) = Units(h)
  <2>1. Rest(g, x) = UNION {{v} \X (1 .. g[v]) : v \in S \ {x}}
    BY DEF Rest, Units
  <2>2. \A v \in S \ {x} : g[v] = h[v]
    OBVIOUS
  <2>3. {{v} \X (1 .. g[v]) : v \in S \ {x}} = {{v} \X (1 .. h[v]) : v \in S \ {x}}
    BY <2>2
  <2> QED
    BY <2>1, <2>3 DEF Units
<1> HIDE DEF g, h
<1>3. SumOver(g) = Cardinality(Rest(g, x)) + g[x]
  BY <1>1, SumSplit
<1> QED
  BY <1>1, <1>2, <1>3 DEF Total, SumOver, g, h

\* Elements that contribute nothing do not matter.
LEMMA TotalOfSupport ==
  ASSUME NEW D, NEW f \in [D -> Nat], NEW S, S \subseteq D, NEW T, T \subseteq D,
         \A u \in (S \ T) \cup (T \ S) : f[u] = 0
  PROVE  Total(f, S) = Total(f, T)
<1>1. ASSUME NEW A, NEW B, A \subseteq D, \A u \in A \ B : f[u] = 0
      PROVE  Units([u \in A |-> f[u]]) \subseteq Units([u \in B |-> f[u]])
  <2> SUFFICES ASSUME NEW u \in A, NEW p \in {u} \X (1 .. f[u])
               PROVE  p \in Units([v \in B |-> f[v]])
    BY DEF Units
  <2>1. f[u] # 0
    OBVIOUS
  <2>2. u \in B
    BY <1>1, <2>1
  <2> QED
    BY <2>2 DEF Units
<1>2. Units([u \in S |-> f[u]]) = Units([u \in T |-> f[u]])
  <2>1. Units([u \in S |-> f[u]]) \subseteq Units([u \in T |-> f[u]])
    BY <1>1
  <2>2. Units([u \in T |-> f[u]]) \subseteq Units([u \in S |-> f[u]])
    BY <1>1
  <2> QED
    BY <2>1, <2>2
<1> QED
  BY <1>2 DEF Total, SumOver

LEMMA TotalGrows ==
  ASSUME NEW D, NEW f \in [D -> Nat], NEW T, T \subseteq D, IsFiniteSet(T),
         NEW S, S \subseteq T
  PROVE  Total(f, S) <= Total(f, T)
<1> DEFINE all == Units([u \in T |-> f[u]])
           some == Units([u \in S |-> f[u]])
<1>1. some \subseteq all
  BY DEF Units
<1>2. [u \in T |-> f[u]] \in [T -> Nat]
  OBVIOUS
<1>3. IsFiniteSet(all)
  BY <1>2, UnitsFinite
<1> HIDE DEF all, some
<1>4. Cardinality(some) <= Cardinality(all)
  BY <1>1, <1>3, FS_Subset
<1> QED
  BY <1>4 DEF Total, SumOver, all, some

\* iter adds up f over sets of elements, which it takes off in the order of pick.
AddsUp(iter, f, S, pick) ==
  iter = [s \in SUBSET S |-> IF s = {} THEN 0 ELSE f[pick[s]] + iter[s \ {pick[s]}]]

LEMMA FoldExists ==
  ASSUME NEW D, NEW f \in [D -> Nat], NEW S, S \subseteq D, IsFiniteSet(S), NEW pick,
         \A s \in SUBSET S : s # {} => pick[s] \in s
  PROVE  AddsUp([s \in SUBSET S |-> Total(f, s)], f, S, pick)
<1> DEFINE g == [s \in SUBSET S |-> Total(f, s)]
<1> SUFFICES ASSUME NEW s \in SUBSET S
             PROVE  Total(f, s) = IF s = {} THEN 0 ELSE f[pick[s]] + g[s \ {pick[s]}]
  BY DEF AddsUp
<1>1. CASE s = {}
  BY <1>1, TotalOfNone
<1>2. CASE s # {}
  <2>1. pick[s] \in s /\ s \subseteq D /\ IsFiniteSet(s)
    BY <1>2, FS_Subset
  <2>2. g[s \ {pick[s]}] = Total(f, s \ {pick[s]})
    OBVIOUS
  <2>3. Total(f, s) = Total(f, s \ {pick[s]}) + f[pick[s]]
    BY <2>1, TotalSplit
  <2>4. Total(f, s \ {pick[s]}) \in Nat /\ f[pick[s]] \in Nat
    BY <2>1, TotalIsNat, FS_Subset
  <2> QED
    BY <1>2, <2>2, <2>3, <2>4
<1> QED
  BY <1>1, <1>2

LEMMA FoldIsTotal ==
  ASSUME NEW D, NEW f \in [D -> Nat], NEW S, S \subseteq D, IsFiniteSet(S), NEW pick,
         \A s \in SUBSET S : s # {} => pick[s] \in s,
         NEW iter, AddsUp(iter, f, S, pick)
  PROVE  iter[S] = Total(f, S)
<1> DEFINE Bad == {s \in SUBSET S : iter[s] # Total(f, s)}
<1>1. \A s \in SUBSET S : iter[s] = IF s = {} THEN 0 ELSE f[pick[s]] + iter[s \ {pick[s]}]
  BY DEF AddsUp
<1>2. ASSUME Bad # {} PROVE FALSE
  <2> DEFINE sizes == {Cardinality(s) : s \in Bad}
  <2>1. \A s \in SUBSET S : IsFiniteSet(s) /\ Cardinality(s) \in Nat
    BY FS_Subset, FS_CardinalityType
  <2>2. PICK n \in sizes : \A m \in sizes : n <= m
    <3>1. sizes \subseteq Nat /\ sizes # {}
      BY <1>2, <2>1
    <3> HIDE DEF sizes
    <3> QED
      BY <3>1, LeastNat
  <2>3. PICK s \in Bad : \A t \in Bad : Cardinality(s) <= Cardinality(t)
    BY <2>2
  <2>4. s \in SUBSET S /\ iter[s] # Total(f, s) /\ s # {}
    BY <2>3, <1>1, TotalOfNone
  <2> DEFINE x == pick[s]
             rest == s \ {pick[s]}
  <2>5. x \in s /\ rest \in SUBSET S /\ x \in D
    BY <2>4
  <2>6. Cardinality(rest) = Cardinality(s) - 1
    <3>1. IsFiniteSet(s)
      BY <2>1, <2>4
    <3> HIDE DEF Bad, x
    <3> QED
      BY <3>1, <2>5, FS_RemoveElement DEF x
  <2>7. rest \notin Bad
    <3>1. Cardinality(s) \in Nat
      BY <2>1, <2>4
    <3>2. ~(Cardinality(s) <= Cardinality(rest))
      BY <3>1, <2>6
    <3> HIDE DEF rest, Bad
    <3> QED
      BY <3>2, <2>3
  <2>8. iter[rest] = Total(f, rest)
    BY <2>5, <2>7
  <2>9. iter[s] = f[x] + iter[rest]
    BY <2>4, <1>1
  <2>10. Total(f, s) = Total(f, rest) + f[x]
    BY <2>1, <2>4, <2>5, TotalSplit
  <2>11. Total(f, rest) \in Nat /\ f[x] \in Nat
    BY <2>1, <2>5, TotalIsNat
  <2> QED
    BY <2>4, <2>8, <2>9, <2>10, <2>11
<1>3. S \notin Bad
  BY <1>2
<1> QED
  BY <1>3

-----------------------------------------------------------------------------
(***************************************************************************)
(* Totals of sums, of multiples and of quotients.                          *)
(***************************************************************************)
\* Induction on a finite set: what holds of the empty set, and of a set if of
\* the set without one of its elements, holds of all.
LEMMA SetInduction ==
  ASSUME NEW S, IsFiniteSet(S), NEW Good, {} \in Good,
         \A T \in SUBSET S : \A x \in T : T \ {x} \in Good => T \in Good
  PROVE  S \in Good
<1> DEFINE Bad == {T \in SUBSET S : T \notin Good}
           sizes == {Cardinality(T) : T \in Bad}
<1>1. \A T \in SUBSET S : IsFiniteSet(T) /\ Cardinality(T) \in Nat
  BY FS_Subset, FS_CardinalityType
<1>2. ASSUME Bad # {} PROVE FALSE
  <2>1. PICK n \in sizes : \A m \in sizes : n <= m
    <3>1. sizes \subseteq Nat /\ sizes # {}
      BY <1>1, <1>2
    <3> HIDE DEF sizes
    <3> QED
      BY <3>1, LeastNat
  <2>2. PICK T \in Bad : \A U \in Bad : Cardinality(T) <= Cardinality(U)
    BY <2>1
  <2>3. T \in SUBSET S /\ T # {} /\ T \notin Good
    BY <2>2
  <2>4. PICK x : x \in T
    BY <2>3
  <2>5. T \ {x} \in Bad
    BY <2>3, <2>4
  <2>6. Cardinality(T \ {x}) = Cardinality(T) - 1
    <3>1. IsFiniteSet(T)
      BY <1>1, <2>3
    <3> QED
      BY <3>1, <2>4, FS_RemoveElement
  <2>7. Cardinality(T) \in Nat /\ Cardinality(T) <= Cardinality(T \ {x})
    BY <1>1, <2>2, <2>3, <2>5
  <2> QED
    BY <2>6, <2>7
<1> QED
  BY <1>2

LEMMA TotalOfSums ==
  ASSUME NEW D, NEW f \in [D -> Nat], NEW g \in [D -> Nat], NEW h \in [D -> Nat],
         NEW S, S \subseteq D, IsFiniteSet(S), \A u \in S : h[u] = f[u] + g[u]
  PROVE  Total(h, S) = Total(f, S) + Total(g, S)
<1> DEFINE Good == {T \in SUBSET S : Total(h, T) = Total(f, T) + Total(g, T)}
<1>1. {} \in Good
  BY TotalOfNone
<1>2. ASSUME NEW T \in SUBSET S, NEW x \in T, T \ {x} \in Good PROVE T \in Good
  <2>1. T \subseteq D /\ IsFiniteSet(T) /\ IsFiniteSet(T \ {x}) /\ T \ {x} \subseteq D
    BY FS_Subset
  <2>2. /\ Total(f, T) = Total(f, T \ {x}) + f[x] /\ Total(g, T) = Total(g, T \ {x}) + g[x]
        /\ Total(h, T) = Total(h, T \ {x}) + h[x]
    BY <2>1, TotalSplit
  <2>3. Total(f, T \ {x}) \in Nat /\ Total(g, T \ {x}) \in Nat
    BY <2>1, TotalIsNat
  <2>4. h[x] = f[x] + g[x] /\ f[x] \in Nat /\ g[x] \in Nat
    BY <2>1
  <2>5. Total(h, T \ {x}) = Total(f, T \ {x}) + Total(g, T \ {x})
    BY <1>2
  <2> QED
    BY <2>2, <2>3, <2>4, <2>5
<1> HIDE DEF Good
<1>3. S \in Good
  BY <1>1, <1>2, SetInduction
<1> QED
  BY <1>3 DEF Good

LEMMA TotalOfMultiples ==
  ASSUME NEW D, NEW f \in [D -> Nat], NEW h \in [D -> Nat], NEW c \in Nat,
         NEW S, S \subseteq D, IsFiniteSet(S), \A u \in S : h[u] = c * f[u]
  PROVE  Total(h, S) = c * Total(f, S)
<1> DEFINE Good == {T \in SUBSET S : Total(h, T) = c * Total(f, T)}
<1>1. {} \in Good
  BY TotalOfNone
<1>2. ASSUME NEW T \in SUBSET S, NEW x \in T, T \ {x} \in Good PROVE T \in Good
  <2>1. T \subseteq D /\ IsFiniteSet(T) /\ IsFiniteSet(T \ {x}) /\ T \ {x} \subseteq D
    BY FS_Subset
  <2>2. /\ Total(f, T) = Total(f, T \ {x}) + f[x]
        /\ Total(h, T) = Total(h, T \ {x}) + h[x]
    BY <2>1, TotalSplit
  <2>3. Total(f, T \ {x}) \in Nat
    BY <2>1, TotalIsNat
  <2>4. h[x] = c * f[x] /\ f[x] \in Nat
    BY <2>1
  <2>5. Total(h, T \ {x}) = c * Total(f, T \ {x})
    BY <1>2
  <2>6. \A m, n \in Nat : c * (m + n) = c * m + c * n
    OBVIOUS
  <2> QED
    BY <2>2, <2>3, <2>4, <2>5, <2>6
<1> HIDE DEF Good
<1>3. S \in Good
  BY <1>1, <1>2, SetInduction
<1> QED
  BY <1>3 DEF Good

\* n each.
LEMMA TotalOfEqual ==
  ASSUME NEW D, NEW f \in [D -> Nat], NEW n \in Nat,
         NEW S, S \subseteq D, IsFiniteSet(S), \A u \in S : f[u] = n
  PROVE  Total(f, S) = n * Cardinality(S) /\ Cardinality(S) \in Nat
<1> DEFINE Good == {T \in SUBSET S : Total(f, T) = n * Cardinality(T)}
<1>1. {} \in Good
  BY TotalOfNone, FS_EmptySet
<1>2. ASSUME NEW T \in SUBSET S, NEW x \in T, T \ {x} \in Good PROVE T \in Good
  <2>1. T \subseteq D /\ IsFiniteSet(T)
    BY FS_Subset
  <2>2. Total(f, T) = Total(f, T \ {x}) + f[x]
    BY <2>1, TotalSplit
  <2>3. Cardinality(T) \in Nat /\ Cardinality(T \ {x}) = Cardinality(T) - 1
    BY <2>1, FS_CardinalityType, FS_RemoveElement
  <2>4. f[x] = n /\ Total(f, T \ {x}) = n * Cardinality(T \ {x})
    BY <1>2
  <2>5. \A m \in Nat : n * (m - 1) = n * m - n
    OBVIOUS
  <2> QED
    BY <2>2, <2>3, <2>4, <2>5
<1> HIDE DEF Good
<1>3. S \in Good
  BY <1>1, <1>2, SetInduction
<1> QED
  BY <1>3, FS_CardinalityType DEF Good

\* A larger function has the larger total.
LEMMA TotalsInOrder ==
  ASSUME NEW D, NEW f \in [D -> Nat], NEW g \in [D -> Nat],
         NEW S, S \subseteq D, IsFiniteSet(S), \A u \in S : f[u] <= g[u]
  PROVE  Total(f, S) <= Total(g, S)
<1> DEFINE Good == {T \in SUBSET S : Total(f, T) <= Total(g, T)}
<1>1. {} \in Good
  BY TotalOfNone
<1>2. ASSUME NEW T \in SUBSET S, NEW x \in T, T \ {x} \in Good PROVE T \in Good
  <2>1. T \subseteq D /\ IsFiniteSet(T) /\ IsFiniteSet(T \ {x}) /\ T \ {x} \subseteq D
    BY FS_Subset
  <2>2. /\ Total(f, T) = Total(f, T \ {x}) + f[x]
        /\ Total(g, T) = Total(g, T \ {x}) + g[x]
    BY <2>1, TotalSplit
  <2>3. Total(f, T \ {x}) \in Nat /\ Total(g, T \ {x}) \in Nat
    BY <2>1, TotalIsNat
  <2>4. f[x] <= g[x] /\ f[x] \in Nat /\ g[x] \in Nat
    BY <2>1
  <2>5. Total(f, T \ {x}) <= Total(g, T \ {x})
    BY <1>2
  <2> QED
    BY <2>2, <2>3, <2>4, <2>5
<1> HIDE DEF Good
<1>3. S \in Good
  BY <1>1, <1>2, SetInduction
<1> QED
  BY <1>3 DEF Good

\* Of two functions that agree on a set.
LEMMA TotalOfSame ==
  ASSUME NEW f, NEW g, NEW S, \A u \in S : f[u] = g[u]
  PROVE  Total(f, S) = Total(g, S)
BY DEF Total

\* No value exceeds the total.
LEMMA ValueBelowTotal ==
  ASSUME NEW D, NEW f \in [D -> Nat], NEW S, S \subseteq D, IsFiniteSet(S), NEW x \in S
  PROVE  f[x] <= Total(f, S)
<1>1. Total(f, S) = Total(f, S \ {x}) + f[x]
  BY TotalSplit
<1>2. S \ {x} \subseteq D /\ IsFiniteSet(S \ {x})
  BY FS_Subset
<1>3. Total(f, S \ {x}) \in Nat /\ f[x] \in Nat
  BY <1>2, TotalIsNat
<1> QED
  BY <1>1, <1>3
LEMMA TotalSplits ==
  ASSUME NEW D, NEW f \in [D -> Nat]
  PROVE  \A S \in SUBSET D : \A x \in S :
           IsFiniteSet(S) => Total(f, S) = Total(f, S \ {x}) + f[x]
BY TotalSplit

\* Numbering the elements of an interval from 1 does not change their total.
LEMMA TotalOfShifted ==
  ASSUME NEW lower \in Int, NEW n \in Nat,
         NEW C, C = 1 .. n, NEW D, D = lower .. lower + n - 1,
         NEW f \in [C -> Nat], NEW g \in [D -> Nat],
         \A i \in C : f[i] = g[lower + i - 1]
  PROVE  Total(f, C) = Total(g, D)
<1> DEFINE here(m) == Total(f, 1 .. m)
           there(m) == Total(g, lower .. lower + m - 1)
           Bad == {m \in 0 .. n : here(m) # there(m)}
<1>1. 0 \notin Bad
  <2>1. 1 .. 0 = {} /\ lower .. lower + 0 - 1 = {}
    OBVIOUS
  <2>2. here(0) = 0 /\ there(0) = 0
    BY <2>1, TotalOfNone
  <2> QED
    BY <2>2
<1>2. ASSUME NEW m \in 1 .. n, m - 1 \notin Bad PROVE m \notin Bad
  <2> DEFINE S == 1 .. m
             T == lower .. lower + m - 1
             x == lower + m - 1
  <2>1. /\ S \subseteq C /\ T \subseteq D /\ m \in S /\ x \in T
        /\ S \ {m} = 1 .. m - 1 /\ T \ {x} = lower .. lower + (m - 1) - 1
        /\ m \in Int /\ x \in Int /\ lower \in Int /\ 1 \in Int
    OBVIOUS
  <2>2. IsFiniteSet(S) /\ IsFiniteSet(T)
    BY <2>1, FS_Interval
  <2>3. Total(f, S) = Total(f, S \ {m}) + f[m]
    <3>1. S \subseteq C /\ m \in S /\ IsFiniteSet(S)
      BY <2>1, <2>2
    <3>2. \A A \in SUBSET C : \A u \in A :
            IsFiniteSet(A) => Total(f, A) = Total(f, A \ {u}) + f[u]
      BY TotalSplits
    <3> HIDE DEF S
    <3> QED
      BY <3>1, <3>2
  <2>4. Total(g, T) = Total(g, T \ {x}) + g[x]
    <3>1. T \subseteq D /\ x \in T /\ IsFiniteSet(T)
      BY <2>1, <2>2
    <3>2. \A A \in SUBSET D : \A u \in A :
            IsFiniteSet(A) => Total(g, A) = Total(g, A \ {u}) + g[u]
      BY TotalSplits
    <3> HIDE DEF T, x
    <3> QED
      BY <3>1, <3>2
  <2>5. here(m - 1) = there(m - 1)
    BY <1>2
  <2>6. f[m] = g[x]
    OBVIOUS
  <2>7. here(m) = there(m)
    BY <2>1, <2>3, <2>4, <2>5, <2>6
  <2> QED
    BY <2>7
<1>3. Bad \subseteq 0 .. n
  OBVIOUS
<1>4. \A m \in 1 .. n : m - 1 \notin Bad => m \notin Bad
  BY <1>2
<1> HIDE DEF Bad
<1>5. Bad = {}
  BY <1>1, <1>3, <1>4, NoCounterexample
<1>6. n \in 0 .. n
  OBVIOUS
<1> QED
  BY <1>5, <1>6 DEF Bad
=============================================================================
