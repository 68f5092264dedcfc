---------------------------- MODULE MCMaikerDocs ----------------------------
(***************************************************************************)
(* Statements of the repository's documents about the program that its     *)
(* code does not keep.  Each is a property TLC refutes on Maiker; the      *)
(* counterexample is the scenario in which document and code differ.       *)
(***************************************************************************)
EXTENDS Maiker

HalfFees == {<<1, 1>>}
NoPairs == {}
FeesInX == {<<2, 0>>}

\* docs/PerformanceFee.md: a new depositor's reference point is the share
\* value at entry ("User B's last_share_value = 1.1").
EntryValueRecorded ==
  [][\A u \in Users :
       ~userPosition[u].open /\ userPosition'[u].open /\ strategyShares > 0
         => userPosition'[u].last_share_value = CurrentShareValue]_vars
=============================================================================
