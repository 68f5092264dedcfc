----------------------------- MODULE ShareSums -----------------------------
(***************************************************************************)
(* The sum of a finite family of natural numbers, as the number of units   *)
(* it holds.  It equals SumFunction of the community modules; counting     *)
(* units lets a sum be reasoned about with the theorems on cardinalities.  *)
(***************************************************************************)
EXTENDS Integers, FiniteSets

\* One pair <<u, i>> for every unit of f[u].
Units(f) == UNION {{u} \X (1 .. f[u]) : u \in DOMAIN f}

SumOver(f) == Cardinality(Units(f))
=============================================================================
