------------------------------ MODULE MCMaiker ------------------------------
(***************************************************************************)
(* Maiker for TLC: fee settings as <<performance, withdrawal>> basis       *)
(* points, and the symmetry of users and of position keys.                 *)
(***************************************************************************)
EXTENDS Maiker, TLC

NoFees == {<<0, 0>>}
HalfFees == {<<1, 1>>}
SomeFees == {<<0, 0>>, <<1, 1>>}

NoPairs == {}
FeesInX == {<<3, 0>>}

LiquidityInX == {<<2, 0>>}
SwapTwo == {<<2, 2>>}

UserSymmetry == Permutations(Users)
KeySymmetry == Permutations(Positions)

\* Counting units is summing.
ASSUME UnitsAreSums ==
  \A f \in [{"a", "b", "c"} -> 0 .. 3] : SumOver(f) = SumFunction(f)
=============================================================================
