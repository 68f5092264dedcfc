------------------------ MODULE MCStrategyPositions ------------------------
(***************************************************************************)
(* StrategyPositions for TLC.  Keys are interchangeable.                   *)
(***************************************************************************)
EXTENDS StrategyPositions, TLC

KeySymmetry == Permutations(Positions)
=============================================================================
