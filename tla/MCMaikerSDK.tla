---------------------------- MODULE MCMaikerSDK ----------------------------
(***************************************************************************)
(* Three positions, the first in a pool of its own, the others in another. *)
(***************************************************************************)
EXTENDS MaikerSDK

CONSTANTS l1, l2

TwoPools == [k \in Positions |-> IF k = 1 THEN l1 ELSE l2]
=============================================================================
