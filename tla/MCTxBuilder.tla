---------------------------- MODULE MCTxBuilder ----------------------------
(***************************************************************************)
(* One instruction of a program, alone or behind the caller's own limit.   *)
(***************************************************************************)
EXTENDS TxBuilder

Program == [program |-> "Maiker", tag |-> 0, length |-> 8]

SomeRequests ==
  [ixs : {<<Program>>, <<SetComputeUnitLimit, Program>>}, doSimulation : BOOLEAN,
   addPriorityFee : BOOLEAN, removeLastIxPostSim : BOOLEAN]

SomeResponses == {Failed, <<>>, <<1>>, <<1, 2>>}
=============================================================================
