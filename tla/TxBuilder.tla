----------------------------- MODULE TxBuilder -----------------------------
(***************************************************************************)
(* simulateAndGetTxWithCUs of the TypeScript client: simulate a caller's   *)
(* instructions, then build a transaction with the compute units they use  *)
(* and the median of recent priority fees.  The caller's array is changed  *)
(* in place, and a call that throws may be tried again with it.            *)
(*                                                                         *)
(* Instructions are what the code looks at: their program, the length and  *)
(* the first byte of their data; units and prices are left out.            *)
(***************************************************************************)
EXTENDS Integers, Sequences, FiniteSets, SequencesExt

CONSTANTS Requests,   \* instructions and options of a caller
          Responses,  \* lists of fees the RPC may answer, and Failed
          Failed,     \* an error of the RPC, or an exception
          MaxTries

VARIABLES request,  \* the options, and ixs, the caller's array
          pc, limitAt, tries,
          tx        \* what was returned last

vars == <<request, pc, limitAt, tries, tx>>

\* ComputeBudgetProgram: a byte of tag, then a u32 of units or a u64 of price.
SetComputeUnitLimit == [program |-> "ComputeBudget", tag |-> 2, length |-> 5]
SetComputeUnitPrice == [program |-> "ComputeBudget", tag |-> 3, length |-> 9]

NoTx == <<>>

Init ==
  /\ request \in Requests
  /\ pc = "idle" /\ limitAt = 0 /\ tries = 0 /\ tx = NoTx

\* Data of 9 bytes that begins with 2.
IsLimit(ix) == ix.program = "ComputeBudget" /\ ix.length = 9 /\ ix.tag = 2

FirstLimit(ixs) == SelectInSeq(ixs, IsLimit)

\* Without a limit, one of 1.4 million units is put first.
Begin ==
  /\ pc = "idle" /\ tries < MaxTries
  /\ tries' = tries + 1
  /\ IF request.ixs = <<>> THEN UNCHANGED <<request, pc, limitAt, tx>>
     ELSE LET found == FirstLimit(request.ixs)
              ixs == IF found = 0 THEN <<SetComputeUnitLimit>> \o request.ixs ELSE request.ixs
          IN /\ request' = [request EXCEPT !.ixs = ixs]
             /\ limitAt' = IF found = 0 THEN 1 ELSE found
             /\ pc' = IF request.doSimulation THEN "simulating" ELSE "returned"
             /\ tx' = IF request.doSimulation THEN tx ELSE ixs

Throw == pc' = "idle" /\ UNCHANGED <<request, limitAt, tries, tx>>

SimulationFails == pc = "simulating" /\ Throw

\* The limit is set to the units consumed.
Simulated ==
  /\ pc = "simulating"
  /\ request' = [request EXCEPT !.ixs[limitAt] = SetComputeUnitLimit]
  /\ pc' = IF request.addPriorityFee THEN "fees" ELSE "building"
  /\ UNCHANGED <<limitAt, tries, tx>>

\* The fees by percentile and, as a fallback, the plain ones are requested
\* together; an error of either is returned, so the fallback replaces nothing.
RecentFees(triton, fallback) ==
  IF Failed \in {fallback, triton} THEN Failed ELSE triton

\* The median of no fees is an access to an undefined element.
FetchFees ==
  /\ pc = "fees"
  /\ \E triton, fallback \in Responses :
       LET fees == RecentFees(triton, fallback)
       IN IF fees = Failed \/ fees = <<>> THEN Throw
          ELSE /\ request' = [request EXCEPT !.ixs = Append(@, SetComputeUnitPrice)]
               /\ pc' = "building"
               /\ UNCHANGED <<limitAt, tries, tx>>

\* removeLastIxPostSim cuts the last instruction, whichever it is by now.
Build ==
  /\ pc = "building"
  /\ tx' = IF request.removeLastIxPostSim THEN Front(request.ixs) ELSE request.ixs
  /\ pc' = "returned"
  /\ UNCHANGED <<request, limitAt, tries>>

\* The caller builds again from the same array, with a fresh blockhash.
Again == pc = "returned" /\ tries < MaxTries /\ Throw

Stop == pc \in {"idle", "returned"} /\ tries = MaxTries /\ UNCHANGED vars

Next == Begin \/ SimulationFails \/ Simulated \/ FetchFees \/ Build \/ Again \/ Stop

Spec == Init /\ [][Next]_vars

-----------------------------------------------------------------------------
\* buildTxAndCheckCu.ts: "if we don't have a set CU limit ix, add one to the
\* beginning": a transaction has one limit; the runtime rejects two.
OneLimit ==
  Cardinality({i \in DOMAIN tx : tx[i].program = "ComputeBudget" /\ tx[i].tag = 2}) <= 1
=============================================================================
