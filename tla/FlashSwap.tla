----------------------------- MODULE FlashSwap -----------------------------
(***************************************************************************)
(* begin_swap and end_swap: one transaction of the admin takes tokens out  *)
(* of a vault, trades them on Jupiter and brings the proceeds back.        *)
(* begin_swap reads the whole transaction from the instructions sysvar and *)
(* refuses to start unless end_swap follows.                               *)
(*                                                                         *)
(* A behaviour is the execution of one transaction.  An instruction is a   *)
(* record of its program, the names of its accounts in order, whether one  *)
(* of them is writable, and whether its data holds every argument the      *)
(* accounts declare.  A failing instruction undoes everything.             *)
(***************************************************************************)
EXTENDS Integers, SequencesExt

CONSTANTS Transactions,  \* sequences of instructions that may be submitted
          AmountIn,      \* amount_in of begin_swap
          Leftovers      \* what Jupiter may leave of it

VARIABLES
  tx, index,    \* the transaction and its current instruction
  outcome,      \* "running", "done" or the message it failed with
  is_swapping, swap_amount_in, swap_initial_in_amount_admin,
  in_vault, in_admin_ata, out_admin_ata

swapVars == <<is_swapping, swap_amount_in, swap_initial_in_amount_admin,
              in_vault, in_admin_ata, out_admin_ata>>
vars == <<tx, index, outcome, swapVars>>

\* The accounts of FlashSwap, which begin_swap and end_swap share.
FlashSwapAccounts ==
  <<"authority", "global_config", "strategy", "in_vault", "out_vault", "in_admin_ata",
    "out_admin_ata", "in_mint", "out_mint", "token_program", "instructions_sysvar">>

\* The accounts of end_swap that begin_swap compares with its own, in order.
ComparedAccounts ==
  <<"authority", "global_config", "strategy", "in_vault", "out_vault", "in_admin_ata",
    "out_admin_ata", "in_mint", "token_program", "instructions_sysvar">>

Init ==
  /\ tx \in Transactions /\ index = 1 /\ outcome = "running"
  /\ is_swapping = FALSE /\ swap_amount_in = 0 /\ swap_initial_in_amount_admin = 0
  /\ in_vault = AmountIn /\ in_admin_ata = 0 /\ out_admin_ata = 0

Current == tx[index]
At(ix) == outcome = "running" /\ index <= Len(tx) /\ Current.ix = ix

Step == index' = index + 1 /\ outcome' = "running" /\ UNCHANGED tx

Fail(message) ==
  /\ outcome' = message
  /\ is_swapping' = FALSE /\ swap_amount_in' = 0 /\ swap_initial_in_amount_admin' = 0
  /\ in_vault' = AmountIn /\ in_admin_ata' = 0 /\ out_admin_ata' = 0
  /\ UNCHANGED <<tx, index>>

-----------------------------------------------------------------------------
(***************************************************************************)
(* The scan of the instructions behind begin_swap.                         *)
(***************************************************************************)
Ends == {i \in index + 1 .. Len(tx) : tx[i].program = "maiker"}

AccountsMatch(i) ==
  \A j \in DOMAIN ComparedAccounts : tx[i].accounts[j] = ComparedAccounts[j]

\* The message the scan fails with at an instruction, or "ok".  Behind end_swap, a
\* lighthouse instruction is looked at for ever.
ScanAt(i, foundEnd) ==
  IF tx[i].program = "maiker" THEN
    IF foundEnd THEN "End Swap must be the last ix"
    ELSE IF tx[i].ix # "end_swap" THEN "Invalid discriminator"
    ELSE IF AccountsMatch(i) THEN "ok" ELSE "Invalid accounts"
  ELSE IF foundEnd THEN
    IF tx[i].program = "lighthouse" THEN "out of compute units"
    ELSE IF tx[i].writable THEN "writable accounts after end" ELSE "ok"
  ELSE IF tx[i].program \notin {"jupiter", "associated_token"} THEN
    "only token and jupiter programs"
  ELSE IF "maiker" \in Range(tx[i].accounts) THEN "no drift instructions" ELSE "ok"

Scan ==
  LET found(i) == \E e \in Ends : e < i
      bad == {i \in index + 1 .. Len(tx) : ScanAt(i, found(i)) # "ok"}
  IN IF bad # {}
     THEN LET first == CHOOSE i \in bad : \A j \in bad : i <= j
          IN ScanAt(first, found(first))
     ELSE IF Ends = {} THEN "found no SwapEnd" ELSE "ok"

-----------------------------------------------------------------------------
\* begin_swap: the state, the transfer, then the scan.
BeginSwap ==
  /\ At("begin_swap")
  /\ \/ /\ Scan = "ok" /\ ~is_swapping
        /\ is_swapping' = TRUE
        /\ swap_amount_in' = AmountIn
        /\ swap_initial_in_amount_admin' = in_admin_ata
        /\ in_vault' = in_vault - AmountIn
        /\ in_admin_ata' = in_admin_ata + AmountIn
        /\ Step /\ UNCHANGED out_admin_ata
     \/ is_swapping /\ Fail("Swap already in progress")
     \/ ~is_swapping /\ Scan # "ok" /\ Fail(Scan)

\* Any instruction of another program; Jupiter trades with the admin's tokens.
OtherInstruction ==
  /\ outcome = "running" /\ index <= Len(tx) /\ Current.program # "maiker"
  /\ \/ /\ Current.program = "jupiter"
        /\ in_admin_ata' \in {n \in Leftovers : n <= in_admin_ata}
        /\ out_admin_ata' = out_admin_ata + (in_admin_ata - in_admin_ata')
     \/ Current.program # "jupiter" /\ UNCHANGED <<in_admin_ata, out_admin_ata>>
  /\ Step
  /\ UNCHANGED <<is_swapping, swap_amount_in, swap_initial_in_amount_admin, in_vault>>

\* What the admin holds beyond what begin_swap recorded (nothing, for the token
\* that is bought).
Residual == in_admin_ata - swap_initial_in_amount_admin

\* end_swap.  Its accounts declare an argument amount_in, which the instruction
\* need not carry; its transfers are authorised by the strategy, which neither
\* owns the admin's accounts nor signs.
EndSwap ==
  /\ At("end_swap")
  /\ \/ ~Current.full /\ Fail("InstructionDidNotDeserialize")
     \/ Current.full /\ (Residual > 0 \/ out_admin_ata > 0) /\ Fail("missing signature")
     \/ Current.full /\ ~is_swapping /\ Fail("No swap in progress")
     \/ /\ Current.full /\ Residual <= 0 /\ out_admin_ata = 0 /\ is_swapping
        /\ is_swapping' = FALSE /\ swap_amount_in' = 0 /\ swap_initial_in_amount_admin' = 0
        /\ Step
        /\ UNCHANGED <<in_vault, in_admin_ata, out_admin_ata>>

Commit ==
  /\ outcome = "running" /\ index = Len(tx) + 1
  /\ outcome' = "done"
  /\ UNCHANGED <<tx, index, swapVars>>

Next == BeginSwap \/ OtherInstruction \/ EndSwap \/ Commit

Spec == Init /\ [][Next]_vars

-----------------------------------------------------------------------------
\* flash_swap.rs:140, "Assert accounts are equal": with the accounts of the
\* same names in the same places, this assertion refuses nothing.
EqualAccountsPass ==
  (\A i \in DOMAIN tx : tx[i].program = "maiker" => tx[i].accounts = FlashSwapAccounts)
    => outcome # "Invalid accounts"
=============================================================================
