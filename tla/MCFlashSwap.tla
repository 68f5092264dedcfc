---------------------------- MODULE MCFlashSwap ----------------------------
(***************************************************************************)
(* Transactions of up to four instructions that begin with begin_swap, all *)
(* of the program's with the accounts in the order it declares.            *)
(***************************************************************************)
EXTENDS FlashSwap

Ix(ix, program, accounts, writable, full) ==
  [ix |-> ix, program |-> program, accounts |-> accounts, writable |-> writable, full |-> full]

Begin == Ix("begin_swap", "maiker", FlashSwapAccounts, TRUE, TRUE)

SomeEnds == {Ix("end_swap", "maiker", FlashSwapAccounts, TRUE, full) : full \in BOOLEAN}

Others == {Ix("other", program, accounts, writable, TRUE) :
             program \in {"jupiter", "lighthouse", "memo"},
             accounts \in {<<>>, <<"maiker">>}, writable \in BOOLEAN}

SmallTransactions == {<<Begin>> \o rest : rest \in BoundedSeq(SomeEnds \cup Others, 3)}
=============================================================================
