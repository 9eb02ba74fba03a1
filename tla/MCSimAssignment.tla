-------------------------- MODULE MCSimAssignment ---------------------------
(* Small instances of SimAssignment for TLC: a board with one SIM card.    *)
EXTENDS SimAssignment, TLC

Set(m, n)        == [s |-> TRUE, modem |-> m, sim |-> n, save |-> FALSE]
SetAndSave(m, n) == [s |-> TRUE, modem |-> m, sim |-> n, save |-> TRUE]
Get              == Set(0, 0)

(* Both modems compete for card 1, written as 1 and as 257, and modem 1    *)
(* lets it go; modem 3 and card 255 are beyond the board.                  *)
MCRequests ==
    {Set(1, 1), SetAndSave(2, 257), SetAndSave(1, 0), Set(3, 1), Set(1, 255), Get}

(* The history variable leaks is read by no action. *)
NoHistory == <<driver, owner, alive, pc, detached, simVars>>

ProcSymmetry == Permutations(Std) \cup Permutations(Minimal)

=============================================================================
