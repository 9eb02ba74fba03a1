------------------------------ MODULE SimTable ------------------------------
(***************************************************************************)
(* What the SIM commands promise: a board with two modems and NumSims SIM  *)
(* cards, where a card is given to a modem in one step that refuses a card *)
(* the other modem uses.  Configuration data is the copy of the table that *)
(* the board starts with.                                                  *)
(***************************************************************************)
EXTENDS Naturals

CONSTANT NumSims

Modem == {1, 2}
Other(m) == 3 - m

VARIABLES
    sim,        \* the card each modem uses, 0 for none
    flash       \* the assignment saved as configuration data

tableVars == <<sim, flash>>

(* Both modems never use the same card. *)
Distinct(table) == table[1] # 0 => table[1] # table[2]

Tables == {t \in [Modem -> 0 .. NumSims] : Distinct(t)}

TableInit == sim \in Tables /\ flash \in Tables

Assign(m, n) ==
    /\ n # 0 => sim[Other(m)] # n
    /\ sim' = [sim EXCEPT ![m] = n]
    /\ UNCHANGED flash

Save == flash' = sim /\ UNCHANGED sim

Restart == sim' = flash /\ UNCHANGED flash

TableNext ==
    \/ \E m \in Modem, n \in 0 .. NumSims : Assign(m, n)
    \/ Save
    \/ Restart

TableSpec == TableInit /\ [][TableNext]_tableVars

=============================================================================
