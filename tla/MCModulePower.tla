--------------------------- MODULE MCModulePower ----------------------------
(* Small instances of ModulePower for TLC.                                 *)
EXTENDS ModulePower

F(name, maj, min) == [board |-> name, release |-> Release(maj, min)]

(* The last versions with the old behaviour, for both kinds of board, the  *)
(* first without it, and one whose stored byte wraps around, so that the   *)
(* standard tool waits for it without need (as for the F229 from 1.02).    *)
Versions == {F("ME10", 2, 2), F("F229", 1, 1), F("ME10", 2, 3), F("G239", 3, 0)}
ME10Old  == {F("ME10", 2, 2)}

P(m, s) == [NoRequest EXCEPT !.module = m, !.state = s]

(* -p 2 0 -f 2 -r 1: the three commands in one run. *)
All == [P(2, 0) EXCEPT !.time = 2, !.modem = 1]

MCRequests == {P(1, 1), P(1, 0), P(1, 256), P(4, 0), All}
OnOff      == {P(1, 1), P(1, 0)}

=============================================================================
