------------------------------ MODULE BusOrder ------------------------------
(***************************************************************************)
(* Lists of boards, which libusb and the tool keep in the order in which   *)
(* the boards are on the bus.  Boards are numbered in that order.          *)
(***************************************************************************)
EXTENDS Integers, Sequences, FiniteSets

(* The one list of the boards of S in bus order, as the only element of a  *)
(* set.                                                                    *)
InBusOrder(S) ==
    {s \in [1 .. Cardinality(S) -> S] : \A i, j \in DOMAIN s : i < j => s[i] < s[j]}

=============================================================================
