------------------------------- MODULE MCJson -------------------------------
(* An instance of JsonText: all trees of a few items. *)
EXTENDS JsonText, TLC

Symmetry == Permutations(Node)

=============================================================================
