----------------------------- MODULE MCSelection -----------------------------
(* Three boards, two of them with the same serial number, and firmware from *)
(* before and after the change of product ids.                              *)
EXTENDS Selection

MCSerials  == <<11, 12, 11>>
MCGeos     == <<21, 22, 23>>
MCReleases == {Release(1, 1), Release(2, 3)}

=============================================================================
