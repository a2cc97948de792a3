----------------------------- MODULE MCProcess -----------------------------
(* Instances of Process for TLC. *)
EXTENDS Process, TLC, FiniteSets

CONSTANTS a1, b1, c1, m1

MCPage3 == {m1, a1, b1}
MCPage4 == {m1, a1, b1, c1}
MCStatus == {7}

(* Pages other than main's are alike. *)
MCSymmetry == Permutations(Page \ {Main})
=============================================================================
