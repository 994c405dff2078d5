--------------------------- MODULE MCUpdateReceipt ---------------------------
(* Two install attempts and two sends at a time; attempts are alike, and so   *)
(* are sends.                                                                 *)
EXTENDS UpdateReceipt, TLC

CONSTANTS u1, u2, s1, s2

Symmetry == Permutations(Attempts) \cup Permutations(Sends)
=============================================================================
