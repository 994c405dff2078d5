---------------------------- MODULE MCFollowUpQueue ----------------------------
(* Small instances of FollowUpQueue for TLC: visible messages m1, m2, m3 and  *)
(* hidden ones h1, h2.  Run ids are interchangeable.                          *)
EXTENDS FollowUpQueue

CONSTANTS r1, r2, r3, m1, m2, m3, h1, h2

RunIds == Permutations(Runs)
================================================================================
