----------------------------- MODULE MCSubagents -----------------------------
(* Instances of Subagents: the workers of one thread.  Workers are alike, and *)
(* so are steers; liveness is checked without symmetry.                       *)
EXTENDS Subagents, TLC

CONSTANTS a1, a2, t1, m1, m2

OneThread == [a \in Agents |-> t1]
Symmetry == Permutations(Agents) \cup Permutations(Msgs)
=============================================================================
