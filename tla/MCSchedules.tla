----------------------------- MODULE MCSchedules -----------------------------
(* A bundled schedule and one of the user's; a tick every second unit of time.*)
(* Fires are alike.                                                           *)
EXTENDS Schedules, TLC

CONSTANTS b1, s1, f1, f2

EverySecond == [t \in Times |-> IF t % 2 = 0 \/ t = MaxTime THEN t + 1 ELSE t + 2]
Symmetry == Permutations(Fires)
=============================================================================
