------------------------------ MODULE MCRunDomain ------------------------------
(* Small instances of RunDomain for TLC: chat runs r1, r2, r3, a retry q1 and *)
(* a recap k1, all of one thread.  Threads meet only at admission, close and  *)
(* restarts.                                                                  *)
EXTENDS RunDomain, TLC

CONSTANTS t1, r1, r2, r3, q1, k1, m1, m2, m3

MCThreadOfRun == [r \in Runs |-> t1]
MCThreadOfMsg == [m \in Msgs |-> t1]
MCKindOfRun == [r \in Runs |->
  CASE r = k1 -> "recap" [] r = q1 -> "retry" [] OTHER -> "chat"]
================================================================================
