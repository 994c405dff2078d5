---------------------------- MODULE MCRemoteEvents ----------------------------
(* Two threads with two summaries each, a ring and a journal of one entry.    *)
EXTENDS RemoteEvents, TLC

CONSTANTS t1, t2

Symmetry == Permutations(Threads)
=============================================================================
