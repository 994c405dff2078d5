-------------------------------- MODULE Filter --------------------------------
(* The filter of an array, for what is kept given as a set.  SelectSeq of     *)
(* the standard module takes an operator, of which the proof system knows     *)
(* nothing.                                                                   *)
EXTENDS Sequences, SequencesExt

\* The elements of s that are in S, in their order
Kept(s, S) == FlattenSeq([i \in DOMAIN s |-> IF s[i] \in S THEN <<s[i]>> ELSE <<>>])
================================================================================
