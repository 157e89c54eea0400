---------------------------- MODULE MCCallReport ----------------------------
(* CallReport for TLC: threads are interchangeable.                         *)
EXTENDS CallReport, TLC

Symmetric == Permutations(Thread)
=============================================================================
