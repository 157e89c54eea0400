-------------------------- MODULE MCRegisterHooks --------------------------
(* RegisterHooks for TLC: the callbacks, the addresses and the threads are  *)
(* interchangeable.                                                         *)
EXTENDS RegisterHooks, TLC

Symmetric == Permutations(Obj)
=============================================================================
