---------------------------- MODULE MCUserLock ----------------------------
(* UserLock for TLC.  MaxNest = 2 lets a call made inside a nested call     *)
(* happen, if the gate were ever to let a nested call through.              *)
EXTENDS UserLock
===========================================================================
