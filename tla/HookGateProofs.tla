-------------------------- MODULE HookGateProofs --------------------------
(* What HookGate promises, for every set of threads: its invariant is       *)
(* inductive, and the properties the runs check follow from it.             *)
EXTENDS HookGate, TLAPS

USE NoThreadAssumption, MaxNestAssumption

(* When the mutex is free, or the reader holds it, the guard's read is exact *)
(* (the unsynchronised read of unix_common.cpp:49).                         *)
LEMMA ObservedExact ==
  ASSUME NEW t \in Thread, owner \in {t, NoThread}
  PROVE  Observed(t) = {inside}
BY DEF Observed

(* The gate before main() satisfies the invariant.                          *)
LEMMA InitGateInv == Init => GateInv
<1>1. SUFFICES ASSUME Init PROVE GateInv
  OBVIOUS
<1>2. TypeOK
  <2>1. 0 \in 0 .. MaxNest
    OBVIOUS
  <2> QED
    BY <1>1, <2>1 DEF Init, TypeOK, Place, Locked
<1>3. NoReentry /\ StartOrder
  BY <1>1 DEF Init, NoReentry, StartOrder
<1>4. LockHeldOnce
  BY <1>1 DEF Init, LockHeldOnce, Holding, Locked
<1>5. CounterExact
  BY <1>1 DEF Init, CounterExact, Counted
<1> QED
  BY <1>2, <1>3, <1>4, <1>5 DEF GateInv

(* At most one thread has its increment of g_inside in effect: it holds the *)
(* mutex (unix_common.cpp:52-56).                                           *)
LEMMA CountedHolds ==
  ASSUME GateInv
  PROVE  \A t \in Thread : Counted(t) => owner = t
BY DEF GateInv, LockHeldOnce, Counted, Holding, Locked

(* Every step of the gate preserves the invariant.                          *)
LEMMA StepGateInv == GateInv /\ [Next]_gateVars => GateInv'
<1> SUFFICES ASSUME GateInv, [Next]_gateVars
             PROVE  GateInv'
  OBVIOUS
<1> USE DEF GateInv, TypeOK, NoReentry, LockHeldOnce, CounterExact, StartOrder,
            Holding, Counted, Place, Locked
<1>0. CASE AllocateMutex
  BY <1>0 DEF AllocateMutex
<1>1. CASE CompleteStaticInitialization
  BY <1>1 DEF CompleteStaticInitialization
<1>2. ASSUME NEW t \in Thread, Call(t)
      PROVE  GateInv'
  BY <1>2 DEF Call
<1>3. ASSUME NEW t \in Thread, CallNested(t)
      PROVE  GateInv'
  BY <1>3 DEF CallNested
<1>4. ASSUME NEW t \in Thread, ShortCircuit(t)
      PROVE  GateInv'
  BY <1>4 DEF ShortCircuit, Return
<1>5. ASSUME NEW t \in Thread, PassGuard(t)
      PROVE  GateInv'
  <2>1. nest[t] = 0
    BY <1>5, ObservedExact DEF PassGuard
  <2> QED
    BY <1>5, <2>1 DEF PassGuard
<1>6. ASSUME NEW t \in Thread, Lock(t)
      PROVE  GateInv'
  BY <1>6 DEF Lock
<1>7. ASSUME NEW t \in Thread, Enter(t)
      PROVE  GateInv'
  <2>1. owner = t /\ inside = 0
    BY <1>7 DEF Enter
  <2> QED
    BY <1>7, <2>1 DEF Enter
<1>8. ASSUME NEW t \in Thread, LeaveHook(t)
      PROVE  GateInv'
  BY <1>8 DEF LeaveHook
<1>9. ASSUME NEW t \in Thread, Exit(t)
      PROVE  GateInv'
  BY <1>9 DEF Exit
<1>10. ASSUME NEW t \in Thread, Unlock(t)
       PROVE  GateInv'
  BY <1>10 DEF Unlock, Return
<1>11. CASE UNCHANGED gateVars
  BY <1>11 DEF gateVars
<1> QED
  BY <1>0, <1>1, <1>2, <1>3, <1>4, <1>5, <1>6, <1>7, <1>8, <1>9, <1>10, <1>11
  DEF Next, Step, Advance

(* The invariant holds in every reachable state of the gate, with its type  *)
(* correctness, the single locking of the mutex and the exact counter       *)
(* (unix_common.cpp:45-114).                                                *)
THEOREM GateInvariant == Spec => []GateInv
BY InitGateInv, StepGateInv, PTL DEF Spec

(* No custom function is ever on a thread's stack twice.                    *)
THEOREM NeverReentered == Spec => []NoReentry
<1>1. GateInv => NoReentry
  BY DEF GateInv
<1> QED
  BY <1>1, GateInvariant, PTL

(* Two threads never run monitoring code or callbacks at the same time.     *)
THEOREM MutualExclusion == Spec => []HookMutualExclusion
<1>1. GateInv => HookMutualExclusion
  BY CountedHolds DEF HookMutualExclusion
<1> QED
  BY <1>1, GateInvariant, PTL

(* The counter is zero exactly while no thread is between ++ and --.        *)
THEOREM CounterAlwaysExact == Spec => []CounterExact
<1>1. GateInv => CounterExact
  BY DEF GateInv
<1> QED
  BY <1>1, GateInvariant, PTL

(* The mutex is held between lock and unlock, and locked once.              *)
THEOREM AlwaysLockedOnce == Spec => []LockHeldOnce
<1>1. GateInv => LockHeldOnce
  BY DEF GateInv
<1> QED
  BY <1>1, GateInvariant, PTL

(* The mutex is never used before there is one, whenever the first calls    *)
(* come: the flag is not set until the mutex is made, and the guard is not  *)
(* passed until the flag is set (unix_common.cpp:30-31,49).                 *)
THEOREM NeverUsedUnmade == Spec => []MutexExists
<1>1. GateInv => MutexExists
  BY DEF GateInv, StartOrder, MutexExists
<1> QED
  BY <1>1, GateInvariant, PTL
=============================================================================
