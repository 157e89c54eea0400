--------------------------- MODULE UserLockProofs ---------------------------
(* A program with a lock of its own does not deadlock on the gate unless it *)
(* both locks in callbacks and calls memory functions with the lock held.   *)
EXTENDS UserLock, HookGateProofs

(* Where a thread can be that waits for the program's lock, or holds it.    *)
InHook(t) == pc[t] = "hook" \/ nest[t] > 0

WaitersPlaced ==
  \A t \in blocked : pc[t] = "idle" \/ (pc[t] = "hook" /\ CallbacksLock)

CallbackHolderPlaced ==
  taken = "callback" => mutex \in Thread /\ InHook(mutex) /\ mutex \notin blocked

ProgramHolderPlaced ==
  ~HoldersCall /\ mutex \in Thread /\ taken = "program"
    => pc[mutex] = "idle" /\ mutex \notin blocked

UserInv ==
  /\ LockTypeOK
  /\ GateInv
  /\ WaitersPlaced
  /\ CallbackHolderPlaced
  /\ ProgramHolderPlaced

(* The start satisfies it.                                                  *)
LEMMA InitUserInv == LockInit => UserInv
<1> SUFFICES ASSUME LockInit PROVE UserInv
  OBVIOUS
<1>1. GateInv
  BY InitGateInv DEF LockInit
<1>2. LockTypeOK
  BY <1>1 DEF LockInit, LockTypeOK, GateInv
<1>3. WaitersPlaced
  BY DEF LockInit, WaitersPlaced
<1>4. CallbackHolderPlaced
  BY DEF LockInit, CallbackHolderPlaced
<1>5. ProgramHolderPlaced
  BY NoThreadAssumption DEF LockInit, ProgramHolderPlaced
<1> QED
  BY <1>1, <1>2, <1>3, <1>4, <1>5 DEF UserInv

(* Every step of UserLock is a step of the gate or leaves it alone.         *)
LEMMA LockStepIsGateStep == [LockNext]_userVars => [Next]_gateVars
<1> SUFFICES ASSUME [LockNext]_userVars PROVE [Next]_gateVars
  OBVIOUS
<1>1. CASE UNCHANGED userVars
  BY <1>1 DEF userVars
<1>2. ASSUME NEW t \in Thread, Ask(t) \/ Acquire(t) \/ Drop(t)
      PROVE  UNCHANGED gateVars
  BY <1>2 DEF Ask, Acquire, Drop
<1>3. ASSUME NEW t \in Thread,
             CallGate(t) \/ NestGate(t) \/ LeaveCallback(t) \/ AdvanceGate(t)
      PROVE  Step(t)
  BY <1>3 DEF CallGate, NestGate, LeaveCallback, AdvanceGate, Step
<1> QED
  BY <1>1, <1>2, <1>3 DEF LockNext, Next

(* Every step keeps the waiters and holders of the lock in their places.    *)
LEMMA StepUserInv == UserInv /\ [LockNext]_userVars => UserInv'
<1> SUFFICES ASSUME UserInv, [LockNext]_userVars
             PROVE  UserInv'
  OBVIOUS
<1>g. GateInv /\ GateInv'
  BY LockStepIsGateStep, StepGateInv DEF UserInv
<1>d. DOMAIN pc = Thread /\ DOMAIN nest = Thread
  BY <1>g DEF GateInv, TypeOK
<1>t. TypeOK /\ TypeOK' /\ NoReentry
  BY <1>g DEF GateInv
<1>n. \A t \in Thread : nest[t] \in Nat /\ (pc[t] = "hook" => nest[t] = 0)
  <2>1. \A t \in Thread : nest[t] \in Nat
    BY <1>t, MaxNestAssumption DEF TypeOK
  <2> QED
    BY <1>t, <2>1 DEF NoReentry
<1> USE DEF UserInv, LockTypeOK, WaitersPlaced, CallbackHolderPlaced,
            ProgramHolderPlaced, lockVars, InHook, InProgram, InCallback,
            CallbacksLock, HoldersCall, gateVars
<1>0. CASE AllocateMutex /\ UNCHANGED <<style, lockVars>>
  BY <1>0, <1>g, <1>t DEF AllocateMutex
<1>1. CASE CompleteStaticInitialization /\ UNCHANGED <<style, lockVars>>
  BY <1>1, <1>g, <1>t DEF CompleteStaticInitialization
<1>2. ASSUME NEW t \in Thread, Ask(t)
      PROVE  UserInv'
  BY <1>2, <1>g, <1>t DEF Ask
<1>3. ASSUME NEW t \in Thread, Acquire(t)
      PROVE  UserInv'
  <2>1. taken' = IF pc[t] = "hook" THEN "callback" ELSE "program"
    BY <1>3, <1>n DEF Acquire
  <2>3. pc[t] = "hook" => CallbacksLock
    BY <1>3 DEF Acquire
  <2>4. UNCHANGED <<gateVars, style>> /\ mutex' = t /\ blocked' = blocked \ {t}
    BY <1>3 DEF Acquire
  <2>5. pc[t] \in {"idle", "hook"}
    BY <1>3 DEF Acquire
  <2> QED
    BY <1>g, <1>t, <2>1, <2>3, <2>4, <2>5
<1>4. ASSUME NEW t \in Thread, Drop(t)
      PROVE  UserInv'
  BY <1>4, <1>g, <1>t, NoThreadAssumption DEF Drop
<1>5. ASSUME NEW t \in Thread, CallGate(t)
      PROVE  UserInv'
  BY <1>5, <1>g, <1>t DEF CallGate, Call, TypeOK
<1>6. ASSUME NEW t \in Thread, NestGate(t)
      PROVE  UserInv'
  <2>1. pc' = [pc EXCEPT ![t] = "guard"] /\ nest' = [nest EXCEPT ![t] = @ + 1]
    BY <1>6 DEF NestGate, CallNested
  <2>2. t \notin blocked /\ pc[t] = "hook" /\ UNCHANGED <<style, lockVars>>
    BY <1>6 DEF NestGate, CallNested
  <2>3. nest'[t] > 0 /\ \A u \in Thread \ {t} : pc'[u] = pc[u] /\ nest'[u] = nest[u]
    <3>1. nest'[t] > 0
      <4> DEFINE n == nest[t]
      <4>1. nest'[t] = n + 1 /\ n \in Nat
        BY <1>d, <1>n, <2>1
      <4> HIDE DEF n, UserInv
      <4> QED
        BY <4>1
    <3>2. \A u \in Thread \ {t} : pc'[u] = pc[u] /\ nest'[u] = nest[u]
      BY <1>d, <2>1
    <3> QED
      BY <3>1, <3>2
  <2>4. LockTypeOK'
    BY <1>t, <2>2
  <2>5. WaitersPlaced'
    <3>1. \A u \in blocked : u \in Thread \ {t}
      BY <2>2
    <3> QED
      BY <2>2, <2>3, <3>1
  <2>6. CallbackHolderPlaced'
    BY <2>2, <2>3
  <2>7. ProgramHolderPlaced'
    BY <2>2, <2>3
  <2> QED
    BY <1>g, <2>4, <2>5, <2>6, <2>7
<1>7. ASSUME NEW t \in Thread, LeaveCallback(t)
      PROVE  UserInv'
  BY <1>7, <1>g, <1>t DEF LeaveCallback, LeaveHook, TypeOK
<1>8. ASSUME NEW t \in Thread, AdvanceGate(t)
      PROVE  UserInv'
  <2>1. t \notin blocked /\ pc[t] \notin {"idle", "hook"}
    BY <1>8 DEF AdvanceGate, Advance, ShortCircuit, PassGuard, Lock, Enter, Exit, Unlock
  <2>2. \A u \in Thread \ {t} : pc'[u] = pc[u] /\ nest'[u] = nest[u]
    BY <1>8, <1>t DEF AdvanceGate, Advance, ShortCircuit, PassGuard, Lock, Enter,
       Exit, Unlock, Return, TypeOK
  <2>3. mutex = t /\ taken = "callback" => InHook(t)'
    <3> SUFFICES ASSUME mutex = t, taken = "callback" PROVE InHook(t)'
      OBVIOUS
    <3>1. nest[t] = 1 /\ pc[t] = "guard"
      BY <1>g, <2>1 DEF GateInv, NoReentry
    <3>2. ShortCircuit(t) \/ PassGuard(t)
      BY <1>8, <3>1 DEF AdvanceGate, Advance, Lock, Enter, Exit, Unlock
    <3> QED
      BY <1>t, <3>1, <3>2 DEF ShortCircuit, PassGuard, Return, TypeOK
  <2>4. UNCHANGED <<style, lockVars>>
    BY <1>8 DEF AdvanceGate
  <2> QED
    BY <1>g, <1>t, <2>1, <2>2, <2>3, <2>4
<1>9. CASE UNCHANGED userVars
  BY <1>9, <1>g, <1>t DEF userVars
<1> QED
  BY <1>0, <1>1, <1>2, <1>3, <1>4, <1>5, <1>6, <1>7, <1>8, <1>9 DEF LockNext

(* A program whose callbacks take no lock, or whose holders of the lock     *)
(* call no memory function, never deadlocks on the gate, however many       *)
(* threads it has (unix_common.cpp:52).                                     *)
THEOREM NoDeadlockOnGate == LockSpec => []LocksNeverCross
<1>1. UserInv => LocksNeverCross
  <2> SUFFICES ASSUME UserInv, ~Both, NEW t \in Thread, NEW u \in Thread,
                      StuckWithLock(t), StuckInGate(u)
               PROVE  FALSE
    BY DEF LocksNeverCross
  <2>1. pc[u] = "hook" /\ CallbacksLock
    BY DEF UserInv, GateInv, LockHeldOnce, NoReentry, Holding, Locked, StuckInGate,
       WaitersPlaced
  <2>2. ~HoldersCall
    BY <2>1 DEF Both
  <2>3. taken = "callback"
    BY <2>2 DEF UserInv, ProgramHolderPlaced, StuckWithLock, LockTypeOK
  <2>4. InHook(t) /\ t \notin blocked
    BY <2>3 DEF UserInv, CallbackHolderPlaced, StuckWithLock
  <2> QED
    BY <2>4 DEF InHook, StuckWithLock, UserInv, GateInv, NoReentry
<1> QED
  BY <1>1, InitUserInv, StepUserInv, PTL DEF LockSpec

(* Types are kept, of the gate and of the lock.                             *)
THEOREM LockTypeCorrect == LockSpec => []LockTypeOK
<1>1. UserInv => LockTypeOK
  BY DEF UserInv
<1> QED
  BY <1>1, InitUserInv, StepUserInv, PTL DEF LockSpec

(* The program's lock costs the gate nothing: all that was proved of Spec   *)
(* holds of LockSpec.                                                       *)
THEOREM LockSpecIsGate == LockSpec => Spec
<1>1. LockInit => Init
  BY DEF LockInit
<1> QED
  BY <1>1, LockStepIsGateStep, PTL DEF LockSpec, Spec
=============================================================================
