------------------------------ MODULE UserLock ------------------------------
(***************************************************************************)
(* The gate of HookGate in a program that has a (plain) mutex of its own.  *)
(* unix_common.cpp:52 keeps the gate's mutex locked while the user's       *)
(* callback runs, so a callback that takes a lock of the program's waits   *)
(* for it inside the gate, and a thread that calls a memory function while *)
(* it holds that lock waits for the gate inside the lock.  A program may   *)
(* do either.  The module says what becomes of it when it does one, and    *)
(* leaves the program that does both to deadlock.                          *)
(***************************************************************************)
EXTENDS HookGate

VARIABLES
  style,    \* which of the two the program does, chosen once
  mutex,    \* the thread that holds the program's mutex
  taken,    \* where that thread took it, "program" or "callback"
  blocked   \* the threads that wait for it

lockVars == <<mutex, taken, blocked>>
userVars == <<gateVars, style, lockVars>>

CallbacksLock == "callbacks lock" \in style
HoldersCall   == "holders call" \in style
Both          == CallbacksLock /\ HoldersCall

LockTypeOK ==
  /\ TypeOK
  /\ style \in SUBSET {"callbacks lock", "holders call"}
  /\ mutex \in Thread \union {NoThread}
  /\ taken \in {"program", "callback"}
  /\ blocked \in SUBSET Thread

LockInit ==
  /\ Init
  /\ style \in SUBSET {"callbacks lock", "holders call"}
  /\ mutex = NoThread
  /\ taken = "program"
  /\ blocked = {}

-----------------------------------------------------------------------------
InProgram(t)  == pc[t] = "idle"
InCallback(t) == pc[t] = "hook" /\ nest[t] = 0

(* mutex.lock(), from the program or from the callback.                     *)
Ask(t) ==
  /\ t \notin blocked
  /\ \/ InProgram(t) /\ mutex # t
     \/ InCallback(t) /\ CallbacksLock
  /\ mutex = t => taken = "program"
  /\ blocked' = blocked \union {t}
  /\ UNCHANGED <<gateVars, style, mutex, taken>>

Acquire(t) ==
  /\ t \in blocked
  /\ mutex = NoThread
  /\ mutex' = t
  /\ taken' = IF InCallback(t) THEN "callback" ELSE "program"
  /\ blocked' = blocked \ {t}
  /\ UNCHANGED <<gateVars, style>>

(* mutex.unlock(), where the lock was taken.                                *)
Drop(t) ==
  /\ mutex = t
  /\ t \notin blocked
  /\ IF taken = "callback" THEN InCallback(t) ELSE InProgram(t)
  /\ mutex' = NoThread
  /\ taken' = "program"
  /\ UNCHANGED <<gateVars, style, blocked>>

(* A thread that holds the program's lock outside a callback calls memory   *)
(* functions only in a program whose holders do.                            *)
CallGate(t) ==
  /\ t \notin blocked
  /\ mutex = t => HoldersCall
  /\ Call(t)
  /\ UNCHANGED <<style, lockVars>>

NestGate(t) ==
  /\ t \notin blocked
  /\ CallNested(t)
  /\ UNCHANGED <<style, lockVars>>

(* A callback returns without the lock it took.                             *)
LeaveCallback(t) ==
  /\ t \notin blocked
  /\ mutex = t => taken = "program"
  /\ LeaveHook(t)
  /\ UNCHANGED <<style, lockVars>>

AdvanceGate(t) ==
  /\ Advance(t)
  /\ UNCHANGED <<style, lockVars>>

LockNext ==
  \/ AllocateMutex /\ UNCHANGED <<style, lockVars>>
  \/ CompleteStaticInitialization /\ UNCHANGED <<style, lockVars>>
  \/ \E t \in Thread :
       \/ Ask(t)
       \/ Acquire(t)
       \/ Drop(t)
       \/ CallGate(t)
       \/ NestGate(t)
       \/ LeaveCallback(t)
       \/ AdvanceGate(t)

(* A running thread keeps running (a waiter on the gate's mutex need not be *)
(* the one that gets it), a user callback that is given the processor again *)
(* and again returns.  Of its own lock the program is assumed to give it up *)
(* and to hand it, in the end, to a thread that waits for it.               *)
Fairness ==
  \A t \in Thread :
    /\ WF_userVars(AdvanceGate(t))
    /\ SF_userVars(LeaveCallback(t))
    /\ SF_userVars(Acquire(t))
    /\ SF_userVars(Drop(t))

LockSpec == LockInit /\ [][LockNext]_userVars

FairLockSpec == LockSpec /\ Fairness

-----------------------------------------------------------------------------
(* u cannot give the gate up: its callback waits for the program's lock.    *)
StuckInGate(u) == owner = u /\ u \in blocked

(* t cannot give the program's lock up: it waits for the gate, or, in a     *)
(* callback, for that same lock.                                            *)
StuckWithLock(t) == mutex = t /\ (pc[t] = "lock" \/ t \in blocked)

(* A program of which callbacks never lock, or holders never call, cannot   *)
(* deadlock on the gate (unix_common.cpp:52): nobody waits for the gate     *)
(* with the lock that the thread inside the gate waits for.  This needs the *)
(* guard, too: a call of a callback made with the lock held never waits.    *)
LocksNeverCross ==
  ~Both => \A t, u \in Thread : ~(StuckWithLock(t) /\ StuckInGate(u))

(* In such a program the thread that took the gate's mutex eventually gives *)
(* it up, the wait of its callback for the program's lock included          *)
(* (unix_common.cpp:52).                                                    *)
MutexReleased ==
  ~Both => \A t \in Thread : owner = t ~> owner # t
=============================================================================
