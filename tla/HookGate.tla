------------------------------ MODULE HookGate ------------------------------
(***************************************************************************)
(* The gate every interposed memory function passes through before the     *)
(* monitoring code runs: unix_replacement_malloc / realloc / calloc / free *)
(* of memory_tools/impl/unix_common.cpp.  The four functions have the same *)
(* control:                                                                *)
(*                                                                         *)
(*     if (!g_static_initialization_complete || 0 != g_inside)             *)
(*       return original(...);                 -- "guard"                  *)
(*     lock_guard<recursive_mutex> lock(...);  -- "lock", then "locked"    *)
(*     g_inside++;                             -- "hook"                   *)
(*     return custom_..._with_original(...);   -- "leaving"                *)
(*     ~scope_exit: g_inside--;                -- "unlock"                 *)
(*     ~lock_guard                             -- back to the caller       *)
(*                                                                         *)
(* While a thread is at "hook" it runs the custom function and the user's  *)
(* callback, which may themselves call memory functions.                   *)
(***************************************************************************)
EXTENDS Integers

CONSTANTS
  Thread,    \* the threads of the monitored program
  NoThread,  \* the "owner" of an unlocked mutex
  MaxNest    \* bound on how deep calls made from inside a call are followed

ASSUME NoThreadAssumption == NoThread \notin Thread
ASSUME MaxNestAssumption == MaxNest \in Nat

VARIABLES
  ready,   \* g_static_initialization_complete
  made,    \* g_memory_function_recursive_mutex points to a mutex
  pc,      \* where each thread is in the innermost replacement function it runs
  nest,    \* how many outer replacement functions are on each thread's stack
  owner,   \* the thread that holds g_memory_function_recursive_mutex
  count,   \* how many times the owner has locked it
  inside   \* g_inside_custom_memory_function, a plain size_t

gateVars == <<ready, made, pc, nest, owner, count, inside>>

Locked == {"locked", "hook", "leaving", "unlock"}
Place  == {"idle", "guard", "lock"} \union Locked

TypeOK ==
  /\ ready \in BOOLEAN
  /\ made \in BOOLEAN
  /\ pc \in [Thread -> Place]
  /\ nest \in [Thread -> 0 .. MaxNest]
  /\ owner \in Thread \union {NoThread}
  /\ count \in Nat
  /\ inside \in Nat

Init ==
  /\ ready = FALSE
  /\ made = FALSE
  /\ pc = [t \in Thread |-> "idle"]
  /\ nest = [t \in Thread |-> 0]
  /\ owner = NoThread
  /\ count = 0
  /\ inside = 0

-----------------------------------------------------------------------------
(* complete_static_initialization() is run by the library's constructor,    *)
(* while any thread that a static constructor started may call already.     *)
(* Its two stores are seen in the order they are written in (that of x86,   *)
(* and of the program where it starts no thread so early).                  *)
AllocateMutex ==
  /\ ~made
  /\ made' = TRUE
  /\ UNCHANGED <<ready, pc, nest, owner, count, inside>>

(* Mutant: the flag is set in front of the allocation.                      *)
CompleteFirst ==
  /\ ~ready
  /\ ready' = TRUE
  /\ UNCHANGED <<made, pc, nest, owner, count, inside>>

CompleteStaticInitialization ==
  /\ made
  /\ ~ready
  /\ ready' = TRUE
  /\ UNCHANGED <<made, pc, nest, owner, count, inside>>

(* The values the guard's unsynchronised read of g_inside can return.  The  *)
(* counter is only written under the mutex: a thread that holds it, or that *)
(* reads while nobody does, sees its value; a thread that reads while       *)
(* another holds the mutex and has come to the ++ races with it and with    *)
(* the --, and sees either side of them (one aligned word, whose stores     *)
(* become visible in order and before the unlock that follows them).        *)
Observed(t) ==
  IF \E u \in Thread \ {t} : owner = u /\ pc[u] # "locked"
    THEN {0, 1}
    ELSE {inside}

(* Leave the replacement function: to the program, or to the callback whose *)
(* call it was.                                                             *)
Return(t) ==
  /\ pc' = [pc EXCEPT ![t] = IF nest[t] = 0 THEN "idle" ELSE "hook"]
  /\ nest' = [nest EXCEPT ![t] = IF @ = 0 THEN 0 ELSE @ - 1]

(* The program calls a memory function.                                     *)
Call(t) ==
  /\ pc[t] = "idle"
  /\ pc' = [pc EXCEPT ![t] = "guard"]
  /\ UNCHANGED <<ready, made, nest, owner, count, inside>>

(* So does the custom function or the callback it runs.                     *)
CallNested(t) ==
  /\ pc[t] = "hook"
  /\ nest[t] < MaxNest
  /\ pc' = [pc EXCEPT ![t] = "guard"]
  /\ nest' = [nest EXCEPT ![t] = @ + 1]
  /\ UNCHANGED <<ready, made, owner, count, inside>>

(* Mutant: the decrement is armed before the guard returns.                 *)
ShortCircuitUnbalanced(t) ==
  /\ pc[t] = "guard"
  /\ \/ ~ready
     \/ \E seen \in Observed(t) : seen # 0
  /\ Return(t)
  /\ inside' = inside - 1
  /\ UNCHANGED <<ready, made, owner, count>>

(* The guard holds: the original function is called and its result returned.*)
ShortCircuit(t) ==
  /\ pc[t] = "guard"
  /\ \/ ~ready
     \/ \E seen \in Observed(t) : seen # 0
  /\ Return(t)
  /\ UNCHANGED <<ready, made, owner, count, inside>>

PassGuard(t) ==
  /\ pc[t] = "guard"
  /\ ready
  /\ 0 \in Observed(t)
  /\ pc' = [pc EXCEPT ![t] = "lock"]
  /\ UNCHANGED <<ready, made, nest, owner, count, inside>>

(* Mutant: the mutex is a different one for each call.                      *)
LockOfItsOwn(t) ==
  /\ pc[t] = "lock"
  /\ owner' = t
  /\ count' = count + 1
  /\ pc' = [pc EXCEPT ![t] = "locked"]
  /\ UNCHANGED <<ready, made, nest, inside>>

(* The mutex is recursive: its owner would not block.                       *)
Lock(t) ==
  /\ pc[t] = "lock"
  /\ owner \in {t, NoThread}
  /\ owner' = t
  /\ count' = count + 1
  /\ pc' = [pc EXCEPT ![t] = "locked"]
  /\ UNCHANGED <<ready, made, nest, inside>>

(* Mutant: g_inside is not incremented.                                     *)
EnterUncounted(t) ==
  /\ pc[t] = "locked"
  /\ pc' = [pc EXCEPT ![t] = "hook"]
  /\ UNCHANGED <<ready, made, nest, owner, count, inside>>

Enter(t) ==
  /\ pc[t] = "locked"
  /\ inside' = inside + 1
  /\ pc' = [pc EXCEPT ![t] = "hook"]
  /\ UNCHANGED <<ready, made, nest, owner, count>>

(* The custom function returns; it is noexcept, so it always does so here,  *)
(* whatever the callback threw.                                             *)
LeaveHook(t) ==
  /\ pc[t] = "hook"
  /\ pc' = [pc EXCEPT ![t] = "leaving"]
  /\ UNCHANGED <<ready, made, nest, owner, count, inside>>

(* Mutant: g_inside is not decremented.                                     *)
ExitUncounted(t) ==
  /\ pc[t] = "leaving"
  /\ pc' = [pc EXCEPT ![t] = "unlock"]
  /\ UNCHANGED <<ready, made, nest, owner, count, inside>>

Exit(t) ==
  /\ pc[t] = "leaving"
  /\ inside' = inside - 1
  /\ pc' = [pc EXCEPT ![t] = "unlock"]
  /\ UNCHANGED <<ready, made, nest, owner, count>>

(* Mutant: the mutex is locked without a guard object.                      *)
UnlockForgotten(t) ==
  /\ pc[t] = "unlock"
  /\ Return(t)
  /\ UNCHANGED <<ready, made, owner, count, inside>>

Unlock(t) ==
  /\ pc[t] = "unlock"
  /\ count' = count - 1
  /\ owner' = IF count = 1 THEN NoThread ELSE owner
  /\ Return(t)
  /\ UNCHANGED <<ready, made, inside>>

(* The steps of a replacement function itself, the callback apart.          *)
Advance(t) ==
  \/ ShortCircuit(t)
  \/ PassGuard(t)
  \/ Lock(t)
  \/ Enter(t)
  \/ Exit(t)
  \/ Unlock(t)

Step(t) ==
  \/ Call(t)
  \/ CallNested(t)
  \/ LeaveHook(t)
  \/ Advance(t)

Next ==
  \/ AllocateMutex
  \/ CompleteStaticInitialization
  \/ \E t \in Thread : Step(t)

Spec == Init /\ [][Next]_gateVars

-----------------------------------------------------------------------------
(* The thread holds the mutex, and has its increment of g_inside in effect. *)
Holding(t)  == pc[t] \in Locked \/ nest[t] > 0
Counted(t)  == pc[t] \in {"hook", "leaving"} \/ nest[t] > 0

(* A memory function called from inside the custom function or a callback   *)
(* always takes the short-circuit: no thread ever has two frames of a       *)
(* custom function on its stack.  This is what lets the replacement         *)
(* functions call custom_*_with_original with check_recursion = false       *)
(* (unix_common.cpp:59,76,93,112).                                          *)
NoReentry ==
  \A t \in Thread : nest[t] > 0 => nest[t] = 1 /\ pc[t] = "guard"

(* Monitoring code and user callbacks of different threads never run at the *)
(* same time, in spite of the unsynchronised guard (unix_common.cpp:49-52). *)
HookMutualExclusion ==
  \A t, u \in Thread : t # u => ~(Counted(t) /\ Counted(u))

(* The plain counter loses no update: it is one exactly while some thread   *)
(* is between its ++ and its --, so it is zero whenever the gate is idle    *)
(* and monitoring is never left switched off (unix_common.cpp:53-56).       *)
CounterExact ==
  inside = IF \E t \in Thread : Counted(t) THEN 1 ELSE 0

(* The mutex is held exactly by the thread between lock and unlock and is   *)
(* never locked twice by it, whatever its being recursive would allow       *)
(* (unix_common.cpp:52).                                                    *)
LockHeldOnce ==
  /\ \A t \in Thread : owner = t <=> Holding(t)
  /\ count = IF owner = NoThread THEN 0 ELSE 1

(* Nobody waits for or holds the mutex before there is one: a call that     *)
(* comes at any moment of the start never dereferences a null               *)
(* g_memory_function_recursive_mutex (unix_common.cpp:25,30-31,49,52).      *)
MutexExists ==
  ~made => \A t \in Thread : pc[t] \in {"idle", "guard"} /\ nest[t] = 0

(* What makes that so: the flag follows the mutex, and nobody passes the    *)
(* guard before the flag.                                                   *)
StartOrder ==
  /\ ready => made
  /\ ~ready => \A t \in Thread : pc[t] \in {"idle", "guard"} /\ nest[t] = 0

(* The conjunction is inductive.                                            *)
GateInv ==
  /\ TypeOK
  /\ NoReentry
  /\ LockHeldOnce
  /\ CounterExact
  /\ StartOrder

=============================================================================
