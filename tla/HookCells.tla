----------------------------- MODULE HookCells -----------------------------
(***************************************************************************)
(* What registering hooks promises (memory_tools/register_hooks.hpp): one  *)
(* current callback per memory function, which a call of on_malloc,        *)
(* on_realloc, on_calloc or on_free replaces atomically, at some moment    *)
(* between its call and its return, or not at all when it throws           *)
(* std::bad_alloc.                                                         *)
(***************************************************************************)
CONSTANTS
  Thread,     \* the threads that register hooks
  MemFn,      \* the memory functions, each with its hook
  Value,      \* what can be registered
  Unset,      \* a hook nothing was ever registered for
  NoRequest   \* the request of a thread that is not registering

VARIABLES
  hook,       \* the current callback of each memory function
  request,    \* what each thread is registering: <<memory function, value>>
  outcome     \* what became of it: "pending", "done" or "failed"

cellVars == <<hook, request, outcome>>

Init ==
  /\ hook = [f \in MemFn |-> Unset]
  /\ request = [t \in Thread |-> NoRequest]
  /\ outcome = [t \in Thread |-> "pending"]

Begin(t) ==
  /\ request[t] = NoRequest
  /\ \E f \in MemFn, v \in Value : request' = [request EXCEPT ![t] = <<f, v>>]
  /\ UNCHANGED <<hook, outcome>>

Commit(t) ==
  /\ request[t] # NoRequest
  /\ outcome[t] = "pending"
  /\ hook' = [hook EXCEPT ![request[t][1]] = request[t][2]]
  /\ outcome' = [outcome EXCEPT ![t] = "done"]
  /\ UNCHANGED request

(* std::bad_alloc: the hooks stay as they are.                              *)
Abandon(t) ==
  /\ request[t] # NoRequest
  /\ outcome[t] = "pending"
  /\ outcome' = [outcome EXCEPT ![t] = "failed"]
  /\ UNCHANGED <<hook, request>>

Return(t) ==
  /\ outcome[t] # "pending"
  /\ request' = [request EXCEPT ![t] = NoRequest]
  /\ outcome' = [outcome EXCEPT ![t] = "pending"]
  /\ UNCHANGED hook

Next == \E t \in Thread : Begin(t) \/ Commit(t) \/ Abandon(t) \/ Return(t)

Spec == Init /\ [][Next]_cellVars
=============================================================================
