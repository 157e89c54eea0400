--------------------------- MODULE MCMemoryTools ---------------------------
(* MemoryTools for TLC: programs, by what they call of the library.         *)
EXTENDS MemoryTools, TLC

CONSTANTS t1, t2, malloc, free

MallocFree == <<malloc, free>>

Symmetric == Permutations(Obj)

(* The whole interface, but for what uninitialize() itself calls, and for   *)
(* the switch of all threads, which MCQuickstart sets.                      *)
WholeInterface ==
  [t \in Thread |-> OpName \ {"unregister", "unset", "disable_all", "enable_all"}]

(* Callbacks that switch themselves off, and that replace the hook that     *)
(* runs them; any may throw.                                                *)
AnyCallbacks == {"disable", "on", "on_unexpected"}

NoCalls == {}

(* Both threads set up monitoring for themselves and watch the same hooks.  *)
TwoMonitors == [t \in Thread |-> {"initialize", "on", "enable"}]

(* t1 sets up hooks for all threads, then both make memory calls.           *)
OneMonitor == t1 :> {"initialize", "on", "enable_all"} @@ t2 :> {}
=============================================================================
