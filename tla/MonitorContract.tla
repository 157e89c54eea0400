-------------------------- MODULE MonitorContract --------------------------
(***************************************************************************)
(* What memory tools promise a program that calls memory functions         *)
(* (memory_tools/monitoring.hpp, register_hooks.hpp, testing_helpers.hpp): *)
(* a call runs the callback registered for it if, at some moment during    *)
(* the call, the tools are initialized, monitoring is on for the calling   *)
(* thread and the callback applies, and runs none otherwise.  The call     *)
(* then returns what the original function returns, unless the callback    *)
(* threw.                                                                  *)
(***************************************************************************)
CONSTANTS
  Thread,  \* the threads of the program
  MemFn,   \* the memory functions
  NoFn     \* what a thread outside every memory function calls

VARIABLES
  initialized,  \* the tools are initialized
  monitored,    \* the threads monitoring is on for
  reporting,    \* the memory functions whose hook, if called now, runs a callback
  call,         \* where each thread's call is
  fn            \* the memory function it calls

contractVars == <<initialized, monitored, reporting, call, fn>>

Init ==
  /\ initialized = FALSE
  /\ monitored = {}
  /\ reporting = {}
  /\ call = [t \in Thread |-> "out"]
  /\ fn = [t \in Thread |-> NoFn]

Reported(t) == initialized /\ t \in monitored /\ fn[t] \in reporting

GoTo(t, place) == call' = [call EXCEPT ![t] = place] /\ UNCHANGED fn

Leave(t) ==
  /\ call' = [call EXCEPT ![t] = "out"]
  /\ fn' = [fn EXCEPT ![t] = NoFn]

(* The program, or a callback of it, changes a switch or a hook.            *)
Configure ==
  /\ \E t \in Thread : call[t] \in {"out", "callback"}
  /\ UNCHANGED <<call, fn>>

Call(t) ==
  /\ call[t] = "out"
  /\ call' = [call EXCEPT ![t] = "in"]
  /\ \E f \in MemFn : fn' = [fn EXCEPT ![t] = f]
  /\ UNCHANGED <<initialized, monitored, reporting>>

Report(t) ==
  /\ call[t] = "in"
  /\ Reported(t)
  /\ GoTo(t, "callback")
  /\ UNCHANGED <<initialized, monitored, reporting>>

(* Nothing to report: the original function is called and may return.       *)
Skip(t) ==
  /\ call[t] = "in"
  /\ ~Reported(t)
  /\ GoTo(t, "done") \/ Leave(t)
  /\ UNCHANGED <<initialized, monitored, reporting>>

CallbackReturns(t) ==
  /\ call[t] = "callback"
  /\ GoTo(t, "done")
  /\ UNCHANGED <<initialized, monitored, reporting>>

(* The original function is never called; the program gets nullptr.         *)
CallbackThrows(t) ==
  /\ call[t] = "callback"
  /\ GoTo(t, "lost")
  /\ UNCHANGED <<initialized, monitored, reporting>>

Return(t) ==
  /\ call[t] \in {"done", "lost"}
  /\ Leave(t)
  /\ UNCHANGED <<initialized, monitored, reporting>>

Next ==
  \/ Configure
  \/ \E t \in Thread :
       Call(t) \/ Report(t) \/ Skip(t) \/ CallbackReturns(t)
               \/ CallbackThrows(t) \/ Return(t)

Spec == Init /\ [][Next]_contractVars
=============================================================================
