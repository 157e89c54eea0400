---------------------------- MODULE MemoryTools ----------------------------
(***************************************************************************)
(* Memory tools as a program meets them: the gate (HookGate), the          *)
(* registered hooks (RegisterHooks) and the switches (Monitoring) under    *)
(* the custom functions of memory_tools/custom_memory_functions.cpp, the   *)
(* expectations of testing_helpers.cpp and uninitialize().                 *)
(*                                                                         *)
(* A thread runs program code, which may                                   *)
(*   - call a memory function: the gate, and behind it the custom function *)
(*     check -> enabled -> section -> load -> invoke [-> callback] -> end  *)
(*     -> return (the values of step);                                     *)
(*   - set a switch, or start on_f or uninitialize(), which run their own  *)
(*     steps, allocating and freeing through the very functions monitored. *)
(* A callback is program code again, run at step "callback".               *)
(***************************************************************************)
EXTENDS Integers, Sequences

CONSTANTS
  Thread,      \* the threads of the program
  NoThread,    \* the owner of the unlocked mutex
  MaxNest,     \* bound on the nesting of calls
  MemFn,       \* the memory functions
  FnSeq,       \* all of them, in the order uninitialize() resets their hooks
  AllocFn,     \* the one operator new calls
  FreeFn,      \* the one operator delete calls
  Obj, NoObj, Dead, Null, Unset, NoRequest,  \* see RegisterHooks
  Ops,         \* what each thread's program calls of the library ...
  CallbackOps  \* ... and what its callbacks call

OpName ==
  {"initialize", "uninitialize", "on", "on_unexpected", "unregister",
   "enable", "disable", "unset", "enable_all", "disable_all",
   "expect_begin", "expect_end"}

ASSUME FnAssumption ==
  /\ FnSeq \in Seq(MemFn)
  /\ \A f \in MemFn : \E i \in 1 .. Len(FnSeq) : FnSeq[i] = f
  /\ AllocFn \in MemFn
  /\ FreeFn \in MemFn

ASSUME DistinctAssumption ==
  /\ NoThread \notin Thread
  /\ MaxNest \in Nat
  /\ NoObj \notin Obj
  /\ Null \notin {"plain", "unexpected"}
  /\ Dead \notin {"plain", "unexpected", Null}
  /\ NoRequest \notin MemFn \X {"plain", "unexpected", Null}

ASSUME OpsAssumption ==
  /\ Ops \in [Thread -> SUBSET OpName]
  /\ CallbackOps \in SUBSET OpName

(* What is registered: a callback of the program, or the wrapper            *)
(* on_unexpected_f puts around one.                                         *)
Callback == {"plain", "unexpected"}

VARIABLES
  ready, made, pc, nest, owner, count, inside,              \* HookGate
  cell, content, at, request, held, using,                  \* RegisterHooks
  initialized, enabled, tlsSet, tlsEnabled, insideImpl,     \* Monitoring
  unexpected,  \* g_malloc_unexpected and the other three
  fn,          \* the memory function of each thread's outermost call
  step,        \* where each thread is in the custom function it runs
  threw,       \* the threads whose callback threw during this call
  own,         \* the threads whose outermost call is made by on_f itself
  waiting,     \* the threads whose on_f has made its present call of new/delete
  uninit,      \* the next statement of each thread's uninitialize(), 0 outside
  helper       \* where each thread is in on_unexpected_f

Gate  == INSTANCE HookGate
Hooks == INSTANCE RegisterHooks
Mon   == INSTANCE Monitoring

gateVars  == <<ready, made, pc, nest, owner, count, inside>>
hookVars  == <<cell, content, at, request, held, using>>
monVars   == <<initialized, enabled, tlsSet, tlsEnabled, insideImpl>>
toolVars  == <<unexpected, fn, step, threw, own, waiting, uninit, helper>>
vars == <<gateVars, hookVars, monVars, toolVars>>

Deciding == {"check", "enabled", "section", "load", "invoke"}
Decided  == {"end", "return"}
StepName == Deciding \union Decided \union {"none", "callback"}

UninitLen == 2 * Len(FnSeq) + 3

TypeOK ==
  /\ Gate!TypeOK
  /\ Hooks!TypeOK
  /\ Mon!TypeOK
  /\ unexpected \in [MemFn -> BOOLEAN]
  /\ fn \in [Thread -> MemFn]
  /\ step \in [Thread -> StepName]
  /\ threw \subseteq Thread
  /\ own \subseteq Thread
  /\ waiting \subseteq Thread
  /\ uninit \in [Thread -> 0 .. UninitLen]
  /\ helper \in [Thread -> {"none", "wrap", "on", "unwrap", "unwind"}]

(* main() starts: the library's constructor has run.                        *)
Init ==
  /\ ready = TRUE
  /\ made = TRUE
  /\ pc = [t \in Thread |-> "idle"]
  /\ nest = [t \in Thread |-> 0]
  /\ owner = NoThread
  /\ count = 0
  /\ inside = 0
  /\ Hooks!Init
  /\ Mon!Init
  /\ unexpected = [f \in MemFn |-> FALSE]
  /\ fn = [t \in Thread |-> AllocFn]
  /\ step = [t \in Thread |-> "none"]
  /\ threw = {}
  /\ own = {}
  /\ waiting = {}
  /\ uninit = [t \in Thread |-> 0]
  /\ helper = [t \in Thread |-> "none"]

GoTo(t, place) == step' = [step EXCEPT ![t] = place]

-----------------------------------------------------------------------------
(* Whose turn it is on a thread.                                            *)
InCallback(t) == pc[t] = "hook" /\ nest[t] = 0 /\ step[t] = "callback"

(* Program code runs: the program's own, or that of a callback.  (A         *)
(* callback run by on_f's own allocation may do anything but register; one  *)
(* run inside uninitialize() only returns.)                                 *)
ProgramRuns(t) ==
  /\ uninit[t] = 0
  /\ \/ pc[t] = "idle" /\ at[t] = "idle" /\ helper[t] = "none"
     \/ InCallback(t) /\ (at[t] = "idle" \/ t \in own)

MayCall(t, op) ==
  /\ ProgramRuns(t)
  /\ op \in IF pc[t] = "idle" THEN Ops[t] ELSE CallbackOps

(* on_f itself runs, rather than a memory function it called.               *)
OnRuns(t) ==
  /\ at[t] # "idle"
  /\ t \notin own
  /\ pc[t] = "idle" \/ InCallback(t)

(* So does uninitialize().                                                  *)
UninitRuns(t) ==
  /\ uninit[t] # 0
  /\ at[t] = "idle"
  /\ pc[t] = "idle" \/ InCallback(t)

(* The memory function f is called: from outside, or, with one on the stack *)
(* already, from inside a callback.                                         *)
CallFn(t, f) ==
  \/ /\ Gate!Call(t)
     /\ fn' = [fn EXCEPT ![t] = f]
  \/ /\ Gate!CallNested(t)
     /\ UNCHANGED fn

-----------------------------------------------------------------------------
(* What program code does.                                                  *)
ProgramCalls(t) ==
  /\ ProgramRuns(t)
  /\ \E f \in MemFn : CallFn(t, f)
  /\ UNCHANGED <<hookVars, monVars,
                 unexpected, step, threw, own, waiting, uninit, helper>>

SwitchesBy(t, op) ==
  /\ MayCall(t, op)
  /\ \/ op = "initialize"  /\ Mon!Initialize
     \/ op = "enable"      /\ Mon!EnableMonitoring(t)
     \/ op = "disable"     /\ Mon!DisableMonitoring(t)
     \/ op = "unset"       /\ Mon!UnsetMonitoring(t)
     \/ op = "enable_all"  /\ Mon!EnableInAllThreads
     \/ op = "disable_all" /\ Mon!DisableInAllThreads
  /\ UNCHANGED <<gateVars, hookVars, toolVars>>

Switches(t) == \E op \in OpName : SwitchesBy(t, op)

(* expect_no_f_begin() and expect_no_f_end().                               *)
ExpectNo(f, begin) == unexpected' = [unexpected EXCEPT ![f] = begin]

Expects(t) ==
  /\ \E f \in MemFn :
       \/ MayCall(t, "expect_begin") /\ ExpectNo(f, TRUE)
       \/ MayCall(t, "expect_end")   /\ ExpectNo(f, FALSE)
  /\ UNCHANGED <<gateVars, hookVars, monVars,
                 fn, step, threw, own, waiting, uninit, helper>>

(* on_f, of a callback or of what get_on_f returned; and on_unexpected_f     *)
(* where a callback calls it: what it allocates around on_f is turned away  *)
(* at the gate like any call made in a callback.                            *)
Registers(t) ==
  /\ \E f \in MemFn :
       \/ MayCall(t, "on") /\ \E v \in Callback : Hooks!BeginOn(t, f, v)
       \/ MayCall(t, "unregister") /\ Hooks!BeginOn(t, f, Null)
       \/ /\ InCallback(t)
          /\ MayCall(t, "on_unexpected")
          /\ Hooks!BeginOn(t, f, "unexpected")
  /\ Mon!BeginSection
  /\ UNCHANGED <<gateVars, toolVars>>

BeginsHelper(t) ==
  /\ pc[t] = "idle"
  /\ MayCall(t, "on_unexpected")
  /\ helper' = [helper EXCEPT ![t] = "wrap"]
  /\ UNCHANGED <<gateVars, hookVars, monVars,
                 unexpected, fn, step, threw, own, waiting, uninit>>

BeginsUninitialize(t) ==
  /\ MayCall(t, "uninitialize")
  /\ at[t] = "idle"
  /\ uninit' = [uninit EXCEPT ![t] = 1]
  /\ UNCHANGED <<gateVars, hookVars, monVars,
                 unexpected, fn, step, threw, own, waiting, helper>>

-----------------------------------------------------------------------------
(* uninitialize(), statement by statement.                                  *)
Statement(t, i) ==
  /\ UninitRuns(t)
  /\ uninit[t] = i

(* Mutant: uninitialize() goes on behind its last statement.                *)
NextStatementUnbounded(t) == uninit' = [uninit EXCEPT ![t] = @ + 1]

NextStatement(t) ==
  uninit' = [uninit EXCEPT ![t] = IF @ = UninitLen THEN 0 ELSE @ + 1]

(* Mutant: uninitialize() leaves the switch of its thread.                  *)
UninitSwitchesOfAll(t) ==
  /\ \/ Statement(t, 1) /\ UNCHANGED monVars
     \/ Statement(t, 2) /\ Mon!DisableInAllThreads
     \/ Statement(t, UninitLen) /\ Mon!EndUninitialize
  /\ NextStatement(t)
  /\ UNCHANGED <<gateVars, hookVars,
                 unexpected, fn, step, threw, own, waiting, helper>>

UninitSwitches(t) ==
  /\ \/ Statement(t, 1) /\ Mon!UnsetMonitoring(t)
     \/ Statement(t, 2) /\ Mon!DisableInAllThreads
     \/ Statement(t, UninitLen) /\ Mon!EndUninitialize
  /\ NextStatement(t)
  /\ UNCHANGED <<gateVars, hookVars,
                 unexpected, fn, step, threw, own, waiting, helper>>

(* on_f(nullptr) for each memory function; the statement ends with EndsOn.  *)
UninitUnregisters(t) ==
  /\ \E i \in 1 .. Len(FnSeq) :
       Statement(t, 2 + i) /\ Hooks!BeginOn(t, FnSeq[i], Null)
  /\ Mon!BeginSection
  /\ UNCHANGED <<gateVars, toolVars>>

(* Mutant: uninitialize() leaves the expectations.                          *)
UninitExpectsNothing(t) ==
  /\ \E i \in 1 .. Len(FnSeq) : Statement(t, 2 + Len(FnSeq) + i)
  /\ NextStatement(t)
  /\ UNCHANGED <<gateVars, hookVars, monVars,
                 unexpected, fn, step, threw, own, waiting, helper>>

UninitExpects(t) ==
  /\ \E i \in 1 .. Len(FnSeq) :
       Statement(t, 2 + Len(FnSeq) + i) /\ ExpectNo(FnSeq[i], FALSE)
  /\ NextStatement(t)
  /\ UNCHANGED <<gateVars, hookVars, monVars,
                 fn, step, threw, own, waiting, helper>>

-----------------------------------------------------------------------------
(* on_unexpected_f, called from outside every memory function.  It copies   *)
(* the callback into a wrapper on the heap, calls on_f with that and deletes *)
(* it, with as many calls of new and delete as the callback's type takes;   *)
(* no section holds monitoring off during them.                             *)
HelperRuns(t, places) ==
  /\ helper[t] \in places
  /\ pc[t] = "idle" /\ at[t] = "idle" /\ uninit[t] = 0

HelperGoesTo(t, place) == helper' = [helper EXCEPT ![t] = place]

HelperCalls(t) ==
  /\ \/ HelperRuns(t, {"wrap"}) /\ CallFn(t, AllocFn)
     \/ HelperRuns(t, {"wrap", "unwrap", "unwind"}) /\ CallFn(t, FreeFn)
  /\ UNCHANGED <<hookVars, monVars,
                 unexpected, step, threw, own, waiting, uninit, helper>>

HelperRegisters(t) ==
  /\ HelperRuns(t, {"wrap"})
  /\ \E f \in MemFn : Hooks!BeginOn(t, f, "unexpected")
  /\ Mon!BeginSection
  /\ HelperGoesTo(t, "on")
  /\ UNCHANGED <<gateVars, unexpected, fn, step, threw, own, waiting, uninit>>

(* There is no memory for the wrapper, or what it deletes is deleted.       *)
HelperEnds(t) ==
  /\ \/ HelperRuns(t, {"wrap"}) /\ HelperGoesTo(t, "unwind")
     \/ HelperRuns(t, {"unwrap", "unwind"}) /\ HelperGoesTo(t, "none")
  /\ UNCHANGED <<gateVars, hookVars, monVars,
                 unexpected, fn, step, threw, own, waiting, uninit>>

-----------------------------------------------------------------------------
(* on_f.  Its new and its delete call a memory function first; a malloc whose *)
(* callback threw returned nullptr, and new throws.                         *)
OnCalls(t) ==
  /\ OnRuns(t)
  /\ t \notin waiting
  /\ \/ at[t] = "construct" /\ CallFn(t, AllocFn)
     \/ at[t] = "destroy"   /\ CallFn(t, FreeFn)
  /\ waiting' = waiting \union {t}
  /\ own' = IF pc[t] = "idle" THEN own \union {t} ELSE own
  /\ UNCHANGED <<hookVars, monVars,
                 unexpected, step, threw, uninit, helper>>

OnAllocates(t) ==
  /\ OnRuns(t)
  /\ t \in waiting
  /\ \/ t \notin threw /\ Hooks!Construct(t)
     \/ Hooks!ConstructThrows(t)
     \/ Hooks!Destroy(t)
  /\ waiting' = waiting \ {t}
  /\ threw' = threw \ {t}
  /\ UNCHANGED <<gateVars, monVars,
                 unexpected, fn, step, own, uninit, helper>>

OnExchanges(t) ==
  /\ OnRuns(t)
  /\ Hooks!Exchange(t)
  /\ UNCHANGED <<gateVars, monVars, toolVars>>

(* on_f gives control back to the on_unexpected_f that called it.           *)
HelperIsGivenBack(t) ==
  IF helper[t] # "on" THEN UNCHANGED helper
  ELSE HelperGoesTo(t, IF at[t] = "finish" THEN "unwrap" ELSE "unwind")

(* Mutant: uninitialize() tries again where on_f threw.                     *)
EndsOnRetrying(t) ==
  /\ OnRuns(t)
  /\ Hooks!EndOn(t)
  /\ Mon!EndSection
  /\ IF uninit[t] # 0 /\ at[t] = "finish" THEN NextStatement(t) ELSE UNCHANGED uninit
  /\ HelperIsGivenBack(t)
  /\ UNCHANGED <<gateVars, unexpected, fn, step, threw, own, waiting>>

(* on_f returns, or throws std::bad_alloc out of uninitialize() too.        *)
EndsOn(t) ==
  /\ OnRuns(t)
  /\ Hooks!EndOn(t)
  /\ Mon!EndSection
  /\ \/ uninit[t] = 0 /\ UNCHANGED uninit
     \/ uninit[t] # 0 /\ at[t] = "finish" /\ NextStatement(t)
     \/ uninit[t] # 0 /\ at[t] = "unwind" /\ uninit' = [uninit EXCEPT ![t] = 0]
  /\ HelperIsGivenBack(t)
  /\ UNCHANGED <<gateVars, unexpected, fn, step, threw, own, waiting>>

-----------------------------------------------------------------------------
(* The gate, around the custom function.                                    *)
Enters(t) ==
  /\ Gate!Enter(t)
  /\ GoTo(t, "check")
  /\ UNCHANGED <<hookVars, monVars,
                 unexpected, fn, threw, own, waiting, uninit, helper>>

PassesGate(t) ==
  /\ Gate!PassGuard(t) \/ Gate!Lock(t) \/ Gate!Exit(t)
  /\ UNCHANGED <<hookVars, monVars, toolVars>>

(* A replacement function returns; when it is the outermost one, on_f's own *)
(* call is over.  What on_f's call returned is still to be looked at; where *)
(* the wrapper's new got nullptr, it throws.                                *)
Returns(t) ==
  /\ Gate!ShortCircuit(t) \/ Gate!Unlock(t)
  /\ own' = IF nest[t] = 0 THEN own \ {t} ELSE own
  /\ threw' = IF nest[t] = 0 /\ t \notin own THEN threw \ {t} ELSE threw
  /\ IF nest[t] = 0 /\ helper[t] = "wrap" /\ t \in threw /\ fn[t] = AllocFn
       THEN HelperGoesTo(t, "unwind")
       ELSE UNCHANGED helper
  /\ UNCHANGED <<hookVars, monVars,
                 unexpected, fn, step, waiting, uninit>>

-----------------------------------------------------------------------------
(* The custom function: custom_malloc_with_original_except and the like.    *)
AtStep(t, place) == pc[t] = "hook" /\ nest[t] = 0 /\ step[t] = place

(* initialized(), and the first half of monitoring_enabled().  A call that  *)
(* is not monitored calls the original function and returns.                *)
Check(t) ==
  /\ AtStep(t, "check")
  /\ \/ Mon!Applicable  /\ GoTo(t, "enabled")
     \/ ~Mon!Applicable /\ GoTo(t, "return")
  /\ UNCHANGED <<gateVars, hookVars, monVars,
                 unexpected, fn, threw, own, waiting, uninit, helper>>

CheckEnabled(t) ==
  /\ AtStep(t, "enabled")
  /\ \/ Mon!SwitchedOn(t)  /\ GoTo(t, "section")
     \/ ~Mon!SwitchedOn(t) /\ GoTo(t, "return")
  /\ UNCHANGED <<gateVars, hookVars, monVars,
                 unexpected, fn, threw, own, waiting, uninit, helper>>

BeginCustomSection(t) ==
  /\ AtStep(t, "section")
  /\ Mon!BeginSection
  /\ GoTo(t, "load")
  /\ UNCHANGED <<gateVars, hookVars,
                 unexpected, fn, threw, own, waiting, uninit, helper>>

LoadCallback(t) ==
  /\ AtStep(t, "load")
  /\ Hooks!Load(t, fn[t])
  /\ GoTo(t, "invoke")
  /\ UNCHANGED <<gateVars, monVars,
                 unexpected, fn, threw, own, waiting, uninit, helper>>

(* Mutant: the wrapper of on_unexpected_f does not look at the expectation. *)
RunsCallbackAlways(v, f) == v \in Callback

(* Does a hook that holds v run a callback when f is called?                *)
RunsCallback(v, f) == v = "plain" \/ (v = "unexpected" /\ unexpected[f])

(* A variant that has been deleted reads as any of the values it can hold.  *)
MayRun(t) ==
  \E v \in IF content[using[t]] = Dead THEN Hooks!Value ELSE {content[using[t]]} :
     RunsCallback(v, fn[t])

MayNotRun(t) ==
  \E v \in IF content[using[t]] = Dead THEN Hooks!Value ELSE {content[using[t]]} :
     ~RunsCallback(v, fn[t])

InvokeCallback(t) ==
  /\ AtStep(t, "invoke")
  /\ using[t] # NoObj
  /\ MayRun(t)
  /\ GoTo(t, "callback")
  /\ UNCHANGED <<gateVars, hookVars, monVars,
                 unexpected, fn, threw, own, waiting, uninit, helper>>

NoCallback(t) ==
  /\ AtStep(t, "invoke")
  /\ \/ using[t] = NoObj /\ UNCHANGED hookVars
     \/ using[t] # NoObj /\ MayNotRun(t) /\ Hooks!Release(t)
  /\ GoTo(t, "end")
  /\ UNCHANGED <<gateVars, monVars,
                 unexpected, fn, threw, own, waiting, uninit, helper>>

(* Mutant: the section is not closed where the callback threw.              *)
CallbackEndsUnscoped(t) ==
  /\ InCallback(t)
  /\ ProgramRuns(t) \/ (uninit[t] # 0 /\ t \in own)
  /\ Hooks!Release(t)
  /\ \/ GoTo(t, "end") /\ UNCHANGED threw
     \/ GoTo(t, "return") /\ threw' = threw \union {t}
  /\ UNCHANGED <<gateVars, monVars,
                 unexpected, fn, own, waiting, uninit, helper>>

(* The callback returns (dispatch_callback then looks at the variant once   *)
(* more) and the original function is called, or it throws and it is not.   *)
CallbackEnds(t) ==
  /\ InCallback(t)
  /\ ProgramRuns(t) \/ (uninit[t] # 0 /\ t \in own)
  /\ Hooks!Release(t)
  /\ GoTo(t, "end")
  /\ \/ UNCHANGED threw
     \/ threw' = threw \union {t}
  /\ UNCHANGED <<gateVars, monVars,
                 unexpected, fn, own, waiting, uninit, helper>>

EndCustomSection(t) ==
  /\ AtStep(t, "end")
  /\ Mon!EndSection
  /\ GoTo(t, "return")
  /\ UNCHANGED <<gateVars, hookVars,
                 unexpected, fn, threw, own, waiting, uninit, helper>>

LeaveCustom(t) ==
  /\ AtStep(t, "return")
  /\ Gate!LeaveHook(t)
  /\ GoTo(t, "none")
  /\ UNCHANGED <<hookVars, monVars,
                 unexpected, fn, threw, own, waiting, uninit, helper>>

-----------------------------------------------------------------------------
Program(t) ==
  \/ ProgramCalls(t)
  \/ Switches(t)
  \/ Expects(t)
  \/ Registers(t)
  \/ BeginsHelper(t)
  \/ BeginsUninitialize(t)

(* The library's own steps: none waits for the program.                     *)
Library(t) ==
  \/ UninitSwitches(t)
  \/ UninitUnregisters(t)
  \/ UninitExpects(t)
  \/ HelperCalls(t)
  \/ HelperRegisters(t)
  \/ HelperEnds(t)
  \/ OnCalls(t)
  \/ OnAllocates(t)
  \/ OnExchanges(t)
  \/ EndsOn(t)
  \/ Enters(t)
  \/ PassesGate(t)
  \/ Returns(t)
  \/ Check(t)
  \/ CheckEnabled(t)
  \/ BeginCustomSection(t)
  \/ LoadCallback(t)
  \/ InvokeCallback(t)
  \/ NoCallback(t)
  \/ EndCustomSection(t)
  \/ LeaveCustom(t)

Next == \E t \in Thread : Program(t) \/ Library(t) \/ CallbackEnds(t)

Spec == Init /\ [][Next]_vars

(* A running thread keeps running; a callback that is given the processor   *)
(* again and again returns or throws.                                       *)
Fairness ==
  \A t \in Thread : WF_vars(Library(t)) /\ SF_vars(CallbackEnds(t))

FairSpec == Spec /\ Fairness

-----------------------------------------------------------------------------
(* The program's call of a memory function, as MonitorContract sees it: the *)
(* library's own allocations and calls made inside a callback are invisible.*)
Place(t) ==
  IF pc[t] = "idle" \/ t \in own THEN "out"
  ELSE IF InCallback(t) \/ nest[t] > 0 THEN "callback"
  ELSE IF \/ pc[t] \in {"guard", "lock", "locked"}
          \/ pc[t] = "hook" /\ step[t] \in Deciding THEN "in"
  ELSE IF t \in threw THEN "lost" ELSE "done"

(* monitoring.hpp:27-38: a thread's own switch, where it has set one, and   *)
(* the switch of all threads where it has not.                              *)
Monitored ==
  {t \in Thread : (tlsSet[t] /\ tlsEnabled[t]) \/ (~tlsSet[t] /\ enabled)}

(* on_f's callbacks always run, on_unexpected_f's only where f is not       *)
(* expected (testing_helpers.hpp:26,48).                                    *)
HookIs(f, v) == cell[f] # NoObj /\ content[cell[f]] = v

Reporting ==
  {f \in MemFn : HookIs(f, "plain") \/ (HookIs(f, "unexpected") /\ unexpected[f])}

Contract == INSTANCE MonitorContract WITH
  NoFn <- NoRequest,
  monitored <- Monitored,
  reporting <- Reporting,
  call <- [t \in Thread |-> Place(t)],
  fn <- [t \in Thread |-> IF Place(t) = "out" THEN NoRequest ELSE fn[t]]

(* testing_helpers.hpp:37: "Call corresponding callback if the given        *)
(* statements call malloc" -- every call of the program is reported exactly *)
(* when the switches, expectations and hooks in effect say so.              *)
ReportsAsPromised == Contract!Spec

(* register_hooks.hpp:39: "Register a hook to be called on malloc()", of    *)
(* all calls but those of "the implementation of memory tools" -- once no   *)
(* on_f is under way, a call the hook applies to does not pass it by.       *)
ConcurrentCallsReported ==
  [][\A t \in Thread :
       /\ Contract!Reported(t)
       /\ \A u \in Thread : at[u] = "idle"
       => ~(Place(t) = "in" /\ Place(t)' \in {"out", "done"})]_vars

(* The new and the delete of on_f never run a user's callback               *)
(* (register_hooks.cpp:32: "prevents new from triggering existing hooks").  *)
(* Those of on_unexpected_f are not meant by it: see the next one.          *)
OwnAllocationsUnreported == \A t \in own : step[t] # "callback"

(* register_hooks.hpp:41: "Some dynamic memory calls are expected (the      *)
(* implementation of memory tools), so only "unexpected" calls [...] cause  *)
(* the hooks to be called" -- no call that the library makes runs a hook,   *)
(* those of on_unexpected_f included.                                       *)
ImplementationUnreported ==
  \A t \in Thread :
    t \in own \/ helper[t] \in {"wrap", "unwrap", "unwind"} => step[t] # "callback"

(* A ScopedImplementationSection is in scope on the thread.                 *)
InScope(t) ==
  \/ at[t] # "idle"
  \/ step[t] \in {"load", "invoke", "callback", "end"}

(* A section is never left open: when no ScopedImplementationSection         *)
(* is in scope, monitoring is not held off (custom_memory_functions.cpp:66, *)
(* register_hooks.cpp:33), whatever threw.                                  *)
SectionsClose == (\A t \in Thread : ~InScope(t)) => ~insideImpl

(* monitoring.hpp:30: "The thread-specific `disable()` will disable hooks   *)
(* in that thread even if `enable_in_all_threads()` has been called."       *)
DisabledThreadSilent ==
  \A t \in Thread :
    step[t] \in {"section", "load", "invoke"} /\ tlsSet[t] => tlsEnabled[t]

(* A thread is somewhere in a custom function exactly while it is behind    *)
(* the gate.                                                                *)
StepInHook ==
  \A t \in Thread : step[t] # "none" <=> pc[t] = "hook" \/ nest[t] > 0

(* Callbacks of different threads never overlap: a callback may touch what  *)
(* the callbacks of other threads touch without a lock of its own           *)
(* (unix_common.cpp:52 around custom_memory_functions.cpp:70).              *)
OneCallbackAtATime ==
  \A t, u \in Thread : step[t] = "callback" /\ step[u] = "callback" => t = u

(* The conjunction is inductive.                                            *)
ToolsInv ==
  /\ Gate!GateInv
  /\ Hooks!HooksInv
  /\ TypeOK
  /\ StepInHook
  /\ SectionsClose
  /\ DisabledThreadSilent

(* initialize.hpp:67: uninitialize() "Also resets all state and clears all  *)
(* callbacks." -- when it returns to a program that had called initialize(), *)
(* nothing is left of what a thread alone set up.                           *)
UninitReturns(t) == uninit[t] = UninitLen /\ uninit'[t] = 0

UninitializeResets ==
  [][\A t \in Thread :
       UninitReturns(t) /\ initialized =>
         /\ t \notin Monitored'
         /\ \A f \in MemFn : ~unexpected'[f] /\ content'[cell'[f]] = Null]_vars

(* initialize.hpp:64: "Calling this function before `initialize()` does     *)
(* nothing, and false will be returned." -- tools that are not initialized  *)
(* when uninitialize() is called are not when it has returned.              *)
EarlyUninitializeDoesNothing ==
  [][\A t \in Thread : UninitReturns(t) /\ ~initialized => ~initialized']_vars

(* Every memory call the program makes returns, and so does uninitialize(): *)
(* callbacks that allocate, register or throw included.                     *)
CallsReturn ==
  \A t \in Thread :
    /\ pc[t] # "idle" ~> pc[t] = "idle"
    /\ uninit[t] # 0 ~> uninit[t] = 0
=============================================================================
