----------------------------- MODULE CallReport -----------------------------
(***************************************************************************)
(* What a monitored call prints.  The custom function builds a service     *)
(* from the verbosity level, dispatches it to the registered callback,     *)
(* calls the original function and then logs: memory_tools_service.cpp,    *)
(* its factory, verbosity.cpp, the wrapper on_unexpected_f of              *)
(* testing_helpers.cpp and the end of custom_memory_functions.cpp's        *)
(* functions.  Level and expectation are shared by all threads and may     *)
(* change between any two steps of a call; the service belongs to the call.*)
(***************************************************************************)
CONSTANTS
  Thread,  \* the threads that are past the guard of a custom function
  MemFn,   \* the memory functions
  FreeFn   \* free, whose function ends in a way of its own

ASSUME FreeFnAssumption == FreeFn \in MemFn

Level == {"quiet", "debug", "trace"}
Stage == {"idle", "dispatch", "callback", "log", "logged"}

VARIABLES
  level,       \* g_verbosity_level
  unexpected,  \* g_malloc_unexpected and the other three
  stage,       \* where each thread's call is
  fn,          \* the memory function it calls
  ignored,     \* the service's ignored ...
  backtrace,   \* ... and should_print_backtrace
  printed,     \* what the call has printed: "line", "backtrace"
  wrapped,     \* (history) its callback was run as that of an unexpected call
  asked        \* (history) the level it began at, and what its callback asked

callVars == <<stage, fn, ignored, backtrace, printed, wrapped, asked>>
reportVars == <<level, unexpected, callVars>>

(* Was the level quiet; the last of ignore() and unignore(); was there a    *)
(* print_backtrace().                                                       *)
Word  == {"none", "ignore", "unignore"}
Asked == [quiet : BOOLEAN, word : Word, backtrace : BOOLEAN]

TypeOK ==
  /\ level \in Level
  /\ unexpected \in [MemFn -> BOOLEAN]
  /\ stage \in [Thread -> Stage]
  /\ fn \in [Thread -> MemFn]
  /\ ignored \in [Thread -> BOOLEAN]
  /\ backtrace \in [Thread -> BOOLEAN]
  /\ printed \in [Thread -> SUBSET {"line", "backtrace"}]
  /\ wrapped \in [Thread -> BOOLEAN]
  /\ asked \in [Thread -> Asked]

NothingAsked(quiet) ==
  [quiet |-> quiet, word |-> "none", backtrace |-> FALSE]

Init ==
  /\ level \in Level
  /\ unexpected = [f \in MemFn |-> FALSE]
  /\ stage = [t \in Thread |-> "idle"]
  /\ fn = [t \in Thread |-> FreeFn]
  /\ ignored = [t \in Thread |-> TRUE]
  /\ backtrace = [t \in Thread |-> FALSE]
  /\ printed = [t \in Thread |-> {}]
  /\ wrapped = [t \in Thread |-> FALSE]
  /\ asked = [t \in Thread |-> NothingAsked(TRUE)]

-----------------------------------------------------------------------------
(* set_verbosity_level(), expect_no_f_begin() and expect_no_f_end(), by any *)
(* thread or callback.                                                      *)
SetVerbosityLevel(l) ==
  /\ level' = l
  /\ UNCHANGED <<unexpected, callVars>>

ExpectNo(f, begin) ==
  /\ unexpected' = [unexpected EXCEPT ![f] = begin]
  /\ UNCHANGED <<level, callVars>>

GoTo(t, place) == stage' = [stage EXCEPT ![t] = place]

(* The service's constructor.                                               *)
BuildService(t, f) ==
  /\ stage[t] = "idle"
  /\ GoTo(t, "dispatch")
  /\ fn' = [fn EXCEPT ![t] = f]
  /\ ignored' = [ignored EXCEPT ![t] = level = "quiet"]
  /\ backtrace' = [backtrace EXCEPT ![t] = level = "trace"]
  /\ printed' = [printed EXCEPT ![t] = {}]
  /\ wrapped' = [wrapped EXCEPT ![t] = FALSE]
  /\ asked' = [asked EXCEPT ![t] = NothingAsked(level = "quiet")]
  /\ UNCHANGED <<level, unexpected>>

(* The hook is a callback of the user, or null.                             *)
DispatchPlain(t) ==
  /\ stage[t] = "dispatch"
  /\ GoTo(t, "callback") \/ GoTo(t, "log")
  /\ UNCHANGED <<level, unexpected, fn, ignored, backtrace, printed, wrapped, asked>>

(* Mutant: the wrapper leaves the verbosity level in force.                 *)
DispatchUnexpectedQuietly(t) ==
  /\ stage[t] = "dispatch"
  /\ unexpected[fn[t]]
  /\ wrapped' = [wrapped EXCEPT ![t] = TRUE]
  /\ GoTo(t, "callback") \/ GoTo(t, "log")
  /\ UNCHANGED <<level, unexpected, fn, ignored, backtrace, printed, asked>>

(* It is the wrapper around one, and the call is unexpected.                *)
DispatchUnexpected(t) ==
  /\ stage[t] = "dispatch"
  /\ unexpected[fn[t]]
  /\ ignored' = [ignored EXCEPT ![t] = FALSE]
  /\ wrapped' = [wrapped EXCEPT ![t] = TRUE]
  /\ GoTo(t, "callback") \/ GoTo(t, "log")
  /\ UNCHANGED <<level, unexpected, fn, backtrace, printed, asked>>

(* It is the wrapper, and the call is expected.                             *)
DispatchExpected(t) ==
  /\ stage[t] = "dispatch"
  /\ ~unexpected[fn[t]]
  /\ GoTo(t, "log")
  /\ UNCHANGED <<level, unexpected, fn, ignored, backtrace, printed, wrapped, asked>>

(* ignore() and unignore(), from the callback.                              *)
Ignore(t, yes) ==
  /\ stage[t] = "callback"
  /\ ignored' = [ignored EXCEPT ![t] = yes]
  /\ asked' = [asked EXCEPT ![t].word = IF yes THEN "ignore" ELSE "unignore"]
  /\ UNCHANGED <<level, unexpected, stage, fn, backtrace, printed, wrapped>>

PrintBacktrace(t) ==
  /\ stage[t] = "callback"
  /\ backtrace' = [backtrace EXCEPT ![t] = TRUE]
  /\ asked' = [asked EXCEPT ![t].backtrace = TRUE]
  /\ UNCHANGED <<level, unexpected, stage, fn, ignored, printed, wrapped>>

(* The callback returns; or it throws, and nothing of the call is logged.   *)
CallbackReturns(t) ==
  /\ stage[t] = "callback"
  /\ GoTo(t, "log") \/ GoTo(t, "idle")
  /\ UNCHANGED <<level, unexpected, fn, ignored, backtrace, printed, wrapped, asked>>

(* Mutant: a backtrace does not keep the line from being ignored.           *)
ShouldIgnoreLine(t) == ignored[t]

ShouldIgnore(t) == ~backtrace[t] /\ ignored[t]

(* Mutant: the level is looked at again.                                    *)
LogByLevel(t) ==
  /\ stage[t] = "log"
  /\ GoTo(t, "logged")
  /\ printed' = [printed EXCEPT ![t] =
       (IF level # "quiet" THEN {"line"} ELSE {})
       \union (IF level = "trace" THEN {"backtrace"} ELSE {})]
  /\ UNCHANGED <<level, unexpected, fn, ignored, backtrace, wrapped, asked>>

(* The original function has been called.  free prints its backtrace        *)
(* outside the test for the line (custom_memory_functions.cpp:294).         *)
Log(t) ==
  /\ stage[t] = "log"
  /\ GoTo(t, "logged")
  /\ printed' = [printed EXCEPT ![t] =
       {x \in {"line", "backtrace"} :
          /\ ShouldIgnore(t) => fn[t] = FreeFn /\ x = "backtrace"
          /\ x = "backtrace" => backtrace[t]}]
  /\ UNCHANGED <<level, unexpected, fn, ignored, backtrace, wrapped, asked>>

(* Mutant: the call is over without its return.                             *)
FinishNowhere(t) ==
  /\ stage[t] = "logged"
  /\ GoTo(t, "finished")
  /\ UNCHANGED <<level, unexpected, fn, ignored, backtrace, printed, wrapped, asked>>

Finish(t) ==
  /\ stage[t] = "logged"
  /\ GoTo(t, "idle")
  /\ UNCHANGED <<level, unexpected, fn, ignored, backtrace, printed, wrapped, asked>>

Call(t) ==
  \/ \E f \in MemFn : BuildService(t, f)
  \/ DispatchPlain(t)
  \/ DispatchUnexpected(t)
  \/ DispatchExpected(t)
  \/ \E yes \in BOOLEAN : Ignore(t, yes)
  \/ PrintBacktrace(t)
  \/ CallbackReturns(t)
  \/ Log(t)
  \/ Finish(t)

Next ==
  \/ \E l \in Level : SetVerbosityLevel(l)
  \/ \E f \in MemFn, begin \in BOOLEAN : ExpectNo(f, begin)
  \/ \E t \in Thread : Call(t)

Spec == Init /\ [][Next]_reportVars

-----------------------------------------------------------------------------
Logged(t) == stage[t] = "logged"

(* memory_tools_service.hpp:90-91: print_backtrace() "adds a backtrace to   *)
(* the log message", "and only prints if a log is also printed" -- of free  *)
(* too, which asks about the two separately.  What becomes of a call that   *)
(* is ignored after that is IgnoredLastUnlogged.                            *)
BacktraceOnlyWithLine ==
  \A t \in Thread : Logged(t) /\ asked[t].word # "ignore" =>
    /\ "backtrace" \in printed[t] => "line" \in printed[t]
    /\ asked[t].backtrace /\ "line" \in printed[t] => "backtrace" \in printed[t]

(* memory_tools_service.hpp:80: of ignore(), "if called last, no log        *)
(* message for the dynamic memory event will be logged".                    *)
IgnoredLastUnlogged ==
  \A t \in Thread : Logged(t) /\ asked[t].word = "ignore" => printed[t] = {}

(* A call whose callback was run because it was unexpected is logged, at    *)
(* every verbosity level and whatever the level and the expectation become  *)
(* meanwhile, unless that callback says ignore() (testing_helpers.cpp:35).  *)
UnexpectedLogged ==
  \A t \in Thread :
    Logged(t) /\ wrapped[t] /\ asked[t].word # "ignore" => "line" \in printed[t]

(* A call that began at verbosity quiet, that was not unexpected and for    *)
(* which the callback asked for nothing, prints nothing                     *)
(* (memory_tools_service.cpp:35-38), whatever the level is when it ends.    *)
QuietByDefault ==
  \A t \in Thread :
    /\ Logged(t)
    /\ asked[t].quiet /\ ~wrapped[t]
    /\ asked[t].word # "unignore" /\ ~asked[t].backtrace
    => printed[t] = {}

(* Where the history of a call and its service agree; with the above, this  *)
(* is inductive.                                                            *)
History ==
  \A t \in Thread : stage[t] # "idle" =>
    /\ wrapped[t] /\ asked[t].word # "ignore" => ~ignored[t]
    /\ asked[t].quiet /\ ~wrapped[t] /\ asked[t].word # "unignore" => ignored[t]
    /\ asked[t].quiet /\ ~asked[t].backtrace => ~backtrace[t]
    /\ asked[t].backtrace => backtrace[t]

ReportInv ==
  TypeOK /\ History /\ BacktraceOnlyWithLine /\ UnexpectedLogged /\ QuietByDefault
=============================================================================
