-------------------------- MODULE CallReportProofs --------------------------
(* For any threads and memory functions: what a monitored call prints.      *)
EXTENDS CallReport, TLAPS

USE FreeFnAssumption

(* Between two calls nothing is claimed.                                    *)
LEMMA InitReportInv == Init => ReportInv
<1> SUFFICES ASSUME Init PROVE ReportInv
  OBVIOUS
<1> USE DEF Init
<1>1. TypeOK
  BY DEF TypeOK, Stage, Level, Asked, Word, NothingAsked
<1>2. \A t \in Thread : stage[t] = "idle"
  OBVIOUS
<1> QED
  BY <1>1, <1>2 DEF ReportInv, History, BacktraceOnlyWithLine,
     UnexpectedLogged, QuietByDefault, Logged

(* The types are kept by every step.                                        *)
LEMMA StepReportType ==
  ASSUME TypeOK, [Next]_reportVars PROVE TypeOK'
<1> USE DEF TypeOK, GoTo, Stage, Level
<1>1. ASSUME NEW l \in Level, SetVerbosityLevel(l) PROVE TypeOK'
  BY <1>1 DEF SetVerbosityLevel, callVars
<1>2. ASSUME NEW f \in MemFn, NEW begin \in BOOLEAN, ExpectNo(f, begin) PROVE TypeOK'
  BY <1>2 DEF ExpectNo, callVars
<1>3. ASSUME NEW t \in Thread, NEW f \in MemFn, BuildService(t, f) PROVE TypeOK'
  BY <1>3 DEF BuildService, NothingAsked, Asked, Word
<1>4. ASSUME NEW t \in Thread, DispatchPlain(t) PROVE TypeOK'
  BY <1>4 DEF DispatchPlain
<1>5. ASSUME NEW t \in Thread, DispatchUnexpected(t) PROVE TypeOK'
  BY <1>5 DEF DispatchUnexpected
<1>6. ASSUME NEW t \in Thread, DispatchExpected(t) PROVE TypeOK'
  BY <1>6 DEF DispatchExpected
<1>7. ASSUME NEW t \in Thread, NEW yes \in BOOLEAN, Ignore(t, yes) PROVE TypeOK'
  BY <1>7 DEF Ignore, Asked, Word
<1>8. ASSUME NEW t \in Thread, PrintBacktrace(t) PROVE TypeOK'
  BY <1>8 DEF PrintBacktrace, Asked
<1>9. ASSUME NEW t \in Thread, CallbackReturns(t) PROVE TypeOK'
  BY <1>9 DEF CallbackReturns
<1>10. ASSUME NEW t \in Thread, Log(t) PROVE TypeOK'
  BY <1>10 DEF Log
<1>11. ASSUME NEW t \in Thread, Finish(t) PROVE TypeOK'
  BY <1>11 DEF Finish
<1>12. CASE UNCHANGED reportVars
  BY <1>12 DEF reportVars, callVars
<1> QED
  BY <1>1, <1>2, <1>3, <1>4, <1>5, <1>6, <1>7, <1>8, <1>9, <1>10, <1>11, <1>12
  DEF Next, Call

(* A call's record is its thread's own: a step of another thread, or of the *)
(* level or an expectation, leaves it as it is.                             *)
Kept(t) ==
  /\ stage'[t] = stage[t]
  /\ ignored'[t] = ignored[t]
  /\ backtrace'[t] = backtrace[t]
  /\ printed'[t] = printed[t]
  /\ wrapped'[t] = wrapped[t]
  /\ asked'[t] = asked[t]

LEMMA OthersKept ==
  ASSUME TypeOK, [Next]_reportVars, NEW t \in Thread, ~Call(t)
  PROVE  Kept(t)
<1> USE DEF TypeOK, Kept, GoTo
<1>1. ASSUME NEW u \in Thread, u # t, Call(u) PROVE Kept(t)
  <2>1. ASSUME NEW f \in MemFn, BuildService(u, f) PROVE Kept(t)
    BY <1>1, <2>1 DEF BuildService
  <2>2. CASE DispatchPlain(u)
    BY <1>1, <2>2 DEF DispatchPlain
  <2>3. CASE DispatchUnexpected(u)
    BY <1>1, <2>3 DEF DispatchUnexpected
  <2>4. CASE DispatchExpected(u)
    BY <1>1, <2>4 DEF DispatchExpected
  <2>5. ASSUME NEW yes \in BOOLEAN, Ignore(u, yes) PROVE Kept(t)
    BY <1>1, <2>5 DEF Ignore
  <2>6. CASE PrintBacktrace(u)
    BY <1>1, <2>6 DEF PrintBacktrace
  <2>7. CASE CallbackReturns(u)
    BY <1>1, <2>7 DEF CallbackReturns
  <2>8. CASE Log(u)
    BY <1>1, <2>8 DEF Log
  <2>9. CASE Finish(u)
    BY <1>1, <2>9 DEF Finish
  <2> QED
    BY <1>1, <2>1, <2>2, <2>3, <2>4, <2>5, <2>6, <2>7, <2>8, <2>9 DEF Call
<1>2. ASSUME NEW l \in Level, SetVerbosityLevel(l) PROVE Kept(t)
  BY <1>2 DEF SetVerbosityLevel, callVars
<1>3. ASSUME NEW f \in MemFn, NEW begin \in BOOLEAN, ExpectNo(f, begin) PROVE Kept(t)
  BY <1>3 DEF ExpectNo, callVars
<1>4. CASE UNCHANGED reportVars
  BY <1>4 DEF reportVars, callVars
<1> QED
  BY <1>1, <1>2, <1>3, <1>4 DEF Next

(* What ReportInv says of one call.                                         *)
CallInv(t) ==
  /\ stage[t] # "idle" =>
       /\ wrapped[t] /\ asked[t].word # "ignore" => ~ignored[t]
       /\ asked[t].quiet /\ ~wrapped[t] /\ asked[t].word # "unignore" => ignored[t]
       /\ asked[t].quiet /\ ~asked[t].backtrace => ~backtrace[t]
       /\ asked[t].backtrace => backtrace[t]
  /\ stage[t] = "logged" =>
       /\ asked[t].word # "ignore" =>
            /\ "backtrace" \in printed[t] => "line" \in printed[t]
            /\ asked[t].backtrace /\ "line" \in printed[t] => "backtrace" \in printed[t]
       /\ wrapped[t] /\ asked[t].word # "ignore" => "line" \in printed[t]
       /\ /\ asked[t].quiet /\ ~wrapped[t]
          /\ asked[t].word # "unignore" /\ ~asked[t].backtrace
          => printed[t] = {}

LEMMA ReportInvCalls == ReportInv <=> TypeOK /\ \A t \in Thread : CallInv(t)
BY DEF ReportInv, CallInv, History, BacktraceOnlyWithLine, UnexpectedLogged,
       QuietByDefault, Logged

(* Each of a call's own steps keeps it.                                     *)
LEMMA OwnStep ==
  ASSUME TypeOK, NEW t \in Thread, CallInv(t), Call(t)
  PROVE  CallInv(t)'
<1> USE DEF TypeOK, CallInv, GoTo, Asked
<1>1. ASSUME NEW f \in MemFn, BuildService(t, f) PROVE CallInv(t)'
  BY <1>1 DEF BuildService, NothingAsked, Level
<1>2. CASE DispatchPlain(t)
  BY <1>2 DEF DispatchPlain
<1>3. CASE DispatchUnexpected(t)
  BY <1>3 DEF DispatchUnexpected
<1>4. CASE DispatchExpected(t)
  BY <1>4 DEF DispatchExpected
<1>5. ASSUME NEW yes \in BOOLEAN, Ignore(t, yes) PROVE CallInv(t)'
  BY <1>5 DEF Ignore
<1>6. CASE PrintBacktrace(t)
  BY <1>6 DEF PrintBacktrace
<1>7. CASE CallbackReturns(t)
  BY <1>7 DEF CallbackReturns
<1>8. CASE Log(t)
  BY <1>8 DEF Log, ShouldIgnore
<1>9. CASE Finish(t)
  BY <1>9 DEF Finish
<1> QED
  BY <1>1, <1>2, <1>3, <1>4, <1>5, <1>6, <1>7, <1>8, <1>9 DEF Call

(* ReportInv is inductive.                                                  *)
LEMMA StepReportInv == ReportInv /\ [Next]_reportVars => ReportInv'
<1> SUFFICES ASSUME ReportInv, [Next]_reportVars PROVE ReportInv'
  OBVIOUS
<1>1. TypeOK /\ \A t \in Thread : CallInv(t)
  BY ReportInvCalls
<1>2. TypeOK'
  BY <1>1, StepReportType
<1>3. ASSUME NEW t \in Thread PROVE CallInv(t)'
  <2>1. CASE Call(t)
    BY <1>1, <2>1, OwnStep
  <2>2. CASE ~Call(t)
    <3>1. Kept(t)
      BY <1>1, <2>2, OthersKept
    <3> QED
      BY <1>1, <3>1 DEF Kept, CallInv
  <2> QED
    BY <2>1, <2>2
<1> QED
  BY <1>2, <1>3 DEF ReportInv, CallInv, History, BacktraceOnlyWithLine,
     UnexpectedLogged, QuietByDefault, Logged

LEMMA ReportInvariant == Spec => []ReportInv
BY InitReportInv, StepReportInv, PTL DEF Spec

(* Level, expectations, services and what is printed keep their types.      *)
THEOREM ReportTypeCorrect == Spec => []TypeOK
<1>1. ReportInv => TypeOK
  BY DEF ReportInv
<1> QED
  BY <1>1, ReportInvariant, PTL

(* A backtrace is never printed without its line, nor the line without the  *)
(* backtrace that was asked for, by free's own test too                     *)
(* (memory_tools_service_factory.hpp:44, custom_memory_functions.cpp:294).  *)
THEOREM BacktraceNeedsLine == Spec => []BacktraceOnlyWithLine
<1>1. ReportInv => BacktraceOnlyWithLine
  BY DEF ReportInv
<1> QED
  BY <1>1, ReportInvariant, PTL

(* An unexpected call is logged unless its callback has it ignored          *)
(* (testing_helpers.cpp:35).                                                *)
THEOREM UnexpectedAlwaysLogged == Spec => []UnexpectedLogged
<1>1. ReportInv => UnexpectedLogged
  BY DEF ReportInv
<1> QED
  BY <1>1, ReportInvariant, PTL

(* At verbosity quiet, nothing is printed that was not asked for            *)
(* (memory_tools_service.cpp:35-38), whatever the level becomes meanwhile.  *)
THEOREM NothingUnasked == Spec => []QuietByDefault
<1>1. ReportInv => QuietByDefault
  BY DEF ReportInv
<1> QED
  BY <1>1, ReportInvariant, PTL
=============================================================================
