-------------------------- MODULE QuickstartProofs --------------------------
(***************************************************************************)
(* What a test program may rely on, for any number of workers that go on   *)
(* working beside it and of memory functions, and of EXPECT_NO_F inside one *)
(* another: what is_working() returns unless it is disturbed, that it       *)
(* leaves nothing of itself behind, that a test fails only where it         *)
(* deserves to, and that the next test starts from nothing.                 *)
(*                                                                         *)
(* The workers keep out of where the test's thread is and of what it has    *)
(* set up (Placed and UninitInv of MemoryToolsProofs), though not of its    *)
(* sections and of the gate; the rest says what the library's state is at   *)
(* each stage of the script.                                                *)
(***************************************************************************)
EXTENDS Quickstart, MemoryToolsProofs

Workers == Thread \ {Main}

(* Only the test's thread registers hooks or uninitializes.                 *)
WorkersOnlyCall ==
  \A t \in Workers : at[t] = "idle" /\ uninit[t] = 0 /\ helper[t] = "none"

LibInv ==
  ToolsInv /\ ready /\ Placed(Main) /\ UninitInv(Main) /\ WorkersOnlyCall

(* on_f and uninitialize() run outside callbacks, but for their own calls.  *)
Outside ==
  at[Main] # "idle" \/ uninit[Main] # 0 => pc[Main] = "idle" \/ Main \in own

(* The registration under way is the stage's.                               *)
Asked ==
  /\ uninit[Main] # 0 => stage = "uninitialize"
  /\ helper[Main] # "none" => stage = "register"
  /\ helper[Main] = "on" <=> stage = "register" /\ at[Main] # "idle"
  /\ at[Main] # "idle" /\ uninit[Main] = 0 =>
       \/ stage = "register" /\ request[Main] = <<MapSeq[nth], "unexpected">>
       \/ stage = "swap"     /\ request[Main] = <<AllocFn, "plain">>
       \/ stage = "restore"  /\ request[Main] = <<AllocFn, saved>>

Counts ==
  /\ stage = "initialize" => nth = 1
  /\ stage = "register" => nth <= Len(MapSeq)

(* Which hooks are set at which stage.                                      *)
IsSetUp(f) == HookIs(f, "unexpected")

Registered ==
  /\ stage = "register" => \A i \in 1 .. nth - 1 : IsSetUp(MapSeq[i])
  /\ helper[Main] = "unwrap" => IsSetUp(MapSeq[nth])

Hooked ==
  stage \in {"enable", "get", "swap", "probe", "probed", "restore", "body"} =>
    /\ \A f \in MemFn \ {AllocFn} : IsSetUp(f)
    /\ stage \in {"enable", "get", "body"} => IsSetUp(AllocFn)
    /\ stage = "swap" /\ at[Main] \notin {"destroy", "finish"} => IsSetUp(AllocFn)
    /\ stage \in {"probe", "probed"} => HookIs(AllocFn, "plain")
    /\ IsWorkingRuns => saved = "unexpected"

(* The test's thread is monitored from "get" to the end of the body.        *)
SwitchedOn ==
  /\ stage \in {"register", "enable", "get", "body"} \/ IsWorkingRuns => initialized
  /\ stage \in {"get", "body"} \/ IsWorkingRuns => tlsSet[Main] /\ tlsEnabled[Main]

(* The malloc of is_working() has not come to the end of its callback yet.  *)
Probing ==
  /\ fn[Main] = AllocFn /\ nest[Main] = 0
  /\ \/ pc[Main] \in {"guard", "lock", "locked"}
     \/ pc[Main] = "hook" /\ step[Main] \in Deciding
     \/ pc[Main] = "hook" /\ step[Main] = "callback" /\ HoldsProbe(Main)

Probed ==
  /\ stage = "probed" => called \/ disturbed \/ Probing
  /\ stage \in {"restore", "body"} => called \/ disturbed

(* Nobody else is in a memory function during a probe that is undisturbed.  *)
ProbesAlone == stage = "probed" /\ ~disturbed => ~Busy

(* The callback of is_working() exists nowhere but there.                   *)
NoPlain == \A o \in Obj : content[o] # "plain"

PlainScoped ==
  /\ \A f \in MemFn \ {AllocFn} : ~HookIs(f, "plain")
  /\ ~dangling /\ ~IsWorkingRuns => NoPlain

(* A function is unexpected only for an EXPECT_NO_F that is open or left.   *)
Explained == \A f \in MemFn : unexpected[f] => open[f] > 0 \/ f \in left

(* A call that goes on to its hook was monitored.                           *)
Watching ==
  \A t \in Thread : step[t] \in {"section", "load", "invoke"} => t \in watched

(* The test's thread has the callback of is_working() in is_working() only. *)
Heard ==
  Main \in heard =>
    step[Main] \in {"invoke", "callback"} /\ (dangling \/ IsWorkingRuns)

ScriptInv ==
  /\ Outside
  /\ Asked
  /\ Counts
  /\ Registered
  /\ Hooked
  /\ SwitchedOn
  /\ Probed
  /\ PlainScoped
  /\ Explained
  /\ ProbesAlone
  /\ Watching
  /\ Heard

QuickInv ==
  /\ LibInv
  /\ QuickTypeOK
  /\ ScriptInv
  /\ TestsLeaveNothing

-----------------------------------------------------------------------------
(* What the script's steps are to the library.                              *)
MainActs == Program(Main) \/ Library(Main) \/ CallbackEnds(Main)

WorkerActs(t) ==
  \/ Library(t)
  \/ CallbackEnds(t)
  \/ ProgramCalls(t)
  \/ pc[t] = "idle" /\ \E op \in {"enable", "disable", "unset"} : SwitchesBy(t, op)

(* Of the script, a callback can change what is_working() returns.          *)
Unscripted ==
  /\ UNCHANGED <<stage, nth, saved, open, left, broken, dangling>>
  /\ called' \in BOOLEAN \union {called} /\ (called => called')

(* A worker that switches sets no switch but its own.                       *)
LEMMA WorkerSwitches ==
  ASSUME NEW t \in Workers, pc[t] = "idle", Switches(t)
  PROVE  \E op \in {"enable", "disable", "unset"} : SwitchesBy(t, op)
<1>1. PICK op \in OpName : SwitchesBy(t, op)
  BY DEF Switches
<1>2. op \in Ops[t]
  BY <1>1 DEF SwitchesBy, MayCall
<1>3. Ops[t] \subseteq {"enable", "disable", "unset"}
  BY QuickstartAssumption DEF Workers
<1> QED
  BY <1>1, <1>2, <1>3

(* The script's own statements are made by program code outside on_f and    *)
(* uninitialize().                                                          *)
LEMMA AtStageFacts ==
  ASSUME NEW place, AtStage(place)
  PROVE  /\ stage = place /\ pc[Main] = "idle" /\ at[Main] = "idle"
         /\ uninit[Main] = 0 /\ helper[Main] = "none"
BY DEF AtStage, ProgramRuns, InCallback

(* What get_on_malloc() returns.                                            *)
Original == IF cell[AllocFn] = NoObj THEN Null ELSE content[cell[AllocFn]]

(* The statements of the script.                                            *)
Statements ==
  \/ StartSetup \/ SetupInitialize \/ SetupRegister \/ SetupEnable
  \/ GetOriginal \/ Copies \/ CopyThrows
  \/ SwapHook \/ ProbeMalloc \/ ProbeFree \/ RestoreHook
  \/ \E f \in MemFn : BlockBegins(f) \/ BlockEnds(f) \/ BlockIsLeft(f)
  \/ MonitorsAll \/ BodyEnds \/ TeardownDisable \/ TeardownUninitialize
  \/ MainCalls

(* They are made outside every call and registration.                       *)
LEMMA StatementsAtRest ==
  ASSUME Statements
  PROVE  /\ pc[Main] = "idle" /\ at[Main] = "idle"
         /\ uninit[Main] = 0 /\ helper[Main] = "none"
<1>1. \E place : AtStage(place)
  BY DEF Statements, StartSetup, SetupInitialize, SetupRegister, SetupEnable,
     GetOriginal, Copies, CopyThrows, SwapHook, ProbeMalloc, ProbeFree,
     RestoreHook, BlockBegins, BlockEnds, BlockIsLeft, ExpectsNo, MonitorsAll,
     BodyEnds, TeardownDisable, TeardownUninitialize, MainCalls
<1> QED
  BY <1>1, AtStageFacts

(* A statement, a step of the library, or a worker's.                       *)
LEMMA ScriptSteps ==
  ASSUME QuickNext
  PROVE  \/ Statements
         \/ MainLibrary
         \/ Reports(Main)
         \/ \E t \in Workers : WorkerActs(t) /\ Unscripted
<1>1. ASSUME NEW t \in Workers, Reports(t)
      PROVE  WorkerActs(t) /\ Unscripted
  BY <1>1 DEF Reports, WorkerActs, Unscripted
<1>2. ASSUME NEW t \in Workers, Works(t)
      PROVE  WorkerActs(t) /\ Unscripted
  BY <1>2, WorkerSwitches DEF Works, WorkerActs, Unscripted, scriptVars
<1> QED
  BY <1>1, <1>2 DEF QuickNext, Statements, Workers

(* To the library a statement is a step of the program, or none.            *)
LEMMA StatementsAct == ASSUME Statements PROVE MainActs \/ UNCHANGED vars
<1> USE DEF MainActs, Program
<1>1. CASE StartSetup \/ GetOriginal \/ CopyThrows \/ BodyEnds
           \/ \E f \in MemFn : BlockIsLeft(f)
  BY <1>1 DEF StartSetup, GetOriginal, CopyThrows, BodyEnds, BlockIsLeft
<1>2. CASE SetupInitialize \/ SetupEnable \/ TeardownDisable \/ MonitorsAll
  <2>1. \E op \in OpName : SwitchesBy(Main, op)
    BY <1>2 DEF SetupInitialize, SetupEnable, TeardownDisable, MonitorsAll,
       OpName
  <2> QED
    BY <2>1 DEF Switches
<1>3. CASE SetupRegister \/ SwapHook \/ RestoreHook
  BY <1>3 DEF SetupRegister, SwapHook, RestoreHook
<1>4. CASE \E f \in MemFn : BlockBegins(f) \/ BlockEnds(f)
  BY <1>4 DEF BlockBegins, BlockEnds, ExpectsNo
<1>5. CASE TeardownUninitialize
  BY <1>5 DEF TeardownUninitialize
<1>6. CASE Copies \/ ProbeMalloc \/ ProbeFree \/ MainCalls
  BY <1>6 DEF Copies, ProbeMalloc, ProbeFree, MainCalls
<1> QED
  BY <1>1, <1>2, <1>3, <1>4, <1>5, <1>6 DEF Statements

(* What the tests' steps are to the library ...                             *)
LibraryStep ==
  MainActs \/ UNCHANGED vars \/ \E t \in Workers : WorkerActs(t)

(* ... all of them ...                                                      *)
LEMMA ScriptIsLibrary == QuickNext => LibraryStep
BY ScriptSteps, StatementsAct DEF LibraryStep, MainActs, Program, MainLibrary,
   Reports

(* ... and so they are steps of a program that uses memory tools.           *)
LEMMA LibraryStepIsNext == LibraryStep => [Next]_vars
BY QuickstartAssumption DEF LibraryStep, MainActs, WorkerActs, Next, Program,
   Switches, OpName, Workers

(* The tests are a program that uses memory tools: what is proved of every  *)
(* program (MemoryToolsProofs) holds of them.                               *)
THEOREM QuickstartUsesTools == QuickSpec => Spec
<1>1. QuickInit => Init
  BY DEF QuickInit
<1>2. [QuickNext]_quickVars => [Next]_vars
  BY ScriptIsLibrary, LibraryStepIsNext DEF quickVars
<1> QED
  BY <1>1, <1>2, PTL DEF QuickSpec, Spec

-----------------------------------------------------------------------------
(* What a worker's step leaves alone: hooks, registrations, expectations,   *)
(* the switches but its own, and all there is of the test's thread.         *)
WorkerLeaves ==
  /\ UNCHANGED <<ready, cell, content, at, request, held, unexpected,
                 initialized, enabled, uninit, helper>>
  /\ pc'[Main] = pc[Main] /\ nest'[Main] = nest[Main]
  /\ step'[Main] = step[Main] /\ fn'[Main] = fn[Main] /\ using'[Main] = using[Main]
  /\ tlsSet'[Main] = tlsSet[Main] /\ tlsEnabled'[Main] = tlsEnabled[Main]
  /\ (Main \in own') = (Main \in own) /\ (Main \in threw') = (Main \in threw)

(* Everything a worker does is of that kind.                                *)
LEMMA WorkersLeave ==
  ASSUME ToolsInv, WorkersOnlyCall, NEW t \in Workers, WorkerActs(t)
  PROVE  WorkerLeaves
<1>1. /\ t # Main /\ t \in Thread /\ Main \in Thread
      /\ at[t] = "idle" /\ uninit[t] = 0 /\ helper[t] = "none"
  BY QuickstartAssumption DEF Workers, WorkersOnlyCall
<1>2. Known(t) /\ Known(Main)
  BY <1>1, ToolsKnown
<1> USE <1>1, <1>2 DEF WorkerLeaves, Known
<1>3. CASE \E op \in {"enable", "disable", "unset"} : SwitchesBy(t, op)
  BY <1>3 DEF SwitchesBy, Mon!EnableMonitoring, Mon!DisableMonitoring,
     Mon!UnsetMonitoring, Mon!SetThread, gateVars, hookVars, toolVars
<1>4. CASE PassesGate(t) \/ Returns(t)
  BY <1>4 DEF PassesGate, Returns, hookVars, monVars, toolVars, Gate!PassGuard,
     Gate!Lock, Gate!Exit, Gate!ShortCircuit, Gate!Unlock, Gate!Return
<1>5. CASE \/ Enters(t) \/ Check(t) \/ CheckEnabled(t) \/ InvokeCallback(t)
           \/ LeaveCustom(t)
  BY <1>5 DEF Enters, Check, CheckEnabled, InvokeCallback, LeaveCustom,
     gateVars, hookVars, monVars, GoTo, Gate!Enter, Gate!LeaveHook
<1>6. CASE BeginCustomSection(t) \/ EndCustomSection(t)
  BY <1>6 DEF BeginCustomSection, EndCustomSection, Mon!BeginSection,
     Mon!EndSection, gateVars, hookVars, GoTo
<1>7. CASE LoadCallback(t) \/ NoCallback(t)
  BY <1>7 DEF LoadCallback, NoCallback, Hooks!Load, Hooks!Release, gateVars,
     monVars, hookVars, GoTo
<1>8. CASE UninitSwitches(t) \/ UninitUnregisters(t) \/ UninitExpects(t)
  BY <1>8 DEF UninitSwitches, UninitUnregisters, UninitExpects, Statement,
     UninitRuns
<1>9. CASE OnCalls(t) \/ OnAllocates(t) \/ OnExchanges(t) \/ EndsOn(t)
  BY <1>9 DEF OnCalls, OnAllocates, OnExchanges, EndsOn, OnRuns
<1>10. CASE HelperCalls(t) \/ HelperRegisters(t) \/ HelperEnds(t)
  BY <1>10 DEF HelperCalls, HelperRegisters, HelperEnds, HelperRuns
<1>11. CASE ProgramCalls(t)
  BY <1>11 DEF ProgramCalls, CallFn, Gate!Call, Gate!CallNested, hookVars,
     monVars
<1>12. CASE CallbackEnds(t)
  BY <1>12 DEF CallbackEnds, Hooks!Release, GoTo, gateVars, monVars
<1> QED
  BY <1>3, <1>4, <1>5, <1>6, <1>7, <1>8, <1>9, <1>10, <1>11, <1>12
  DEF WorkerActs, Library

-----------------------------------------------------------------------------
(* A thread registers and uninitializes for itself.                         *)
LEMMA OwnPlace ==
  ASSUME ToolsInv, NEW t \in Thread, NEW u \in Thread \ {t},
         Program(t) \/ Library(t) \/ CallbackEnds(t)
  PROVE  at'[u] = at[u] /\ uninit'[u] = uninit[u] /\ helper'[u] = helper[u]
<1>1. /\ uninit \in [Thread -> 0 .. UninitLen] /\ at \in [Thread -> Hooks!OnPlace]
      /\ helper \in [Thread -> {"none", "wrap", "on", "unwrap", "unwind"}]
  BY DEF ToolsInv, TypeOK, Hooks!TypeOK
<1>2. uninit'[u] = uninit[u]
  BY <1>1 DEF Program, Library, ProgramCalls, Switches, SwitchesBy, Expects,
     Registers, BeginsUninitialize, BeginsHelper, UninitSwitches,
     UninitUnregisters, UninitExpects, NextStatement, OnCalls,
     HelperCalls, HelperRegisters, HelperEnds, OnAllocates,
     OnExchanges, EndsOn, Enters, PassesGate, Returns, Check,
     CheckEnabled, BeginCustomSection, LoadCallback,
     InvokeCallback, NoCallback, EndCustomSection, LeaveCustom,
     CallbackEnds, toolVars
<1>3. at'[u] = at[u]
  BY <1>1 DEF Program, Library, ProgramCalls, Switches, SwitchesBy, Expects,
     Registers, BeginsUninitialize, BeginsHelper, UninitSwitches,
     UninitUnregisters, UninitExpects, OnCalls, HelperCalls,
     HelperRegisters, HelperEnds, OnAllocates, OnExchanges, EndsOn,
     Enters, PassesGate, Returns, Check, CheckEnabled,
     BeginCustomSection, LoadCallback, InvokeCallback, NoCallback,
     EndCustomSection, LeaveCustom, CallbackEnds, hookVars,
     Hooks!BeginOn, Hooks!Construct, Hooks!ConstructThrows,
     Hooks!Destroy, Hooks!Exchange, Hooks!EndOn, Hooks!Load,
     Hooks!Release
<1>4. helper'[u] = helper[u]
  BY <1>1 DEF Program, Library, ProgramCalls, Switches, SwitchesBy, Expects,
     Registers, BeginsUninitialize, BeginsHelper, UninitSwitches,
     UninitUnregisters, UninitExpects, OnCalls, HelperCalls, HelperRegisters,
     HelperEnds, HelperGoesTo, HelperIsGivenBack, OnAllocates, OnExchanges,
     EndsOn, Enters, PassesGate, Returns, Check, CheckEnabled,
     BeginCustomSection, LoadCallback, InvokeCallback, NoCallback,
     EndCustomSection, LeaveCustom, CallbackEnds, toolVars
<1> QED
  BY <1>2, <1>3, <1>4

(* What the test's thread relies on in the library is preserved: by its own *)
(* steps as in a program of one thread, by a worker's because they change   *)
(* none of it.                                                              *)
LEMMA LibInvStep ==
  ASSUME LibInv, LibraryStep
  PROVE  LibInv'
<1> USE DEF LibInv
<1>0. Main \in Thread /\ \A t \in Workers : t \in Thread /\ t # Main
  BY QuickstartAssumption DEF Workers
<1>1. ToolsInv'
  BY LibraryStepIsNext, StepToolsInv
<1>2. CASE MainActs
  <2>1. ready' /\ Placed(Main)' /\ UninitInv(Main)'
    BY <1>0, <1>2, StaysReady, PlacedStep, InstalledStep, UninitRequestStep,
       ClearedStep DEF MainActs, UninitInv
  <2>2. \A t \in Workers : /\ uninit'[t] = uninit[t] /\ at'[t] = at[t]
                            /\ helper'[t] = helper[t]
    BY <1>0, <1>2, OwnPlace DEF MainActs
  <2> QED
    BY <1>1, <2>1, <2>2 DEF WorkersOnlyCall
<1>3. CASE \E t \in Workers : WorkerActs(t)
  <2>1. PICK t \in Workers : WorkerActs(t)
    BY <1>3
  <2>2. WorkerLeaves
    BY <2>1, WorkersLeave
  <2>5. Placed(Main)'
    BY <1>0, <2>2 DEF WorkerLeaves, Placed, Monitored
  <2>6. UninitInv(Main)'
    BY <2>2 DEF WorkerLeaves, UninitInv, Installed, UninitRequest, Cleared,
       HookIs
  <2>7. ready' /\ WorkersOnlyCall'
    BY <2>2 DEF WorkerLeaves, WorkersOnlyCall
  <2> QED
    BY <1>1, <2>5, <2>6, <2>7
<1>4. CASE UNCHANGED vars
  BY <1>1, <1>4 DEF vars, gateVars, hookVars, monVars, toolVars, Placed,
     Monitored, UninitInv, Installed, UninitRequest, Cleared, HookIs,
     WorkersOnlyCall
<1> QED
  BY <1>2, <1>3, <1>4 DEF LibraryStep

-----------------------------------------------------------------------------
(* Only a registration changes a hook ...                                   *)
LEMMA LibraryKeepsHook ==
  ASSUME ToolsInv, Library(Main), NEW f \in MemFn, NEW v \in Hooks!Value,
         HookIs(f, v),
         at[Main] = "exchange" => request[Main][1] # f \/ request[Main][2] = v
  PROVE  HookIs(f, v)'
<1>1. CASE OnAllocates(Main) \/ OnExchanges(Main)
  BY <1>1, HookStays, QuickstartAssumption DEF OnAllocates, OnExchanges,
     ToolsInv
<1>2. CASE UNCHANGED <<cell, content>>
  BY <1>2 DEF HookIs
<1> QED
  BY <1>1, <1>2 DEF Library, UninitSwitches, UninitUnregisters, UninitExpects,
     OnCalls, HelperCalls, HelperRegisters, HelperEnds, EndsOn,
     Enters, PassesGate, Returns, Check, CheckEnabled,
     BeginCustomSection, LoadCallback, InvokeCallback, NoCallback,
     EndCustomSection, LeaveCustom, hookVars, Hooks!BeginOn,
     Hooks!EndOn, Hooks!Load, Hooks!Release

(* ... and makes it what was asked for.                                     *)
LEMMA LibrarySetsHook ==
  ASSUME ToolsInv, Library(Main), NEW f \in MemFn, NEW v \in Hooks!Value,
         HookIs(f, v)'
  PROVE  \/ HookIs(f, v)
         \/ at[Main] = "exchange" /\ request[Main] = <<f, v>>
<1>0. /\ Hooks!HooksInv /\ Main \in Thread /\ v # Dead
      /\ cell \in [MemFn -> Obj \union {NoObj}]
      /\ content \in [Obj -> Hooks!Value \union {Dead}]
      /\ NoObj \notin Obj
  BY QuickstartAssumption, DistinctAssumption DEF ToolsInv, Hooks!HooksInv,
     Hooks!TypeOK, Hooks!Value, Callback
<1>1. CASE OnAllocates(Main)
  <2>1. cell' = cell
    BY <1>1 DEF OnAllocates, Hooks!Construct, Hooks!ConstructThrows,
       Hooks!Destroy
  <2>2. cell[f] \in Obj /\ content'[cell[f]] = v /\ content[cell[f]] # Dead
    BY <1>0, <2>1 DEF HookIs, Hooks!HooksInv, Hooks!Ownership, Hooks!InCell
  <2>3. content'[cell[f]] = content[cell[f]]
    BY <1>0, <1>1, <2>2 DEF OnAllocates, Hooks!Construct, Hooks!ConstructThrows,
       Hooks!Destroy
  <2> QED
    BY <2>1, <2>2, <2>3 DEF HookIs
<1>2. CASE OnExchanges(Main)
  <2>1. /\ at[Main] = "exchange" /\ content' = content
        /\ cell' = [cell EXCEPT ![request[Main][1]] = held[Main]]
    BY <1>2 DEF OnExchanges, Hooks!Exchange
  <2>2. CASE f = request[Main][1]
    <3>1. request[Main] \in MemFn \X Hooks!Value
      BY <1>0, <2>1 DEF Hooks!HooksInv, Hooks!TypeOK, Hooks!Registering
    <3>2. v = request[Main][2]
      BY <1>0, <2>1, <2>2 DEF HookIs, Hooks!HooksInv, Hooks!Registering
    <3> QED
      BY <2>1, <2>2, <3>1, <3>2
  <2>3. CASE f # request[Main][1]
    BY <1>0, <2>1, <2>3 DEF HookIs
  <2> QED
    BY <2>2, <2>3
<1>3. CASE UNCHANGED <<cell, content>>
  BY <1>3 DEF HookIs
<1> QED
  BY <1>1, <1>2, <1>3 DEF Library, UninitSwitches, UninitUnregisters, UninitExpects,
     OnCalls, HelperCalls, HelperRegisters, HelperEnds, EndsOn,
     Enters, PassesGate, Returns, Check, CheckEnabled,
     BeginCustomSection, LoadCallback, InvokeCallback, NoCallback,
     EndCustomSection, LeaveCustom, hookVars, Hooks!BeginOn,
     Hooks!EndOn, Hooks!Load, Hooks!Release

(* No variant holds what nobody asked for.                                  *)
LEMMA LibraryMakesVariant ==
  ASSUME ToolsInv, Library(Main), NEW o \in Obj, NEW v \in Hooks!Value,
         content'[o] = v
  PROVE  content[o] = v \/ (at[Main] = "construct" /\ request[Main][2] = v)
<1>0. v # Dead /\ content \in [Obj -> Hooks!Value \union {Dead}]
  BY DistinctAssumption DEF ToolsInv, Hooks!HooksInv, Hooks!TypeOK, Hooks!Value,
     Callback
<1>1. CASE OnAllocates(Main)
  BY <1>0, <1>1 DEF OnAllocates, Hooks!Construct, Hooks!ConstructThrows,
     Hooks!Destroy
<1>2. CASE UNCHANGED content
  BY <1>2
<1> QED
  BY <1>1, <1>2 DEF Library, UninitSwitches, UninitUnregisters, UninitExpects,
     OnCalls, HelperCalls, HelperRegisters, HelperEnds,
     OnExchanges, EndsOn, Enters, PassesGate, Returns, Check,
     CheckEnabled, BeginCustomSection, LoadCallback,
     InvokeCallback, NoCallback, EndCustomSection, LeaveCustom,
     hookVars, Hooks!BeginOn, Hooks!Exchange, Hooks!EndOn,
     Hooks!Load, Hooks!Release

(* The library begins no registration of the script's, and no               *)
(* uninitialize().                                                          *)
LEMMA LibraryGoesOn ==
  ASSUME ToolsInv, Library(Main)
  PROVE  /\ uninit'[Main] # 0 => uninit[Main] # 0
         /\ at'[Main] # "idle" /\ uninit'[Main] = 0 =>
              \/ at[Main] # "idle" /\ uninit[Main] = 0 /\ request' = request
              \/ HelperRegisters(Main)
         /\ at[Main] = "unwind" /\ at'[Main] = "idle" => uninit'[Main] = 0
         /\ at[Main] # "idle" /\ at'[Main] = "idle" =>
              at[Main] \in {"finish", "unwind"}
         /\ at'[Main] \notin {"idle", "destroy", "finish"} =>
              /\ at[Main] \notin {"destroy", "finish"}
              /\ at[Main] = "exchange" => UNCHANGED <<cell, content>>
<1>0. /\ Main \in Thread /\ at \in [Thread -> Hooks!OnPlace]
      /\ uninit \in [Thread -> 0 .. UninitLen]
  BY QuickstartAssumption DEF ToolsInv, TypeOK, Hooks!TypeOK
<1>1. CASE UninitSwitches(Main) \/ UninitExpects(Main)
  BY <1>0, <1>1 DEF UninitSwitches, UninitExpects, Statement, UninitRuns,
     hookVars
<1>2. CASE UninitUnregisters(Main)
  BY <1>0, <1>2, FnSeqFacts DEF UninitUnregisters, Statement, toolVars,
     Hooks!BeginOn
<1>3. CASE EndsOn(Main)
  BY <1>0, <1>3 DEF EndsOn, Hooks!EndOn
<1>4. CASE OnAllocates(Main) \/ OnExchanges(Main)
  BY <1>0, <1>4 DEF OnAllocates, OnExchanges, Hooks!Construct,
     Hooks!ConstructThrows, Hooks!Destroy, Hooks!Exchange, toolVars
<1>5. CASE HelperRegisters(Main)
  BY <1>0, <1>5 DEF HelperRegisters, Hooks!BeginOn
<1>6. CASE UNCHANGED <<cell, content, at, request, uninit>>
  BY <1>6
<1> QED
  BY <1>1, <1>2, <1>3, <1>4, <1>5, <1>6 DEF Library, OnCalls, HelperCalls, HelperEnds,
     Enters, PassesGate, Returns, Check, CheckEnabled,
     BeginCustomSection, LoadCallback, InvokeCallback, NoCallback,
     EndCustomSection, LeaveCustom, hookVars, toolVars, Hooks!Load,
     Hooks!Release

(* on_unexpected_f is in on_f while that runs, and goes on when it returns.  *)
LEMMA HelperGoesOn ==
  ASSUME ToolsInv, Library(Main),
         helper[Main] = "on" => at[Main] # "idle"
  PROVE  /\ helper'[Main] # "none" => helper[Main] # "none"
         /\ helper'[Main] = "on" =>
              (helper[Main] = "on" /\ at'[Main] # "idle") \/ HelperRegisters(Main)
         /\ helper[Main] = "on" /\ at'[Main] # "idle" => helper'[Main] = "on"
         /\ helper'[Main] = "unwrap" =>
              helper[Main] = "unwrap" \/ (helper[Main] = "on" /\ at[Main] = "finish")
         /\ HelperRegisters(Main) =>
              /\ helper[Main] = "wrap" /\ helper'[Main] = "on"
              /\ at'[Main] # "idle" /\ uninit[Main] = 0
         /\ helper'[Main] = "none" /\ helper[Main] # "none" =>
              pc[Main] = "idle" /\ at[Main] = "idle" /\ at'[Main] = "idle"
              /\ uninit[Main] = 0 /\ uninit'[Main] = 0
         /\ helper' # helper => UNCHANGED <<cell, content>>
<1>0. /\ Main \in Thread /\ at \in [Thread -> Hooks!OnPlace]
      /\ helper \in [Thread -> {"none", "wrap", "on", "unwrap", "unwind"}]
  BY QuickstartAssumption DEF ToolsInv, TypeOK, Hooks!TypeOK
<1> USE DEF HelperGoesTo
<1>1. HelperRegisters(Main) =>
        /\ helper[Main] = "wrap" /\ helper'[Main] = "on"
        /\ at'[Main] # "idle" /\ uninit[Main] = 0
        /\ UNCHANGED <<cell, content>>
  BY <1>0 DEF HelperRegisters, HelperRuns, Hooks!BeginOn
<1>2. CASE EndsOn(Main)
  BY <1>0, <1>1, <1>2 DEF EndsOn, HelperIsGivenBack, Hooks!EndOn
<1>3. CASE HelperRegisters(Main)
  BY <1>1, <1>3
<1>4. CASE HelperEnds(Main)
  BY <1>0, <1>1, <1>4 DEF HelperEnds, HelperRuns, hookVars
<1>5. CASE Returns(Main)
  BY <1>0, <1>1, <1>5 DEF Returns, hookVars
<1>6. CASE OnAllocates(Main) \/ OnExchanges(Main)
  BY <1>0, <1>1, <1>6 DEF OnAllocates, OnExchanges, toolVars, Hooks!Construct,
     Hooks!ConstructThrows, Hooks!Destroy, Hooks!Exchange
<1>7. CASE UninitUnregisters(Main)
  BY <1>0, <1>1, <1>7 DEF UninitUnregisters, toolVars, Hooks!BeginOn
<1>8. CASE UNCHANGED <<at, helper>> /\ ~HelperRegisters(Main)
  BY <1>8
<1> QED
  BY <1>2, <1>3, <1>4, <1>5, <1>6, <1>7, <1>8 DEF Library, UninitSwitches,
     UninitExpects, OnCalls, HelperCalls, Enters, PassesGate, Check,
     CheckEnabled, BeginCustomSection, LoadCallback, InvokeCallback, NoCallback,
     EndCustomSection, LeaveCustom, hookVars, toolVars, Hooks!Load,
     Hooks!Release

(* What the return of on_f, of on_unexpected_f or of uninitialize() to the  *)
(* script is.                                                               *)
RegistersNext ==
  /\ stage = "register" /\ helper[Main] = "unwrap" /\ at[Main] = "idle"
  /\ HookIs(MapSeq[nth], "unexpected")
  /\ nth' = nth + 1
  /\ \/ nth < Len(MapSeq) /\ stage' = "register"
     \/ nth = Len(MapSeq) /\ stage' = "enable"
  /\ dangling' = IF MapSeq[nth] = AllocFn THEN FALSE ELSE dangling

Swaps ==
  /\ stage = "swap" /\ at[Main] = "finish" /\ HookIs(AllocFn, "plain")
  /\ stage' = "probe"
  /\ UNCHANGED <<nth, dangling>>

Restores ==
  /\ stage = "restore" /\ at[Main] = "finish" /\ HookIs(AllocFn, saved)
  /\ stage' = "body"
  /\ UNCHANGED <<nth, dangling>>

BackInScript ==
  /\ pc[Main] = "idle" /\ at'[Main] = "idle" /\ helper'[Main] = "none"
  /\ uninit'[Main] = 0
  /\ UNCHANGED <<cell, content>>

RegistrationDone ==
  /\ RegistersNext \/ Swaps \/ Restores
  /\ BackInScript
  /\ UNCHANGED <<left, broken>>

RegistrationFailed ==
  /\ \/ stage = "register" /\ at[Main] = "idle"
     \/ stage \in {"swap", "restore"} /\ at[Main] = "unwind"
  /\ BackInScript
  /\ stage' = "outside" /\ broken' = TRUE
  /\ dangling' = (dangling \/ stage = "restore")
  /\ UNCHANGED <<left, nth>>

UninitializeFailed ==
  /\ BackInScript
  /\ stage = "uninitialize" /\ stage' = "terminated"
  /\ UNCHANGED <<nth, left, broken, dangling>>

UninitializeDone ==
  /\ BackInScript
  /\ stage = "uninitialize"
  /\ TearsDown

(* Those are the ends there are: what was registered is then in effect.     *)
LEMMA LibraryReturns ==
  ASSUME LibInv, Outside, Asked, Registered, MainLibrary
  PROVE  \/ UNCHANGED <<stage, nth, left, broken, dangling>>
         \/ RegistrationDone
         \/ RegistrationFailed
         \/ UninitializeDone
         \/ UninitializeFailed
<1>0. /\ Library(Main) /\ ToolsInv /\ Main \in Thread
      /\ at \in [Thread -> Hooks!OnPlace]
      /\ helper \in [Thread -> {"none", "wrap", "on", "unwrap", "unwind"}]
  BY QuickstartAssumption DEF MainLibrary, LibInv, ToolsInv, TypeOK,
     Hooks!HooksInv, Hooks!TypeOK
<1>1. \A i \in 1 .. Len(FnSeq) : UninitLen # 2 + i /\ UninitLen # 2 + Len(FnSeq) + i
  BY FnSeqFacts
<1>2. UninitLen # 0
  BY FnSeqFacts
<1>3. ASSUME at[Main] \in {"finish", "unwind"}, at'[Main] = "idle",
             helper[Main] # "on"
      PROVE  /\ EndsOn(Main) /\ pc[Main] = "idle" /\ helper' = helper
             /\ UNCHANGED <<cell, content>>
  <2>1. EndsOn(Main)
    <3>1. CASE UninitUnregisters(Main) \/ OnAllocates(Main) \/ OnExchanges(Main)
               \/ HelperRegisters(Main)
      BY <1>3, <3>1 DEF UninitUnregisters, OnAllocates, OnExchanges,
         HelperRegisters, Hooks!BeginOn, Hooks!Construct, Hooks!ConstructThrows,
         Hooks!Destroy, Hooks!Exchange
    <3> QED
      BY <1>0, <1>3, <3>1 DEF Library, UninitSwitches, UninitExpects, OnCalls,
         HelperCalls, HelperEnds, Enters, PassesGate, Returns, Check,
         CheckEnabled, BeginCustomSection, LoadCallback, InvokeCallback,
         NoCallback, EndCustomSection, LeaveCustom, hookVars, Hooks!Load,
         Hooks!Release
  <2> QED
    BY <1>3, <2>1 DEF EndsOn, OnRuns, Outside, HelperIsGivenBack, Hooks!EndOn
<1>4. ASSUME helper[Main] \in {"unwrap", "unwind"}, helper'[Main] = "none"
      PROVE  BackInScript /\ at[Main] = "idle" /\ stage = "register"
  BY <1>0, <1>4, HelperGoesOn DEF BackInScript, Asked
<1>5. ASSUME helper[Main] = "none" PROVE helper'[Main] = "none"
  BY <1>0, <1>5, HelperGoesOn
<1>6. ASSUME OnEnds("finish") \/ OnEnds("unwind")
      PROVE  /\ BackInScript /\ stage \in {"swap", "restore"}
             /\ at[Main] = "finish" /\ stage = "swap" => HookIs(AllocFn, "plain")
             /\ at[Main] = "finish" /\ stage = "restore" => HookIs(AllocFn, saved)
  <2>1. /\ helper[Main] = "none" /\ uninit[Main] = 0 /\ at'[Main] = "idle"
        /\ at[Main] \in {"finish", "unwind"}
    BY <1>6 DEF OnEnds
  <2>2. EndsOn(Main) /\ pc[Main] = "idle" /\ UNCHANGED <<cell, content>>
    BY <1>3, <2>1
  <2>3. uninit'[Main] = 0
    BY <2>1, <2>2 DEF EndsOn
  <2>4. /\ stage \in {"swap", "restore"}
        /\ stage = "swap" => request[Main] = <<AllocFn, "plain">>
        /\ stage = "restore" => request[Main] = <<AllocFn, saved>>
    BY <2>1 DEF Asked
  <2>5. at[Main] = "finish" => HookIs(request[Main][1], request[Main][2])
    BY DEF LibInv, UninitInv, Installed
  <2> QED
    BY <1>5, <2>1, <2>2, <2>3, <2>4, <2>5 DEF BackInScript
<1>7. CASE GoesOn
  <2>1. CASE OnEnds("finish")
    <3>1. Swaps \/ Restores
      BY <1>6, <1>7, <2>1 DEF GoesOn, OnEnds, Swaps, Restores
    <3> QED
      BY <1>6, <1>7, <2>1, <3>1 DEF GoesOn, RegistrationDone
  <2>2. CASE HelperEndsAt("unwrap")
    <3>1. /\ BackInScript /\ at[Main] = "idle" /\ stage = "register"
          /\ HookIs(MapSeq[nth], "unexpected")
      BY <1>4, <2>2 DEF HelperEndsAt, Registered, IsSetUp
    <3> QED
      BY <1>7, <2>2, <3>1 DEF GoesOn, HelperEndsAt, RegistrationDone,
         RegistersNext
  <2> QED
    BY <1>7, <2>1, <2>2 DEF GoesOn, OnReturned
<1>8. CASE SetupThrows
  BY <1>4, <1>6, <1>8 DEF SetupThrows, OnThrew, OnEnds, HelperEndsAt,
     RegistrationFailed
<1>9. CASE TearsDown
  <2>1. /\ uninit[Main] = UninitLen /\ uninit'[Main] = 0 /\ uninit[Main] # 0
        /\ stage = "uninitialize" /\ helper[Main] = "none"
    BY <1>2, <1>9 DEF TearsDown, UninitDone, Asked
  <2>2. at[Main] = "idle"
    BY <1>1, <2>1 DEF LibInv, UninitInv, UninitRequest
  <2>3. UninitSwitches(Main)
    <3>1. ~UninitExpects(Main) /\ ~UninitUnregisters(Main)
      BY <1>1, <2>1 DEF UninitExpects, UninitUnregisters, Statement
    <3>2. CASE EndsOn(Main)
      BY <2>2, <3>2 DEF EndsOn, Hooks!EndOn
    <3> QED
      BY <1>0, <2>1, <3>1, <3>2 DEF Library, OnCalls, HelperCalls,
         HelperRegisters, HelperEnds, OnAllocates, OnExchanges, Enters,
         PassesGate, Returns, Check, CheckEnabled, BeginCustomSection,
         LoadCallback, InvokeCallback, NoCallback, EndCustomSection,
         LeaveCustom, toolVars
  <2>4. pc[Main] = "idle"
    BY <2>1, <2>2, <2>3 DEF UninitSwitches, Statement, UninitRuns, Outside,
       LibInv, Placed
  <2> QED
    BY <1>9, <2>1, <2>2, <2>3, <2>4 DEF UninitSwitches, UninitializeDone,
       BackInScript, hookVars
<1>10. CASE Terminates
  <2>1. /\ at[Main] = "unwind" /\ at'[Main] = "idle" /\ uninit[Main] # 0
        /\ stage = "uninitialize" /\ helper[Main] = "none"
    BY <1>10 DEF Terminates, UninitThrew, Asked
  <2>2. EndsOn(Main) /\ pc[Main] = "idle" /\ UNCHANGED <<cell, content>>
    BY <1>3, <2>1
  <2>3. uninit'[Main] = 0
    BY <1>0, <2>1, LibraryGoesOn
  <2> QED
    BY <1>5, <1>10, <2>1, <2>2, <2>3 DEF Terminates, UninitializeFailed,
       BackInScript
<1> QED
  BY <1>7, <1>8, <1>9, <1>10 DEF MainLibrary

(* Where a statement of the script leads.                                   *)
LEMMA StatementsMove ==
  ASSUME Statements
  PROVE  /\ \/ /\ stage = "outside" /\ stage' \in {"outside", "initialize"}
               /\ nth' = 1 /\ UNCHANGED <<vars, saved, called>>
            \/ /\ \/ stage = "initialize" /\ stage' = "register"
                  \/ stage = "enable" /\ stage' = "get"
                  \/ stage = "probe" /\ stage' = "probed"
                  \/ stage = "probed" /\ stage' = "restore"
                  \/ stage = "body" /\ stage' = "disable"
                  \/ stage = "disable" /\ stage' = "uninitialize"
               /\ UNCHANGED <<nth, saved, called>>
            \/ /\ stage = "get" /\ stage' = "swap" /\ called' = FALSE
               /\ saved' = Original
               /\ UNCHANGED nth
            \/ UNCHANGED <<stage, nth, saved, called>>
            \/ CopyThrows
         /\ CopyThrows \/ UNCHANGED <<broken, dangling>>
<1>1. CASE StartSetup \/ GetOriginal
  BY <1>1, AtStageFacts DEF StartSetup, GetOriginal, Original
<1>2. CASE SetupInitialize \/ SetupEnable \/ TeardownDisable \/ BodyEnds
  BY <1>2, AtStageFacts DEF SetupInitialize, SetupEnable, TeardownDisable,
     BodyEnds
<1>3. CASE ProbeMalloc \/ ProbeFree
  BY <1>3, AtStageFacts DEF ProbeMalloc, ProbeFree
<1>4. CASE \/ SetupRegister \/ SwapHook \/ RestoreHook \/ MonitorsAll
           \/ TeardownUninitialize \/ MainCalls \/ Copies
  BY <1>4 DEF SetupRegister, SwapHook, RestoreHook, MonitorsAll,
     TeardownUninitialize, MainCalls, Copies, scriptVars
<1>5. CASE \E f \in MemFn : BlockBegins(f) \/ BlockEnds(f) \/ BlockIsLeft(f)
  BY <1>5 DEF BlockBegins, BlockEnds, BlockIsLeft
<1> QED
  BY <1>1, <1>2, <1>3, <1>4, <1>5 DEF Statements

-----------------------------------------------------------------------------
(* No statement of the script, and no callback, sets a hook there and then. *)
LEMMA StatementsKeepHooks ==
  ASSUME Statements \/ Reports(Main)
  PROVE  UNCHANGED <<cell, content>>
<1>1. CASE StartSetup \/ GetOriginal \/ CopyThrows \/ BodyEnds
           \/ \E f \in MemFn : BlockIsLeft(f)
  BY <1>1 DEF StartSetup, GetOriginal, CopyThrows, BodyEnds, BlockIsLeft, vars,
     hookVars
<1>2. CASE SetupInitialize \/ SetupEnable \/ TeardownDisable \/ MonitorsAll
  BY <1>2 DEF SetupInitialize, SetupEnable, TeardownDisable, MonitorsAll,
     SwitchesBy, hookVars
<1>3. CASE SetupRegister \/ SwapHook \/ RestoreHook
  BY <1>3 DEF SetupRegister, SwapHook, RestoreHook, Registers, BeginsHelper,
     Hooks!BeginOn, hookVars
<1>4. CASE \E f \in MemFn : BlockBegins(f) \/ BlockEnds(f)
  BY <1>4 DEF BlockBegins, BlockEnds, ExpectsNo, Expects, hookVars
<1>5. CASE TeardownUninitialize
  BY <1>5 DEF TeardownUninitialize, BeginsUninitialize, hookVars
<1>6. CASE Copies \/ ProbeMalloc \/ ProbeFree \/ MainCalls
  BY <1>6 DEF Copies, ProbeMalloc, ProbeFree, MainCalls, ProgramCalls, hookVars
<1>7. CASE Reports(Main)
  BY <1>7 DEF Reports, ProgramCalls, CallbackEnds, hookVars, Hooks!Release
<1> QED
  BY <1>1, <1>2, <1>3, <1>4, <1>5, <1>6, <1>7 DEF Statements

(* A statement that is not a registration, nor the call of uninitialize(),  *)
(* leaves both as they are.                                                 *)
LEMMA StatementsKeepPlace ==
  ASSUME \/ Statements /\ ~SetupRegister /\ ~SwapHook /\ ~RestoreHook
         \/ Reports(Main)
  PROVE  /\ UNCHANGED <<at, request, helper>>
         /\ TeardownUninitialize \/ UNCHANGED uninit
<1>1. CASE StartSetup \/ GetOriginal \/ CopyThrows \/ BodyEnds
           \/ \E f \in MemFn : BlockIsLeft(f)
  BY <1>1 DEF StartSetup, GetOriginal, CopyThrows, BodyEnds, BlockIsLeft, vars,
     hookVars, toolVars
<1>2. CASE SetupInitialize \/ SetupEnable \/ TeardownDisable \/ MonitorsAll
  BY <1>2 DEF SetupInitialize, SetupEnable, TeardownDisable, MonitorsAll,
     SwitchesBy, hookVars, toolVars
<1>3. CASE \E f \in MemFn : BlockBegins(f) \/ BlockEnds(f)
  BY <1>3 DEF BlockBegins, BlockEnds, ExpectsNo, Expects, hookVars
<1>4. CASE TeardownUninitialize
  BY <1>4 DEF TeardownUninitialize, BeginsUninitialize, hookVars
<1>5. CASE Copies \/ ProbeMalloc \/ ProbeFree \/ MainCalls
  BY <1>5 DEF Copies, ProbeMalloc, ProbeFree, MainCalls, ProgramCalls, hookVars
<1>6. CASE Reports(Main)
  BY <1>6 DEF Reports, ProgramCalls, CallbackEnds, hookVars, Hooks!Release
<1> QED
  BY <1>1, <1>2, <1>3, <1>4, <1>5, <1>6 DEF Statements

(* A callback is called between a registration's own calls in no other way  *)
(* than by one of those.                                                    *)
LEMMA OutsideStep ==
  ASSUME LibInv, Outside, QuickNext
  PROVE  Outside'
<1>0. Known(Main) /\ Main \in Thread
  BY ToolsKnown, QuickstartAssumption DEF LibInv
<1>1. CASE \E t \in Workers : WorkerActs(t) /\ Unscripted
  <2>1. WorkerLeaves
    BY <1>1, WorkersLeave DEF LibInv
  <2> QED
    BY <2>1 DEF WorkerLeaves, Outside
<1>2. CASE Statements
  <2>1. pc[Main] = "idle" /\ at[Main] = "idle" /\ uninit[Main] = 0
    BY <1>2, StatementsAtRest
  <2>2. CASE SetupRegister \/ SwapHook \/ RestoreHook \/ TeardownUninitialize
    BY <2>1, <2>2 DEF SetupRegister, SwapHook, RestoreHook, TeardownUninitialize,
       Registers, BeginsHelper, BeginsUninitialize, gateVars, toolVars, Outside
  <2>3. CASE ~(SetupRegister \/ SwapHook \/ RestoreHook \/ TeardownUninitialize)
    BY <1>2, <2>1, <2>3, StatementsKeepPlace DEF Outside
  <2> QED
    BY <2>2, <2>3
<1>3. CASE Reports(Main)
  <2>1. InCallback(Main) /\ UNCHANGED <<at, uninit, own>>
    BY <1>3 DEF Reports, CallbackEnds, CallbackIs, ProgramCalls, Hooks!Release,
       hookVars
  <2> QED
    BY <2>1 DEF Outside, InCallback
<1>4. CASE MainLibrary
  <2>0. Library(Main)
    BY <1>4 DEF MainLibrary
  <2> USE <1>0 DEF Outside, Known, LibInv, Placed, InCallback
  <2>1. CASE UninitSwitches(Main) \/ UninitExpects(Main) \/ UninitUnregisters(Main)
    BY <2>1 DEF UninitSwitches, UninitExpects, UninitUnregisters, Statement,
       UninitRuns, Hooks!BeginOn, gateVars, toolVars, hookVars
  <2>2. CASE HelperCalls(Main) \/ HelperRegisters(Main) \/ HelperEnds(Main)
    BY <2>2 DEF HelperCalls, HelperRegisters, HelperEnds, HelperRuns, hookVars,
       gateVars, Hooks!BeginOn
  <2>3. CASE OnCalls(Main)
    BY <2>3 DEF OnCalls, OnRuns, hookVars
  <2>4. CASE OnAllocates(Main) \/ OnExchanges(Main) \/ EndsOn(Main)
    BY <2>4 DEF OnAllocates, OnExchanges, EndsOn, OnRuns, gateVars, toolVars
  <2>5. CASE Returns(Main)
    BY <2>5 DEF Returns, Gate!ShortCircuit, Gate!Unlock, Gate!Return, hookVars
  <2>6. CASE \/ Enters(Main) \/ PassesGate(Main) \/ LeaveCustom(Main)
             \/ Check(Main) \/ CheckEnabled(Main) \/ BeginCustomSection(Main)
             \/ LoadCallback(Main) \/ InvokeCallback(Main) \/ NoCallback(Main)
             \/ EndCustomSection(Main)
    <3>1. pc[Main] # "idle" /\ UNCHANGED <<at, uninit, own>>
      BY <2>6 DEF Enters, PassesGate, LeaveCustom, Check, CheckEnabled,
         BeginCustomSection, LoadCallback, InvokeCallback, NoCallback,
         EndCustomSection, AtStep, Gate!Enter, Gate!PassGuard, Gate!Lock,
         Gate!Exit, Gate!LeaveHook, Hooks!Load, Hooks!Release, hookVars, toolVars
    <3> QED
      BY <3>1
  <2> QED
    BY <2>0, <2>1, <2>2, <2>3, <2>4, <2>5, <2>6 DEF Library
<1> QED
  BY <1>1, <1>2, <1>3, <1>4, ScriptSteps

(* on_f and uninitialize() are begun at their stages, and the stage goes on *)
(* when they return.                                                        *)
LEMMA AskedStep ==
  ASSUME LibInv, Outside, Asked, Registered, QuickNext
  PROVE  Asked'
<1>0. /\ Main \in Thread /\ at \in [Thread -> Hooks!OnPlace]
      /\ request \in [Thread -> (MemFn \X Hooks!Value) \union {NoRequest}]
      /\ helper \in [Thread -> {"none", "wrap", "on", "unwrap", "unwind"}]
      /\ uninit \in [Thread -> 0 .. UninitLen]
  BY QuickstartAssumption DEF LibInv, ToolsInv, Hooks!HooksInv, Hooks!TypeOK,
     TypeOK
<1>1. CASE \E t \in Workers : WorkerActs(t) /\ Unscripted
  <2>1. WorkerLeaves /\ Unscripted
    BY <1>1, WorkersLeave DEF LibInv
  <2> QED
    BY <2>1 DEF WorkerLeaves, Asked, Unscripted
<1>2. CASE SwapHook \/ RestoreHook
  BY <1>0, <1>2, AtStageFacts DEF SwapHook, RestoreHook,
     Registers, Hooks!BeginOn, scriptVars, toolVars, Asked
<1>3. CASE SetupRegister
  BY <1>0, <1>3, AtStageFacts DEF SetupRegister, BeginsHelper, scriptVars,
     hookVars, Asked
<1>4. CASE \/ Statements /\ ~SetupRegister /\ ~SwapHook /\ ~RestoreHook
           \/ Reports(Main)
  <2>1. /\ UNCHANGED <<at, request, helper>>
        /\ TeardownUninitialize \/ UNCHANGED uninit
    BY <1>4, StatementsKeepPlace
  <2>2. CASE Reports(Main)
    BY <2>1, <2>2 DEF Reports, Asked, TeardownUninitialize, AtStage,
       ProgramRuns, CallbackIs, InCallback, CallbackEnds
  <2>3. CASE TeardownUninitialize
    BY <2>1, <2>3, AtStageFacts DEF TeardownUninitialize, scriptVars, Asked
  <2>4. CASE Statements /\ ~TeardownUninitialize
    <3>1. at[Main] = "idle" /\ uninit[Main] = 0 /\ helper[Main] = "none"
      BY <2>4, StatementsAtRest
    <3> QED
      BY <2>1, <2>4, <3>1 DEF Asked
  <2> QED
    BY <1>4, <2>2, <2>3, <2>4
<1>5. CASE MainLibrary
  <2>0. Library(Main) /\ ToolsInv /\ (helper[Main] = "on" => at[Main] # "idle")
    BY <1>5 DEF MainLibrary, LibInv, Asked
  <2>1. /\ uninit'[Main] # 0 => uninit[Main] # 0
        /\ at'[Main] # "idle" /\ uninit'[Main] = 0 =>
              \/ at[Main] # "idle" /\ uninit[Main] = 0 /\ request' = request
              \/ HelperRegisters(Main)
    BY <2>0, LibraryGoesOn
  <2>2. /\ helper'[Main] # "none" => helper[Main] # "none"
        /\ helper'[Main] = "on" =>
              (helper[Main] = "on" /\ at'[Main] # "idle") \/ HelperRegisters(Main)
        /\ helper[Main] = "on" /\ at'[Main] # "idle" => helper'[Main] = "on"
        /\ HelperRegisters(Main) =>
              /\ helper[Main] = "wrap" /\ helper'[Main] = "on"
              /\ at'[Main] # "idle" /\ uninit[Main] = 0
    BY <2>0, HelperGoesOn
  <2>3. /\ saved' = saved
        /\ HelperRegisters(Main) => request'[Main] = <<MapSeq[nth], "unexpected">>
    BY <1>5 DEF MainLibrary
  <2>4. CASE UNCHANGED <<stage, nth>>
    <3>1. uninit'[Main] # 0 => stage' = "uninitialize"
      BY <2>1, <2>4 DEF Asked
    <3>2. helper'[Main] # "none" => stage' = "register"
      BY <2>2, <2>4 DEF Asked
    <3>3. helper'[Main] = "on" => stage' = "register" /\ at'[Main] # "idle"
      BY <2>2, <2>4 DEF Asked
    <3>4. stage' = "register" /\ at'[Main] # "idle" => helper'[Main] = "on"
      BY <2>1, <2>2, <2>4 DEF Asked
    <3>5. at'[Main] # "idle" /\ uninit'[Main] = 0 =>
             \/ stage' = "register" /\ request'[Main] = <<MapSeq'[nth'], "unexpected">>
             \/ stage' = "swap"     /\ request'[Main] = <<AllocFn, "plain">>
             \/ stage' = "restore"  /\ request'[Main] = <<AllocFn, saved'>>
      BY <2>1, <2>2, <2>3, <2>4 DEF Asked
    <3> QED
      BY <3>1, <3>2, <3>3, <3>4, <3>5 DEF Asked
  <2>5. CASE BackInScript
    BY <2>5 DEF BackInScript, Asked
  <2> QED
    BY <1>5, <2>4, <2>5, LibraryReturns DEF RegistrationDone,
       RegistrationFailed, UninitializeDone, UninitializeFailed
<1> QED
  BY <1>1, <1>2, <1>3, <1>4, <1>5, ScriptSteps

(* Each place of the configuration map has a function, and one has malloc.  *)
LEMMA MapSeqFacts ==
  /\ Len(MapSeq) \in Nat \ {0}
  /\ \A i \in 1 .. Len(MapSeq) : MapSeq[i] \in MemFn
<1>1. MapSeq \in Seq(MemFn) /\ \E i \in 1 .. Len(MapSeq) : MapSeq[i] = AllocFn
  BY QuickstartAssumption, FnAssumption
<1> QED
  BY <1>1

(* The script counts the hooks it has registered.                           *)
LEMMA CountsStep ==
  ASSUME LibInv, nth \in 1 .. Len(MapSeq) + 1, Outside, Asked, Registered,
         Counts, QuickNext
  PROVE  Counts' /\ nth' \in 1 .. Len(MapSeq) + 1
<1> USE MapSeqFacts DEF Counts
<1>1. CASE UNCHANGED <<stage, nth>>
  BY <1>1
<1>2. CASE Statements
  <2>1. /\ stage' = "initialize" => nth' = 1
        /\ stage' = "register" => \/ nth' = 1
                                  \/ stage = "register" /\ nth' = nth
        /\ nth' \in {1, nth}
    BY <1>2, StatementsMove DEF CopyThrows
  <2> QED
    BY <2>1
<1>3. CASE MainLibrary
  <2>1. CASE RegistrationDone
    <3>1. CASE RegistersNext
      <4>1. nth <= Len(MapSeq) /\ nth' = nth + 1
        BY <3>1 DEF RegistersNext
      <4>2. stage' # "initialize" /\ (stage' = "register" => nth < Len(MapSeq))
        BY <3>1 DEF RegistersNext
      <4> QED
        BY <4>1, <4>2
    <3>2. CASE Swaps \/ Restores
      BY <3>2 DEF Swaps, Restores
    <3> QED
      BY <2>1, <3>1, <3>2 DEF RegistrationDone
  <2>2. CASE UNCHANGED <<stage, nth>>
    BY <2>2
  <2>3. CASE RegistrationFailed \/ UninitializeFailed \/ TearsDown
    BY <2>3 DEF RegistrationFailed, UninitializeFailed, TearsDown
  <2> QED
    BY <1>3, <2>1, <2>2, <2>3, LibraryReturns DEF UninitializeDone
<1> QED
  BY <1>1, <1>2, <1>3, ScriptSteps DEF Reports, Unscripted

(* EXPECT_NO_F is counted within its bound.                                 *)
LEMMA OpenStep ==
  ASSUME open \in [MemFn -> 0 .. MaxBlocks], left \subseteq MemFn,
         LibInv, Outside, Asked, Registered, QuickNext
  PROVE  open' \in [MemFn -> 0 .. MaxBlocks] /\ left' \subseteq MemFn
<1>0. MaxBlocks \in Nat
  BY QuickstartAssumption
<1>1. CASE \E f \in MemFn : BlockBegins(f) \/ BlockEnds(f) \/ BlockIsLeft(f)
  <2>1. PICK f \in MemFn : BlockBegins(f) \/ BlockEnds(f) \/ BlockIsLeft(f)
    BY <1>1
  <2>2. open[f] \in 0 .. MaxBlocks /\ (left' = left \/ left' = left \union {f})
    BY <2>1 DEF BlockBegins, BlockEnds, BlockIsLeft
  <2>3. CASE BlockBegins(f)
    BY <1>0, <2>2, <2>3 DEF BlockBegins
  <2>4. CASE BlockEnds(f) \/ BlockIsLeft(f)
    <3>1. open' = [open EXCEPT ![f] = open[f] - 1] /\ open[f] > 0
      BY <2>4 DEF BlockEnds, BlockIsLeft
    <3>2. open[f] - 1 \in 0 .. MaxBlocks
      BY <1>0, <2>2, <3>1
    <3> QED
      BY <2>2, <3>1, <3>2
  <2> QED
    BY <2>1, <2>3, <2>4
<1>2. CASE BodyEnds
  BY <1>0, <1>2 DEF BodyEnds
<1>3. CASE MainLibrary
  <2>1. open' = open
    BY <1>3 DEF MainLibrary
  <2>2. left' = left \/ left' = {}
    BY <1>3, LibraryReturns DEF RegistrationDone, RegistrationFailed,
       UninitializeFailed, UninitializeDone, TearsDown
  <2> QED
    BY <2>1, <2>2
<1>4. CASE UNCHANGED <<open, left>>
  BY <1>4
<1>5. CASE \/ StartSetup \/ SetupInitialize \/ SetupRegister \/ SetupEnable
           \/ GetOriginal \/ Copies \/ CopyThrows \/ SwapHook
           \/ ProbeMalloc \/ ProbeFree \/ RestoreHook
           \/ MonitorsAll \/ TeardownDisable \/ TeardownUninitialize \/ MainCalls
  BY <1>4, <1>5 DEF StartSetup, SetupInitialize, SetupRegister, SetupEnable,
     GetOriginal, Copies, CopyThrows, SwapHook, ProbeMalloc,
     ProbeFree, RestoreHook, MonitorsAll, TeardownDisable,
     TeardownUninitialize, MainCalls, scriptVars
<1> QED
  BY <1>1, <1>2, <1>3, <1>4, <1>5, ScriptSteps DEF Statements, Reports,
     Unscripted

(* The script's variables keep their types.                                 *)
LEMMA QuickTypeStep ==
  ASSUME LibInv, LibInv', QuickTypeOK, Outside, Asked, Registered, Counts,
         QuickNext
  PROVE  QuickTypeOK'
<1> USE DEF QuickTypeOK
<1>0. /\ TypeOK' /\ nth' \in 1 .. Len(MapSeq) + 1
      /\ open' \in [MemFn -> 0 .. MaxBlocks] /\ left' \subseteq MemFn
  BY CountsStep, OpenStep DEF LibInv, ToolsInv
<1>1. disturbed' \in BOOLEAN /\ watched' \subseteq Thread /\ heard' \subseteq Thread
  BY DEF QuickNext, Observes
<1>2. ASSUME UNCHANGED <<stage, saved, broken, dangling>>, called' \in BOOLEAN
      PROVE  QuickTypeOK'
  BY <1>0, <1>1, <1>2
<1>3. CASE Statements
  <2>1. /\ stage' \in Stage /\ called' \in BOOLEAN
        /\ broken' \in BOOLEAN /\ dangling' \in BOOLEAN
    BY <1>3, StatementsMove DEF Stage, CopyThrows
  <2>2. Original \in Callback \union {Null}
    BY FnAssumption DEF Original, LibInv, ToolsInv, Hooks!HooksInv,
       Hooks!TypeOK, Hooks!Ownership, Hooks!InCell, Hooks!Value
  <2>3. saved' \in Callback \union {Null}
    BY <1>3, <2>2, StatementsMove DEF CopyThrows
  <2> QED
    BY <1>0, <1>1, <2>1, <2>3
<1>4. CASE MainLibrary
  <2>1. /\ stage' \in Stage
        /\ broken' \in {TRUE, FALSE, broken}
        /\ dangling' \in {TRUE, FALSE, dangling}
    <3>1. CASE RegistrationDone
      BY <3>1 DEF RegistrationDone, RegistersNext, Swaps, Restores, Stage
    <3>2. CASE RegistrationFailed
      BY <3>2 DEF RegistrationFailed, Stage
    <3>3. CASE UninitializeFailed \/ TearsDown
      BY <3>3 DEF UninitializeFailed, TearsDown, Stage
    <3>4. CASE UNCHANGED <<stage, broken, dangling>>
      BY <3>4
    <3> QED
      BY <1>4, <3>1, <3>2, <3>3, <3>4, LibraryReturns DEF UninitializeDone
  <2>2. called' \in BOOLEAN /\ saved' = saved
    BY <1>4 DEF MainLibrary
  <2> QED
    BY <1>0, <1>1, <2>1, <2>2
<1> QED
  BY <1>2, <1>3, <1>4, ScriptSteps DEF Reports, Unscripted

(* A set-up registers each of its hooks.                                    *)
LEMMA RegisteredStep ==
  ASSUME LibInv, QuickTypeOK, Outside, Asked, Counts, Registered, QuickNext
  PROVE  Registered'
<1>0. nth \in Nat /\ Main \in Thread
  BY MapSeqFacts, QuickstartAssumption DEF QuickTypeOK
<1>1. CASE \E t \in Workers : WorkerActs(t) /\ Unscripted
  <2>1. WorkerLeaves /\ Unscripted
    BY <1>1, WorkersLeave DEF LibInv
  <2> QED
    BY <2>1 DEF WorkerLeaves, Registered, IsSetUp, HookIs, Unscripted
<1>2. CASE Statements \/ Reports(Main)
  <2>1. UNCHANGED <<cell, content>>
    BY <1>2, StatementsKeepHooks
  <2>2. stage' = "register" => nth' = 1 \/ (stage = "register" /\ nth' = nth)
    BY <1>2, StatementsMove DEF Reports, Counts, CopyThrows
  <2>3. helper'[Main] = "unwrap" => helper[Main] = "unwrap" /\ nth' = nth
    <3>1. CASE SetupRegister
      BY <1>0, <3>1 DEF SetupRegister, BeginsHelper, LibInv, ToolsInv, TypeOK
    <3>2. CASE Statements /\ ~SetupRegister
      <4>1. helper'[Main] = "none"
        <5>1. helper[Main] = "none"
          BY <3>2, StatementsAtRest
        <5>2. SwapHook \/ RestoreHook => helper' = helper
          BY DEF SwapHook, RestoreHook, Registers, toolVars
        <5> QED
          BY <3>2, <5>1, <5>2, StatementsKeepPlace
      <4> QED
        BY <4>1
    <3>3. CASE Reports(Main)
      BY <3>3, StatementsKeepPlace DEF Reports
    <3> QED
      BY <1>2, <3>1, <3>2, <3>3
  <2> QED
    BY <2>1, <2>2, <2>3 DEF Registered, IsSetUp, HookIs
<1>3. CASE MainLibrary
  <2>0. Library(Main) /\ ToolsInv /\ (helper[Main] = "on" => at[Main] # "idle")
    BY <1>3 DEF MainLibrary, LibInv, Asked
  <2>1. CASE UNCHANGED <<stage, nth>>
    <3>1. "unexpected" \in Hooks!Value
      BY DEF Hooks!Value, Callback
    <3>2. ASSUME stage = "register", NEW i \in 1 .. nth, IsSetUp(MapSeq[i])
          PROVE  IsSetUp(MapSeq[i])'
      <4>1. MapSeq[i] \in MemFn
        BY <1>0, <3>2, MapSeqFacts DEF Counts
      <4>2. at[Main] = "exchange" =>
              request[Main][1] # MapSeq[i] \/ request[Main][2] = "unexpected"
        BY <3>2 DEF Asked
      <4> QED
        BY <2>0, <3>1, <3>2, <4>1, <4>2, LibraryKeepsHook DEF IsSetUp
    <3>3. stage' = "register" => \A i \in 1 .. nth' - 1 : IsSetUp(MapSeq[i])'
      BY <1>0, <2>1, <3>2 DEF Registered
    <3>4. ASSUME helper'[Main] = "unwrap" PROVE IsSetUp(MapSeq[nth])'
      <4>1. helper[Main] = "unwrap" \/ (helper[Main] = "on" /\ at[Main] = "finish")
        BY <2>0, <3>4, HelperGoesOn
      <4>2. stage = "register" /\ uninit[Main] = 0
        BY <4>1 DEF Asked
      <4>3. HookIs(MapSeq[nth], "unexpected")
        BY <4>1, <4>2 DEF Registered, IsSetUp, Asked, LibInv, UninitInv, Installed
      <4>4. nth \in 1 .. nth
        BY <1>0, <4>2 DEF QuickTypeOK
      <4>5. IsSetUp(MapSeq[nth])
        BY <4>3 DEF IsSetUp
      <4>6. IsSetUp(MapSeq[nth])'
        BY <2>1, <3>2, <4>2, <4>4, <4>5 DEF IsSetUp, HookIs
      <4> QED
        BY <4>6
    <3> QED
      BY <2>1, <3>3, <3>4 DEF Registered, IsSetUp, HookIs
  <2>2. CASE RegistrationDone
    <3>0. helper'[Main] = "none" /\ UNCHANGED <<cell, content>>
      BY <2>2 DEF RegistrationDone, BackInScript
    <3>1. CASE Swaps \/ Restores
      BY <3>0, <3>1 DEF Swaps, Restores, Registered
    <3>2. CASE RegistersNext
      <4>1. /\ stage = "register" /\ nth' = nth + 1
            /\ HookIs(MapSeq[nth], "unexpected")
        BY <3>2 DEF RegistersNext
      <4>2. ASSUME NEW i \in 1 .. nth' - 1 PROVE IsSetUp(MapSeq[i])'
        <5>1. CASE i = nth
          BY <3>0, <4>1, <5>1 DEF IsSetUp, HookIs
        <5>2. CASE i \in 1 .. nth - 1
          BY <3>0, <4>1, <5>2 DEF Registered, IsSetUp, HookIs
        <5> QED
          BY <1>0, <4>1, <5>1, <5>2
      <4> QED
        BY <3>0, <4>2 DEF Registered
    <3> QED
      BY <2>2, <3>1, <3>2 DEF RegistrationDone
  <2>3. CASE RegistrationFailed \/ UninitializeFailed \/ UninitializeDone
    BY <2>3 DEF RegistrationFailed, UninitializeFailed, UninitializeDone,
       BackInScript, TearsDown, Registered
  <2> QED
    BY <1>3, <2>1, <2>2, <2>3, LibraryReturns
<1> QED
  BY <1>1, <1>2, <1>3, ScriptSteps

(* What is_working() and the body find set up stays so, but for what        *)
(* is_working() itself does and undoes.                                     *)
LEMMA HookedStep ==
  ASSUME LibInv, Outside, Asked, Registered, Hooked, QuickNext
  PROVE  Hooked'
<1> USE DEF IsSetUp
<1>0. /\ {"plain", "unexpected"} \subseteq Hooks!Value /\ AllocFn \in MemFn
      /\ \A f \in MemFn : \E i \in 1 .. Len(MapSeq) : MapSeq[i] = f
  BY FnAssumption, QuickstartAssumption DEF Hooks!Value, Callback
<1>1. CASE \E t \in Workers : WorkerActs(t) /\ Unscripted
  <2>1. WorkerLeaves /\ Unscripted
    BY <1>1, WorkersLeave DEF LibInv
  <2> QED
    BY <2>1 DEF WorkerLeaves, Hooked, HookIs, IsWorkingRuns, Unscripted
<1>2. CASE Reports(Main)
  <2>1. UNCHANGED <<cell, content, at>> /\ UNCHANGED <<stage, saved>>
    BY <1>2, StatementsKeepHooks, StatementsKeepPlace DEF Reports
  <2> QED
    BY <2>1 DEF Hooked, HookIs, IsWorkingRuns
<1>3. CASE Statements
  <2>1. UNCHANGED <<cell, content>>
    BY <1>3, StatementsKeepHooks
  <2>2. stage = "swap" /\ stage' = "swap" => at[Main] \notin {"destroy", "finish"}
    BY <1>3, StatementsAtRest
  <2>3. HookIs(AllocFn, "unexpected") => Original = "unexpected"
    BY DEF HookIs, Original
  <2> QED
    BY <1>3, <2>1, <2>2, <2>3, StatementsMove DEF Hooked, HookIs, IsWorkingRuns,
       CopyThrows
<1>4. CASE MainLibrary
  <2>0. Library(Main) /\ ToolsInv /\ UNCHANGED saved
    BY <1>4 DEF MainLibrary, LibInv
  <2>1. CASE UNCHANGED stage
    <3>1. ASSUME NEW f \in MemFn \ {AllocFn}, HookIs(f, "unexpected"),
                 stage \in {"enable", "get", "body"} \/ IsWorkingRuns
          PROVE  HookIs(f, "unexpected")'
      <4>1. at[Main] = "exchange" =>
              request[Main][1] # f \/ request[Main][2] = "unexpected"
        BY <3>1 DEF Asked, IsWorkingRuns
      <4> QED
        BY <1>0, <2>0, <3>1, <4>1, LibraryKeepsHook
    <3>2. ASSUME stage = "swap", at'[Main] \notin {"destroy", "finish"}
          PROVE  HookIs(AllocFn, "unexpected")'
      <4>1. CASE at[Main] = "idle" \/ at'[Main] # "idle"
        <5>1. /\ at[Main] \notin {"destroy", "finish"}
              /\ at[Main] = "exchange" => UNCHANGED <<cell, content>>
          BY <2>0, <3>2, <4>1, LibraryGoesOn
        <5>2. HookIs(AllocFn, "unexpected")
          BY <3>2, <5>1 DEF Hooked
        <5>3. CASE at[Main] = "exchange"
          BY <5>1, <5>2, <5>3 DEF HookIs
        <5>4. CASE at[Main] # "exchange"
          BY <1>0, <2>0, <5>2, <5>4, LibraryKeepsHook
        <5> QED
          BY <5>3, <5>4
      <4>2. CASE at[Main] # "idle" /\ at'[Main] = "idle"
        <5>1. OnEnds("finish") \/ OnEnds("unwind")
          BY <2>0, <3>2, <4>2, LibraryGoesOn DEF OnEnds, Asked
        <5>2. uninit[Main] = 0
          BY <3>2 DEF Asked
        <5> QED
          BY <1>4, <2>1, <3>2, <5>1, <5>2, FnSeqFacts DEF MainLibrary, GoesOn,
             SetupThrows, TearsDown, Terminates, OnReturned, OnThrew,
             UninitDone, UninitThrew
      <4> QED
        BY <4>1, <4>2
    <3>3. ASSUME stage \in {"enable", "get", "body"}
          PROVE  HookIs(AllocFn, "unexpected")'
      <4>1. at[Main] = "idle"
        BY <3>3 DEF Asked
      <4> QED
        BY <1>0, <2>0, <3>3, <4>1, LibraryKeepsHook DEF Hooked
    <3>4. ASSUME stage \in {"probe", "probed"}
          PROVE  HookIs(AllocFn, "plain")'
      <4>1. at[Main] = "idle"
        BY <3>4 DEF Asked
      <4> QED
        BY <1>0, <2>0, <3>4, <4>1, LibraryKeepsHook DEF Hooked
    <3> QED
      BY <2>0, <2>1, <3>1, <3>2, <3>3, <3>4 DEF Hooked, IsWorkingRuns
  <2>2. CASE RegistrationDone
    <3>1. CASE RegistersNext
      <4>1. ASSUME stage' = "enable", NEW f \in MemFn PROVE HookIs(f, "unexpected")
        <5>1. PICK i \in 1 .. Len(MapSeq) : MapSeq[i] = f
          BY <1>0
        <5>2. CASE i = nth
          BY <3>1, <5>1, <5>2 DEF RegistersNext
        <5>3. CASE i \in 1 .. nth - 1
          BY <3>1, <5>1, <5>3 DEF Registered, RegistersNext
        <5> QED
          BY <3>1, <4>1, <5>1, <5>2, <5>3, MapSeqFacts DEF RegistersNext
      <4> QED
        BY <1>0, <2>2, <3>1, <4>1 DEF RegistrationDone, BackInScript,
           RegistersNext, Hooked, HookIs, IsWorkingRuns
    <3>2. CASE Swaps
      BY <2>0, <2>2, <3>2 DEF Swaps, RegistrationDone, BackInScript, Hooked, HookIs,
         IsWorkingRuns
    <3>3. CASE Restores
      BY <2>0, <2>2, <3>3 DEF Restores, RegistrationDone, BackInScript, Hooked, HookIs,
         IsWorkingRuns
    <3> QED
      BY <2>2, <3>1, <3>2, <3>3 DEF RegistrationDone
  <2>3. CASE RegistrationFailed \/ UninitializeFailed \/ UninitializeDone
    BY <2>3 DEF RegistrationFailed, UninitializeFailed, UninitializeDone,
       TearsDown, Hooked, IsWorkingRuns
  <2> QED
    BY <1>4, <2>1, <2>2, <2>3, LibraryReturns
<1> QED
  BY <1>1, <1>2, <1>3, <1>4, ScriptSteps

(* The test's thread is not switched off before the tear-down.              *)
LEMMA SwitchedOnStep ==
  ASSUME LibInv, Outside, Asked, Registered, SwitchedOn, QuickNext
  PROVE  SwitchedOn'
<1>0. Known(Main)
  BY ToolsKnown, QuickstartAssumption DEF LibInv
<1> USE DEF SwitchedOn, IsWorkingRuns
<1>1. ASSUME UNCHANGED <<initialized, tlsSet, tlsEnabled, stage>> PROVE SwitchedOn'
  BY <1>1
<1>2. CASE \E t \in Workers : WorkerActs(t) /\ Unscripted
  <2>1. WorkerLeaves /\ Unscripted
    BY <1>2, WorkersLeave DEF LibInv
  <2> QED
    BY <2>1 DEF WorkerLeaves, Unscripted
<1>3. CASE Reports(Main)
  BY <1>1, <1>3 DEF Reports, ProgramCalls, CallbackEnds, monVars
<1>4. CASE Statements
  <2>1. CASE SetupInitialize
    BY <2>1 DEF SetupInitialize, SwitchesBy, Mon!Initialize
  <2>2. CASE SetupEnable
    BY <1>0, <2>2 DEF SetupEnable, SwitchesBy, AtStage, Known,
       Mon!EnableMonitoring, Mon!SetThread
  <2>3. CASE TeardownDisable
    BY <2>3 DEF TeardownDisable
  <2>4. CASE MonitorsAll
    BY <1>1, <2>4 DEF MonitorsAll, SwitchesBy, scriptVars,
       Mon!EnableInAllThreads, Mon!DisableInAllThreads, Mon!SetAll
  <2>5. CASE \/ SetupRegister \/ SwapHook \/ RestoreHook \/ TeardownUninitialize
             \/ MainCalls \/ Copies
             \/ \E f \in MemFn : BlockBegins(f) \/ BlockEnds(f) \/ BlockIsLeft(f)
    BY <1>1, <2>5 DEF SetupRegister, SwapHook, RestoreHook,
       TeardownUninitialize, MainCalls, Copies, Registers, BeginsHelper,
       BeginsUninitialize,
       ProgramCalls, BlockBegins, BlockEnds, BlockIsLeft, ExpectsNo, Expects,
       Mon!BeginSection, monVars, vars, scriptVars
  <2>6. CASE \/ StartSetup \/ GetOriginal \/ CopyThrows \/ ProbeMalloc
             \/ ProbeFree \/ BodyEnds
    BY <2>6 DEF StartSetup, GetOriginal, CopyThrows, ProbeMalloc, ProbeFree, BodyEnds,
       AtStage, ProgramCalls, monVars, vars
  <2> QED
    BY <1>4, <2>1, <2>2, <2>3, <2>4, <2>5, <2>6 DEF Statements
<1>5. CASE MainLibrary
  <2>1. UninitSwitches(Main) \/ UNCHANGED <<initialized, tlsSet, tlsEnabled>>
    BY <1>5 DEF MainLibrary, Library, UninitUnregisters, UninitExpects, OnCalls,
     HelperCalls, HelperRegisters, HelperEnds, OnAllocates,
     OnExchanges, EndsOn, Enters, PassesGate, Returns, Check,
     CheckEnabled, BeginCustomSection, LoadCallback,
     InvokeCallback, NoCallback, EndCustomSection, LeaveCustom,
     monVars, Mon!BeginSection, Mon!EndSection
  <2>2. UninitSwitches(Main) => stage = "uninitialize"
    BY DEF UninitSwitches, Statement, UninitRuns, Asked
  <2>3. \/ UNCHANGED stage
        \/ stage' \in {"outside", "terminated"}
        \/ stage = "register" /\ stage' \in {"register", "enable"}
        \/ stage \in {"swap", "restore"} /\ stage' \in {"probe", "body"}
    BY <1>5, LibraryReturns DEF RegistrationDone, RegistersNext, Swaps,
       Restores, RegistrationFailed, UninitializeFailed, UninitializeDone,
       TearsDown
  <2> QED
    BY <2>1, <2>2, <2>3
<1> QED
  BY <1>2, <1>3, <1>4, <1>5, ScriptSteps

(* With the library preloaded, the malloc of is_working() comes to its      *)
(* callback where no other thread is in a memory function: none is in the   *)
(* gate, no section is open, and the test's thread is monitored.            *)
LEMMA ProbingStep ==
  ASSUME LibInv, Asked, Hooked, SwitchedOn, stage = "probed", ~Busy,
         Probing, Library(Main)
  PROVE  Probing'
<1>0. Known(Main) /\ \A t \in Thread : Known(t)
  BY ToolsKnown, QuickstartAssumption DEF LibInv
<1>1. at[Main] = "idle" /\ uninit[Main] = 0 /\ helper[Main] = "none"
  BY DEF Asked
<1>2. \A t \in Thread \ {Main} : pc[t] = "idle"
  BY DEF Busy
<1>3. ~Gate!ShortCircuit(Main)
  BY <1>0, <1>2, NoShortCircuit DEF LibInv, Probing, Known
<1>4. step[Main] = "check" => Mon!Applicable
  <2>1. ASSUME step[Main] = "check", NEW t \in Thread PROVE ~InScope(t)
    <3>1. CASE t = Main
      BY <1>1, <2>1, <3>1 DEF InScope
    <3>2. CASE t # Main
      <4>1. at[t] = "idle" /\ pc[t] = "idle"
        BY <1>2, <3>2 DEF LibInv, WorkersOnlyCall, Workers
      <4>2. step[t] = "none"
        BY <1>0, <4>1 DEF Known
      <4> QED
        BY <4>1, <4>2 DEF InScope
    <3> QED
      BY <3>1, <3>2
  <2>2. initialized
    BY DEF SwitchedOn, IsWorkingRuns
  <2> QED
    BY <2>1, <2>2 DEF LibInv, ToolsInv, SectionsClose, Mon!Applicable
<1>5. Mon!SwitchedOn(Main)
  BY DEF SwitchedOn, IsWorkingRuns, Mon!SwitchedOn
<1>6. ASSUME step[Main] = "invoke"
      PROVE  /\ using[Main] # NoObj /\ content[using[Main]] = "plain"
             /\ ~MayNotRun(Main)
  <2>1. using[Main] # NoObj /\ content[using[Main]] = "plain"
    BY <1>6 DEF LibInv, Placed, Probing, Hooked, HookIs
  <2> QED
    BY <2>1, DistinctAssumption DEF MayNotRun, RunsCallback
<1> USE <1>0, <1>1 DEF Known, Probing, Deciding
<1>7. CASE Enters(Main) \/ PassesGate(Main) \/ Returns(Main)
  BY <1>3, <1>7 DEF Enters, PassesGate, Returns, Gate!Enter, Gate!PassGuard,
     Gate!Lock, Gate!Exit, Gate!Unlock, GoTo, toolVars
<1>8. CASE Check(Main) \/ CheckEnabled(Main)
  BY <1>4, <1>5, <1>8 DEF Check, CheckEnabled, AtStep, GoTo, gateVars
<1>9. CASE BeginCustomSection(Main) \/ LoadCallback(Main) \/ EndCustomSection(Main)
           \/ LeaveCustom(Main)
  BY <1>9 DEF BeginCustomSection, LoadCallback, EndCustomSection, LeaveCustom,
     AtStep, GoTo, gateVars
<1>10. CASE InvokeCallback(Main) \/ NoCallback(Main)
  BY <1>6, <1>10 DEF InvokeCallback, NoCallback, AtStep, GoTo, gateVars,
     hookVars, HoldsProbe
<1> QED
  BY <1>7, <1>8, <1>9, <1>10 DEF Library, UninitSwitches, UninitUnregisters,
     UninitExpects, Statement, UninitRuns, HelperCalls, HelperRegisters,
     HelperEnds, HelperRuns, OnCalls, OnAllocates, OnExchanges, EndsOn, OnRuns

(* So malloc_was_called is set when guaranteed_malloc() has returned.       *)
LEMMA ProbedStep ==
  ASSUME LibInv, Outside, Asked, Registered, Hooked, SwitchedOn, Probed,
         ProbesAlone, QuickNext
  PROVE  Probed'
<1>0. Known(Main)
  BY ToolsKnown, QuickstartAssumption DEF LibInv
<1>1. disturbed => disturbed' \/ stage = "get"
  BY DEF QuickNext, Observes
<1>2. CASE \E t \in Workers : WorkerActs(t) /\ Unscripted
  <2>1. WorkerLeaves /\ Unscripted
    BY <1>2, WorkersLeave DEF LibInv
  <2> QED
    BY <1>1, <2>1 DEF WorkerLeaves, Unscripted, Probed, Probing, HoldsProbe
<1>3. CASE Reports(Main)
  <2>1. Probing /\ stage = "probed" => called'
    BY <1>3 DEF Reports, CallbackEnds, CallbackIs, InCallback, Probing, Deciding,
       HoldsProbe, IsWorkingRuns
  <2> QED
    BY <1>1, <1>3, <2>1 DEF Reports, Probed
<1>4. CASE Statements
  <2>1. ~Probing
    BY <1>4, StatementsAtRest DEF Probing
  <2>2. CASE ProbeMalloc
    <3>1. pc'[Main] = "guard" /\ nest'[Main] = 0
      BY <1>0, <2>2 DEF Known, ProbeMalloc, AtStage, ProgramCalls, CallFn,
         Gate!Call, Gate!CallNested
    <3> QED
      BY <2>2, <3>1 DEF ProbeMalloc, Probed, Probing
  <2>3. CASE ~ProbeMalloc
    <3>1. stage' = "probed" => stage = "probed"
      BY <1>4, <2>3, AtStageFacts DEF Statements, StartSetup, SetupInitialize,
         SetupRegister, SetupEnable, GetOriginal, Copies, CopyThrows, SwapHook,
         ProbeFree, RestoreHook, BlockBegins, BlockEnds, BlockIsLeft,
         MonitorsAll, BodyEnds, TeardownDisable, TeardownUninitialize,
         MainCalls, scriptVars
    <3> QED
      BY <1>1, <1>4, <2>1, <3>1, StatementsMove DEF Probed, CopyThrows
  <2> QED
    BY <2>2, <2>3
<1>5. CASE MainLibrary
  <2>1. called' = called
    BY <1>5 DEF MainLibrary
  <2>2. /\ stage' = "probed" => stage = "probed"
        /\ stage' \in {"restore", "body"} => stage \in {"restore", "body"}
    BY <1>5, LibraryReturns DEF RegistrationDone, RegistersNext, Swaps,
       Restores, RegistrationFailed, UninitializeFailed, UninitializeDone,
       TearsDown
  <2>4. ASSUME stage = "probed", Probing PROVE Probing' \/ disturbed
    BY <1>5, <2>4, ProbingStep DEF MainLibrary, ProbesAlone
  <2> QED
    BY <1>1, <2>1, <2>2, <2>4 DEF Probed
<1> QED
  BY <1>2, <1>3, <1>4, <1>5, ScriptSteps

(* No variant outlives its hook and its registration.                       *)
LEMMA NoPlainLeft ==
  ASSUME LibInv, at[Main] \notin {"exchange", "destroy"},
         \A f \in MemFn : ~HookIs(f, "plain")
  PROVE  NoPlain
<1> SUFFICES ASSUME NEW o \in Obj, content[o] = "plain" PROVE FALSE
  BY DEF NoPlain
<1>1. content[o] # Dead /\ o # NoObj
  BY DistinctAssumption
<1>2. \A t \in Thread : at[t] \notin {"exchange", "destroy"}
  BY DEF LibInv, WorkersOnlyCall, Workers
<1>3. ~Hooks!InHand(o)
  BY <1>1, <1>2 DEF LibInv, ToolsInv, Hooks!HooksInv, Hooks!Registering,
     Hooks!InHand
<1>4. PICK f \in MemFn : cell[f] = o
  BY <1>1, <1>3 DEF LibInv, ToolsInv, Hooks!HooksInv, Hooks!Ownership,
     Hooks!InCell
<1> QED
  BY <1>1, <1>4 DEF HookIs

(* on_malloc() is asked for the callback of is_working() by is_working().   *)
LEMMA PlainAsked ==
  ASSUME LibInv, Asked, at[Main] # "idle",
         NEW f \in MemFn, request[Main] = <<f, "plain">>,
         saved = "plain" => ~IsWorkingRuns
  PROVE  stage = "swap" /\ f = AllocFn
<1>1. uninit[Main] = 0
  BY DistinctAssumption DEF LibInv, UninitInv, UninitRequest
<1> QED
  BY <1>1 DEF Asked, IsWorkingRuns

(* The callback of is_working() is gone when is_working() is, unless it     *)
(* threw while putting the original hook back.                              *)
LEMMA PlainScopedStep ==
  ASSUME LibInv, Outside, Asked, Registered, Hooked, PlainScoped, QuickNext
  PROVE  PlainScoped'
<1>0. /\ "plain" \in Hooks!Value /\ AllocFn \in MemFn
      /\ saved = "plain" => ~IsWorkingRuns
  BY FnAssumption DEF Hooks!Value, Callback, Hooked, IsWorkingRuns
<1>1. CASE UNCHANGED <<cell, content>> /\ UNCHANGED <<stage, dangling>>
  BY <1>1 DEF PlainScoped, NoPlain, HookIs, IsWorkingRuns
<1>2. CASE Statements
  <2>1. UNCHANGED <<cell, content>>
    BY <1>2, StatementsKeepHooks
  <2>2. CASE CopyThrows
    <3>1. at[Main] = "idle" /\ stage' = "outside"
      BY <2>2, AtStageFacts DEF CopyThrows
    <3>2. CASE stage = "restore"
      BY <2>1, <2>2, <3>2 DEF CopyThrows, PlainScoped, HookIs
    <3>3. CASE stage = "swap"
      <4>1. HookIs(AllocFn, "unexpected")
        BY <3>1, <3>3 DEF Hooked, IsSetUp
      <4>2. \A f \in MemFn : ~HookIs(f, "plain")
        BY <4>1 DEF PlainScoped, HookIs
      <4>3. NoPlain
        BY <3>1, <4>2, NoPlainLeft
      <4> QED
        BY <2>1, <4>3 DEF PlainScoped, NoPlain, HookIs
    <3> QED
      BY <2>2, <3>2, <3>3 DEF CopyThrows, AtStage
  <2>3. CASE ~CopyThrows
    <3>1. (~IsWorkingRuns' => ~IsWorkingRuns) /\ dangling' = dangling
      BY <1>2, <2>3, StatementsMove DEF IsWorkingRuns
    <3> QED
      BY <2>1, <3>1 DEF PlainScoped, NoPlain, HookIs
  <2> QED
    BY <2>2, <2>3
<1>3. CASE MainLibrary
  <2>0. Library(Main) /\ ToolsInv
    BY <1>3 DEF MainLibrary, LibInv
  <2>1. ASSUME NEW f \in MemFn \ {AllocFn}, HookIs(f, "plain")' PROVE FALSE
    <3>1. at[Main] = "exchange" /\ request[Main] = <<f, "plain">>
      BY <1>0, <2>0, <2>1, LibrarySetsHook DEF PlainScoped
    <3> QED
      BY <1>0, <2>1, <3>1, PlainAsked
  <2>2. NoPlain /\ stage # "swap" => NoPlain'
    <3> SUFFICES ASSUME NoPlain, stage # "swap",
                        NEW o \in Obj, content'[o] = "plain"
                 PROVE  FALSE
      BY DEF NoPlain
    <3>1. at[Main] = "construct" /\ request[Main][2] = "plain"
      BY <1>0, <2>0, LibraryMakesVariant DEF NoPlain
    <3>2. request[Main] \in MemFn \X Hooks!Value
      BY <3>1, QuickstartAssumption DEF LibInv, ToolsInv, Hooks!HooksInv,
         Hooks!TypeOK, Hooks!Registering
    <3>3. PICK f \in MemFn : request[Main] = <<f, "plain">>
      BY <3>1, <3>2
    <3> QED
      BY <1>0, <3>1, <3>3, PlainAsked
  <2>3. ASSUME at[Main] \in {"idle", "finish", "unwind"}, HookIs(AllocFn, "unexpected")
        PROVE  NoPlain
    <3>1. \A f \in MemFn : ~HookIs(f, "plain")
      BY <2>3 DEF PlainScoped, HookIs
    <3> QED
      BY <2>3, <3>1, NoPlainLeft
  <2>4. ~dangling' /\ ~IsWorkingRuns' => NoPlain'
    <3> SUFFICES ASSUME ~dangling', ~IsWorkingRuns' PROVE NoPlain'
      OBVIOUS
    <3>1. CASE UNCHANGED <<stage, dangling>>
      BY <2>2, <3>1 DEF PlainScoped, IsWorkingRuns
    <3>2. CASE RegistrationDone
      <4>1. CASE RegistersNext
        <5>1. CASE MapSeq[nth] = AllocFn
          BY <2>2, <2>3, <3>2, <4>1, <5>1 DEF RegistersNext
        <5>2. CASE MapSeq[nth] # AllocFn
          BY <2>2, <4>1, <5>2 DEF RegistersNext, PlainScoped, IsWorkingRuns
        <5> QED
          BY <5>1, <5>2
      <4>2. CASE Swaps
        BY <4>2 DEF Swaps, IsWorkingRuns
      <4>3. CASE Restores
        BY <2>2, <2>3, <3>2, <4>3 DEF RegistrationDone, Restores, Hooked,
           IsWorkingRuns
      <4> QED
        BY <3>2, <4>1, <4>2, <4>3 DEF RegistrationDone
    <3>3. CASE RegistrationFailed
      <4>1. stage \in {"register", "swap"} /\ ~dangling /\ content' = content
        BY <3>3 DEF RegistrationFailed, BackInScript
      <4>2. CASE stage = "register"
        BY <4>1, <4>2 DEF PlainScoped, IsWorkingRuns, NoPlain
      <4>3. CASE stage = "swap"
        BY <2>3, <3>3, <4>1, <4>3 DEF RegistrationFailed, Hooked, IsSetUp,
           NoPlain
      <4> QED
        BY <4>1, <4>2, <4>3
    <3>4. CASE UninitializeDone
      <4>1. uninit[Main] = UninitLen
        BY <3>4 DEF UninitializeDone, TearsDown, UninitDone
      <4>2. at[Main] = "idle"
        BY <4>1, FnSeqFacts DEF LibInv, UninitInv, UninitRequest
      <4>3. ASSUME NEW f \in MemFn PROVE ~HookIs(f, "plain")
        <5>1. PICK i \in 1 .. Len(FnSeq) : FnSeq[i] = f
          BY FnAssumption
        <5>2. HookIs(f, Null)
          BY <4>1, <5>1, FnSeqFacts DEF LibInv, UninitInv, Cleared
        <5> QED
          BY <5>2, DistinctAssumption DEF HookIs
      <4>4. NoPlain
        BY <4>2, <4>3, NoPlainLeft
      <4> QED
        BY <2>2, <3>4, <4>4 DEF UninitializeDone
    <3>5. CASE UninitializeFailed
      BY <3>5 DEF UninitializeFailed, BackInScript, PlainScoped, IsWorkingRuns,
         NoPlain
    <3> QED
      BY <1>3, <3>1, <3>2, <3>3, <3>4, <3>5, LibraryReturns
  <2> QED
    BY <2>1, <2>4 DEF PlainScoped
<1>4. CASE Reports(Main)
  BY <1>1, <1>4, StatementsKeepHooks DEF Reports
<1>5. CASE \E t \in Workers : WorkerActs(t) /\ Unscripted
  <2>1. WorkerLeaves /\ Unscripted
    BY <1>5, WorkersLeave DEF LibInv
  <2> QED
    BY <1>1, <2>1 DEF WorkerLeaves, Unscripted
<1> QED
  BY <1>2, <1>3, <1>4, <1>5, ScriptSteps

(* The library never makes a function unexpected.                           *)
LEMMA LibraryExpects ==
  ASSUME ToolsInv, Library(Main)
  PROVE  \A f \in MemFn : unexpected'[f] => unexpected[f]
<1>1. unexpected \in [MemFn -> BOOLEAN]
  BY DEF ToolsInv, TypeOK
<1>2. CASE UninitExpects(Main)
  BY <1>1, <1>2 DEF UninitExpects, ExpectNo
<1>3. UninitExpects(Main) \/ UNCHANGED unexpected
  BY DEF Library, UninitSwitches, UninitUnregisters, OnCalls, HelperCalls,
     HelperRegisters, HelperEnds, OnAllocates, OnExchanges, EndsOn,
     Enters, PassesGate, Returns, Check, CheckEnabled,
     BeginCustomSection, LoadCallback, InvokeCallback, NoCallback,
     EndCustomSection, LeaveCustom, toolVars
<1> QED
  BY <1>2, <1>3

(* What the script notes keeps up with the expectations.                    *)
LEMMA ExplainedStep ==
  ASSUME LibInv, QuickTypeOK, Outside, Asked, Registered, Explained, QuickNext
  PROVE  Explained'
<1>1. /\ unexpected \in [MemFn -> BOOLEAN] /\ left \subseteq MemFn
      /\ open \in [MemFn -> 0 .. MaxBlocks] /\ MaxBlocks \in Nat
  BY QuickstartAssumption DEF QuickTypeOK, TypeOK
<1> USE <1>1 DEF Explained
<1>2. ASSUME open' = open, left' = left,
             \A f \in MemFn : unexpected'[f] => unexpected[f]
      PROVE  Explained'
  BY <1>2
<1>3. CASE \E f \in MemFn : BlockBegins(f)
  BY <1>3 DEF BlockBegins, ExpectsNo, ExpectNo
<1>4. CASE \E f \in MemFn : BlockEnds(f)
  BY <1>4 DEF BlockEnds, ExpectsNo, ExpectNo
<1>5. CASE \E f \in MemFn : BlockIsLeft(f)
  BY <1>5 DEF BlockIsLeft, vars, toolVars
<1>6. CASE BodyEnds
  BY <1>6 DEF BodyEnds, vars, toolVars
<1>7. CASE MainLibrary
  <2>1. Library(Main) /\ ToolsInv /\ open' = open
    BY <1>7 DEF MainLibrary, LibInv
  <2>2. \A f \in MemFn : unexpected'[f] => unexpected[f]
    BY <2>1, LibraryExpects
  <2>3. CASE TearsDown
    <3>1. \A f \in MemFn : ~unexpected'[f]
      BY <2>1, <2>3, LastStatement, QuickstartAssumption DEF TearsDown,
         UninitDone, LibInv
    <3> QED
      BY <3>1
  <2>4. CASE left' = left
    BY <1>2, <2>1, <2>2, <2>4
  <2> QED
    BY <1>7, <2>3, <2>4, LibraryReturns DEF RegistrationDone,
       RegistrationFailed, UninitializeFailed, UninitializeDone
<1>8. CASE UNCHANGED <<open, left>> /\ UNCHANGED unexpected
  BY <1>8
<1>9. CASE \/ StartSetup \/ SetupInitialize \/ SetupRegister \/ SetupEnable
           \/ GetOriginal \/ Copies \/ CopyThrows \/ SwapHook \/ ProbeMalloc \/ ProbeFree \/ RestoreHook
           \/ MonitorsAll \/ TeardownDisable \/ TeardownUninitialize \/ MainCalls
           \/ Reports(Main)
  BY <1>8, <1>9 DEF StartSetup, SetupInitialize, SetupRegister, SetupEnable,
     GetOriginal, Copies, CopyThrows, SwapHook, ProbeMalloc,
     ProbeFree, RestoreHook, MonitorsAll, TeardownDisable,
     TeardownUninitialize, MainCalls, Reports, SwitchesBy,
     Registers, BeginsHelper, ProgramCalls, BeginsUninitialize, CallbackEnds,
     vars, toolVars, scriptVars
<1>10. CASE \E t \in Workers : WorkerActs(t) /\ Unscripted
  <2>1. WorkerLeaves /\ Unscripted
    BY <1>10, WorkersLeave DEF LibInv
  <2> QED
    BY <1>8, <2>1 DEF WorkerLeaves, Unscripted
<1> QED
  BY <1>3, <1>4, <1>5, <1>6, <1>7, <1>9, <1>10, ScriptSteps DEF Statements

(* Between tests nothing of the library is changed by the test's thread.    *)
LEMMA TestsLeaveNothingStep ==
  ASSUME LibInv, Outside, Asked, Registered, TestsLeaveNothing, QuickNext
  PROVE  TestsLeaveNothing'
<1>0. Main \in Thread
  BY QuickstartAssumption
<1>1. ASSUME UNCHANGED <<stage, broken, cell, content, unexpected>>,
             UNCHANGED <<enabled, tlsSet[Main], tlsEnabled[Main]>>
      PROVE  TestsLeaveNothing'
  BY <1>0, <1>1 DEF TestsLeaveNothing, Monitored, HookIs
<1>2. CASE \E t \in Workers : WorkerActs(t) /\ Unscripted
  <2>1. WorkerLeaves /\ Unscripted
    BY <1>2, WorkersLeave DEF LibInv
  <2> QED
    BY <1>1, <2>1 DEF WorkerLeaves, Unscripted
<1>3. CASE Reports(Main)
  BY <1>1, <1>3 DEF Reports, ProgramCalls, CallbackEnds, Hooks!Release,
     hookVars, monVars
<1>4. CASE Statements
  <2>1. CASE StartSetup
    BY <2>1 DEF StartSetup, TestsLeaveNothing, Monitored, HookIs, vars,
       hookVars, monVars, toolVars, AtStage
  <2>2. CASE MainCalls
    BY <1>1, <2>2 DEF MainCalls, ProgramCalls, hookVars, monVars, scriptVars
  <2>3. CASE CopyThrows
    BY <2>3 DEF CopyThrows, TestsLeaveNothing
  <2>4. CASE ~StartSetup /\ ~MainCalls /\ ~CopyThrows
    <3>1. stage' # "outside"
      BY <1>4, <2>4 DEF Statements, SetupInitialize, SetupRegister, SetupEnable,
     GetOriginal, Copies, SwapHook, ProbeMalloc,
     ProbeFree, RestoreHook, BlockBegins, BlockEnds, BlockIsLeft,
     ExpectsNo, MonitorsAll, BodyEnds, TeardownDisable,
     TeardownUninitialize, AtStage, scriptVars
    <3> QED
      BY <3>1 DEF TestsLeaveNothing
  <2> QED
    BY <2>1, <2>2, <2>3, <2>4
<1>5. CASE MainLibrary
  <2>0. Library(Main)
    BY <1>5 DEF MainLibrary
  <2>1. CASE UNCHANGED <<stage, broken>>
    <3> SUFFICES ASSUME stage = "outside" PROVE TestsLeaveNothing'
      BY <2>1 DEF TestsLeaveNothing
    <3>1. at[Main] = "idle" /\ uninit[Main] = 0 /\ helper[Main] = "none"
      BY DEF Asked
    <3>2. UNCHANGED <<cell, content, unexpected, enabled, tlsSet, tlsEnabled>>
      BY <2>0, <3>1 DEF Library, UninitSwitches, UninitUnregisters, UninitExpects,
     Statement, UninitRuns, OnCalls, HelperCalls, HelperRegisters,
     HelperEnds, HelperRuns, OnAllocates, OnExchanges, EndsOn,
     OnRuns, Enters, PassesGate, Returns, Check, CheckEnabled,
     BeginCustomSection, LoadCallback, InvokeCallback, NoCallback,
     EndCustomSection, LeaveCustom, hookVars, monVars, toolVars,
     Hooks!Load, Hooks!Release, Mon!BeginSection, Mon!EndSection
    <3> QED
      BY <1>1, <2>1, <3>2
  <2>2. CASE TearsDown
    <3>1. /\ Main \notin Monitored'
          /\ \A f \in MemFn : ~unexpected'[f] /\ content'[cell'[f]] = Null
      BY <1>0, <2>0, <2>2, LastStatement DEF TearsDown, UninitDone, LibInv
    <3>2. \A f \in MemFn : ~HookIs(f, "plain")' /\ ~HookIs(f, "unexpected")'
      BY <3>1, DistinctAssumption DEF HookIs
    <3> QED
      BY <3>1, <3>2 DEF TestsLeaveNothing
  <2>3. CASE RegistrationDone
    BY <2>3 DEF RegistrationDone, RegistersNext, Swaps, Restores,
       TestsLeaveNothing
  <2>4. CASE RegistrationFailed \/ UninitializeFailed
    BY <2>4 DEF RegistrationFailed, UninitializeFailed, TestsLeaveNothing
  <2> QED
    BY <1>5, <2>1, <2>2, <2>3, <2>4, LibraryReturns DEF UninitializeDone
<1> QED
  BY <1>2, <1>3, <1>4, <1>5, ScriptSteps

(* A callback of the configuration is only invoked on an unexpected call.   *)
LEMMA InvokedUnexpected ==
  ASSUME ToolsInv, [Next]_vars, NEW t \in Thread,
         step[t] = "invoke", CallbackIs(t, "unexpected")'
  PROVE  unexpected[fn[t]]
<1>1. step \in [Thread -> StepName]
  BY DEF ToolsInv, TypeOK
<1>2. step'[t] = "callback" /\ content'[using'[t]] = "unexpected"
  BY DEF CallbackIs, InCallback
<1>3. PICK u \in Thread : Program(u) \/ Library(u) \/ CallbackEnds(u)
  BY <1>2 DEF Next, vars, toolVars
<1>4. InvokeCallback(t)
  <2>1. CASE \/ Enters(u) \/ Check(u) \/ CheckEnabled(u) \/ BeginCustomSection(u)
             \/ LoadCallback(u) \/ NoCallback(u) \/ EndCustomSection(u)
             \/ LeaveCustom(u) \/ CallbackEnds(u)
    BY <1>1, <1>2, <2>1 DEF Enters, Check, CheckEnabled, BeginCustomSection,
       LoadCallback, NoCallback, EndCustomSection, LeaveCustom, CallbackEnds,
       GoTo
  <2>2. CASE InvokeCallback(u)
    BY <1>1, <1>2, <2>2 DEF InvokeCallback, GoTo
  <2>3. CASE step' = step
    BY <1>2, <2>3
  <2>4. \/ Enters(u) \/ Check(u) \/ CheckEnabled(u) \/ BeginCustomSection(u)
        \/ LoadCallback(u) \/ NoCallback(u) \/ EndCustomSection(u)
        \/ LeaveCustom(u) \/ CallbackEnds(u) \/ InvokeCallback(u) \/ step' = step
    BY <1>3 DEF Program, Library, ProgramCalls, Switches, SwitchesBy, Expects,
     Registers, BeginsUninitialize, BeginsHelper, UninitSwitches,
     UninitUnregisters, UninitExpects, OnCalls, HelperCalls,
     HelperRegisters, HelperEnds, OnAllocates, OnExchanges, EndsOn,
     PassesGate, Returns, toolVars
  <2> QED
    BY <2>1, <2>2, <2>3, <2>4
<1>5. content[using[t]] = "unexpected" /\ MayRun(t)
  BY <1>2, <1>4 DEF InvokeCallback, hookVars
<1>6. content[using[t]] # Dead
  BY <1>5, DistinctAssumption
<1> QED
  BY <1>5, <1>6 DEF MayRun, RunsCallback

(* A call goes on to its hook by way of the switches, and is watched then.   *)
LEMMA WatchingStep ==
  ASSUME LibInv, LibInv', Watching, QuickNext
  PROVE  Watching'
<1> SUFFICES ASSUME NEW t \in Thread, step'[t] \in {"section", "load", "invoke"}
             PROVE  t \in watched'
  BY DEF Watching
<1>0. step \in [Thread -> StepName] /\ Known(t) /\ Known(t)'
  BY ToolsKnown, ToolsKnownNext DEF LibInv, ToolsInv, TypeOK
<1>1. pc'[t] # "idle"
  BY <1>0 DEF Known
<1>2. step[t] \in {"section", "load", "invoke"} \/ t \in Monitored'
  <2>1. [Next]_vars
    BY ScriptIsLibrary, LibraryStepIsNext
  <2>2. CASE step' = step
    BY <2>2
  <2>3. ASSUME NEW u \in Thread, CheckEnabled(u)
        PROVE  step[t] \in {"section", "load", "invoke"} \/ t \in Monitored'
    BY <1>0, <2>3 DEF CheckEnabled, GoTo, Mon!SwitchedOn, Monitored, monVars
  <2>4. ASSUME NEW u \in Thread,
               \/ Enters(u) \/ Check(u) \/ BeginCustomSection(u)
               \/ LoadCallback(u) \/ InvokeCallback(u) \/ NoCallback(u)
               \/ EndCustomSection(u) \/ LeaveCustom(u) \/ CallbackEnds(u)
        PROVE  step[t] \in {"section", "load", "invoke"}
    BY <1>0, <2>4 DEF Enters, Check, BeginCustomSection, LoadCallback,
       InvokeCallback, NoCallback, EndCustomSection, LeaveCustom, CallbackEnds,
       GoTo, AtStep
  <2> QED
    BY <2>1, <2>2, <2>3, <2>4 DEF Next, vars, Program, Library, ProgramCalls,
       Switches, SwitchesBy, Expects, Registers, BeginsHelper,
       BeginsUninitialize, UninitSwitches, UninitUnregisters, UninitExpects,
       HelperCalls, HelperRegisters, HelperEnds, OnCalls, OnAllocates,
       OnExchanges, EndsOn, PassesGate, Returns, toolVars
<1>3. t \in watched \/ t \in Monitored'
  BY <1>2 DEF Watching
<1> QED
  BY <1>1, <1>3 DEF QuickNext, Observes

(* is_working() ends, and what it left behind is replaced, outside every    *)
(* call of the test's thread.                                               *)
LEMMA ScopeEnds ==
  ASSUME LibInv, Outside, Asked, Registered, QuickNext,
         dangling \/ IsWorkingRuns, ~(dangling' \/ IsWorkingRuns')
  PROVE  pc[Main] = "idle"
<1>1. CASE Reports(Main) \/ \E t \in Workers : WorkerActs(t) /\ Unscripted
  BY <1>1 DEF Reports, Unscripted, IsWorkingRuns
<1>2. CASE Statements
  BY <1>2, StatementsAtRest
<1>3. CASE MainLibrary
  BY <1>3, LibraryReturns DEF RegistrationDone, RegistrationFailed,
     UninitializeDone, UninitializeFailed, BackInScript, IsWorkingRuns
<1> QED
  BY <1>1, <1>2, <1>3, ScriptSteps

(* So the test's thread does not take the callback of is_working() with it. *)
LEMMA HeardStep ==
  ASSUME LibInv, Outside, Asked, Registered, PlainScoped', Heard, LibInv',
         QuickNext
  PROVE  Heard'
<1> SUFFICES ASSUME Main \in heard'
             PROVE  /\ step'[Main] \in {"invoke", "callback"}
                    /\ dangling' \/ IsWorkingRuns'
  BY DEF Heard
<1>0. /\ step'[Main] \in {"invoke", "callback"}
      /\ Main \in heard \/ HoldsProbe(Main)'
  BY DEF QuickNext, Observes
<1>1. CASE HoldsProbe(Main)'
  <2>1. using'[Main] \in Obj /\ content'[using'[Main]] = "plain"
    BY <1>1, QuickstartAssumption DEF HoldsProbe, LibInv, ToolsInv, TypeOK,
       Hooks!TypeOK
  <2> QED
    BY <1>0, <2>1 DEF PlainScoped, NoPlain
<1>2. CASE Main \in heard
  <2>1. pc[Main] # "idle"
    BY <1>2, ToolsKnown, QuickstartAssumption DEF Heard, LibInv, Known
  <2> QED
    BY <1>0, <1>2, <2>1, ScopeEnds DEF Heard
<1> QED
  BY <1>0, <1>1, <1>2

-----------------------------------------------------------------------------
(* The invariant holds before the first test ...                            *)
LEMMA InitQuickInv == QuickInit => QuickInv
<1> SUFFICES ASSUME QuickInit PROVE QuickInv
  OBVIOUS
<1>1. Main \in Thread
  BY QuickstartAssumption
<1>2. LibInv
  <2>1. AloneInv
    BY InitAloneInv DEF QuickInit
  <2>2. WorkersOnlyCall
    BY DEF QuickInit, Init, Hooks!Init, WorkersOnlyCall, Workers
  <2> QED
    BY <1>1, <2>1, <2>2 DEF LibInv, AloneInv, Alone
<1>3. /\ at[Main] = "idle" /\ uninit[Main] = 0 /\ helper[Main] = "none"
      /\ \A f \in MemFn : cell[f] = NoObj /\ ~unexpected[f]
      /\ \A o \in Obj : content[o] = Dead
      /\ Main \notin Monitored
      /\ \A t \in Thread : step[t] = "none"
  BY <1>1 DEF QuickInit, Init, Hooks!Init, Mon!Init, Monitored
<1>4. QuickTypeOK
  <2>1. 1 \in 1 .. Len(MapSeq) + 1 /\ 0 \in 0 .. MaxBlocks
    BY MapSeqFacts, QuickstartAssumption
  <2>2. [f \in MemFn |-> 0] \in [MemFn -> 0 .. MaxBlocks]
    BY <2>1
  <2> QED
    BY <1>2, <2>1, <2>2 DEF QuickInit, QuickTypeOK, Stage, LibInv, ToolsInv
<1>6. /\ Outside /\ Asked /\ Counts /\ Registered /\ Hooked /\ SwitchedOn
      /\ Probed /\ ProbesAlone /\ Watching /\ Heard
  BY <1>3 DEF QuickInit, Outside, Asked, Counts, Registered, Hooked,
     SwitchedOn, Probed, IsWorkingRuns, ProbesAlone, Watching, Heard
<1>7. PlainScoped /\ Explained /\ TestsLeaveNothing
  BY <1>3, DistinctAssumption DEF PlainScoped, NoPlain, Explained,
     TestsLeaveNothing, HookIs
<1> QED
  BY <1>2, <1>4, <1>6, <1>7 DEF QuickInv, ScriptInv

(* ... and is preserved by every step of the tests.                         *)
LEMMA StepQuickInv == QuickInv /\ [QuickNext]_quickVars => QuickInv'
<1> SUFFICES ASSUME QuickInv, [QuickNext]_quickVars
             PROVE  QuickInv'
  OBVIOUS
<1>1. CASE QuickNext
  <2> USE <1>1 DEF QuickInv, ScriptInv
  <2>1. LibInv'
    BY ScriptIsLibrary, LibInvStep
  <2>2. QuickTypeOK'
    BY <2>1, QuickTypeStep
  <2>3. Outside' /\ Asked' /\ Counts' /\ Registered' /\ Hooked'
    <3>1. nth \in 1 .. Len(MapSeq) + 1
      BY DEF QuickTypeOK
    <3> QED
      BY <3>1, OutsideStep, AskedStep, CountsStep, RegisteredStep, HookedStep
  <2>4. SwitchedOn' /\ Probed' /\ PlainScoped' /\ Explained' /\ TestsLeaveNothing'
    BY SwitchedOnStep, ProbedStep, PlainScopedStep, ExplainedStep,
       TestsLeaveNothingStep
  <2>5. ProbesAlone'
    BY DEF ProbesAlone, QuickNext, Observes
  <2>6. Watching' /\ Heard'
    BY <2>1, <2>4, WatchingStep, HeardStep
  <2> QED
    BY <2>1, <2>2, <2>3, <2>4, <2>5, <2>6
<1>2. CASE UNCHANGED quickVars
  <2>0. UNCHANGED <<vars, scriptVars, historyVars>>
    BY <1>2 DEF quickVars
  <2>1. LibInv'
    BY <2>0, LibInvStep DEF LibraryStep, QuickInv
  <2>2. QuickTypeOK'
    BY <2>0, <2>1 DEF scriptVars, historyVars, QuickInv, QuickTypeOK, LibInv,
       ToolsInv
  <2>3. ScriptInv' /\ TestsLeaveNothing'
    BY <2>0 DEF QuickInv, ScriptInv, scriptVars, historyVars, vars, gateVars,
       hookVars, monVars, toolVars, Outside, Asked, Counts, Registered,
       IsSetUp, Hooked, SwitchedOn, Probed, Probing, HoldsProbe, PlainScoped,
       NoPlain, Explained, ProbesAlone, Busy, Watching, Heard, IsWorkingRuns,
       TestsLeaveNothing, Monitored, HookIs
  <2> QED
    BY <2>1, <2>2, <2>3 DEF QuickInv
<1> QED
  BY <1>1, <1>2

(* The library's variables and the script's are all of their types, for any *)
(* number of workers, functions and EXPECT_NO_F inside one another          *)
(* (gtest_quickstart.hpp:74-217).                                           *)
THEOREM QuickTypeCorrect == QuickSpec => []QuickTypeOK
<1>1. QuickInv => QuickTypeOK
  BY DEF QuickInv
<1> QED
  BY <1>1, InitQuickInv, StepQuickInv, PTL DEF QuickSpec

(* With the library preloaded, is_working() has told the body so, unless    *)
(* another thread was in a memory function during its malloc; and the hooks *)
(* the body runs with are those that were set up (is_working.cpp:44).       *)
THEOREM WorkingIsTold == QuickSpec => []IsWorkingTells
<1>1. QuickInv => IsWorkingTells
  BY FnAssumption DEF QuickInv, ScriptInv, Probed, Hooked, IsSetUp,
     IsWorkingTells
<1> QED
  BY <1>1, InitQuickInv, StepQuickInv, PTL DEF QuickSpec

(* The callback of is_working(), which refers to a local of it, is in no    *)
(* hook when is_working() is over, nor in the test's thread's hands, unless *)
(* putting the original hook back threw (is_working.cpp:46).  In another    *)
(* thread's hands it may still be: MCProbeOutlives.cfg shows it.           *)
THEOREM ProbeStaysInScope == QuickSpec => []ProbeIsUnset
<1>1. QuickInv => ProbeIsUnset
  <2> SUFFICES ASSUME QuickInv, ~dangling, ~IsWorkingRuns
               PROVE  Main \notin heard /\ \A f \in MemFn : ~HookIs(f, "plain")
    BY DEF ProbeIsUnset
  <2>1. \A f \in MemFn : cell[f] \in Obj \union {NoObj}
    BY DEF QuickInv, LibInv, ToolsInv, TypeOK, Hooks!TypeOK
  <2> QED
    BY <2>1 DEF QuickInv, ScriptInv, Heard, PlainScoped, NoPlain, HookIs
<1> QED
  BY <1>1, InitQuickInv, StepQuickInv, PTL DEF QuickSpec

(* A test leaves nothing behind, whatever way it was left: no expectation,  *)
(* no hook, no monitoring of its thread (gtest_quickstart.hpp:211).         *)
THEOREM TestsAreIndependent == QuickSpec => []TestsLeaveNothing
<1>1. QuickInv => TestsLeaveNothing
  BY DEF QuickInv
<1> QED
  BY <1>1, InitQuickInv, StepQuickInv, PTL DEF QuickSpec

(* A test fails only for a call during which its thread was monitored,      *)
(* whichever thread that is, to a function of which an EXPECT_NO_F is open  *)
(* or was left (testing_helpers.hpp:37).                                    *)
THEOREM FailuresAreDeserved == QuickSpec => FailuresDeserved
<1>1. ASSUME QuickInv, [QuickNext]_quickVars, NEW t \in Thread,
             CallbackIs(t, "unexpected")', step[t] = "invoke"
      PROVE  /\ t \in watched
             /\ open[fn[t]] > 0 \/ fn[t] \in left
  <2> USE <1>1 DEF QuickInv, LibInv, ScriptInv
  <2>1. [Next]_vars
    BY ScriptIsLibrary, LibraryStepIsNext DEF quickVars
  <2>2. unexpected[fn[t]]
    BY <2>1, InvokedUnexpected
  <2>3. fn[t] \in MemFn
    BY DEF ToolsInv, TypeOK
  <2> QED
    BY <2>2, <2>3 DEF Explained, Watching
<1>2. QuickInv /\ [QuickNext]_quickVars =>
        [\A t \in Thread :
           CallbackIs(t, "unexpected")' /\ step[t] = "invoke" =>
             /\ t \in watched
             /\ open[fn[t]] > 0 \/ fn[t] \in left]_quickVars
  BY <1>1
<1> QED
  BY <1>2, InitQuickInv, StepQuickInv, PTL DEF QuickSpec, FailuresDeserved

(* When the tear-down's uninitialize() returns, nothing is left of what the *)
(* test set up, whatever the workers call and switch beside it              *)
(* (initialize.hpp:67).                                                     *)
THEOREM TestsReset == QuickSpec => UninitializeResets
<1>1. QuickInv /\ [QuickNext]_quickVars =>
        [\A t \in Thread :
           UninitReturns(t) /\ initialized =>
             /\ t \notin Monitored'
             /\ \A f \in MemFn : ~unexpected'[f] /\ content'[cell'[f]] = Null]_vars
  <2> SUFFICES ASSUME QuickInv, QuickNext, ~UNCHANGED vars, NEW t \in Thread,
                      uninit[t] = UninitLen, uninit'[t] = 0
               PROVE  /\ t \notin Monitored'
                      /\ \A f \in MemFn :
                           ~unexpected'[f] /\ content'[cell'[f]] = Null
    BY DEF quickVars, UninitReturns
  <2> USE DEF QuickInv, ScriptInv, LibInv
  <2>1. t = Main
    BY FnSeqFacts DEF WorkersOnlyCall, Workers
  <2>2. ASSUME NEW u \in Workers, WorkerActs(u) PROVE FALSE
    <3>1. uninit' = uninit
      BY <2>2, WorkersLeave DEF WorkerLeaves
    <3> QED
      BY <3>1, FnSeqFacts
  <2>3. MainActs
    BY <2>2, ScriptIsLibrary DEF LibraryStep
  <2> QED
    BY <2>1, <2>3, LastStatement DEF MainActs
<1> QED
  BY <1>1, InitQuickInv, StepQuickInv, PTL DEF QuickSpec, UninitializeResets
=============================================================================
