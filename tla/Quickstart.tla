----------------------------- MODULE Quickstart -----------------------------
(***************************************************************************)
(* A test program that uses memory tools as gtest_quickstart.hpp would     *)
(* have it: one test after another, each with a ScopedQuickstartGtest (set *)
(* up by quickstart_gtest_setup, which asks is_working(), and torn down by *)
(* quickstart_gtest_teardown) around a body made of the EXPECT_NO_F macros *)
(* of testing_helpers.hpp.  Every step is one of MemoryTools'; this module *)
(* says in which order the test's thread takes them, and what it expects.  *)
(*                                                                         *)
(* Other threads work all along, in the bodies and beside every set-up and *)
(* tear-down: they make memory calls and set their own switch.             *)
(***************************************************************************)
EXTENDS MemoryTools

CONSTANTS
  Main,      \* the thread that runs the tests
  MapSeq,    \* the memory functions in the order of the configuration map
  OtherKey,  \* a key that is no memory function's
  MaxBlocks  \* bound on the open EXPECT_NO_F of one function

ASSUME QuickstartAssumption ==
  /\ Main \in Thread
  /\ MapSeq \in Seq(MemFn)
  /\ \A f \in MemFn : \E i \in 1 .. Len(MapSeq) : MapSeq[i] = f
  /\ OtherKey \notin MemFn
  /\ MaxBlocks \in Nat \ {0}
  /\ \A t \in Thread \ {Main} : Ops[t] \subseteq {"enable", "disable", "unset"}

VARIABLES
  stage,    \* where the test's thread is
  nth,      \* which hook of MapSeq it registers next
  saved,    \* original_on_malloc of is_working()
  called,   \* malloc_was_called, and then what is_working() returned
  open,     \* how many EXPECT_NO_F of each function are being run
  left,     \* the functions with one that an exception or a return left
  broken,   \* a set-up threw, and no test has been torn down since
  dangling, \* is_working() threw with its own callback still registered
  \* history that the properties speak of:
  disturbed, \* another thread was in a memory function during the probe
  watched,   \* the threads that were monitored during their present call
  heard      \* the threads that hold the callback of is_working()

scriptVars  == <<stage, nth, saved, called, open, left, broken, dangling>>
historyVars == <<disturbed, watched, heard>>
quickVars   == <<vars, scriptVars, historyVars>>

Stage ==
  {"outside", "initialize", "register", "enable",
   "get", "swap", "probe", "probed", "restore",
   "body", "disable", "uninitialize", "terminated"}

IsWorkingRuns == stage \in {"swap", "probe", "probed", "restore"}

QuickTypeOK ==
  /\ TypeOK
  /\ stage \in Stage
  /\ nth \in 1 .. Len(MapSeq) + 1
  /\ saved \in Callback \union {Null}
  /\ called \in BOOLEAN
  /\ open \in [MemFn -> 0 .. MaxBlocks]
  /\ left \subseteq MemFn
  /\ broken \in BOOLEAN
  /\ dangling \in BOOLEAN
  /\ disturbed \in BOOLEAN
  /\ watched \subseteq Thread
  /\ heard \subseteq Thread

QuickInit ==
  /\ Init
  /\ stage = "outside"
  /\ nth = 1
  /\ saved = Null
  /\ called = FALSE
  /\ open = [f \in MemFn |-> 0]
  /\ left = {}
  /\ broken = FALSE
  /\ dangling = FALSE
  /\ disturbed = FALSE
  /\ watched = {}
  /\ heard = {}

-----------------------------------------------------------------------------
(* The test's own code runs, outside every callback and every on_f.         *)
AtStage(place) == stage = place /\ pc[Main] = "idle" /\ ProgramRuns(Main)

(* The constructor starts.  A configuration with another key throws before  *)
(* it has done anything, and the test is over.                              *)
StartSetup ==
  /\ AtStage("outside")
  /\ \E given \in SUBSET (MemFn \union {OtherKey}) :
       stage' = IF OtherKey \in given THEN "outside" ELSE "initialize"
  /\ nth' = 1
  /\ UNCHANGED <<vars, saved, called, open, left, broken, dangling>>

SetupInitialize ==
  /\ AtStage("initialize")
  /\ SwitchesBy(Main, "initialize")
  /\ stage' = "register"
  /\ UNCHANGED <<nth, saved, called, open, left, broken, dangling>>

(* on_unexpected_f for each function; MainLibrary goes on to the next.      *)
SetupRegister ==
  /\ AtStage("register")
  /\ BeginsHelper(Main)
  /\ UNCHANGED scriptVars

SetupEnable ==
  /\ AtStage("enable")
  /\ SwitchesBy(Main, "enable")
  /\ stage' = "get"
  /\ UNCHANGED <<nth, saved, called, open, left, broken, dangling>>

(* is_working(): auto original_on_malloc = get_on_malloc().                 *)
GetOriginal ==
  /\ AtStage("get")
  /\ saved' = IF cell[AllocFn] = NoObj THEN Null ELSE content[cell[AllocFn]]
  /\ called' = FALSE
  /\ stage' = "swap"
  /\ UNCHANGED <<vars, nth, open, left, broken, dangling>>

(* The copies of the original hook, the one get_on_malloc() returns and the *)
(* argument of the last on_malloc(), are on the heap: no section is begun.  *)
Copies ==
  /\ AtStage("swap") \/ AtStage("restore")
  /\ ProgramCalls(Main) /\ fn'[Main] = AllocFn
  /\ UNCHANGED scriptVars

(* There is no memory for one.                                              *)
CopyThrows ==
  /\ AtStage("swap") \/ AtStage("restore")
  /\ stage' = "outside"
  /\ broken' = TRUE
  /\ dangling' = (dangling \/ stage = "restore")
  /\ UNCHANGED <<vars, nth, saved, called, open, left>>

(* on_malloc([&]() {malloc_was_called = true;}).                            *)
SwapHook ==
  /\ AtStage("swap")
  /\ Registers(Main) /\ Hooks!BeginOn(Main, AllocFn, "plain")
  /\ UNCHANGED scriptVars

(* guaranteed_malloc().                                                     *)
ProbeMalloc ==
  /\ AtStage("probe")
  /\ ProgramCalls(Main) /\ fn'[Main] = AllocFn
  /\ stage' = "probed"
  /\ UNCHANGED <<nth, saved, called, open, left, broken, dangling>>

ProbeFree ==
  /\ AtStage("probed")
  /\ ProgramCalls(Main) /\ fn'[Main] = FreeFn
  /\ stage' = "restore"
  /\ UNCHANGED <<nth, saved, called, open, left, broken, dangling>>

(* Mutant: no hook is put back.                                            *)
RestoreNothing ==
  /\ AtStage("restore")
  /\ Registers(Main) /\ Hooks!BeginOn(Main, AllocFn, Null)
  /\ UNCHANGED scriptVars

(* Mutant: the original hook is not put back.                               *)
RestoreForgotten ==
  /\ AtStage("restore")
  /\ stage' = "body"
  /\ UNCHANGED <<vars, nth, saved, called, open, left, broken, dangling>>

(* on_malloc(original_on_malloc).                                           *)
RestoreHook ==
  /\ AtStage("restore")
  /\ Registers(Main) /\ Hooks!BeginOn(Main, AllocFn, saved)
  /\ UNCHANGED scriptVars

-----------------------------------------------------------------------------
(* The body.  EXPECT_NO_MEMORY_OPERATIONS begins one block of each function *)
(* and ends them in the same order.                                         *)
ExpectsNo(f, begin) ==
  /\ AtStage("body")
  /\ Expects(Main)
  /\ ExpectNo(f, begin)

BlockBegins(f) ==
  /\ open[f] < MaxBlocks
  /\ ExpectsNo(f, TRUE)
  /\ open' = [open EXCEPT ![f] = @ + 1]
  /\ UNCHANGED <<stage, nth, saved, called, left, broken, dangling>>

(* The last statement of the macro: f is expected from now on, even if the  *)
(* block was inside another of the same function.                           *)
BlockEnds(f) ==
  /\ open[f] > 0
  /\ ExpectsNo(f, FALSE)
  /\ open' = [open EXCEPT ![f] = @ - 1]
  /\ UNCHANGED <<stage, nth, saved, called, left, broken, dangling>>

(* An exception that the body catches leaves the block before that.         *)
BlockIsLeft(f) ==
  /\ AtStage("body")
  /\ open[f] > 0
  /\ open' = [open EXCEPT ![f] = @ - 1]
  /\ left' = left \union {f}
  /\ UNCHANGED <<vars, stage, nth, saved, called, broken, dangling>>

(* Monitoring in all threads, "you will need to enable that yourself".      *)
MonitorsAll ==
  /\ AtStage("body")
  /\ SwitchesBy(Main, "enable_all") \/ SwitchesBy(Main, "disable_all")
  /\ UNCHANGED scriptVars

(* The body ends, or an ASSERT or an exception leaves it and its blocks.    *)
BodyEnds ==
  /\ AtStage("body")
  /\ stage' = "disable"
  /\ left' = left \union {f \in MemFn : open[f] > 0}
  /\ open' = [f \in MemFn |-> 0]
  /\ UNCHANGED <<vars, nth, saved, called, broken, dangling>>

TeardownDisable ==
  /\ AtStage("disable")
  /\ SwitchesBy(Main, "disable")
  /\ stage' = "uninitialize"
  /\ UNCHANGED <<nth, saved, called, open, left, broken, dangling>>

TeardownUninitialize ==
  /\ AtStage("uninitialize")
  /\ BeginsUninitialize(Main)
  /\ UNCHANGED scriptVars

-----------------------------------------------------------------------------
(* on_f or on_unexpected_f returns to the test, or throws at it;            *)
(* uninitialize() does.                                                     *)
OnEnds(place) ==
  helper[Main] = "none" /\ at[Main] = place /\ at'[Main] = "idle" /\ uninit[Main] = 0
HelperEndsAt(place) == helper[Main] = place /\ helper'[Main] = "none"

OnReturned  == OnEnds("finish") \/ HelperEndsAt("unwrap")
OnThrew     == OnEnds("unwind") \/ HelperEndsAt("unwind")
UninitDone  == uninit[Main] = UninitLen /\ uninit'[Main] = 0
UninitThrew == at[Main] = "unwind" /\ at'[Main] = "idle" /\ uninit[Main] # 0

GoesOn ==
  /\ OnReturned
  /\ nth' = IF stage = "register" THEN nth + 1 ELSE nth
  /\ \/ stage = "register" /\ nth < Len(MapSeq) /\ stage' = "register"
     \/ stage = "register" /\ nth = Len(MapSeq) /\ stage' = "enable"
     \/ stage = "swap" /\ stage' = "probe"
     \/ stage = "restore" /\ stage' = "body"
  /\ dangling' = IF stage = "register" /\ MapSeq[nth] = AllocFn THEN FALSE ELSE dangling
  /\ UNCHANGED <<left, broken>>

(* The constructor throws, so nothing is ever torn down.                    *)
SetupThrows ==
  /\ OnThrew
  /\ stage' = "outside"
  /\ broken' = TRUE
  /\ dangling' = (dangling \/ stage = "restore")
  /\ UNCHANGED <<nth, left>>

TearsDown ==
  /\ UninitDone
  /\ stage' = "outside"
  /\ left' = {}
  /\ broken' = FALSE
  /\ dangling' = FALSE
  /\ UNCHANGED nth

(* So does the destructor, which is noexcept: std::terminate().             *)
Terminates ==
  /\ UninitThrew
  /\ stage' = "terminated"
  /\ UNCHANGED <<nth, left, broken, dangling>>

MainLibrary ==
  /\ Library(Main)
  /\ HelperRegisters(Main) => request'[Main] = <<MapSeq[nth], "unexpected">>
  /\ \/ GoesOn
     \/ SetupThrows
     \/ TearsDown
     \/ Terminates
     \/ /\ ~(OnReturned \/ OnThrew \/ UninitDone \/ UninitThrew)
        /\ UNCHANGED <<stage, nth, left, broken, dangling>>
  /\ UNCHANGED <<saved, called, open>>

(* The callback of is_working() does nothing but set a flag; those of the   *)
(* configuration add a failure to the test's, which may allocate or throw.  *)
CallbackIs(t, v) == InCallback(t) /\ content[using[t]] = v

Reports(t) ==
  /\ \/ CallbackEnds(t) /\ (CallbackIs(t, "plain") => threw' = threw)
     \/ InCallback(t) /\ ~CallbackIs(t, "plain") /\ ProgramCalls(t)
  /\ called' = (called \/ (IsWorkingRuns /\ CallbackIs(t, "plain")))
  /\ UNCHANGED <<stage, nth, saved, open, left, broken, dangling>>

(* Code of the test's thread between the statements above.                  *)
MainCalls ==
  /\ \E place \in Stage \ {"swap", "probe", "probed", "restore", "terminated"} :
       AtStage(place)
  /\ ProgramCalls(Main)
  /\ UNCHANGED scriptVars

(* Another thread, whatever the test's is doing.                            *)
Works(t) ==
  /\ \/ pc[t] = "idle" /\ (ProgramCalls(t) \/ Switches(t))
     \/ Library(t)
  /\ UNCHANGED scriptVars

(* What the properties need to know of the past.                            *)
Busy == \E t \in Thread \ {Main} : pc[t] # "idle"
HoldsProbe(t) == using[t] # NoObj /\ content[using[t]] = "plain"

Observes ==
  /\ disturbed' = ((stage' = "probed" /\ Busy') \/ (disturbed /\ stage # "get"))
  /\ watched' = {t \in Thread : pc'[t] # "idle" /\ (t \in watched \/ t \in Monitored')}
  /\ heard' = {t \in Thread :
       step'[t] \in {"invoke", "callback"} /\ (t \in heard \/ HoldsProbe(t)')}

QuickNext ==
  /\ stage # "terminated"
  /\ \/ StartSetup
     \/ SetupInitialize
     \/ SetupRegister
     \/ SetupEnable
     \/ GetOriginal
     \/ Copies
     \/ CopyThrows
     \/ SwapHook
     \/ ProbeMalloc
     \/ ProbeFree
     \/ RestoreHook
     \/ \E f \in MemFn : BlockBegins(f) \/ BlockEnds(f) \/ BlockIsLeft(f)
     \/ MonitorsAll
     \/ BodyEnds
     \/ TeardownDisable
     \/ TeardownUninitialize
     \/ MainLibrary
     \/ MainCalls
     \/ \E t \in Thread : Reports(t)
     \/ \E t \in Thread \ {Main} : Works(t)
  /\ Observes

QuickSpec == QuickInit /\ [][QuickNext]_quickVars

-----------------------------------------------------------------------------
(* is_working() is right where nothing came between: with the library       *)
(* preloaded it has returned true to the body, unless another thread was in *)
(* a memory function during its malloc; and the hooks the body runs with    *)
(* are those that were set up (is_working.cpp:44-52).                       *)
IsWorkingTells ==
  stage = "body" =>
    /\ called \/ disturbed
    /\ \A f \in MemFn : HookIs(f, "unexpected")

(* is_working.hpp:28: "Return true if memory tools is enabled, installed    *)
(* (LD_PRELOAD was done), and working." -- they are, so it has.             *)
WorkingIsReported == stage = "body" => called

(* The callback of is_working() refers to a local of it: outside that       *)
(* function no hook is set to it and the test's thread does not call it,    *)
(* unless putting the original hook back threw (is_working.cpp:46-51).      *)
ProbeIsUnset ==
  ~dangling /\ ~IsWorkingRuns =>
    Main \notin heard /\ \A f \in MemFn : ~HookIs(f, "plain")

(* is_working.hpp:30: "This works by temporarily installing a on_malloc     *)
(* hook" -- when is_working() is over so is its hook, in every thread.      *)
ProbeIsTemporary == \A t \in heard : dangling \/ IsWorkingRuns

(* testing_helpers.hpp:37: "Call corresponding callback if the given        *)
(* statements call malloc" -- a test fails only for a call during which its *)
(* thread was monitored, whichever thread that is, to a function of which   *)
(* an EXPECT_NO_F is open or was left.                                      *)
FailuresDeserved ==
  [][\A t \in Thread :
       CallbackIs(t, "unexpected")' /\ step[t] = "invoke" =>
         /\ t \in watched
         /\ open[fn[t]] > 0 \/ fn[t] \in left]_quickVars

(* A test leaves nothing behind, whatever way it was left: between tests no *)
(* function is unexpected, no hook is set, and the thread is not monitored, *)
(* unless a set-up threw half way (gtest_quickstart.hpp:211-217).           *)
TestsLeaveNothing ==
  stage = "outside" /\ ~broken =>
    /\ Main \notin Monitored
    /\ \A f \in MemFn : ~unexpected[f] /\ ~HookIs(f, "plain") /\ ~HookIs(f, "unexpected")
=============================================================================
