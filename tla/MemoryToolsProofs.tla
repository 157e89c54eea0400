------------------------- MODULE MemoryToolsProofs -------------------------
(* What the composition inherits from its parts, and what the switches      *)
(* promise, for any number of threads, memory functions and registrations.  *)
EXTENDS MemoryTools, TLAPS

GateP  == INSTANCE HookGateProofs
HooksP == INSTANCE RegisterHooksProofs

(* Every step of the program is a step of the gate or leaves it alone.      *)
LEMMA GateStep ==
  ASSUME NEW t \in Thread, Program(t) \/ Library(t) \/ CallbackEnds(t)
  PROVE  [Gate!Next]_gateVars
<1> USE DEF Gate!Next, Gate!Step, Gate!Advance
<1>1. CASE ProgramCalls(t)
  BY <1>1 DEF ProgramCalls, CallFn
<1>2. CASE OnCalls(t) \/ HelperCalls(t)
  BY <1>2 DEF OnCalls, HelperCalls, CallFn
<1>3. CASE Enters(t)
  BY <1>3 DEF Enters
<1>4. CASE PassesGate(t)
  BY <1>4 DEF PassesGate
<1>5. CASE Returns(t)
  BY <1>5 DEF Returns
<1>6. CASE LeaveCustom(t)
  BY <1>6 DEF LeaveCustom
<1>7. CASE \/ Switches(t) \/ Expects(t) \/ Registers(t) \/ BeginsUninitialize(t)
           \/ BeginsHelper(t) \/ HelperRegisters(t) \/ HelperEnds(t)
           \/ UninitSwitches(t) \/ UninitUnregisters(t) \/ UninitExpects(t)
           \/ OnAllocates(t) \/ OnExchanges(t) \/ EndsOn(t)
           \/ Check(t) \/ CheckEnabled(t) \/ BeginCustomSection(t)
           \/ LoadCallback(t) \/ InvokeCallback(t) \/ NoCallback(t)
           \/ EndCustomSection(t) \/ CallbackEnds(t)
  BY <1>7 DEF Switches, SwitchesBy, Expects, Registers, BeginsUninitialize,
     BeginsHelper, HelperRegisters, HelperEnds, UninitSwitches,
     UninitUnregisters, UninitExpects, OnAllocates, OnExchanges, EndsOn,
     Check, CheckEnabled, BeginCustomSection, LoadCallback,
     InvokeCallback, NoCallback, EndCustomSection, CallbackEnds
<1> QED
  BY <1>1, <1>2, <1>3, <1>4, <1>5, <1>6, <1>7 DEF Program, Library

(* ... and a step of the registered hooks, or leaves them alone.            *)
LEMMA HooksStep ==
  ASSUME NEW t \in Thread, fn[t] \in MemFn,
         Program(t) \/ Library(t) \/ CallbackEnds(t)
  PROVE  [Hooks!Next]_hookVars
<1> USE DEF Hooks!Next, Hooks!Step
<1>1. CASE Registers(t)
  <2>1. PICK f \in MemFn :
          \E v \in {"plain", "unexpected", Null} : Hooks!BeginOn(t, f, v)
    BY <1>1 DEF Registers, Callback
  <2> QED
    BY <2>1 DEF Hooks!Value, Callback
<1>2. CASE UninitUnregisters(t)
  <2>1. PICK i \in 1 .. Len(FnSeq) : Hooks!BeginOn(t, FnSeq[i], Null)
    BY <1>2 DEF UninitUnregisters
  <2>2. FnSeq[i] \in MemFn
    BY <2>1, FnAssumption
  <2> QED
    BY <2>1, <2>2 DEF Hooks!Value
<1>3. CASE OnAllocates(t)
  BY <1>3 DEF OnAllocates
<1>4. CASE OnExchanges(t)
  BY <1>4 DEF OnExchanges
<1>5. CASE EndsOn(t) \/ HelperRegisters(t)
  BY <1>5 DEF EndsOn, HelperRegisters, Hooks!Value, Callback
<1>6. CASE NoCallback(t)
  BY <1>6 DEF NoCallback
<1>7. CASE CallbackEnds(t)
  BY <1>7 DEF CallbackEnds
<1>8. CASE LoadCallback(t)
  BY <1>8 DEF LoadCallback
<1>9. CASE \/ ProgramCalls(t) \/ Switches(t) \/ Expects(t) \/ BeginsUninitialize(t)
           \/ BeginsHelper(t) \/ HelperCalls(t) \/ HelperEnds(t)
           \/ UninitSwitches(t) \/ UninitExpects(t) \/ OnCalls(t) \/ Enters(t)
           \/ PassesGate(t) \/ Returns(t) \/ Check(t) \/ CheckEnabled(t)
           \/ BeginCustomSection(t) \/ InvokeCallback(t)
           \/ EndCustomSection(t) \/ LeaveCustom(t)
  BY <1>9 DEF ProgramCalls, Switches, SwitchesBy, Expects, BeginsUninitialize,
     BeginsHelper, UninitSwitches, UninitExpects, OnCalls,
     HelperCalls, HelperEnds, Enters, PassesGate,
     Returns, Check, CheckEnabled, BeginCustomSection,
     InvokeCallback, EndCustomSection, LeaveCustom
<1> QED
  BY <1>1, <1>2, <1>3, <1>4, <1>5, <1>6, <1>7, <1>8, <1>9 DEF Program, Library

(* The gate and the hooks of this module are those of the component         *)
(* modules, whose theorems apply.                                           *)
LEMMA GateInvStep ==
  ASSUME Gate!GateInv, [Gate!Next]_gateVars
  PROVE  Gate!GateInv'
<1>1. Gate!GateInv <=> GateP!GateInv
  BY DEF Gate!GateInv, Gate!TypeOK, Gate!NoReentry, Gate!LockHeldOnce,
         Gate!CounterExact, Gate!StartOrder, Gate!Holding, Gate!Counted,
         Gate!Place, Gate!Locked,
         GateP!GateInv, GateP!TypeOK, GateP!NoReentry, GateP!LockHeldOnce,
         GateP!CounterExact, GateP!StartOrder, GateP!Holding, GateP!Counted,
         GateP!Place, GateP!Locked
<1>2. Gate!Next <=> GateP!Next
  BY DEF Gate!Next, Gate!Step, Gate!Advance, Gate!AllocateMutex, Gate!CompleteStaticInitialization,
         Gate!Call, Gate!CallNested, Gate!ShortCircuit, Gate!Return,
         Gate!Observed, Gate!PassGuard, Gate!Lock, Gate!Enter, Gate!LeaveHook,
         Gate!Exit, Gate!Unlock,
         GateP!Next, GateP!Step, GateP!Advance, GateP!AllocateMutex, GateP!CompleteStaticInitialization,
         GateP!Call, GateP!CallNested, GateP!ShortCircuit, GateP!Return,
         GateP!Observed, GateP!PassGuard, GateP!Lock, GateP!Enter, GateP!LeaveHook,
         GateP!Exit, GateP!Unlock
<1>3. GateP!GateInv /\ [GateP!Next]_(GateP!gateVars) => GateP!GateInv'
  BY GateP!StepGateInv, DistinctAssumption
<1>4. (Gate!GateInv <=> GateP!GateInv)'
  BY DEF Gate!GateInv, Gate!TypeOK, Gate!NoReentry, Gate!LockHeldOnce,
         Gate!CounterExact, Gate!StartOrder, Gate!Holding, Gate!Counted,
         Gate!Place, Gate!Locked,
         GateP!GateInv, GateP!TypeOK, GateP!NoReentry, GateP!LockHeldOnce,
         GateP!CounterExact, GateP!StartOrder, GateP!Holding, GateP!Counted,
         GateP!Place, GateP!Locked
<1> QED
  BY <1>1, <1>2, <1>3, <1>4 DEF gateVars, GateP!gateVars

(* The same for the hooks.                                                  *)
LEMMA HooksInvStep ==
  ASSUME Hooks!HooksInv, [Hooks!Next]_hookVars
  PROVE  Hooks!HooksInv'
<1>1. Hooks!HooksInv <=> HooksP!HooksInv
  BY DEF Hooks!HooksInv, Hooks!TypeOK, Hooks!Ownership, Hooks!Registering,
         Hooks!InCell, Hooks!InHand, Hooks!OnPlace, Hooks!Value,
         HooksP!HooksInv, HooksP!TypeOK, HooksP!Ownership, HooksP!Registering,
         HooksP!InCell, HooksP!InHand, HooksP!OnPlace, HooksP!Value
<1>2. Hooks!Next <=> HooksP!Next
  BY DEF Hooks!Next, Hooks!Step, Hooks!BeginOn, Hooks!Construct,
         Hooks!ConstructThrows, Hooks!Exchange, Hooks!Destroy, Hooks!EndOn,
         Hooks!Load, Hooks!Release, Hooks!Value,
         HooksP!Next, HooksP!Step, HooksP!BeginOn, HooksP!Construct,
         HooksP!ConstructThrows, HooksP!Exchange, HooksP!Destroy, HooksP!EndOn,
         HooksP!Load, HooksP!Release, HooksP!Value
<1>3. HooksP!HooksInv /\ [HooksP!Next]_(HooksP!hookVars) => HooksP!HooksInv'
  <2>1. /\ NoObj \notin Obj
        /\ Dead \notin HooksP!Value
        /\ NoRequest \notin MemFn \X HooksP!Value
    <3>1. HooksP!Value = {"plain", "unexpected", Null}
      BY DEF HooksP!Value, Callback
    <3> QED
      BY <3>1, DistinctAssumption
  <2> QED
    BY <2>1, HooksP!StepHooksInv
<1>4. (Hooks!HooksInv <=> HooksP!HooksInv)'
  BY DEF Hooks!HooksInv, Hooks!TypeOK, Hooks!Ownership, Hooks!Registering,
         Hooks!InCell, Hooks!InHand, Hooks!OnPlace, Hooks!Value,
         HooksP!HooksInv, HooksP!TypeOK, HooksP!Ownership, HooksP!Registering,
         HooksP!InCell, HooksP!InHand, HooksP!OnPlace, HooksP!Value
<1> QED
  BY <1>1, <1>2, <1>3, <1>4 DEF hookVars, HooksP!hookVars

-----------------------------------------------------------------------------
(* main() starts with the invariant true.                                   *)
LEMMA InitToolsInv == Init => ToolsInv
<1> SUFFICES ASSUME Init PROVE ToolsInv
  OBVIOUS
<1>1. Gate!GateInv
  <2>1. 0 \in 0 .. MaxNest
    BY DistinctAssumption
  <2>2. Gate!TypeOK
    BY <2>1 DEF Init, Gate!TypeOK, Gate!Place, Gate!Locked
  <2>3. Gate!NoReentry /\ Gate!StartOrder /\ Gate!CounterExact
    BY DEF Init, Gate!NoReentry, Gate!StartOrder, Gate!CounterExact, Gate!Counted
  <2>4. Gate!LockHeldOnce
    BY DistinctAssumption DEF Init, Gate!LockHeldOnce, Gate!Holding, Gate!Locked
  <2> QED
    BY <2>2, <2>3, <2>4 DEF Gate!GateInv
<1>2. Hooks!HooksInv
  <2>1. Hooks!TypeOK
    BY DEF Init, Hooks!Init, Hooks!TypeOK, Hooks!OnPlace
  <2>2. Hooks!Ownership
    BY DistinctAssumption DEF Init, Hooks!Init, Hooks!Ownership, Hooks!InCell, Hooks!InHand
  <2>3. Hooks!Registering
    BY DistinctAssumption DEF Init, Hooks!Init, Hooks!Registering
  <2> QED
    BY <2>1, <2>2, <2>3 DEF Hooks!HooksInv
<1>3. TypeOK
  <2>1. Len(FnSeq) \in Nat
    BY FnAssumption
  <2>2. uninit \in [Thread -> 0 .. UninitLen]
    BY <2>1 DEF Init, UninitLen
  <2>3. Mon!TypeOK
    BY DEF Init, Mon!Init, Mon!TypeOK
  <2> QED
    BY <1>1, <1>2, <2>2, <2>3, FnAssumption
    DEF Init, TypeOK, StepName, Gate!GateInv, Hooks!HooksInv
<1>4. StepInHook /\ SectionsClose /\ DisabledThreadSilent
  BY DEF Init, Mon!Init, StepInHook, SectionsClose, DisabledThreadSilent
<1> QED
  BY <1>1, <1>2, <1>3, <1>4 DEF ToolsInv

(* Every step keeps the types: the components' are known to be kept, and    *)
(* each of the composition's own variables changes in a few actions only.   *)
LEMMA TypeStep ==
  ASSUME ToolsInv, Gate!GateInv', Hooks!HooksInv', NEW t \in Thread,
         Program(t) \/ Library(t) \/ CallbackEnds(t)
  PROVE  TypeOK'
<1> USE DEF ToolsInv, TypeOK
<1>1. Gate!TypeOK' /\ Hooks!TypeOK'
  BY DEF Gate!GateInv, Hooks!HooksInv
<1>2. Mon!TypeOK'
  <2> USE DEF Mon!TypeOK
  <2>1. CASE Switches(t)
    BY <2>1 DEF Switches, SwitchesBy, Mon!Initialize, Mon!EnableMonitoring,
       Mon!DisableMonitoring, Mon!UnsetMonitoring, Mon!SetThread,
       Mon!EnableInAllThreads, Mon!DisableInAllThreads, Mon!SetAll
  <2>2. CASE UninitSwitches(t)
    BY <2>2 DEF UninitSwitches, Mon!UnsetMonitoring, Mon!SetThread,
       Mon!DisableInAllThreads, Mon!SetAll, Mon!EndUninitialize
  <2>3. CASE \/ Registers(t) \/ HelperRegisters(t) \/ UninitUnregisters(t)
             \/ BeginCustomSection(t)
    BY <2>3 DEF Registers, HelperRegisters, UninitUnregisters,
       BeginCustomSection, Mon!BeginSection
  <2>4. CASE EndsOn(t) \/ EndCustomSection(t)
    BY <2>4 DEF EndsOn, EndCustomSection, Mon!EndSection
  <2>5. CASE UNCHANGED monVars
    BY <2>5 DEF monVars
  <2>6. \/ Switches(t) \/ UninitSwitches(t) \/ Registers(t) \/ HelperRegisters(t)
        \/ UninitUnregisters(t) \/ BeginCustomSection(t) \/ EndsOn(t)
        \/ EndCustomSection(t) \/ UNCHANGED monVars
    BY DEF Program, Library, ProgramCalls, Expects, BeginsUninitialize,
     BeginsHelper, UninitExpects, OnCalls, HelperCalls,
     HelperEnds, OnAllocates, OnExchanges, Enters,
     PassesGate, Returns, Check, CheckEnabled, LoadCallback,
     InvokeCallback, NoCallback, LeaveCustom, CallbackEnds
  <2> QED
    BY <2>1, <2>2, <2>3, <2>4, <2>5, <2>6
<1>3. unexpected' \in [MemFn -> BOOLEAN]
  <2>1. CASE Expects(t)
    BY <2>1 DEF Expects, ExpectNo
  <2>2. CASE UninitExpects(t)
    BY <2>2 DEF UninitExpects, ExpectNo
  <2>3. \/ Expects(t) \/ UninitExpects(t) \/ UNCHANGED unexpected
    BY DEF Program, Library, ProgramCalls, Switches, SwitchesBy, Registers,
     BeginsUninitialize, BeginsHelper, UninitSwitches,
     UninitUnregisters, OnCalls, HelperCalls, HelperRegisters,
     HelperEnds, OnAllocates, OnExchanges, EndsOn, Enters,
     PassesGate, Returns, Check, CheckEnabled, BeginCustomSection,
     LoadCallback, InvokeCallback, NoCallback, EndCustomSection,
     LeaveCustom, CallbackEnds, toolVars
  <2> QED
    BY <2>1, <2>2, <2>3
<1>4. fn' \in [Thread -> MemFn]
  <2>1. CASE ProgramCalls(t)
    BY <2>1 DEF ProgramCalls, CallFn
  <2>2. CASE OnCalls(t) \/ HelperCalls(t)
    BY <2>2, FnAssumption DEF OnCalls, HelperCalls, CallFn
  <2>3. \/ ProgramCalls(t) \/ OnCalls(t) \/ HelperCalls(t) \/ UNCHANGED fn
    BY DEF Program, Library, Switches, SwitchesBy, Expects, Registers,
     BeginsUninitialize, BeginsHelper, UninitSwitches,
     UninitUnregisters, UninitExpects, HelperRegisters, HelperEnds,
     OnAllocates, OnExchanges, EndsOn, Enters, PassesGate, Returns, Check, CheckEnabled,
     BeginCustomSection, LoadCallback, InvokeCallback, NoCallback,
     EndCustomSection, LeaveCustom, CallbackEnds, toolVars
  <2> QED
    BY <2>1, <2>2, <2>3
<1>5. step' \in [Thread -> StepName]
  BY DEF Program, Library, ProgramCalls, Switches, SwitchesBy, Expects,
     Registers, BeginsUninitialize, BeginsHelper, UninitSwitches,
     UninitUnregisters, UninitExpects, OnCalls, HelperCalls,
     HelperRegisters, HelperEnds, OnAllocates, OnExchanges, EndsOn,
     Enters, PassesGate, Returns, Check, CheckEnabled,
     BeginCustomSection, LoadCallback, InvokeCallback, NoCallback,
     EndCustomSection, LeaveCustom, CallbackEnds, toolVars, GoTo,
     StepName, Deciding, Decided
<1>6. threw' \subseteq Thread /\ own' \subseteq Thread /\ waiting' \subseteq Thread
  BY DEF Program, Library, ProgramCalls, Switches, SwitchesBy, Expects,
     Registers, BeginsUninitialize, BeginsHelper, UninitSwitches,
     UninitUnregisters, UninitExpects, OnCalls, HelperCalls,
     HelperRegisters, HelperEnds, OnAllocates, OnExchanges, EndsOn,
     Enters, PassesGate, Returns, Check, CheckEnabled,
     BeginCustomSection, LoadCallback, InvokeCallback, NoCallback,
     EndCustomSection, LeaveCustom, CallbackEnds, toolVars
<1>7. uninit' \in [Thread -> 0 .. UninitLen]
  <2>1. UninitLen \in Nat /\ UninitLen >= 3
    <3>1. Len(FnSeq) \in Nat
      BY FnAssumption
    <3> QED
      BY <3>1 DEF UninitLen
  <2>2. CASE NextStatement(t)
    BY <2>1, <2>2 DEF NextStatement
  <2>3. CASE uninit' = [uninit EXCEPT ![t] = 0] \/ uninit' = [uninit EXCEPT ![t] = 1]
    BY <2>1, <2>3
  <2>4. \/ NextStatement(t)
        \/ uninit' = [uninit EXCEPT ![t] = 0]
        \/ uninit' = [uninit EXCEPT ![t] = 1]
        \/ UNCHANGED uninit
    BY DEF Program, Library, ProgramCalls, Switches, SwitchesBy, Expects,
     Registers, BeginsUninitialize, BeginsHelper, UninitSwitches,
     UninitUnregisters, UninitExpects, OnCalls, HelperCalls,
     HelperRegisters, HelperEnds, OnAllocates, OnExchanges, EndsOn,
     Enters, PassesGate, Returns, Check, CheckEnabled,
     BeginCustomSection, LoadCallback, InvokeCallback, NoCallback,
     EndCustomSection, LeaveCustom, CallbackEnds, toolVars
  <2> QED
    BY <2>2, <2>3, <2>4
<1>8. helper' \in [Thread -> {"none", "wrap", "on", "unwrap", "unwind"}]
  BY DEF Program, Library, ProgramCalls, Switches, SwitchesBy, Expects,
     Registers, BeginsUninitialize, BeginsHelper, UninitSwitches,
     UninitUnregisters, UninitExpects, OnCalls, HelperCalls,
     HelperRegisters, HelperEnds, OnAllocates, OnExchanges, EndsOn,
     Enters, PassesGate, Returns, Check, CheckEnabled,
     BeginCustomSection, LoadCallback, InvokeCallback, NoCallback,
     EndCustomSection, LeaveCustom, CallbackEnds, toolVars, HelperGoesTo,
     HelperIsGivenBack
<1> QED
  BY <1>1, <1>2, <1>3, <1>4, <1>5, <1>6, <1>7, <1>8

(* A thread has a step exactly behind the gate: Enters sets it, LeaveCustom *)
(* clears it, and the steps between find the thread at "hook".              *)
LEMMA StepInHookStep ==
  ASSUME ToolsInv, Gate!GateInv', NEW t \in Thread,
         Program(t) \/ Library(t) \/ CallbackEnds(t)
  PROVE  StepInHook'
<1> USE DEF ToolsInv, TypeOK, StepInHook, Gate!GateInv, Gate!TypeOK,
            Gate!NoReentry
<1>1. CASE ProgramCalls(t) \/ OnCalls(t) \/ HelperCalls(t)
  BY <1>1 DEF ProgramCalls, OnCalls, HelperCalls, CallFn, Gate!Call, Gate!CallNested
<1>2. CASE Enters(t)
  BY <1>2 DEF Enters, Gate!Enter, GoTo
<1>3. CASE PassesGate(t)
  BY <1>3 DEF PassesGate, Gate!PassGuard, Gate!Lock, Gate!Exit, toolVars
<1>4. CASE Returns(t)
  BY <1>4 DEF Returns, Gate!ShortCircuit, Gate!Unlock, Gate!Return
<1>5. CASE LeaveCustom(t)
  BY <1>5 DEF LeaveCustom, AtStep, Gate!LeaveHook, GoTo
<1>6. CASE \/ Check(t) \/ CheckEnabled(t) \/ BeginCustomSection(t)
           \/ LoadCallback(t) \/ InvokeCallback(t) \/ NoCallback(t)
           \/ EndCustomSection(t) \/ CallbackEnds(t)
  BY <1>6 DEF Check, CheckEnabled, BeginCustomSection, LoadCallback,
     InvokeCallback, NoCallback, EndCustomSection, CallbackEnds, AtStep,
     InCallback, GoTo, gateVars
<1>7. CASE UNCHANGED <<gateVars, step>>
  BY <1>7 DEF gateVars
<1>8. \/ ProgramCalls(t) \/ OnCalls(t) \/ HelperCalls(t) \/ Enters(t) \/ PassesGate(t)
      \/ Returns(t) \/ LeaveCustom(t) \/ Check(t) \/ CheckEnabled(t)
      \/ BeginCustomSection(t) \/ LoadCallback(t) \/ InvokeCallback(t)
      \/ NoCallback(t) \/ EndCustomSection(t) \/ CallbackEnds(t)
      \/ UNCHANGED <<gateVars, step>>
  BY DEF Program, Library, Switches, SwitchesBy, Expects, Registers,
     BeginsUninitialize, BeginsHelper, UninitSwitches,
     UninitUnregisters, UninitExpects, HelperRegisters, HelperEnds,
     OnAllocates, OnExchanges,
     EndsOn, toolVars
<1> QED
  BY <1>1, <1>2, <1>3, <1>4, <1>5, <1>6, <1>7, <1>8

(* A scope is only left by the step that ends the section: the end of on_f, *)
(* or that of the custom function's section.                                *)
LEMMA SectionsCloseStep ==
  ASSUME ToolsInv, NEW t \in Thread,
         Program(t) \/ Library(t) \/ CallbackEnds(t)
  PROVE  SectionsClose'
<1> USE DEF ToolsInv, TypeOK, Hooks!TypeOK, Mon!TypeOK, StepInHook, SectionsClose, InScope
<1>1. CASE Registers(t) \/ HelperRegisters(t) \/ UninitUnregisters(t)
  BY <1>1 DEF Registers, HelperRegisters, UninitUnregisters, Hooks!BeginOn
<1>2. CASE BeginCustomSection(t)
  BY <1>2 DEF BeginCustomSection, GoTo
<1>3. CASE EndsOn(t) \/ EndCustomSection(t)
  BY <1>3 DEF EndsOn, EndCustomSection, Mon!EndSection
<1>4. ASSUME insideImpl' = insideImpl, \A u \in Thread : InScope(u) => InScope(u)'
      PROVE  SectionsClose'
  BY <1>4
<1>5. CASE OnAllocates(t)
  <2>1. insideImpl' = insideImpl /\ step' = step
    BY <1>5 DEF OnAllocates, monVars
  <2>2. at'[t] # "idle" /\ \A u \in Thread \ {t} : at'[u] = at[u]
    BY <1>5 DEF OnAllocates, Hooks!Construct, Hooks!ConstructThrows, Hooks!Destroy
  <2> QED
    BY <1>4, <2>1, <2>2
<1>6. CASE OnExchanges(t)
  <2>1. insideImpl' = insideImpl /\ step' = step
    BY <1>6 DEF OnExchanges, monVars, toolVars
  <2>2. at'[t] # "idle" /\ \A u \in Thread \ {t} : at'[u] = at[u]
    BY <1>6 DEF OnExchanges, Hooks!Exchange
  <2> QED
    BY <1>4, <2>1, <2>2
<1>7. CASE Enters(t)
  <2>1. step[t] = "none"
    BY <1>7 DEF Enters, Gate!Enter, Gate!GateInv, Gate!NoReentry
  <2>2. /\ insideImpl' = insideImpl /\ at' = at
        /\ \A u \in Thread \ {t} : step'[u] = step[u]
    BY <1>7 DEF Enters, monVars, hookVars, GoTo
  <2> QED
    BY <1>4, <2>1, <2>2
<1>8. CASE \/ Check(t) \/ CheckEnabled(t) \/ LoadCallback(t) \/ InvokeCallback(t)
           \/ NoCallback(t) \/ LeaveCustom(t) \/ CallbackEnds(t)
  <2>1. insideImpl' = insideImpl /\ at' = at
    BY <1>8 DEF Check, CheckEnabled, LoadCallback, InvokeCallback, NoCallback,
       LeaveCustom, CallbackEnds, monVars, hookVars, Hooks!Load, Hooks!Release
  <2>2. \A u \in Thread \ {t} : step'[u] = step[u]
    BY <1>8 DEF Check, CheckEnabled, LoadCallback, InvokeCallback, NoCallback,
       LeaveCustom, CallbackEnds, GoTo
  <2>3. \/ step[t] \in {"check", "enabled", "return"}
        \/ step'[t] \in {"load", "invoke", "callback", "end"}
    BY <1>8 DEF Check, CheckEnabled, LoadCallback, InvokeCallback, NoCallback,
       LeaveCustom, CallbackEnds, GoTo, AtStep
  <2> QED
    BY <1>4, <2>1, <2>2, <2>3
<1>9. CASE UNCHANGED <<insideImpl, step, at>>
  BY <1>4, <1>9
<1>10. \/ Registers(t) \/ HelperRegisters(t) \/ UninitUnregisters(t)
       \/ BeginCustomSection(t)
       \/ EndsOn(t) \/ EndCustomSection(t) \/ OnAllocates(t) \/ OnExchanges(t)
       \/ Enters(t) \/ Check(t) \/ CheckEnabled(t) \/ LoadCallback(t)
       \/ InvokeCallback(t) \/ NoCallback(t) \/ LeaveCustom(t) \/ CallbackEnds(t)
       \/ UNCHANGED <<insideImpl, step, at>>
  BY DEF Program, Library, ProgramCalls, Switches, SwitchesBy, Expects,
     BeginsUninitialize, BeginsHelper, UninitSwitches,
     UninitExpects, OnCalls, HelperCalls, HelperRegisters,
     HelperEnds, PassesGate, Returns, monVars, hookVars, toolVars,
     Mon!Initialize, Mon!EnableMonitoring, Mon!DisableMonitoring,
     Mon!UnsetMonitoring, Mon!SetThread, Mon!EnableInAllThreads,
     Mon!DisableInAllThreads, Mon!SetAll, Mon!EndUninitialize
<1> QED
  BY <1>1, <1>2, <1>3, <1>5, <1>6, <1>7, <1>8, <1>9, <1>10

(* A thread's own switch is read by CheckEnabled and is changed by nothing  *)
(* until that thread runs program code again.                               *)
LEMMA SilentStep ==
  ASSUME ToolsInv, NEW t \in Thread,
         Program(t) \/ Library(t) \/ CallbackEnds(t)
  PROVE  DisabledThreadSilent'
<1> USE DEF ToolsInv, TypeOK, Mon!TypeOK, StepInHook, DisabledThreadSilent
<1>1. CASE Switches(t)
  <2>1. step[t] \notin {"section", "load", "invoke"} /\ step' = step
    BY <1>1 DEF Switches, SwitchesBy, MayCall, ProgramRuns, InCallback, toolVars,
       Gate!GateInv, Gate!NoReentry
  <2>2. \A u \in Thread \ {t} : tlsSet'[u] = tlsSet[u] /\ tlsEnabled'[u] = tlsEnabled[u]
    BY <1>1 DEF Switches, SwitchesBy, Mon!Initialize, Mon!EnableMonitoring,
       Mon!DisableMonitoring, Mon!UnsetMonitoring, Mon!SetThread,
       Mon!EnableInAllThreads, Mon!DisableInAllThreads, Mon!SetAll
  <2> QED
    BY <2>1, <2>2
<1>2. CASE UninitSwitches(t)
  <2>1. step[t] \notin {"section", "load", "invoke"} /\ step' = step
    BY <1>2 DEF UninitSwitches, Statement, UninitRuns, InCallback,
       Gate!GateInv, Gate!NoReentry
  <2>2. \A u \in Thread \ {t} : tlsSet'[u] = tlsSet[u] /\ tlsEnabled'[u] = tlsEnabled[u]
    BY <1>2 DEF UninitSwitches, Mon!UnsetMonitoring, Mon!SetThread,
       Mon!DisableInAllThreads, Mon!SetAll, Mon!EndUninitialize
  <2> QED
    BY <2>1, <2>2
<1>3. CASE CheckEnabled(t)
  BY <1>3 DEF CheckEnabled, Mon!SwitchedOn, GoTo, monVars
<1>4. CASE \/ Enters(t) \/ Check(t) \/ BeginCustomSection(t) \/ LoadCallback(t)
           \/ InvokeCallback(t) \/ NoCallback(t) \/ CallbackEnds(t)
           \/ EndCustomSection(t) \/ LeaveCustom(t)
  BY <1>4 DEF Enters, Check, BeginCustomSection, LoadCallback, InvokeCallback,
     NoCallback, CallbackEnds, EndCustomSection, LeaveCustom, AtStep, GoTo,
     monVars, Mon!BeginSection, Mon!EndSection
<1>5. CASE UNCHANGED <<step, tlsSet, tlsEnabled>>
  BY <1>5
<1>6. \/ Switches(t) \/ UninitSwitches(t) \/ CheckEnabled(t) \/ Enters(t)
      \/ Check(t) \/ BeginCustomSection(t) \/ LoadCallback(t)
      \/ InvokeCallback(t) \/ NoCallback(t) \/ CallbackEnds(t)
      \/ EndCustomSection(t) \/ LeaveCustom(t)
      \/ UNCHANGED <<step, tlsSet, tlsEnabled>>
  BY DEF Program, Library, ProgramCalls, Expects, Registers,
     BeginsUninitialize, BeginsHelper, UninitUnregisters,
     UninitExpects, OnCalls, HelperCalls, HelperRegisters,
     HelperEnds, OnAllocates, OnExchanges, EndsOn, PassesGate,
     Returns, monVars, toolVars, Mon!BeginSection, Mon!EndSection
<1> QED
  BY <1>1, <1>2, <1>3, <1>4, <1>5, <1>6

-----------------------------------------------------------------------------
(* Every step of every thread preserves the invariant.                      *)
LEMMA StepToolsInv == ToolsInv /\ [Next]_vars => ToolsInv'
<1> SUFFICES ASSUME ToolsInv, [Next]_vars
             PROVE  ToolsInv'
  OBVIOUS
<1>1. ASSUME NEW t \in Thread, Program(t) \/ Library(t) \/ CallbackEnds(t)
      PROVE  ToolsInv'
  <2>1. Gate!GateInv'
    BY <1>1, GateStep, GateInvStep DEF ToolsInv
  <2>2. Hooks!HooksInv'
    <3>1. fn[t] \in MemFn
      BY DEF ToolsInv, TypeOK
    <3> QED
      BY <1>1, <3>1, HooksStep, HooksInvStep DEF ToolsInv
  <2>3. TypeOK'
    BY <1>1, <2>1, <2>2, TypeStep
  <2>4. StepInHook'
    BY <1>1, <2>1, StepInHookStep
  <2>5. SectionsClose'
    BY <1>1, SectionsCloseStep
  <2>6. DisabledThreadSilent'
    BY <1>1, SilentStep
  <2> QED
    BY <2>1, <2>2, <2>3, <2>4, <2>5, <2>6 DEF ToolsInv
<1>2. CASE UNCHANGED vars
  <2> USE <1>2 DEF vars, gateVars, hookVars, monVars, toolVars, ToolsInv
  <2>1. Gate!GateInv'
    BY GateInvStep
  <2>2. Hooks!HooksInv'
    BY HooksInvStep
  <2>3. TypeOK'
    BY DEF TypeOK, Gate!TypeOK, Hooks!TypeOK, Mon!TypeOK
  <2>4. StepInHook' /\ SectionsClose' /\ DisabledThreadSilent'
    BY DEF StepInHook, SectionsClose, InScope, DisabledThreadSilent
  <2> QED
    BY <2>1, <2>2, <2>3, <2>4
<1> QED
  BY <1>1, <1>2 DEF Next

(* The invariant holds throughout every run of every program: the parts     *)
(* keep their own invariants where they are used together.                  *)
THEOREM ToolsInvariant == Spec => []ToolsInv
BY InitToolsInv, StepToolsInv, PTL DEF Spec

(* Type correctness.                                                        *)
THEOREM TypeCorrect == Spec => []TypeOK
<1>1. ToolsInv => TypeOK
  BY DEF ToolsInv
<1> QED
  BY <1>1, ToolsInvariant, PTL

(* No section is left open, whatever a callback throws or registers, and    *)
(* however threads interleave (custom_memory_functions.cpp:66,              *)
(* register_hooks.cpp:33).                                                  *)
THEOREM SectionsAlwaysClose == Spec => []SectionsClose
<1>1. ToolsInv => SectionsClose
  BY DEF ToolsInv
<1> QED
  BY <1>1, ToolsInvariant, PTL

(* A thread that disabled monitoring for itself reports nothing             *)
(* (monitoring.cpp:41).                                                     *)
THEOREM DisabledNeverReports == Spec => []DisabledThreadSilent
<1>1. ToolsInv => DisabledThreadSilent
  BY DEF ToolsInv
<1> QED
  BY <1>1, ToolsInvariant, PTL

(* Two callbacks never run at the same time (unix_common.cpp:52).           *)
THEOREM CallbacksExclude == Spec => []OneCallbackAtATime
<1>1. ToolsInv => OneCallbackAtATime
  BY DEF ToolsInv, StepInHook, OneCallbackAtATime, Gate!GateInv,
         Gate!LockHeldOnce, Gate!Holding, Gate!Locked
<1> QED
  BY <1>1, ToolsInvariant, PTL

-----------------------------------------------------------------------------
(* Where on_f, uninitialize() and on_unexpected_f find their thread, and    *)
(* what the custom function has read of its own.  Other threads' sections   *)
(* and calls do not come into it: what they do is no disturbance.           *)
Placed(t) ==
  /\ at[t] # "idle" \/ uninit[t] # 0 =>
       t \in own \/ pc[t] = "idle" \/ step[t] = "callback"
  /\ t \in own => at[t] # "idle" /\ pc[t] # "idle"
  /\ nest[t] > 0 => step[t] = "callback"
  /\ helper[t] # "none" /\ (pc[t] = "idle" \/ t \in own) => uninit[t] = 0
  /\ step[t] \in {"enabled", "section", "load", "invoke"} => initialized
  /\ step[t] \in {"section", "load", "invoke"} => t \in Monitored
  /\ step[t] = "invoke" => using[t] = cell[fn[t]]

(* on_f and uninitialize() call memory functions of their own; they find    *)
(* the gate open and the section begun, so they run no callback.  This      *)
(* another thread does disturb: a program of one thread relies on it.       *)
Undisturbed(t) ==
  /\ at[t] # "idle" => insideImpl
  /\ t \in own => nest[t] = 0 /\ step[t] \in {"none", "check", "return"}
  /\ t \in threw => /\ t \notin own /\ nest[t] = 0
                    /\ pc[t] \in {"hook", "leaving", "unlock"}
                    /\ pc[t] = "hook" => step[t] \in Decided

Alone(t) == Placed(t) /\ Undisturbed(t)

(* What ToolsInv says of the thread itself.                                 *)
Known(t) ==
  /\ t \in Thread
  /\ pc \in [Thread -> Gate!Place] /\ nest \in [Thread -> 0 .. MaxNest]
  /\ step \in [Thread -> StepName] /\ at \in [Thread -> Hooks!OnPlace]
  /\ uninit \in [Thread -> Int]
  /\ helper \in [Thread -> {"none", "wrap", "on", "unwrap", "unwind"}]
  /\ tlsSet \in [Thread -> BOOLEAN] /\ tlsEnabled \in [Thread -> BOOLEAN]
  /\ fn \in [Thread -> MemFn] /\ using \in [Thread -> Obj \union {NoObj}]
  /\ cell \in [MemFn -> Obj \union {NoObj}]
  /\ step[t] # "none" <=> pc[t] = "hook" \/ nest[t] > 0
  /\ nest[t] > 0 => nest[t] = 1 /\ pc[t] = "guard"

(* It follows from the invariant.                                           *)
LEMMA ToolsKnown ==
  ASSUME ToolsInv, NEW t \in Thread PROVE Known(t)
<1>1. uninit \in [Thread -> Int]
  BY DEF ToolsInv, TypeOK
<1> QED
  BY <1>1 DEF ToolsInv, TypeOK, Known, Gate!TypeOK, Hooks!TypeOK, Mon!TypeOK,
     StepInHook, Gate!GateInv, Gate!NoReentry

(* The same behind a step.                                                  *)
LEMMA ToolsKnownNext ==
  ASSUME ToolsInv', NEW t \in Thread PROVE Known(t)'
<1>1. uninit' \in [Thread -> Int]
  BY DEF ToolsInv, TypeOK
<1> QED
  BY <1>1 DEF ToolsInv, TypeOK, Known, Gate!TypeOK, Hooks!TypeOK, Mon!TypeOK,
     StepInHook, Gate!GateInv, Gate!NoReentry

(* The library's constructor has run before main().                         *)
LEMMA StaysReady ==
  ASSUME NEW t \in Thread, Program(t) \/ Library(t) \/ CallbackEnds(t)
  PROVE  ready' = ready
BY DEF Program, Library, ProgramCalls, CallFn, Switches, SwitchesBy,
     Expects, Registers, BeginsUninitialize, BeginsHelper,
     UninitSwitches, UninitUnregisters, UninitExpects, OnCalls,
     HelperCalls, HelperRegisters, HelperEnds, OnAllocates,
     OnExchanges, EndsOn, Enters, PassesGate, Returns, Check,
     CheckEnabled, BeginCustomSection, LoadCallback,
     InvokeCallback, NoCallback, EndCustomSection, LeaveCustom,
     CallbackEnds, gateVars, Gate!Call, Gate!CallNested,
     Gate!Enter, Gate!PassGuard, Gate!Lock, Gate!Exit,
     Gate!ShortCircuit, Gate!Unlock, Gate!LeaveHook

(* The thread's own steps keep it where it should be ...                    *)
LEMMA PlacedStep ==
  ASSUME ToolsInv, NEW t \in Thread, Placed(t),
         Program(t) \/ Library(t) \/ CallbackEnds(t)
  PROVE  Placed(t)'
<1>0. Known(t)
  BY ToolsKnown
<1> USE <1>0 DEF Known, Placed, Gate!Place, Gate!Locked, Hooks!OnPlace, StepName,
    Deciding, Decided
<1>1. CASE ProgramCalls(t)
  BY <1>1 DEF ProgramCalls, CallFn, Gate!Call, Gate!CallNested, hookVars,
     monVars, ProgramRuns, InCallback, Monitored
<1>2. CASE Switches(t)
  BY <1>2 DEF Switches, SwitchesBy, MayCall, ProgramRuns, InCallback, gateVars,
     hookVars, toolVars, Mon!Initialize, Mon!EnableMonitoring,
     Mon!DisableMonitoring, Mon!UnsetMonitoring, Mon!SetThread,
     Mon!EnableInAllThreads, Mon!DisableInAllThreads, Mon!SetAll
<1>3. CASE Expects(t)
  BY <1>3 DEF Expects, gateVars, hookVars, monVars, Monitored
<1>4. CASE Registers(t)
  BY <1>4 DEF Registers, MayCall, ProgramRuns, InCallback, Hooks!BeginOn,
     Mon!BeginSection, gateVars, toolVars
<1>5. CASE BeginsUninitialize(t)
  BY <1>5 DEF BeginsUninitialize, BeginsHelper, MayCall, ProgramRuns,
     InCallback, gateVars, hookVars, monVars
<1>6. CASE UninitSwitches(t)
  BY <1>6 DEF UninitSwitches, Statement, UninitRuns, NextStatement, InCallback,
     gateVars, hookVars, Mon!UnsetMonitoring, Mon!SetThread,
     Mon!DisableInAllThreads, Mon!SetAll, Mon!EndUninitialize
<1>7. CASE UninitUnregisters(t)
  BY <1>7 DEF UninitUnregisters, Statement, UninitRuns, InCallback,
     Hooks!BeginOn, Mon!BeginSection, gateVars, toolVars
<1>8. CASE UninitExpects(t)
  BY <1>8 DEF UninitExpects, Statement, UninitRuns, NextStatement, InCallback,
     gateVars, hookVars, monVars
<1>9. CASE OnCalls(t)
  BY <1>9 DEF OnCalls, HelperCalls, HelperRegisters, HelperEnds, OnRuns, CallFn,
     Gate!Call, Gate!CallNested, InCallback, hookVars, monVars
<1>10. CASE OnAllocates(t)
  BY <1>10 DEF OnAllocates, OnRuns, Hooks!Construct, Hooks!ConstructThrows,
     Hooks!Destroy, InCallback, gateVars, monVars
<1>11. CASE OnExchanges(t)
  BY <1>11 DEF OnExchanges, OnRuns, Hooks!Exchange, InCallback, gateVars,
     monVars, toolVars
<1>12. CASE EndsOn(t)
  BY <1>12 DEF EndsOn, OnRuns, Hooks!EndOn, Mon!EndSection, NextStatement,
     HelperIsGivenBack, HelperGoesTo,
     InCallback, gateVars
<1>13. CASE Enters(t)
  BY <1>13 DEF Enters, Gate!Enter, GoTo, hookVars, monVars
<1>14. CASE PassesGate(t)
  BY <1>14 DEF PassesGate, Gate!PassGuard, Gate!Lock, Gate!Exit, hookVars,
     monVars, toolVars
<1>15. CASE Returns(t)
  BY <1>15 DEF Returns, HelperGoesTo, Gate!ShortCircuit, Gate!Unlock, Gate!Return, hookVars,
     monVars
<1>16. CASE Check(t)
  BY <1>16 DEF Check, AtStep, Mon!Applicable, GoTo, gateVars, hookVars, monVars
<1>17. CASE CheckEnabled(t)
  BY <1>17 DEF CheckEnabled, AtStep, Mon!SwitchedOn, GoTo, gateVars, hookVars,
     monVars, Monitored
<1>18. CASE BeginCustomSection(t) \/ LoadCallback(t)
  BY <1>18 DEF BeginCustomSection, LoadCallback, AtStep, Mon!BeginSection, GoTo,
     gateVars, hookVars, monVars, Monitored, Hooks!Load
<1>19. CASE InvokeCallback(t) \/ NoCallback(t) \/ CallbackEnds(t)
  BY <1>19 DEF InvokeCallback, NoCallback, CallbackEnds, InCallback,
     ProgramRuns, AtStep, GoTo, gateVars, hookVars, monVars, Hooks!Release
<1>20. CASE EndCustomSection(t) \/ LeaveCustom(t)
  BY <1>20 DEF EndCustomSection, LeaveCustom, AtStep, Mon!EndSection,
     Gate!LeaveHook, GoTo, gateVars, hookVars, monVars
<1>21. CASE BeginsHelper(t) \/ HelperEnds(t)
  BY <1>21 DEF BeginsHelper, HelperEnds, HelperRuns, HelperGoesTo, MayCall,
     ProgramRuns, gateVars, hookVars, monVars, Monitored
<1>22. CASE HelperCalls(t)
  BY <1>22 DEF HelperCalls, HelperRuns, CallFn, Gate!Call, Gate!CallNested,
     hookVars, monVars, Monitored
<1>23. CASE HelperRegisters(t)
  BY <1>23 DEF HelperRegisters, HelperRuns, HelperGoesTo, Hooks!BeginOn,
     Mon!BeginSection, gateVars, Monitored
<1> QED
  BY <1>1, <1>2, <1>3, <1>4, <1>5, <1>6, <1>7, <1>8, <1>9, <1>10, <1>11, <1>12,
     <1>13, <1>14, <1>15, <1>16, <1>17, <1>18, <1>19, <1>20, <1>21, <1>22, <1>23
  DEF Program, Library

(* ... and, where no other thread disturbs it, all that it relies on.       *)
LEMMA UndisturbedStep ==
  ASSUME ToolsInv, NEW t \in Thread, Alone(t),
         Program(t) \/ Library(t) \/ CallbackEnds(t)
  PROVE  Undisturbed(t)'
<1>0. Known(t)
  BY ToolsKnown
<1> USE <1>0 DEF Known, Alone, Placed, Undisturbed, Gate!Place, Gate!Locked, Hooks!OnPlace, StepName,
    Deciding, Decided
<1>1. CASE ProgramCalls(t)
  BY <1>1 DEF ProgramCalls, CallFn, Gate!Call, Gate!CallNested, hookVars,
     monVars, ProgramRuns, InCallback, Monitored
<1>2. CASE Switches(t)
  BY <1>2 DEF Switches, SwitchesBy, MayCall, ProgramRuns, InCallback, gateVars,
     hookVars, toolVars, Mon!Initialize, Mon!EnableMonitoring,
     Mon!DisableMonitoring, Mon!UnsetMonitoring, Mon!SetThread,
     Mon!EnableInAllThreads, Mon!DisableInAllThreads, Mon!SetAll
<1>3. CASE Expects(t)
  BY <1>3 DEF Expects, gateVars, hookVars, monVars, Monitored
<1>4. CASE Registers(t)
  BY <1>4 DEF Registers, MayCall, ProgramRuns, InCallback, Hooks!BeginOn,
     Mon!BeginSection, gateVars, toolVars
<1>5. CASE BeginsUninitialize(t)
  BY <1>5 DEF BeginsUninitialize, BeginsHelper, MayCall, ProgramRuns,
     InCallback, gateVars, hookVars, monVars
<1>6. CASE UninitSwitches(t)
  BY <1>6 DEF UninitSwitches, Statement, UninitRuns, NextStatement, InCallback,
     gateVars, hookVars, Mon!UnsetMonitoring, Mon!SetThread,
     Mon!DisableInAllThreads, Mon!SetAll, Mon!EndUninitialize
<1>7. CASE UninitUnregisters(t)
  BY <1>7 DEF UninitUnregisters, Statement, UninitRuns, InCallback,
     Hooks!BeginOn, Mon!BeginSection, gateVars, toolVars
<1>8. CASE UninitExpects(t)
  BY <1>8 DEF UninitExpects, Statement, UninitRuns, NextStatement, InCallback,
     gateVars, hookVars, monVars
<1>9. CASE OnCalls(t)
  BY <1>9 DEF OnCalls, HelperCalls, HelperRegisters, HelperEnds, OnRuns, CallFn,
     Gate!Call, Gate!CallNested, InCallback, hookVars, monVars
<1>10. CASE OnAllocates(t)
  BY <1>10 DEF OnAllocates, OnRuns, Hooks!Construct, Hooks!ConstructThrows,
     Hooks!Destroy, InCallback, gateVars, monVars
<1>11. CASE OnExchanges(t)
  BY <1>11 DEF OnExchanges, OnRuns, Hooks!Exchange, InCallback, gateVars,
     monVars, toolVars
<1>12. CASE EndsOn(t)
  BY <1>12 DEF EndsOn, OnRuns, Hooks!EndOn, Mon!EndSection, NextStatement,
     HelperIsGivenBack, HelperGoesTo,
     InCallback, gateVars
<1>13. CASE Enters(t)
  BY <1>13 DEF Enters, Gate!Enter, GoTo, hookVars, monVars
<1>14. CASE PassesGate(t)
  BY <1>14 DEF PassesGate, Gate!PassGuard, Gate!Lock, Gate!Exit, hookVars,
     monVars, toolVars
<1>15. CASE Returns(t)
  BY <1>15 DEF Returns, HelperGoesTo, Gate!ShortCircuit, Gate!Unlock, Gate!Return, hookVars,
     monVars
<1>16. CASE Check(t)
  BY <1>16 DEF Check, AtStep, Mon!Applicable, GoTo, gateVars, hookVars, monVars
<1>17. CASE CheckEnabled(t)
  BY <1>17 DEF CheckEnabled, AtStep, Mon!SwitchedOn, GoTo, gateVars, hookVars,
     monVars, Monitored
<1>18. CASE BeginCustomSection(t) \/ LoadCallback(t)
  BY <1>18 DEF BeginCustomSection, LoadCallback, AtStep, Mon!BeginSection, GoTo,
     gateVars, hookVars, monVars, Monitored, Hooks!Load
<1>19. CASE InvokeCallback(t) \/ NoCallback(t) \/ CallbackEnds(t)
  BY <1>19 DEF InvokeCallback, NoCallback, CallbackEnds, InCallback,
     ProgramRuns, AtStep, GoTo, gateVars, hookVars, monVars, Hooks!Release
<1>20. CASE EndCustomSection(t) \/ LeaveCustom(t)
  BY <1>20 DEF EndCustomSection, LeaveCustom, AtStep, Mon!EndSection,
     Gate!LeaveHook, GoTo, gateVars, hookVars, monVars
<1>21. CASE BeginsHelper(t) \/ HelperEnds(t)
  BY <1>21 DEF BeginsHelper, HelperEnds, HelperRuns, HelperGoesTo, MayCall,
     ProgramRuns, gateVars, hookVars, monVars, Monitored
<1>22. CASE HelperCalls(t)
  BY <1>22 DEF HelperCalls, HelperRuns, CallFn, Gate!Call, Gate!CallNested,
     hookVars, monVars, Monitored
<1>23. CASE HelperRegisters(t)
  BY <1>23 DEF HelperRegisters, HelperRuns, HelperGoesTo, Hooks!BeginOn,
     Mon!BeginSection, gateVars, Monitored
<1> QED
  BY <1>1, <1>2, <1>3, <1>4, <1>5, <1>6, <1>7, <1>8, <1>9, <1>10, <1>11, <1>12,
     <1>13, <1>14, <1>15, <1>16, <1>17, <1>18, <1>19, <1>20, <1>21, <1>22, <1>23
  DEF Program, Library

(* Both together.                                                           *)
LEMMA AloneStep ==
  ASSUME ToolsInv, NEW t \in Thread, Alone(t),
         Program(t) \/ Library(t) \/ CallbackEnds(t)
  PROVE  Alone(t)'
BY PlacedStep, UndisturbedStep DEF Alone

(* main() starts with nothing under way.                                    *)
LEMMA InitAlone == ASSUME Init, NEW t \in Thread PROVE Alone(t)
BY DEF Init, Hooks!Init, Alone, Placed, Undisturbed

(* A step that changes nothing MonitorContract decides by.                  *)
Quiet(t) == UNCHANGED <<initialized, Monitored, Reporting>>

(* A call that stays where it is in the contract's eyes.                    *)
LEMMA ContractStays ==
  ASSUME NEW t \in Thread, Thread = {t}, Quiet(t),
         Place(t)' = Place(t), Place(t) # "out" => fn'[t] = fn[t]
  PROVE  UNCHANGED Contract!contractVars
BY DEF Quiet, Contract!contractVars

(* The program, or a callback, sets switches, hooks or expectations.        *)
LEMMA ContractConfigures ==
  ASSUME NEW t \in Thread, Thread = {t}, Place(t) \in {"out", "callback"},
         Place(t)' = Place(t), Place(t) # "out" => fn'[t] = fn[t]
  PROVE  Contract!Next
<1>1. Contract!Configure
  BY DEF Contract!Configure
<1> QED
  BY <1>1 DEF Contract!Next

(* A call is reported or skipped, its callback ends, or it returns.         *)
LEMMA ContractGoes ==
  ASSUME NEW t \in Thread, Thread = {t}, Quiet(t), Place(t) # "out", 
         fn'[t] = fn[t],
         \/ Place(t) = "in" /\ Place(t)' = "callback"
            /\ initialized /\ t \in Monitored /\ fn[t] \in Reporting
         \/ Place(t) = "in" /\ Place(t)' = "done"
            /\ ~(initialized /\ t \in Monitored /\ fn[t] \in Reporting)
         \/ Place(t) = "callback" /\ Place(t)' \in {"done", "lost"}
         \/ Place(t) \in {"done", "lost"} /\ Place(t)' = "out"
  PROVE  Contract!Next
<1> USE DEF Quiet
<1>1. CASE Place(t) = "in" /\ Place(t)' = "callback"
            /\ initialized /\ t \in Monitored /\ fn[t] \in Reporting
  <2>1. Contract!Report(t)
    BY <1>1 DEF Contract!Report, Contract!Reported, Contract!GoTo
  <2> QED
    BY <2>1 DEF Contract!Next
<1>2. CASE Place(t) = "in" /\ Place(t)' = "done"
            /\ ~(initialized /\ t \in Monitored /\ fn[t] \in Reporting)
  <2>1. Contract!Skip(t)
    BY <1>2 DEF Contract!Skip, Contract!Reported, Contract!GoTo
  <2> QED
    BY <2>1 DEF Contract!Next
<1>3. CASE Place(t) = "callback" /\ Place(t)' \in {"done", "lost"}
  <2>1. Contract!CallbackReturns(t) \/ Contract!CallbackThrows(t)
    BY <1>3 DEF Contract!CallbackReturns, Contract!CallbackThrows, Contract!GoTo
  <2> QED
    BY <2>1 DEF Contract!Next
<1>4. CASE Place(t) \in {"done", "lost"} /\ Place(t)' = "out"
  <2>1. Contract!Return(t)
    BY <1>4 DEF Contract!Return, Contract!Leave
  <2> QED
    BY <2>1 DEF Contract!Next
<1> QED
  BY <1>1, <1>2, <1>3, <1>4

(* The program calls a memory function.                                     *)
LEMMA ContractCalls ==
  ASSUME NEW t \in Thread, Thread = {t}, Quiet(t),
         Place(t) = "out", Place(t)' = "in", fn'[t] \in MemFn
  PROVE  Contract!Next
<1>1. Contract!Call(t)
  BY DEF Quiet, Contract!Call
<1> QED
  BY <1>1 DEF Contract!Next

(* The quiet of the steps that change no switch, hook or expectation.       *)
LEMMA QuietStep ==
  ASSUME NEW t \in Thread, UNCHANGED <<initialized, enabled, tlsSet, tlsEnabled>>,
         UNCHANGED <<cell, content, unexpected>>
  PROVE  Quiet(t)
BY DEF Quiet, Monitored, Reporting, HookIs

(* With every other thread outside, the guard lets the thread through.      *)
LEMMA NoShortCircuit ==
  ASSUME ToolsInv, ready, NEW t \in Thread, nest[t] = 0,
         \A u \in Thread \ {t} : pc[u] = "idle"
  PROVE  ~Gate!ShortCircuit(t)
<1> SUFFICES ASSUME Gate!ShortCircuit(t) PROVE FALSE
  OBVIOUS
<1>1. pc[t] = "guard"
  BY DEF Gate!ShortCircuit
<1>2. \A u \in Thread : ~Gate!Counted(u)
  <2>1. \A u \in Thread : nest[u] > 0 => pc[u] = "guard"
    BY DEF ToolsInv, Gate!GateInv, Gate!NoReentry
  <2>2. \A u \in Thread \ {t} : ~Gate!Counted(u)
    BY <2>1 DEF Gate!Counted
  <2>3. ~Gate!Counted(t)
    BY <1>1 DEF Gate!Counted
  <2> QED
    BY <2>2, <2>3
<1>3. inside = 0
  BY <1>2 DEF ToolsInv, Gate!GateInv, Gate!CounterExact
<1>4. \A u \in Thread \ {t} : owner # u
  BY DEF ToolsInv, Gate!GateInv, Gate!LockHeldOnce, Gate!Holding, Gate!Locked,
     Gate!NoReentry
<1> QED
  BY <1>3, <1>4 DEF Gate!ShortCircuit, Gate!Observed

(* Every step of the only thread is one that the contract allows, or none   *)
(* that it sees.                                                            *)
LEMMA OneThreadRefines ==
  ASSUME ToolsInv, ToolsInv', ready, NEW t \in Thread, Thread = {t},
         Alone(t), Alone(t)',
         Program(t) \/ Library(t) \/ CallbackEnds(t)
  PROVE  Contract!Next \/ UNCHANGED Contract!contractVars
<1>0. Known(t)
  BY ToolsKnown
<1>a. Known(t)'
  BY ToolsKnownNext
<1> USE <1>0, <1>a DEF Known, Alone, Placed, Undisturbed, Place, Gate!Place, Gate!Locked,
    Hooks!OnPlace, StepName, Deciding, Decided
<1>1. CASE ProgramCalls(t)
  <2>1. Quiet(t)
    BY <1>1, QuietStep DEF ProgramCalls, hookVars, monVars
  <2>2. CASE pc[t] = "idle"
    <3>1. Place(t) = "out" /\ Place(t)' = "in" /\ fn'[t] \in MemFn
      BY <1>1, <2>2 DEF ProgramCalls, CallFn, Gate!Call, Gate!CallNested,
         ProgramRuns, InCallback
    <3> HIDE DEF Place
    <3> QED
      BY <2>1, <3>1, ContractCalls
  <2>3. CASE pc[t] # "idle"
    <3>1. Place(t) = "callback" /\ Place(t)' = "callback" /\ fn' = fn
      BY <1>1, <2>3 DEF ProgramCalls, CallFn, Gate!Call, Gate!CallNested,
         ProgramRuns, InCallback
    <3> HIDE DEF Place
    <3> QED
      BY <2>1, <3>1, ContractStays
  <2> QED
    BY <2>2, <2>3
<1>2. CASE \/ Switches(t) \/ Expects(t) \/ Registers(t) \/ BeginsUninitialize(t)
           \/ BeginsHelper(t) \/ HelperRegisters(t) \/ HelperEnds(t)
           \/ UninitSwitches(t) \/ UninitUnregisters(t) \/ UninitExpects(t)
           \/ OnAllocates(t) \/ OnExchanges(t) \/ EndsOn(t)
  <2>1. /\ pc' = pc /\ nest' = nest /\ step' = step /\ own' = own /\ fn' = fn
        /\ threw' = threw \/ threw' = threw \ {t}
    BY <1>2 DEF Switches, SwitchesBy, Expects, Registers, BeginsUninitialize,
     BeginsHelper, HelperRegisters, HelperEnds, HelperRuns,
     UninitSwitches, UninitUnregisters,
     UninitExpects, OnAllocates, OnExchanges, EndsOn, gateVars,
     toolVars
  <2>2. pc[t] = "idle" \/ (InCallback(t) /\ t \notin own)
    BY <1>2 DEF Switches, SwitchesBy, Expects, Registers, BeginsUninitialize,
     BeginsHelper, HelperRegisters, HelperEnds, HelperRuns,
     UninitSwitches, UninitUnregisters,
     UninitExpects, OnAllocates, OnExchanges, EndsOn, MayCall,
     ProgramRuns, Statement, UninitRuns, OnRuns, InCallback
  <2>3. Place(t) \in {"out", "callback"} /\ Place(t)' = Place(t)
    BY <2>1, <2>2 DEF InCallback
  <2> HIDE DEF Place
  <2> QED
    BY <2>1, <2>3, ContractConfigures
<1>3. CASE HelperCalls(t)
  <2>1. Quiet(t)
    BY <1>3, QuietStep DEF HelperCalls, hookVars, monVars
  <2>2. Place(t) = "out" /\ Place(t)' = "in" /\ fn'[t] \in MemFn
    BY <1>3, FnAssumption DEF HelperCalls, HelperRuns, CallFn, Gate!Call,
       Gate!CallNested, InCallback
  <2> HIDE DEF Place
  <2> QED
    BY <2>1, <2>2, ContractCalls
<1>4. CASE OnCalls(t)
  <2>1. Quiet(t)
    BY <1>4, QuietStep DEF OnCalls, HelperCalls, HelperRegisters, HelperEnds, hookVars,
     monVars
  <2>2. Place(t)' = Place(t) /\ (Place(t) # "out" => fn' = fn)
    BY <1>4 DEF OnCalls, HelperCalls, HelperRegisters, HelperEnds, OnRuns, CallFn,
     Gate!Call, Gate!CallNested, InCallback
  <2> HIDE DEF Place
  <2> QED
    BY <2>1, <2>2, ContractStays
<1>5. CASE Enters(t) \/ PassesGate(t) \/ EndCustomSection(t) \/ LeaveCustom(t)
           \/ BeginCustomSection(t) \/ LoadCallback(t)
  <2>1. Quiet(t)
    BY <1>5, QuietStep DEF Enters, PassesGate, EndCustomSection, LeaveCustom,
       BeginCustomSection, LoadCallback, Mon!BeginSection, Mon!EndSection,
       Hooks!Load, hookVars, monVars, toolVars
  <2>2. Place(t)' = Place(t) /\ fn' = fn
    <3>1. CASE Enters(t) \/ EndCustomSection(t) \/ LeaveCustom(t)
           \/ BeginCustomSection(t) \/ LoadCallback(t)
      BY <3>1 DEF Enters, Gate!Enter, EndCustomSection, LeaveCustom,
         Gate!LeaveHook, BeginCustomSection, LoadCallback, GoTo, AtStep,
         InCallback, gateVars
    <3>2. CASE PassesGate(t)
      BY <3>2 DEF PassesGate, Gate!PassGuard, Gate!Lock, Gate!Exit, InCallback,
         toolVars
    <3> QED
      BY <1>5, <3>1, <3>2
  <2> HIDE DEF Place
  <2> QED
    BY <2>1, <2>2, ContractStays
<1>6. CASE Returns(t)
  <2>1. Quiet(t) /\ fn' = fn
    BY <1>6, QuietStep DEF Returns, hookVars, monVars
  <2>2. CASE nest[t] = 0 /\ t \notin own
    <3>1. pc[t] = "unlock"
      <4>1. ~Gate!ShortCircuit(t)
        BY <2>2, NoShortCircuit
      <4> QED
        BY <1>6, <4>1 DEF Returns, Gate!Unlock
    <3>2. Place(t) \in {"done", "lost"} /\ Place(t)' = "out"
      BY <1>6, <2>2, <3>1 DEF Returns, Gate!ShortCircuit, Gate!Unlock,
         Gate!Return, InCallback
    <3> HIDE DEF Place
    <3> QED
      BY <2>1, <3>2, ContractGoes
  <2>3. CASE nest[t] # 0 \/ t \in own
    <3>1. ASSUME t \in own PROVE Place(t)' = Place(t)
      <4>1. pc'[t] = "idle" \/ t \in own'
        BY <1>6, <3>1 DEF Returns, Gate!ShortCircuit, Gate!Unlock, Gate!Return
      <4> QED
        BY <3>1, <4>1
    <3>2. ASSUME nest[t] # 0, t \notin own PROVE Place(t)' = Place(t)
      <4>1. /\ pc[t] = "guard" /\ nest[t] = 1 /\ step[t] = "callback"
            /\ Place(t) = "callback"
        BY <3>2
      <4>2. pc'[t] = "hook" /\ nest'[t] = 0 /\ step' = step /\ own' = own
        BY <1>6, <4>1 DEF Returns, Gate!ShortCircuit, Gate!Unlock, Gate!Return
      <4> QED
        BY <3>2, <4>1, <4>2 DEF InCallback
    <3>3. Place(t)' = Place(t)
      BY <2>3, <3>1, <3>2
    <3> HIDE DEF Place
    <3> QED
      BY <2>1, <3>3, ContractStays
  <2> QED
    BY <2>2, <2>3
<1>7. CASE Check(t) \/ CheckEnabled(t)
  <2>1. Quiet(t) /\ fn' = fn /\ UNCHANGED <<own, threw, pc, nest>>
    BY <1>7, QuietStep DEF Check, CheckEnabled, hookVars, monVars, gateVars
  <2>2. /\ pc[t] = "hook" /\ nest[t] = 0 /\ step[t] \in {"check", "enabled"}
        /\ step'[t] \in {"enabled", "section", "return"}
    BY <1>7 DEF Check, CheckEnabled, AtStep, GoTo
  <2>3. CASE t \in own \/ step'[t] # "return"
    <3>1. Place(t)' = Place(t)
      BY <2>1, <2>2, <2>3 DEF InCallback
    <3> HIDE DEF Place
    <3> QED
      BY <2>1, <3>1, ContractStays
  <2>4. CASE t \notin own /\ step'[t] = "return"
    <3>1. Place(t) = "in" /\ Place(t)' = "done"
      BY <2>1, <2>2, <2>4 DEF InCallback
    <3>2. ~(initialized /\ t \in Monitored)
      <4>1. CASE Check(t)
        <5>1. ~insideImpl
          BY <2>2, <2>4, <4>1 DEF ToolsInv, SectionsClose, InScope, Check,
             AtStep
        <5> QED
          BY <2>4, <4>1, <5>1 DEF Check, GoTo, Mon!Applicable
      <4>2. CASE CheckEnabled(t)
        BY <2>4, <4>2 DEF CheckEnabled, GoTo, Mon!SwitchedOn, Monitored
      <4> QED
        BY <1>7, <4>1, <4>2
    <3> HIDE DEF Place
    <3> QED
      BY <2>1, <3>1, <3>2, ContractGoes
  <2> QED
    BY <2>3, <2>4
<1>8. CASE InvokeCallback(t) \/ NoCallback(t)
  <2>1. Quiet(t) /\ fn' = fn /\ UNCHANGED <<own, threw, pc, nest>>
    BY <1>8, QuietStep DEF InvokeCallback, NoCallback, hookVars, monVars,
       gateVars, Hooks!Release
  <2>2. /\ pc[t] = "hook" /\ nest[t] = 0 /\ step[t] = "invoke"
    BY <1>8 DEF InvokeCallback, NoCallback, AtStep
  <2>3. initialized /\ t \in Monitored /\ using[t] = cell[fn[t]] /\ fn[t] \in MemFn
    BY <2>2
  <2>4. cell[fn[t]] # NoObj => content[cell[fn[t]]] # Dead
    BY <2>3 DEF ToolsInv, Hooks!HooksInv, Hooks!Ownership, Hooks!InCell,
       Hooks!TypeOK
  <2>5. CASE InvokeCallback(t)
    <3>1. fn[t] \in Reporting
      BY <2>3, <2>4, <2>5 DEF InvokeCallback, MayRun, RunsCallback, Reporting,
         HookIs
    <3>2. Place(t) = "in" /\ Place(t)' = "callback"
      BY <2>1, <2>2, <2>5 DEF InvokeCallback, InCallback, GoTo
    <3> HIDE DEF Place
    <3> QED
      BY <2>1, <2>3, <3>1, <3>2, ContractGoes
  <2>6. CASE NoCallback(t)
    <3>1. fn[t] \notin Reporting
      BY <2>3, <2>4, <2>6 DEF NoCallback, MayNotRun, RunsCallback, Reporting,
         HookIs
    <3>2. Place(t) = "in" /\ Place(t)' = "done"
      BY <2>1, <2>2, <2>6 DEF NoCallback, InCallback, GoTo
    <3> HIDE DEF Place
    <3> QED
      BY <2>1, <3>1, <3>2, ContractGoes
  <2> QED
    BY <1>8, <2>5, <2>6
<1>9. CASE CallbackEnds(t)
  <2>1. Quiet(t) /\ fn' = fn
    BY <1>9, QuietStep DEF CallbackEnds, monVars, Hooks!Release
  <2>2. Place(t) = "callback" /\ Place(t)' \in {"done", "lost"}
    BY <1>9 DEF CallbackEnds, InCallback, GoTo, gateVars
  <2> HIDE DEF Place
  <2> QED
    BY <2>1, <2>2, ContractGoes
<1> QED
  BY <1>1, <1>2, <1>3, <1>4, <1>5, <1>6, <1>7, <1>8, <1>9 DEF Program, Library

-----------------------------------------------------------------------------
(* The statements of uninitialize() are counted.                            *)
LEMMA FnSeqFacts ==
  /\ Len(FnSeq) \in Nat
  /\ \A i \in 1 .. Len(FnSeq) : FnSeq[i] \in MemFn
  /\ UninitLen = 2 * Len(FnSeq) + 3
BY FnAssumption DEF UninitLen

(* A registration that is done is in effect.                                *)
Installed(t) ==
  at[t] \in {"destroy", "finish"} => HookIs(request[t][1], request[t][2])

(* The registration under way is the one the statement asks for.            *)
UninitRequest(t) ==
  uninit[t] # 0 /\ at[t] # "idle" =>
    \E i \in 1 .. Len(FnSeq) : uninit[t] = 2 + i /\ request[t] = <<FnSeq[i], Null>>

(* Behind each statement of uninitialize(), what it resets stays reset.     *)
Cleared(t) ==
  /\ uninit[t] > 1 => ~tlsSet[t]
  /\ uninit[t] > 2 => ~enabled
  /\ \A i \in 1 .. Len(FnSeq) :
       /\ uninit[t] > 2 + i => HookIs(FnSeq[i], Null)
       /\ uninit[t] > 2 + Len(FnSeq) + i => ~unexpected[FnSeq[i]]

(* uninitialize() is doing what it says, statement by statement.            *)
UninitInv(t) == Installed(t) /\ UninitRequest(t) /\ Cleared(t)

(* A registration changes no hook but the one it is of, to what it asks for. *)
LEMMA HookStays ==
  ASSUME Hooks!HooksInv, NEW t \in Thread, NEW f \in MemFn, NEW v \in Hooks!Value,
         HookIs(f, v),
         at[t] = "exchange" => request[t][1] # f \/ request[t][2] = v,
         \/ Hooks!Construct(t) \/ Hooks!ConstructThrows(t)
         \/ Hooks!Destroy(t)   \/ Hooks!Exchange(t)
  PROVE  HookIs(f, v)'
<1> DEFINE o == cell[f]
<1>1. /\ cell \in [MemFn -> Obj \union {NoObj}]
      /\ content \in [Obj -> Hooks!Value \union {Dead}]
      /\ held \in [Thread -> Obj \union {NoObj}]
  BY DEF Hooks!HooksInv, Hooks!TypeOK
<1>2. o \in Obj /\ content[o] = v /\ v # Dead /\ NoObj \notin Obj /\ o # NoObj
  BY <1>1, DistinctAssumption DEF HookIs, Hooks!Value, Callback
<1>3. held[t] # o
  BY <1>1, <1>2 DEF Hooks!HooksInv, Hooks!Ownership, Hooks!InCell, Hooks!InHand
<1>4. at[t] = "exchange" => held[t] # NoObj /\ content[held[t]] = request[t][2]
  BY DEF Hooks!HooksInv, Hooks!Registering
<1>5. CASE Hooks!Construct(t) \/ Hooks!ConstructThrows(t)
  BY <1>1, <1>2, <1>5 DEF Hooks!Construct, Hooks!ConstructThrows, HookIs
<1>6. CASE Hooks!Destroy(t)
  BY <1>1, <1>2, <1>3, <1>6 DEF Hooks!Destroy, HookIs
<1>7. CASE Hooks!Exchange(t)
  BY <1>1, <1>2, <1>4, <1>7 DEF Hooks!Exchange, HookIs
<1> QED
  BY <1>5, <1>6, <1>7

(* The exchange puts the request in the cell; nobody else's is in the way.  *)
LEMMA InstalledStep ==
  ASSUME ToolsInv, NEW t \in Thread, Installed(t),
         Program(t) \/ Library(t) \/ CallbackEnds(t)
  PROVE  Installed(t)'
<1> USE DEF Installed, HookIs
<1>0. Hooks!HooksInv
  BY DEF ToolsInv
<1>1. CASE OnAllocates(t) \/ OnExchanges(t) \/ EndsOn(t)
  BY <1>0, <1>1 DEF OnAllocates, OnExchanges, EndsOn, Hooks!Construct,
     Hooks!ConstructThrows, Hooks!Destroy, Hooks!Exchange, Hooks!EndOn,
     Hooks!HooksInv, Hooks!TypeOK, Hooks!Ownership, Hooks!Registering,
     Hooks!InCell, Hooks!InHand
<1>2. CASE Registers(t) \/ HelperRegisters(t) \/ UninitUnregisters(t)
  BY <1>0, <1>2 DEF Registers, HelperRegisters, UninitUnregisters, Hooks!BeginOn, Hooks!HooksInv,
     Hooks!TypeOK
<1>3. CASE UNCHANGED <<at, request, cell, content>>
  BY <1>3
<1> QED
  BY <1>1, <1>2, <1>3 DEF Program, Library, ProgramCalls, Switches, SwitchesBy, Expects,
     BeginsUninitialize, BeginsHelper, UninitSwitches,
     UninitExpects, OnCalls, HelperCalls, HelperEnds, Enters, PassesGate, Returns, Check, CheckEnabled,
     BeginCustomSection, LoadCallback, InvokeCallback, NoCallback,
     EndCustomSection, LeaveCustom, CallbackEnds, hookVars,
     Hooks!Load, Hooks!Release

(* uninitialize() begins no registration but on_f(nullptr) of its statement. *)
LEMMA UninitRequestStep ==
  ASSUME ToolsInv, NEW t \in Thread, UninitRequest(t),
         Program(t) \/ Library(t) \/ CallbackEnds(t)
  PROVE  UninitRequest(t)'
<1> USE DEF UninitRequest
<1>0. Hooks!TypeOK /\ uninit \in [Thread -> 0 .. UninitLen]
  BY DEF ToolsInv, TypeOK
<1>1. CASE UninitUnregisters(t)
  BY <1>0, <1>1 DEF UninitUnregisters, Statement, Hooks!BeginOn, Hooks!TypeOK,
     toolVars
<1>2. CASE EndsOn(t) \/ HelperRegisters(t)
  BY <1>0, <1>2 DEF EndsOn, HelperRegisters, HelperRuns, Hooks!EndOn,
     Hooks!TypeOK
<1>3. CASE Program(t)
  <2>1. uninit[t] = 0
    BY <1>3 DEF Program, ProgramCalls, Switches, SwitchesBy, MayCall, Expects,
     Registers, BeginsUninitialize, BeginsHelper, ProgramRuns
  <2>2. CASE BeginsUninitialize(t)
    BY <1>0, <2>2 DEF BeginsUninitialize, hookVars
  <2>3. CASE UNCHANGED uninit
    BY <2>1, <2>3
  <2> QED
    BY <1>3, <2>2, <2>3 DEF Program, ProgramCalls, Switches, SwitchesBy,
       Expects, Registers, BeginsHelper, toolVars
<1>4. CASE UninitSwitches(t) \/ UninitExpects(t)
  BY <1>4 DEF UninitSwitches, UninitExpects, Statement, UninitRuns, hookVars
<1>5. CASE /\ uninit' = uninit /\ request' = request
           /\ at[t] = "idle" => at'[t] = "idle"
  BY <1>5
<1> QED
  BY <1>1, <1>2, <1>3, <1>4, <1>5 DEF Library, OnCalls, HelperCalls, HelperEnds,
     OnAllocates, OnRuns, OnExchanges, Enters, PassesGate, Returns,
     Check, CheckEnabled, BeginCustomSection, LoadCallback,
     InvokeCallback, NoCallback, EndCustomSection, LeaveCustom,
     CallbackEnds, hookVars, toolVars, Hooks!Load, Hooks!Release,
     Hooks!Construct, Hooks!ConstructThrows, Hooks!Destroy,
     Hooks!Exchange

(* No statement is gone behind but by doing what it does.                   *)
LEMMA ClearedStep ==
  ASSUME ToolsInv, NEW t \in Thread, UninitInv(t),
         Program(t) \/ Library(t) \/ CallbackEnds(t)
  PROVE  Cleared(t)'
<1> USE FnSeqFacts DEF Cleared, UninitInv
<1>0. /\ Hooks!HooksInv /\ uninit \in [Thread -> 0 .. UninitLen]
      /\ unexpected \in [MemFn -> BOOLEAN] /\ tlsSet \in [Thread -> BOOLEAN]
  BY DEF ToolsInv, TypeOK, Mon!TypeOK
<1>1. CASE Program(t)
  <2>1. uninit[t] = 0
    BY <1>1 DEF Program, ProgramCalls, Switches, SwitchesBy, MayCall, Expects,
     Registers, BeginsUninitialize, BeginsHelper, ProgramRuns
  <2>2. uninit'[t] \in {0, 1}
    BY <1>0, <1>1, <2>1 DEF Program, ProgramCalls, Switches, SwitchesBy, Expects, Registers,
     BeginsUninitialize, BeginsHelper, toolVars
  <2> QED
    BY <2>2
<1>2. CASE UninitSwitches(t)
  <2>1. UNCHANGED <<cell, content, unexpected>>
    BY <1>2 DEF UninitSwitches, hookVars
  <2>2. CASE Statement(t, 1) /\ Mon!UnsetMonitoring(t)
    BY <1>0, <1>2, <2>2 DEF UninitSwitches, Statement, NextStatement,
       Mon!UnsetMonitoring, Mon!SetThread
  <2>3. CASE Statement(t, 2) /\ Mon!DisableInAllThreads
    BY <1>0, <1>2, <2>3 DEF UninitSwitches, Statement, NextStatement,
       Mon!DisableInAllThreads, Mon!SetAll
  <2>4. CASE Statement(t, UninitLen)
    <3>1. uninit'[t] = 0
      BY <1>0, <1>2, <2>4 DEF UninitSwitches, Statement, NextStatement
    <3> QED
      BY <3>1
  <2> QED
    BY <1>2, <2>2, <2>3, <2>4 DEF UninitSwitches
<1>3. CASE UninitExpects(t)
  <2>1. UNCHANGED <<cell, content, tlsSet, enabled>>
    BY <1>3 DEF UninitExpects, hookVars, monVars
  <2>2. PICK j \in 1 .. Len(FnSeq) :
          /\ uninit[t] = 2 + Len(FnSeq) + j
          /\ unexpected' = [unexpected EXCEPT ![FnSeq[j]] = FALSE]
    BY <1>3 DEF UninitExpects, Statement, ExpectNo
  <2>3. uninit'[t] = 3 + Len(FnSeq) + j
    BY <1>0, <1>3, <2>2 DEF UninitExpects, NextStatement
  <2>4. \A i \in 1 .. Len(FnSeq) : HookIs(FnSeq[i], Null)'
    BY <2>1, <2>2 DEF HookIs
  <2>5. \A i \in 1 .. Len(FnSeq) :
          uninit'[t] > 2 + Len(FnSeq) + i => ~unexpected'[FnSeq[i]]
    BY <1>0, <2>2, <2>3
  <2> QED
    BY <2>1, <2>2, <2>3, <2>4, <2>5
<1>4. CASE EndsOn(t)
  <2>1. UNCHANGED <<cell, content, tlsSet, enabled, unexpected>>
    BY <1>4 DEF EndsOn, Hooks!EndOn, Mon!EndSection
  <2>2. CASE uninit'[t] = 0 \/ uninit' = uninit
    BY <2>1, <2>2 DEF HookIs
  <2>3. CASE uninit[t] # 0 /\ at[t] = "finish" /\ NextStatement(t)
    <3>1. PICK i \in 1 .. Len(FnSeq) : uninit[t] = 2 + i /\ HookIs(FnSeq[i], Null)
      BY <2>3 DEF UninitRequest, Installed
    <3>2. uninit'[t] = 3 + i
      BY <1>0, <2>3, <3>1 DEF NextStatement
    <3> QED
      BY <2>1, <3>1, <3>2 DEF HookIs
  <2> QED
    BY <1>0, <1>4, <2>2, <2>3 DEF EndsOn
<1>5. CASE OnAllocates(t) \/ OnExchanges(t)
  <2>1. UNCHANGED <<tlsSet, enabled, unexpected, uninit>>
    BY <1>5 DEF OnAllocates, OnExchanges, monVars, toolVars
  <2>2. CASE uninit[t] = 0
    BY <2>1, <2>2
  <2>3. CASE uninit[t] # 0
    <3>1. PICK j \in 1 .. Len(FnSeq) :
            uninit[t] = 2 + j /\ request[t] = <<FnSeq[j], Null>>
      BY <1>5, <2>3 DEF UninitRequest, OnAllocates, OnExchanges, OnRuns
    <3>2. ASSUME NEW i \in 1 .. Len(FnSeq), HookIs(FnSeq[i], Null)
          PROVE  HookIs(FnSeq[i], Null)'
      <4>1. request[t][1] # FnSeq[i] \/ request[t][2] = Null
        BY <3>1
      <4>2. Null \in Hooks!Value
        BY DEF Hooks!Value
      <4>3. FnSeq[i] \in MemFn
        OBVIOUS
      <4> QED
        BY <1>0, <1>5, <3>2, <4>1, <4>2, <4>3, HookStays DEF OnAllocates,
           OnExchanges
    <3> QED
      BY <2>1, <3>1, <3>2
  <2> QED
    BY <2>2, <2>3
<1>6. CASE UNCHANGED <<tlsSet, enabled, cell, content, unexpected, uninit>>
  BY <1>6 DEF HookIs
<1> QED
  BY <1>1, <1>2, <1>3, <1>4, <1>5, <1>6 DEF Library, UninitUnregisters, OnCalls, HelperCalls, HelperRegisters,
     HelperEnds, Enters, PassesGate, Returns, Check, CheckEnabled,
     BeginCustomSection, LoadCallback, InvokeCallback, NoCallback,
     EndCustomSection, LeaveCustom, CallbackEnds, hookVars,
     monVars, toolVars, Hooks!Load, Hooks!Release, Hooks!BeginOn,
     Mon!BeginSection, Mon!EndSection

(* What uninitialize() promises, from what it has done.                     *)
LEMMA LastStatement ==
  ASSUME ToolsInv, NEW t \in Thread, UninitInv(t),
         Program(t) \/ Library(t) \/ CallbackEnds(t),
         uninit[t] = UninitLen, uninit'[t] = 0
  PROVE  /\ t \notin Monitored'
         /\ \A f \in MemFn : ~unexpected'[f] /\ content'[cell'[f]] = Null
<1> USE FnSeqFacts
<1>0. uninit \in [Thread -> 0 .. UninitLen] /\ UninitLen > 2
  BY DEF ToolsInv, TypeOK
<1>1. UninitSwitches(t) /\ Statement(t, UninitLen) /\ Mon!EndUninitialize
  <2>1. ~Program(t)
    <3>1. uninit[t] # 0
      BY <1>0
    <3> QED
      BY <3>1 DEF Program, ProgramCalls, Switches, SwitchesBy, MayCall, Expects,
     Registers, BeginsUninitialize, BeginsHelper, ProgramRuns
  <2>2. ~UninitExpects(t)
    <3>1. ASSUME NEW i \in 1 .. Len(FnSeq) PROVE UninitLen # 2 + Len(FnSeq) + i
      BY <3>1
    <3> QED
      BY <3>1 DEF UninitExpects, Statement
  <2>3. ~EndsOn(t)
    BY <1>0 DEF EndsOn, OnRuns, UninitInv, UninitRequest
  <2>4. UninitSwitches(t)
    BY <1>0, <2>1, <2>2, <2>3 DEF Library, UninitUnregisters, OnCalls, HelperCalls, HelperRegisters,
     HelperEnds, OnAllocates, OnExchanges, Enters, PassesGate,
     Returns, Check, CheckEnabled, BeginCustomSection,
     LoadCallback, InvokeCallback, NoCallback, EndCustomSection,
     LeaveCustom, CallbackEnds, toolVars
  <2> QED
    BY <1>0, <2>4 DEF UninitSwitches, Statement
<1>2. ~tlsSet[t] /\ ~enabled
  BY <1>0 DEF UninitInv, Cleared
<1>3. t \notin Monitored'
  BY <1>1, <1>2 DEF Mon!EndUninitialize, Monitored
<1>4. ASSUME NEW f \in MemFn PROVE ~unexpected'[f] /\ content'[cell'[f]] = Null
  <2>1. PICK i \in 1 .. Len(FnSeq) : FnSeq[i] = f
    BY FnAssumption
  <2>2. ~unexpected[f] /\ HookIs(f, Null)
    BY <1>0, <2>1 DEF UninitInv, Cleared
  <2> QED
    BY <1>1, <2>2 DEF UninitSwitches, hookVars, HookIs
<1> QED
  BY <1>3, <1>4

(* The invariant of a program of one thread.                                *)
AloneInv == ToolsInv /\ ready /\ \A t \in Thread : Alone(t) /\ UninitInv(t)

(* The program has one thread.  With two, the theorems below are false: the *)
(* runs tools_missed and tools_own show it.                                 *)
OneThread == \A t, u \in Thread : t = u

(* It holds when main() starts ...                                          *)
LEMMA InitAloneInv == Init => AloneInv
<1> SUFFICES ASSUME Init PROVE AloneInv
  OBVIOUS
<1>1. ToolsInv /\ ready
  BY InitToolsInv DEF Init
<1>2. \A t \in Thread : Alone(t)
  BY InitAlone
<1>3. \A t \in Thread : UninitInv(t)
  <2> SUFFICES ASSUME NEW t \in Thread PROVE UninitInv(t)
    OBVIOUS
  <2>1. at[t] = "idle" /\ uninit[t] = 0
    BY DEF Init, Hooks!Init
  <2>2. Installed(t) /\ UninitRequest(t)
    BY <2>1 DEF Installed, UninitRequest
  <2>3. Cleared(t)
    <3>1. \A i \in 1 .. Len(FnSeq) : ~(0 > 2 + i) /\ ~(0 > 2 + Len(FnSeq) + i)
      BY FnSeqFacts
    <3> QED
      BY <2>1, <3>1 DEF Cleared
  <2> QED
    BY <2>2, <2>3 DEF UninitInv
<1> QED
  BY <1>1, <1>2, <1>3 DEF AloneInv

(* ... and is preserved by each step, which the contract allows.            *)
LEMMA StepAloneInv ==
  ASSUME OneThread, AloneInv, [Next]_vars
  PROVE  AloneInv' /\ [Contract!Next]_(Contract!contractVars)
<1> USE DEF AloneInv
<1>1. ToolsInv'
  BY StepToolsInv
<1>2. ASSUME NEW t \in Thread, Program(t) \/ Library(t) \/ CallbackEnds(t)
      PROVE  AloneInv' /\ [Contract!Next]_(Contract!contractVars)
  <2>1. Thread = {t}
    BY DEF OneThread
  <2>2. ready'
    BY <1>2, StaysReady
  <2>3. Alone(t)'
    BY <1>2, <2>1, AloneStep
  <2>4. UninitInv(t)'
    BY <1>2, InstalledStep, UninitRequestStep, ClearedStep DEF UninitInv
  <2>5. Contract!Next \/ UNCHANGED Contract!contractVars
    BY <1>1, <1>2, <2>1, <2>3, OneThreadRefines
  <2> QED
    BY <1>1, <2>1, <2>2, <2>3, <2>4, <2>5
<1>3. CASE UNCHANGED vars
  BY <1>1, <1>3 DEF vars, gateVars, hookVars, monVars, toolVars, Alone, Placed, Undisturbed,
     Monitored, UninitInv, Installed, UninitRequest, Cleared, HookIs,
     Contract!contractVars, Place, InCallback, Reporting
<1> QED
  BY <1>2, <1>3 DEF Next

(* main() starts where the contract does.                                   *)
LEMMA InitContract == Init => Contract!Init
BY DEF Init, Mon!Init, Hooks!Init, Contract!Init, Place, Monitored, Reporting,
   HookIs

(* Every call of a program of one thread is reported exactly when the       *)
(* switches, expectations and hooks in effect say so: with whatever it and  *)
(* its callbacks do, register, throw or uninitialize included               *)
(* (testing_helpers.hpp:37).                                                *)
THEOREM OneThreadReported == OneThread => (Spec => ReportsAsPromised)
<1> SUFFICES ASSUME OneThread PROVE Spec => ReportsAsPromised
  OBVIOUS
<1>1. AloneInv /\ [Next]_vars =>
        AloneInv' /\ [Contract!Next]_(Contract!contractVars)
  BY StepAloneInv
<1> QED
  BY <1>1, InitAloneInv, InitContract, PTL DEF Spec, ReportsAsPromised,
     Contract!Spec

(* Its calls of on_f never report the new and the delete that on_f makes    *)
(* (register_hooks.cpp:32); what on_unexpected_f allocates around on_f is   *)
(* reported, which MCToolsHelper.cfg shows.                                 *)
THEOREM OneThreadUnreported == OneThread => (Spec => []OwnAllocationsUnreported)
<1> SUFFICES ASSUME OneThread PROVE Spec => []OwnAllocationsUnreported
  OBVIOUS
<1>1. AloneInv /\ [Next]_vars => AloneInv'
  BY StepAloneInv
<1>2. AloneInv => OwnAllocationsUnreported
  BY DEF AloneInv, Alone, Undisturbed, OwnAllocationsUnreported, ToolsInv, TypeOK
<1> QED
  BY <1>1, <1>2, InitAloneInv, PTL DEF Spec

(* When its uninitialize() returns and it had called initialize(), nothing  *)
(* is left of what it set up (initialize.hpp:67).                                                     *)
THEOREM OneThreadResets == OneThread => (Spec => UninitializeResets)
<1> SUFFICES ASSUME OneThread PROVE Spec => UninitializeResets
  OBVIOUS
<1>1. AloneInv /\ [Next]_vars => AloneInv'
  BY StepAloneInv
<1>2. AloneInv /\ [Next]_vars =>
        [\A t \in Thread :
           UninitReturns(t) /\ initialized =>
             /\ t \notin Monitored'
             /\ \A f \in MemFn : ~unexpected'[f] /\ content'[cell'[f]] = Null]_vars
  <2> SUFFICES ASSUME AloneInv, Next, NEW t \in Thread,
                      UninitReturns(t)
               PROVE  /\ t \notin Monitored'
                      /\ \A f \in MemFn : ~unexpected'[f] /\ content'[cell'[f]] = Null
    OBVIOUS
  <2>1. Program(t) \/ Library(t) \/ CallbackEnds(t)
    BY DEF OneThread, Next
  <2> QED
    BY <2>1, LastStatement DEF AloneInv, UninitReturns
<1> QED
  BY <1>1, <1>2, InitAloneInv, PTL DEF Spec, UninitializeResets
=============================================================================
