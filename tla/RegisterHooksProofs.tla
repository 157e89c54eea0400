------------------------ MODULE RegisterHooksProofs ------------------------
(* For any number of threads, memory functions and addresses: registration  *)
(* neither leaks nor deletes twice, and implements the atomic cells.        *)
EXTENDS RegisterHooks, TLAPS

USE NoObjAssumption, DeadAssumption, NoRequestAssumption

(* A fresh process satisfies the invariant.                                 *)
LEMMA InitHooksInv == Init => HooksInv
<1> SUFFICES ASSUME Init PROVE HooksInv
  OBVIOUS
<1>1. TypeOK
  BY DEF Init, TypeOK, OnPlace, Value
<1>2. Ownership
  BY DEF Init, Ownership, InCell, InHand
<1>3. Registering
  BY DEF Init, Registering
<1> QED
  BY <1>1, <1>2, <1>3 DEF HooksInv

(* Every step of every thread preserves the invariant.                      *)
LEMMA StepHooksInv == HooksInv /\ [Next]_hookVars => HooksInv'
<1> SUFFICES ASSUME HooksInv, [Next]_hookVars
             PROVE  HooksInv'
  OBVIOUS
<1> USE DEF HooksInv, TypeOK, Ownership, Registering, InCell, InHand, OnPlace
<1>1. ASSUME NEW t \in Thread, NEW f \in MemFn, NEW v \in Value, BeginOn(t, f, v)
      PROVE  HooksInv'
  <2>1. <<f, v>> \in MemFn \X Value
    OBVIOUS
  <2> QED
    BY <1>1, <2>1 DEF BeginOn
<1>2. ASSUME NEW t \in Thread, Construct(t)
      PROVE  HooksInv'
  <2>1. request[t] \in MemFn \X Value /\ request[t][2] \in Value
    BY <1>2 DEF Construct
  <2>2. PICK o \in Obj : /\ content[o] = Dead
                         /\ content' = [content EXCEPT ![o] = request[t][2]]
                         /\ held' = [held EXCEPT ![t] = o]
    BY <1>2 DEF Construct
  <2>3. held[t] = NoObj
    BY <1>2 DEF Construct
  <2>4. TypeOK'
    BY <1>2, <2>1, <2>2 DEF Construct
  <2>5. Ownership'
    BY <1>2, <2>1, <2>2, <2>3 DEF Construct
  <2>6. Registering'
    BY <1>2, <2>1, <2>2, <2>3 DEF Construct
  <2> QED
    BY <2>4, <2>5, <2>6
<1>3. ASSUME NEW t \in Thread, ConstructThrows(t)
      PROVE  HooksInv'
  BY <1>3 DEF ConstructThrows
<1>4. ASSUME NEW t \in Thread, Exchange(t)
      PROVE  HooksInv'
  <2>1. request[t][1] \in MemFn
    BY <1>4 DEF Exchange
  <2>2. TypeOK'
    BY <1>4, <2>1 DEF Exchange
  <2>3. Ownership'
    BY <1>4, <2>1 DEF Exchange
  <2>4. Registering'
    BY <1>4, <2>1 DEF Exchange
  <2> QED
    BY <2>2, <2>3, <2>4
<1>5. ASSUME NEW t \in Thread, Destroy(t)
      PROVE  HooksInv'
  <2>1. held[t] \in Obj
    BY <1>5 DEF Destroy
  <2>2. TypeOK'
    BY <1>5, <2>1 DEF Destroy
  <2>3. Ownership'
    BY <1>5, <2>1 DEF Destroy
  <2>4. Registering'
    BY <1>5, <2>1 DEF Destroy
  <2> QED
    BY <2>2, <2>3, <2>4
<1>6. ASSUME NEW t \in Thread, EndOn(t)
      PROVE  HooksInv'
  BY <1>6 DEF EndOn
<1>7. ASSUME NEW t \in Thread, NEW f \in MemFn, Load(t, f)
      PROVE  HooksInv'
  BY <1>7 DEF Load
<1>8. ASSUME NEW t \in Thread, Release(t)
      PROVE  HooksInv'
  BY <1>8 DEF Release
<1>9. CASE UNCHANGED hookVars
  BY <1>9 DEF hookVars
<1> QED
  BY <1>1, <1>2, <1>3, <1>4, <1>5, <1>6, <1>7, <1>8, <1>9 DEF Next, Step

(* Type correctness, and the bookkeeping of every registration in progress. *)
THEOREM HooksInvariant == Spec => []HooksInv
BY InitHooksInv, StepHooksInv, PTL DEF Spec

(* No registered callback is ever leaked or deleted twice                   *)
(* (register_hooks.cpp:35-38).                                              *)
THEOREM NoLeakNoDoubleDelete == Spec => []Ownership
<1>1. HooksInv => Ownership
  BY DEF HooksInv
<1> QED
  BY <1>1, HooksInvariant, PTL

(* The fresh cells are the abstract ones.                                   *)
LEMMA InitCells == Init => Cells!Init
BY DEF Init, Cells!Init, Current, Outcome

(* Each step is a step of the abstract cells or leaves them alone: only the *)
(* exchange changes a hook, and a deleted variant was in no cell.           *)
LEMMA StepCells ==
  HooksInv /\ HooksInv' /\ [Next]_hookVars => [Cells!Next]_(Cells!cellVars)
<1> SUFFICES ASSUME HooksInv, HooksInv', [Next]_hookVars
             PROVE  [Cells!Next]_(Cells!cellVars)
  OBVIOUS
<1> USE DEF HooksInv, TypeOK, Ownership, Registering, InCell, InHand, OnPlace,
            Cells!cellVars, Current, Outcome
<1>1. ASSUME NEW t \in Thread, NEW f \in MemFn, NEW v \in Value, BeginOn(t, f, v)
      PROVE  Cells!Begin(t)
  <2>1. request[t] = NoRequest
    BY <1>1 DEF BeginOn
  <2>2. Current' = Current
    BY <1>1 DEF BeginOn
  <2>3. Outcome' = Outcome
    BY <1>1 DEF BeginOn
  <2>4. request' = [request EXCEPT ![t] = <<f, v>>]
    BY <1>1 DEF BeginOn
  <2> HIDE DEF Current, Outcome
  <2> QED
    BY <2>1, <2>2, <2>3, <2>4 DEF Cells!Begin
<1>2. ASSUME NEW t \in Thread, Construct(t)
      PROVE  UNCHANGED Cells!cellVars
  <2>1. \A f \in MemFn : cell[f] # NoObj => cell[f] \in Obj /\ content[cell[f]] # Dead
    OBVIOUS
  <2>2. PICK o \in Obj : /\ content[o] = Dead
                         /\ content' = [content EXCEPT ![o] = request[t][2]]
    BY <1>2 DEF Construct
  <2>3. \A f \in MemFn : cell[f] # NoObj => content'[cell[f]] = content[cell[f]]
    BY <2>1, <2>2
  <2>4. cell' = cell
    BY <1>2 DEF Construct
  <2>5. Current' = Current
    BY <2>3, <2>4
  <2>6. Outcome' = Outcome /\ request' = request
    BY <1>2 DEF Construct
  <2> QED
    BY <2>5, <2>6
<1>3. ASSUME NEW t \in Thread, ConstructThrows(t)
      PROVE  Cells!Abandon(t)
  <2>1. Outcome' = [Outcome EXCEPT ![t] = "failed"]
    BY <1>3 DEF ConstructThrows
  <2>2. Current' = Current
    BY <1>3 DEF ConstructThrows
  <2>3. request[t] # NoRequest /\ Outcome[t] = "pending"
    BY <1>3 DEF ConstructThrows
  <2>4. request' = request
    BY <1>3 DEF ConstructThrows
  <2> HIDE DEF Outcome, Current
  <2> QED
    BY <2>1, <2>2, <2>3, <2>4 DEF Cells!Abandon
<1>4. ASSUME NEW t \in Thread, Exchange(t)
      PROVE  Cells!Commit(t)
  <2> DEFINE f == request[t][1]
  <2>1. f \in MemFn /\ held[t] \in Obj /\ content[held[t]] = request[t][2]
    BY <1>4 DEF Exchange
  <2>2. Current' = [Current EXCEPT ![f] = request[t][2]]
    BY <1>4, <2>1 DEF Exchange
  <2>3. Outcome' = [Outcome EXCEPT ![t] = "done"] /\ Outcome[t] = "pending"
    <3>1. PICK place \in {"finish", "destroy"} : at' = [at EXCEPT ![t] = place]
      BY <1>4 DEF Exchange
    <3>2. at[t] = "exchange" /\ at \in [Thread -> OnPlace]
      BY <1>4 DEF Exchange
    <3> HIDE DEF HooksInv, TypeOK, Ownership, Registering, OnPlace
    <3>3. CASE place = "finish"
      BY <3>1, <3>2, <3>3
    <3>4. CASE place = "destroy"
      BY <3>1, <3>2, <3>4
    <3> QED
      BY <3>3, <3>4
  <2>4. request[t] # NoRequest /\ request' = request
    BY <1>4 DEF Exchange
  <2> QED
    BY <2>2, <2>3, <2>4 DEF Cells!Commit
<1>5. ASSUME NEW t \in Thread, Destroy(t)
      PROVE  UNCHANGED Cells!cellVars
  <2>1. \A f \in MemFn : cell[f] # held[t]
    BY <1>5 DEF Destroy
  <2>2. Current' = Current
    BY <1>5, <2>1 DEF Destroy
  <2>3. Outcome' = Outcome /\ request' = request
    BY <1>5 DEF Destroy
  <2> QED
    BY <2>2, <2>3
<1>6. ASSUME NEW t \in Thread, EndOn(t)
      PROVE  Cells!Return(t)
  <2>1. Outcome' = [Outcome EXCEPT ![t] = "pending"]
    BY <1>6 DEF EndOn
  <2>2. Current' = Current
    BY <1>6 DEF EndOn
  <2>3. request[t] # NoRequest /\ Outcome[t] # "pending"
    BY <1>6 DEF EndOn
  <2>4. request' = [request EXCEPT ![t] = NoRequest]
    BY <1>6 DEF EndOn
  <2> HIDE DEF Outcome, Current
  <2> QED
    BY <2>1, <2>2, <2>3, <2>4 DEF Cells!Return
<1>7. ASSUME NEW t \in Thread, NEW f \in MemFn, Load(t, f)
      PROVE  UNCHANGED Cells!cellVars
  BY <1>7 DEF Load
<1>8. ASSUME NEW t \in Thread, Release(t)
      PROVE  UNCHANGED Cells!cellVars
  BY <1>8 DEF Release
<1>9. CASE UNCHANGED hookVars
  BY <1>9 DEF hookVars
<1> QED
  BY <1>1, <1>2, <1>3, <1>4, <1>5, <1>6, <1>7, <1>8, <1>9
  DEF Next, Step, Cells!Next

(* Registering a hook replaces the current one atomically or not at all.    *)
THEOREM ImplementsCells == Spec => AtomicCells
BY InitCells, StepCells, HooksInvariant, PTL DEF Spec, AtomicCells, Cells!Spec
=============================================================================
