------------------------- MODULE PackageTestsProofs -------------------------
(* For any tests, environments, exit codes and signals: what the runner     *)
(* reports is what the command did.  For any list of versions and any       *)
(* bounds: the newest that is valid is what a package gets.                 *)
EXTENDS PackageTests, TLAPS

Before == {"none", "usage", "parse", "set", "append", "fork"}
Ended  == {"exited", "killed", "failed"}

Passed == [is |-> "exited", code |-> 0]

(* There is a child only once there was a fork, and none is left behind:    *)
(* the runner is there for as long as the child runs.  With what the runner *)
(* reports, this is inductive.                                              *)
Followed ==
  /\ pc \in Before \union {"wait", "exited"}
  /\ child \in ChildState
  /\ pc \in Before => child.is = "none"
  /\ pc = "wait" => child.is # "none"
  /\ child.is \in {"forked", "running"} => pc = "wait"

RunnerInv == Followed /\ PassesIffCommandDoes

LEMMA InitRunnerInv == Init => RunnerInv
BY DEF Init, RunnerInv, Followed, PassesIffCommandDoes, Before, ChildState

(* No signal's negated number is zero in eight bits.                        *)
LEMMA SignalShows == ASSUME NEW s \in 1 .. 64 PROVE (0 - s) % 256 # 0
OBVIOUS

(* What happens before the fork, and an exit with an error there.           *)
LEMMA StepBefore ==
  ASSUME RunnerInv, pc \in Before, UNCHANGED child,
         \/ pc' \in Before
         \/ pc' = "exited" /\ status' \in {1, Aborted}
  PROVE  RunnerInv'
BY DEF RunnerInv, Followed, PassesIffCommandDoes, Before, Aborted, ChildState

(* The child goes on, and the runner waits for it.                          *)
LEMMA StepChild ==
  ASSUME RunnerInv, child.is # "none", pc = "wait", UNCHANGED pc,
         child' \in ChildState, child'.is # "none"
  PROVE  RunnerInv'
BY DEF RunnerInv, Followed, PassesIffCommandDoes, Before

(* RunnerInv is inductive.                                                  *)
LEMMA StepRunnerInv == RunnerInv /\ [Next]_vars => RunnerInv'
<1> SUFFICES ASSUME RunnerInv, [Next]_vars PROVE RunnerInv'
  OBVIOUS
<1> USE DEF Exit, Jump
<1>0. CASE Starts
  BY <1>0, StepBefore DEF Starts, Before
<1>1. CASE CheckUsage
  BY <1>1, StepBefore DEF CheckUsage, Before
<1>2. CASE TakeCommand
  BY <1>2, StepBefore DEF TakeCommand, Reads, Before
<1>3. CASE ChangeMode
  BY <1>3, StepBefore DEF ChangeMode, Reads, Before
<1>4. CASE TakePair
  BY <1>4, StepBefore DEF TakePair, Reads, Before
<1>5. CASE Refuse
  BY <1>5, StepBefore DEF Refuse, Reads, Before
<1>6. CASE EndOfArguments
  BY <1>6, StepBefore DEF EndOfArguments, Before
<1>7. CASE SetVariable
  BY <1>7, StepBefore DEF SetVariable, Before
<1>8. CASE AllSet
  BY <1>8, StepBefore DEF AllSet, Before
<1>9. CASE AppendVariable
  BY <1>9, StepBefore DEF AppendVariable, Before
<1>10. CASE AllAppended
  BY <1>10, StepBefore DEF AllAppended, Before
<1>11. CASE SetenvFails
  BY <1>11, StepBefore DEF SetenvFails, Before
<1>12. CASE Fork
  BY <1>12 DEF Fork, Becomes, ChildState, RunnerInv, Followed, Before,
     PassesIffCommandDoes
<1>13. CASE Throws
  BY <1>13 DEF Throws, RunnerInv, Followed, Before, PassesIffCommandDoes
<1>14. CASE Exec
  <2>1. child'.is # "none" /\ child' \in ChildState
    BY <1>14 DEF Exec, Becomes, ChildState
  <2> QED
    BY <1>14, <2>1, StepChild DEF Exec, RunnerInv, Followed
<1>15. CASE CommandEnds
  <2>1. child'.is # "none" /\ child' \in ChildState
    BY <1>15, CodesAssumption, SignalsAssumption DEF CommandEnds, Becomes,
       ChildState
  <2> QED
    BY <1>15, <2>1, StepChild DEF CommandEnds, RunnerInv, Followed
<1>16. CASE Wait
  <2>1. pc' = "exited" /\ UNCHANGED child /\ child.is \in Ended
    BY <1>16 DEF Wait, Ended
  <2>2. Followed'
    BY <2>1 DEF RunnerInv, Followed, Before, Ended
  <2>3. CASE child.is = "exited"
    <3>1. child \in [is : {"exited"}, code : Codes]
      BY <2>3 DEF RunnerInv, Followed, ChildState
    <3>2. child = Passed <=> child.code = 0
      BY <3>1 DEF Passed
    <3>3. status' = child.code
      BY <1>16, <2>3 DEF Wait
    <3> QED
      BY <2>1, <2>2, <3>2, <3>3 DEF PassesIffCommandDoes, Passed, RunnerInv
  <2>4. CASE child.is = "failed"
    <3>1. child # Passed
      BY <2>4 DEF Passed
    <3>2. status' = 127
      BY <1>16, <2>4 DEF Wait
    <3> QED
      BY <2>1, <2>2, <3>1, <3>2 DEF PassesIffCommandDoes, Passed, RunnerInv
  <2>5. CASE child.is = "killed"
    <3>1. child.code \in 1 .. 64
      BY <2>5 DEF RunnerInv, Followed, ChildState
    <3>2. status' # 0
      BY <1>16, <2>5, <3>1, SignalShows DEF Wait
    <3>3. child # Passed
      BY <2>5 DEF Passed
    <3> QED
      BY <2>1, <2>2, <3>2, <3>3 DEF PassesIffCommandDoes, Passed, RunnerInv
  <2> QED
    BY <2>1, <2>3, <2>4, <2>5 DEF Ended
<1>17. CASE UNCHANGED vars
  BY <1>17 DEF vars, RunnerInv, Followed, PassesIffCommandDoes
<1> QED
  BY <1>0, <1>1, <1>2, <1>3, <1>4, <1>5, <1>6, <1>7, <1>8, <1>9, <1>10, <1>11,
     <1>12, <1>13, <1>14, <1>15, <1>16, <1>17 DEF Next, Works

(* The runner's exit status is zero exactly where its command ran and       *)
(* exited with zero, unless the runner itself was aborted                   *)
(* (execute_process.hpp:131-137).                                           *)
THEOREM RunnerReportsCommand == Spec => []PassesIffCommandDoes
<1>1. RunnerInv => PassesIffCommandDoes
  BY DEF RunnerInv
<1> QED
  BY <1>1, InitRunnerInv, StepRunnerInv, PTL DEF Spec

(* The runner never ends before its command does                            *)
(* (execute_process.hpp:128).                                               *)
THEOREM CommandNotLeftRunning ==
  Spec => [](pc = "exited" => child.is \notin {"forked", "running"})
<1>1. RunnerInv => (pc = "exited" => child.is \notin {"forked", "running"})
  BY DEF RunnerInv, Followed
<1> QED
  BY <1>1, InitRunnerInv, StepRunnerInv, PTL DEF Spec

-----------------------------------------------------------------------------
(* VERSION_LESS is a total order.                                           *)
LEMMA OlderIrreflexive == ASSUME NEW v \in Version PROVE ~Older(v, v)
BY DEF Older, Version

LEMMA OlderTransitive ==
  ASSUME NEW u \in Version, NEW v \in Version, NEW w \in Version,
         Older(u, v), Older(v, w)
  PROVE  Older(u, w)
<1>1. PICK i \in 1 .. 4 : u[i] < v[i] /\ \A k \in 1 .. i - 1 : u[k] = v[k]
  BY DEF Older
<1>2. PICK j \in 1 .. 4 : v[j] < w[j] /\ \A k \in 1 .. j - 1 : v[k] = w[k]
  BY DEF Older
<1>3. \A k \in 1 .. 4 : u[k] \in Nat /\ v[k] \in Nat /\ w[k] \in Nat
  BY DEF Version
<1>4. CASE i <= j
  <2>1. u[i] < w[i] /\ \A k \in 1 .. i - 1 : u[k] = w[k]
    BY <1>1, <1>2, <1>3, <1>4
  <2> QED
    BY <2>1 DEF Older
<1>5. CASE j < i
  <2>1. u[j] < w[j] /\ \A k \in 1 .. j - 1 : u[k] = w[k]
    BY <1>1, <1>2, <1>3, <1>5
  <2> QED
    BY <2>1 DEF Older
<1> QED
  BY <1>4, <1>5

LEMMA OlderTotal ==
  ASSUME NEW v \in Version, NEW w \in Version, ~Older(v, w), ~Older(w, v)
  PROVE  v = w
<1>1. \A k \in 1 .. 4 : v[k] \in Nat /\ w[k] \in Nat
  BY DEF Version
<1>2. v[1] = w[1]
  BY <1>1 DEF Older
<1>3. v[2] = w[2]
  BY <1>1, <1>2 DEF Older
<1>4. v[3] = w[3]
  BY <1>1, <1>2, <1>3 DEF Older
<1>5. v[4] = w[4]
  BY <1>1, <1>2, <1>3, <1>4 DEF Older
<1> QED
  BY <1>2, <1>3, <1>4, <1>5 DEF Version

(* The loops: what they have done when they are at current.                 *)
ValidTo(n) ==
  /\ valid \in Seq(1 .. Len(Versions))
  /\ \A i \in 1 .. n :
       Accepts(request, Versions[i]) <=> \E k \in 1 .. Len(valid) : valid[k] = i
  /\ \A k \in 1 .. Len(valid) : valid[k] <= n

SelectedTo(n) ==
  /\ index \in 1 .. Len(Versions)
  /\ newest = Versions[index]
  /\ index = 1 \/ \E k \in 1 .. n : valid[k] = index
  /\ \A k \in 1 .. n : ~Older(newest, Versions[valid[k]])

SelectInv ==
  /\ request \in [Bound -> Version \union {Absent}]
  /\ place = "check" => current = 1 /\ valid = <<>>
  /\ place = "package" => current = 1 /\ valid = <<>>
  /\ place = "filter" => current \in 1 .. Len(Versions) + 1 /\ ValidTo(current - 1)
  /\ place = "select" =>
       /\ valid # <<>>
       /\ current \in 1 .. Len(valid) + 1
       /\ ValidTo(Len(Versions))
       /\ SelectedTo(current - 1)
  /\ NewestSelected

LEMMA InitSelectInv == RequireInit => SelectInv
BY DEF RequireInit, NoLocals, Unbounded, SelectInv, NewestSelected

(* An iteration of the filter.                                               *)
LEMMA FilterStep ==
  ASSUME SelectInv, FilterVersion
  PROVE  ValidTo(current - 1)' /\ current' \in 1 .. Len(Versions) + 1
<1> DEFINE n == Len(Versions)
<1>1. /\ n \in Nat
      /\ current \in 1 .. n /\ current' = current + 1 /\ request' = request
      /\ valid \in Seq(1 .. n)
      /\ \A i \in 1 .. current - 1 :
           Accepts(request, Versions[i]) <=> \E k \in 1 .. Len(valid) : valid[k] = i
      /\ \A k \in 1 .. Len(valid) : valid[k] <= current - 1
  BY VersionsAssumption DEF FilterVersion, Goes, SelectInv, ValidTo
<1> HIDE DEF n
<1>2. Len(valid) \in Nat /\ \A k \in 1 .. Len(valid) : valid[k] \in 1 .. n
  BY <1>1
<1> DEFINE OK(i) == Accepts(request, Versions[i])
<1>3. \A i \in 1 .. current - 1 : OK(i) <=> \E k \in 1 .. Len(valid) : valid[k] = i
  BY <1>1
<1>4. CASE OK(current)
  <2>1. valid' = Append(valid, current)
    BY <1>4 DEF FilterVersion
  <2> HIDE DEF OK
  <2>2. /\ valid' \in Seq(1 .. n) /\ Len(valid') = Len(valid) + 1
        /\ valid'[Len(valid) + 1] = current
        /\ \A k \in 1 .. Len(valid) : valid'[k] = valid[k]
    BY <1>1, <1>2, <2>1
  <2>3. \A k \in 1 .. Len(valid') : k \in 1 .. Len(valid) \/ k = Len(valid) + 1
    BY <1>2, <2>2
  <2>4. ASSUME NEW k \in 1 .. Len(valid') PROVE valid'[k] <= current
    <3>1. CASE k \in 1 .. Len(valid)
      <4>1. valid'[k] = valid[k] /\ valid[k] <= current - 1 /\ valid[k] \in 1 .. n
        BY <1>1, <1>2, <2>2, <3>1
      <4> QED
        BY <1>1, <4>1
    <3>2. CASE k = Len(valid) + 1
      BY <1>1, <2>2, <3>2
    <3> QED
      BY <2>3, <3>1, <3>2
  <2>5. ASSUME NEW i \in 1 .. current
        PROVE  OK(i) <=> \E k \in 1 .. Len(valid') : valid'[k] = i
    <3>1. CASE i = current
      <4>1. Len(valid) + 1 \in 1 .. Len(valid')
        BY <1>2, <2>2
      <4> QED
        BY <1>4, <2>2, <3>1, <4>1
    <3>2. CASE i # current
      <4>1. i \in 1 .. current - 1
        BY <1>1, <3>2
      <4>2. \A k \in 1 .. Len(valid) : k \in 1 .. Len(valid')
        BY <1>2, <2>2
      <4> QED
        BY <1>3, <2>2, <2>3, <3>2, <4>1, <4>2
    <3> QED
      BY <3>1, <3>2
  <2>6. current' - 1 = current
    BY <1>1
  <2> QED
    BY <1>1, <2>2, <2>4, <2>5, <2>6 DEF ValidTo, Accepts, Has, n, OK
<1>5. CASE ~OK(current)
  <2>1. valid' = valid
    BY <1>5 DEF FilterVersion
  <2> HIDE DEF OK
  <2>2. ASSUME NEW i \in 1 .. current
        PROVE  OK(i) <=> \E k \in 1 .. Len(valid) : valid[k] = i
    <3>1. i = current \/ i \in 1 .. current - 1
      BY <1>1
    <3>2. \A k \in 1 .. Len(valid) : valid[k] # current
      BY <1>1, <1>2
    <3> QED
      BY <1>3, <1>5, <3>1, <3>2
  <2>3. \A k \in 1 .. Len(valid) : valid[k] <= current
    BY <1>1, <1>2
  <2>4. current' - 1 = current
    BY <1>1
  <2> QED
    BY <1>1, <2>1, <2>2, <2>3, <2>4 DEF ValidTo, Accepts, Has, n, OK
<1> QED
  BY <1>4, <1>5

(* An iteration of the choice.                                               *)
LEMMA SelectStep ==
  ASSUME SelectInv, SelectVersion
  PROVE  SelectedTo(current - 1)'
<1>1. /\ Len(Versions) \in Nat
      /\ \A i \in 1 .. Len(Versions) : Versions[i] \in Version
  BY VersionsAssumption
<1>2. /\ current \in 1 .. Len(valid) /\ current' = current + 1 /\ valid' = valid
      /\ valid \in Seq(1 .. Len(Versions))
      /\ SelectedTo(current - 1)
  BY DEF SelectVersion, Goes, SelectInv, ValidTo
<1>3. Len(valid) \in Nat /\ \A k \in 1 .. Len(valid) : valid[k] \in 1 .. Len(Versions)
  BY <1>2
<1> DEFINE i == valid[current]
<1>4. /\ i \in 1 .. Len(Versions) /\ Versions[i] \in Version
      /\ newest \in Version
  BY <1>1, <1>2, <1>3 DEF SelectedTo
<1>5. CASE Older(newest, Versions[i])
  <2>1. index' = i /\ newest' = Versions[i]
    BY <1>5 DEF SelectVersion
  <2>2. ASSUME NEW k \in 1 .. current PROVE ~Older(Versions[i], Versions[valid[k]])
    <3>1. CASE k = current
      BY <1>4, <3>1, OlderIrreflexive
    <3>2. CASE k # current
      <4>1. k \in 1 .. current - 1 /\ Versions[valid[k]] \in Version
        BY <1>1, <1>2, <1>3, <3>2
      <4>2. ~Older(newest, Versions[valid[k]])
        BY <1>2, <4>1 DEF SelectedTo
      <4> QED
        BY <1>4, <1>5, <4>1, <4>2, OlderTransitive
    <3> QED
      BY <3>1, <3>2
  <2>3. current \in 1 .. current /\ current' - 1 = current
    BY <1>2, <1>3
  <2> QED
    BY <1>2, <1>4, <2>1, <2>2, <2>3 DEF SelectedTo
<1>6. CASE ~Older(newest, Versions[i])
  <2>1. index' = index /\ newest' = newest
    BY <1>6 DEF SelectVersion
  <2>2. \A k \in 1 .. current : k \in 1 .. current - 1 \/ k = current
    BY <1>2, <1>3
  <2>3. /\ current' - 1 = current
        /\ \A k \in 1 .. current - 1 : k \in 1 .. current
    BY <1>2, <1>3
  <2> QED
    BY <1>2, <1>6, <2>1, <2>2, <2>3 DEF SelectedTo
<1> QED
  BY <1>5, <1>6

(* The first version is valid if the search never left it, for it is the    *)
(* oldest: those that are valid are no newer, so they are the same.         *)
LEMMA SelectedIsNewest ==
  ASSUME SelectInv, place = "select", current > Len(valid)
  PROVE  /\ newest = Versions[index]
         /\ Accepts(request, newest)
         /\ \A i \in 1 .. Len(Versions) :
              Accepts(request, Versions[i]) => ~Older(newest, Versions[i])
<1>1. /\ Len(Versions) \in Nat /\ Len(Versions) > 0
      /\ \A i \in 1 .. Len(Versions) : Versions[i] \in Version
  BY VersionsAssumption
<1>2. /\ valid # <<>> /\ valid \in Seq(1 .. Len(Versions))
      /\ ValidTo(Len(Versions)) /\ SelectedTo(Len(valid))
  <2>1. current = Len(valid) + 1
    BY DEF SelectInv, ValidTo
  <2>2. current - 1 = Len(valid)
    BY <2>1 DEF SelectInv, ValidTo
  <2> QED
    BY <2>2 DEF SelectInv, ValidTo
<1>3. /\ Len(valid) \in Nat /\ Len(valid) > 0
      /\ \A k \in 1 .. Len(valid) : valid[k] \in 1 .. Len(Versions)
  BY <1>2
<1>4. index \in 1 .. Len(Versions) /\ newest = Versions[index]
  BY <1>2 DEF SelectedTo
<1>5. \A i \in 1 .. Len(Versions) :
        Accepts(request, Versions[i]) => ~Older(newest, Versions[i])
  BY <1>2 DEF ValidTo, SelectedTo
<1>6. CASE \E k \in 1 .. Len(valid) : valid[k] = index
  BY <1>2, <1>4, <1>5, <1>6 DEF ValidTo
<1>7. CASE index = 1
  <2> DEFINE v == Versions[valid[1]]
  <2>1. valid[1] \in 1 .. Len(Versions) /\ v \in Version /\ newest \in Version
    BY <1>1, <1>3, <1>4
  <2>2. Accepts(request, v)
    <3>1. \E k \in 1 .. Len(valid) : valid[k] = valid[1]
      BY <1>3
    <3> QED
      BY <1>2, <2>1, <3>1 DEF ValidTo
  <2>3. ~Older(newest, v)
    BY <1>5, <2>1, <2>2
  <2>4. ~Older(v, newest)
    BY <1>4, <1>7, <2>1, OldestAssumption
  <2>5. v = newest
    BY <2>1, <2>3, <2>4, OlderTotal
  <2> QED
    BY <1>4, <1>5, <2>2, <2>5
<1> QED
  BY <1>2, <1>6, <1>7 DEF SelectedTo

(* A request that is read as it was meant accepts what meets its bound.     *)
LEMMA AcceptsWhatMeets ==
  ASSUME NEW r \in [Bound -> Version \union {Absent}], ReadAsMeant(r),
         NEW a \in Bound, Has(r, a), NEW i \in 1 .. Len(Versions)
  PROVE  Accepts(r, Versions[i]) <=> Meets(r, Versions[i])
<1> DEFINE v == Versions[i]
           w == r[a]
<1>1. v \in Version /\ w \in Version
  BY VersionsAssumption DEF Has
<1>2. \A b \in Bound : Has(r, b) => b = a
  BY DEF ReadAsMeant
<1>3. a \in {"lte", "gte"} /\ SameNumber(v, w) => v = w
  BY DEF ReadAsMeant
<1>4. SameNumber(w, w)
  BY <1>1 DEF SameNumber, Version
<1>5. ~Older(v, v) /\ ~(Older(v, w) /\ Older(w, v))
  BY <1>1, OlderIrreflexive, OlderTransitive
<1>6. Older(v, w) \/ Older(w, v) \/ v = w
  BY <1>1, OlderTotal
<1> HIDE DEF v
<1>7. CASE a = "eq"
  BY <1>2, <1>7 DEF Accepts, Meets, Bound, v
<1>8. CASE a = "lt"
  BY <1>2, <1>8 DEF Accepts, Meets, Bound, v
<1>9. CASE a = "gt"
  BY <1>2, <1>9 DEF Accepts, Meets, Bound, v
<1>10. CASE a = "lte"
  <2>1. Accepts(r, v) <=> Older(v, w) \/ SameNumber(v, w)
    BY <1>2, <1>10 DEF Accepts, Bound
  <2>2. Meets(r, v) <=> ~Older(w, v)
    BY <1>2, <1>10 DEF Meets, Bound
  <2> QED
    BY <1>3, <1>4, <1>5, <1>6, <1>10, <2>1, <2>2 DEF v
<1>11. CASE a = "gte"
  <2>1. Accepts(r, v) <=> Older(w, v) \/ SameNumber(v, w)
    BY <1>2, <1>11 DEF Accepts, Bound
  <2>2. Meets(r, v) <=> ~Older(v, w)
    BY <1>2, <1>11 DEF Meets, Bound
  <2> QED
    BY <1>3, <1>4, <1>5, <1>6, <1>11, <2>1, <2>2 DEF v
<1> QED
  BY <1>7, <1>8, <1>9, <1>10, <1>11 DEF Bound

(* The search ends with what NewestSelected promises.                       *)
LEMMA SearchEnds ==
  ASSUME SelectInv, place = "select", current > Len(valid),
         UNCHANGED <<request, index, newest>>
  PROVE  NewestSelected'
<1>1. /\ newest = Versions[index]
      /\ Accepts(request, newest)
      /\ \A i \in 1 .. Len(Versions) :
           Accepts(request, Versions[i]) => ~Older(newest, Versions[i])
  BY SelectedIsNewest
<1>2. index \in 1 .. Len(Versions)
  BY DEF SelectInv, SelectedTo
<1>3. ASSUME ReadAsMeant(request)
      PROVE  /\ Meets(request, newest)
             /\ \A i \in 1 .. Len(Versions) :
                  Meets(request, Versions[i]) => ~Older(newest, Versions[i])
  <2>1. PICK a \in Bound : Has(request, a)
    BY <1>1 DEF Accepts, Bound
  <2>2. \A i \in 1 .. Len(Versions) :
          Accepts(request, Versions[i]) <=> Meets(request, Versions[i])
    BY <1>3, <2>1, AcceptsWhatMeets DEF SelectInv
  <2> QED
    BY <1>1, <1>2, <2>2
<1> QED
  BY <1>1, <1>3 DEF NewestSelected, Accepts, Meets, ReadAsMeant, Has

(* SelectInv is inductive.                                                   *)
LEMMA StepSelectInv == SelectInv /\ [RequireNext]_selectVars => SelectInv'
<1> SUFFICES ASSUME SelectInv, [RequireNext]_selectVars
             PROVE  SelectInv'
  OBVIOUS
<1> USE DEF Goes
<1>1. CASE CallRequire
  BY <1>1, RequestsAssumption DEF CallRequire, SelectInv, NewestSelected
<1>2. CASE CheckOptions
  <2>1. Len(Versions) \in Nat
    BY VersionsAssumption
  <2>2. CASE Contradictory(request)
    BY <1>2, <2>2 DEF CheckOptions, SelectInv, NewestSelected
  <2>3. CASE ~Contradictory(request)
    <3>1. /\ place' = "filter" /\ current' = 1 /\ valid' = <<>>
          /\ request' \in [Bound -> Version \union {Absent}]
      BY <1>2, <2>3 DEF CheckOptions, SelectInv
    <3> QED
      BY <2>1, <3>1 DEF SelectInv, ValidTo, NewestSelected
  <2> QED
    BY <2>2, <2>3
<1>3. CASE FilterVersion
  BY <1>3, FilterStep DEF FilterVersion, SelectInv, NewestSelected
<1>4. CASE BeginSelect
  <2>1. Len(Versions) \in Nat /\ Len(Versions) > 0
    BY VersionsAssumption
  <2>2. current - 1 = Len(Versions) /\ ValidTo(current - 1)
    BY <1>4, <2>1 DEF BeginSelect, SelectInv
  <2>3. ValidTo(Len(Versions))'
    BY <1>4, <2>2 DEF BeginSelect, ValidTo, Accepts, Has
  <2>4. Len(valid') \in Nat /\ current' = 1
    BY <1>4, <2>3 DEF BeginSelect, ValidTo
  <2>5. SelectedTo(current - 1)'
    BY <1>4, <2>1, <2>4 DEF BeginSelect, SelectedTo
  <2> QED
    BY <1>4, <2>3, <2>4, <2>5 DEF BeginSelect, SelectInv, NewestSelected
<1>5. CASE SelectVersion
  <2>1. SelectedTo(current - 1)'
    BY <1>5, SelectStep
  <2>2. ValidTo(Len(Versions))'
    BY <1>5 DEF SelectVersion, SelectInv, ValidTo, Accepts, Has
  <2>3. Len(valid) \in Nat
    BY <1>5 DEF SelectVersion, SelectInv, ValidTo
  <2> QED
    <3>1. /\ request' = request /\ valid' = valid /\ place' = "select"
          /\ current' = current + 1 /\ current <= Len(valid)
      BY <1>5 DEF SelectVersion
    <3>2. /\ request \in [Bound -> Version \union {Absent}]
          /\ valid # <<>> /\ current \in 1 .. Len(valid) + 1
      BY <1>5 DEF SelectVersion, SelectInv
    <3>3. NewestSelected'
      BY <3>1 DEF NewestSelected
    <3>4. current' \in 1 .. Len(valid) + 1
      BY <2>3, <3>1, <3>2
    <3> QED
      BY <2>1, <2>2, <3>1, <3>2, <3>3, <3>4 DEF SelectInv
<1>6. CASE Locate
  <2>1. place = "select" /\ current > Len(valid) /\ place' \in {"extract", "failed"}
    BY <1>6 DEF Locate
  <2>2. NewestSelected'
    BY <1>6, <2>1, SearchEnds DEF Locate
  <2> QED
    BY <1>6, <2>1, <2>2 DEF Locate, SelectInv
<1>7. CASE Extract
  <2>1. NewestSelected'
    BY <1>7 DEF Extract, SelectInv, NewestSelected, Accepts, Has, Meets, ReadAsMeant
  <2> QED
    BY <1>7, <2>1 DEF Extract, SelectInv
<1>8. CASE AddSubdirectory
  BY <1>8 DEF AddSubdirectory, Unbounded, SelectInv, NewestSelected
<1>9. CASE NoneIsValid \/ ConfigureEnds \/ ConfigureFails
  BY <1>9 DEF NoneIsValid, ConfigureEnds, ConfigureFails, SelectInv,
     NewestSelected
<1>10. CASE UNCHANGED selectVars
  BY <1>10 DEF selectVars, SelectInv, NewestSelected, ValidTo, SelectedTo,
     Accepts, Meets, ReadAsMeant, Has
<1> QED
  BY <1>1, <1>2, <1>3, <1>4, <1>5, <1>6, <1>7, <1>8, <1>9, <1>10 DEF
     RequireNext, Requires

(* The newest version that passed the filter is extracted, for any list     *)
(* whose first version is the oldest, in whatever order the others are, and *)
(* for any bounds; and where the filter reads a bound as it is documented,  *)
(* it meets the bound (require_googletest.cmake:32-41,143-154).             *)
THEOREM NewestIsSelected == RequireSpec => []NewestSelected
<1>1. SelectInv => NewestSelected
  BY DEF SelectInv
<1> QED
  BY <1>1, InitSelectInv, StepSelectInv, PTL DEF RequireSpec

(* A call that returned left a googletest in the build, and a call that is  *)
(* under way is the second one exactly if there is one already.             *)
UnderWay == {"check", "filter", "select", "extract", "add"}

CountedCalls ==
  /\ calls \in Nat
  /\ place \in {"package", "configured"} =>
       calls \in {0, 1} /\ (built # 0 <=> calls = 1)
  /\ place \in UnderWay =>
       calls \in {1, 2} /\ (built # 0 <=> calls = 2)
  /\ place \in {"select", "extract", "add"} => index # 0

LEMMA InitCountedCalls == RequireInit => CountedCalls
BY DEF RequireInit, CountedCalls, UnderWay

LEMMA StepCountedCalls ==
  SelectInv /\ CountedCalls /\ [RequireNext]_selectVars => CountedCalls'
<1> SUFFICES ASSUME SelectInv, CountedCalls, [RequireNext]_selectVars
             PROVE  CountedCalls'
  OBVIOUS
<1> USE DEF Goes, CountedCalls, UnderWay
<1>1. CASE CallRequire
  BY <1>1 DEF CallRequire
<1>2. CASE CheckOptions \/ FilterVersion \/ NoneIsValid
  BY <1>2 DEF CheckOptions, FilterVersion, NoneIsValid
<1>3. CASE BeginSelect
  BY <1>3 DEF BeginSelect
<1>4. CASE SelectVersion
  <2>1. SelectedTo(current - 1)'
    BY <1>4, SelectStep
  <2>2. index' # 0
    BY <2>1, VersionsAssumption DEF SelectedTo
  <2> QED
    BY <1>4, <2>2 DEF SelectVersion
<1>5. CASE Locate \/ Extract
  BY <1>5 DEF Locate, Extract
<1>6. CASE AddSubdirectory
  BY <1>6 DEF AddSubdirectory
<1>7. CASE ConfigureEnds \/ ConfigureFails
  BY <1>7 DEF ConfigureEnds, ConfigureFails
<1>8. CASE UNCHANGED selectVars
  BY <1>8 DEF selectVars
<1> QED
  BY <1>1, <1>2, <1>3, <1>4, <1>5, <1>6, <1>7, <1>8 DEF RequireNext, Requires

(* No package is configured with two googletests, nor with none after a     *)
(* call (require_googletest.cmake:29).                                      *)
THEOREM NeverTwoGoogletests == RequireSpec => []OneGoogletest
<1>1. CountedCalls => OneGoogletest
  BY DEF CountedCalls, OneGoogletest
<1> QED
  BY <1>1, InitSelectInv, StepSelectInv, InitCountedCalls, StepCountedCalls, PTL
     DEF RequireSpec

(* The types of the configuration, and that no more versions are found      *)
(* valid than there are: the two loops end within their bounds.             *)
SelectTypeInv ==
  /\ SelectTypeOK
  /\ place = "filter" => Len(valid) <= current - 1
  /\ place = "select" => Len(valid) <= Len(Versions)

LEMMA InitSelectTypeInv == RequireInit => SelectTypeInv
BY VersionsAssumption, MaxCallsAssumption DEF RequireInit, NoLocals,
   SelectTypeInv, SelectTypeOK

(* Every step of the configuration keeps its types.                          *)
LEMMA StepSelectTypeInv ==
  SelectInv /\ SelectTypeInv /\ [RequireNext]_selectVars => SelectTypeInv'
<1> SUFFICES ASSUME SelectInv, SelectTypeInv, [RequireNext]_selectVars
             PROVE  SelectTypeInv'
  OBVIOUS
<1> USE DEF Goes, SelectTypeInv, SelectTypeOK
<1>0. /\ Len(Versions) \in Nat /\ Len(Versions) > 0
      /\ \A i \in 1 .. Len(Versions) : Versions[i] \in Version
      /\ Len(valid) \in Nat
  BY VersionsAssumption
<1>1. CASE CallRequire
  BY <1>0, <1>1, MaxCallsAssumption DEF CallRequire
<1>2. CASE CheckOptions
  BY <1>0, <1>2 DEF CheckOptions, SelectInv
<1>3. CASE FilterVersion
  <2>1. current \in 1 .. Len(Versions) /\ Len(valid) <= current - 1
    BY <1>0, <1>3 DEF FilterVersion
  <2>2. /\ Append(valid, current) \in Seq(1 .. Len(Versions))
        /\ Len(Append(valid, current)) = Len(valid) + 1
    BY <2>1
  <2>3. valid' \in {valid, Append(valid, current)}
    BY <1>3 DEF FilterVersion
  <2>4. Len(valid') <= current /\ valid' \in Seq(1 .. Len(Versions))
    <3>1. CASE valid' = valid
      BY <1>0, <2>1, <3>1
    <3>2. CASE valid' = Append(valid, current)
      BY <1>0, <2>1, <2>2, <3>2
    <3> QED
      BY <2>3, <3>1, <3>2
  <2> QED
    BY <1>0, <1>3, <2>1, <2>4 DEF FilterVersion
<1>4. CASE BeginSelect
  BY <1>0, <1>4 DEF BeginSelect
<1>5. CASE SelectVersion
  <2>1. valid[current] \in 1 .. Len(Versions)
    BY <1>0, <1>5 DEF SelectVersion
  <2>2. Versions[valid[current]] \in Version
    BY <1>0, <2>1
  <2>3. index' \in 1 .. Len(Versions) \union {index} /\ newest' \in Version \union {newest}
    BY <1>5, <2>1, <2>2 DEF SelectVersion
  <2> QED
    BY <1>0, <1>5, <2>3 DEF SelectVersion
<1>6. CASE Locate \/ Extract
  BY <1>0, <1>6 DEF Locate, Extract
<1>7. CASE AddSubdirectory
  <2>1. CASE place' = "package"
    BY <1>0, <1>7, <2>1 DEF AddSubdirectory
  <2>2. CASE place' = "failed"
    BY <1>0, <1>7, <2>2 DEF AddSubdirectory
  <2> QED
    BY <1>7, <2>1, <2>2 DEF AddSubdirectory
<1>8. CASE NoneIsValid \/ ConfigureEnds \/ ConfigureFails
  BY <1>0, <1>8 DEF NoneIsValid, ConfigureEnds, ConfigureFails
<1>9. CASE UNCHANGED selectVars
  BY <1>0, <1>9 DEF selectVars
<1> QED
  BY <1>1, <1>2, <1>3, <1>4, <1>5, <1>6, <1>7, <1>8, <1>9 DEF RequireNext,
     Requires

-----------------------------------------------------------------------------
(* Every step of a package is one of each, or stutters.                     *)
LEMMA PackageStepsBoth ==
  [PackageNext]_packageVars => [Next]_vars /\ [RequireNext]_selectVars
BY DEF PackageNext, Configures, AddTest, RunnerStarts, RunnerWorks, RunnerFails,
   Next, RequireNext, packageVars

(* A package's configuration is that of GoogletestSelect, and what is       *)
(* started in the end is the runner of TestRunner: their theorems hold of a *)
(* package.                                                                 *)
THEOREM PackageUsesBoth == PackageSpec => Spec /\ RequireSpec
<1>1. PackageInit => Init /\ RequireInit
  BY DEF PackageInit
<1> QED
  BY <1>1, PackageStepsBoth, PTL DEF PackageSpec, Spec, RequireSpec

-----------------------------------------------------------------------------
(* The command line of a test with a command has a "--" that something      *)
(* follows.                                                                 *)
Announced(list) == \E i \in 1 .. Len(list) - 1 : list[i].is = "--"

(* A list with its flag is a list of arguments.                              *)
LEMMA FlaggedIsList ==
  ASSUME NEW flag \in {"--env", "--append-env"}, NEW list \in Seq(Argument)
  PROVE  Flagged(flag, list) \in Seq(Argument)
<1>1. Looks(flag) \in Argument
  BY DEF Looks, Argument
<1> HIDE DEF Argument
<1> QED
  BY <1>1 DEF Flagged

(* A library directory is passed on as an argument.                         *)
LEMMA DirsAreList ==
  ASSUME NEW dirs \in Seq(Element)
  PROVE  LibraryDirs(dirs) \in Seq(Argument) /\ Len(LibraryDirs(dirs)) = Len(dirs)
<1>1. Len(dirs) \in Nat /\ DOMAIN dirs = 1 .. Len(dirs)
  OBVIOUS
<1>2. ASSUME NEW i \in 1 .. Len(dirs)
      PROVE  Pair(LibraryPath, <<dirs[i]>>) \in Argument
  <2>1. <<dirs[i]>> \in Seq(Element)
    BY <1>2
  <2> QED
    BY <2>1, LibraryPathAssumption DEF Pair, Argument
<1> HIDE DEF Argument
<1> QED
  BY <1>1, <1>2 DEF LibraryDirs

(* What is to be appended is a list of arguments.                            *)
LEMMA AppendEnvIsList ==
  ASSUME NEW t \in Tests PROVE AppendEnv(t) \in Seq(Argument)
<1>1. t.append \in Seq(Argument) /\ t.dirs \in Seq(Element)
  BY ArgumentsAssumption
<1> HIDE DEF Argument
<1> QED
  BY <1>1, DirsAreList DEF AppendEnv

(* add_test() puts a "--" before a command.                                  *)
LEMMA WrapperAnnounces ==
  ASSUME NEW t \in Tests, t.command # <<>>
  PROVE  CmdWrapper(t) \in Seq(Argument) /\ Announced(CmdWrapper(t))
<1> DEFINE a == Flagged("--env", t.env)
           b == Flagged("--append-env", AppendEnv(t))
           mark == <<Looks("--")>>
<1>1. /\ t.env \in Seq(Argument) /\ t.append \in Seq(Argument)
      /\ t.dirs \in Seq(Element) /\ t.command \in Seq(Argument)
  BY ArgumentsAssumption
<1>2. LibraryDirs(t.dirs) \in Seq(Argument)
  BY <1>1, DirsAreList
<1>3. Looks("--") \in Argument /\ Looks("--").is = "--"
  BY DEF Looks, Argument
<1>4. a \in Seq(Argument) /\ b \in Seq(Argument)
  <2>1. AppendEnv(t) \in Seq(Argument)
    BY AppendEnvIsList
  <2> QED
    BY <1>1, <2>1, FlaggedIsList
<1> HIDE DEF a, b
<1>5. CmdWrapper(t) = ((a \o b) \o mark) \o t.command
  BY DEF CmdWrapper, a, b
<1> DEFINE c == a \o b
           n == Len(c) + 1
<1>6. c \in Seq(Argument) /\ Len(c) \in Nat
  BY <1>4
<1> HIDE DEF c
<1>7. /\ c \o mark \in Seq(Argument) /\ Len(c \o mark) = n
      /\ (c \o mark)[n].is = "--"
  BY <1>3, <1>6
<1> DEFINE d == c \o mark
<1>8. d \in Seq(Argument) /\ Len(d) = n /\ d[n].is = "--" /\ n \in Nat /\ n > 0
  BY <1>6, <1>7
<1> HIDE DEF d, n
<1>9. /\ d \o t.command \in Seq(Argument)
      /\ Len(d \o t.command) > n
      /\ (d \o t.command)[n] = d[n]
  BY <1>1, <1>8
<1>10. n \in 1 .. Len(d \o t.command) - 1
  BY <1>8, <1>9
<1>11. CmdWrapper(t) = d \o t.command
  BY <1>5 DEF c, d
<1> QED
  BY <1>8, <1>9, <1>10, <1>11 DEF Announced

(* Until it is read, a test's command is announced by what is not read yet. *)
ToCome ==
  \/ command # <<>>
  \/ mode = "command" /\ args # <<>>
  \/ Announced(args)

HasCommand(t) == t # NoTest => t \in Tests /\ t.command # <<>>

CommandInv ==
  /\ HasCommand(added)
  /\ args \in Seq(Argument)
  /\ command \in Seq(Argument)
  /\ test # NoTest /\ pc \in {"usage", "parse"} => ToCome
  /\ test # NoTest /\ pc \in {"set", "append", "fork", "wait"} => command # <<>>
  /\ TestsHaveCommands

LEMMA InitCommandInv == PackageInit => CommandInv
BY DEF PackageInit, Init, CommandInv, HasCommand, TestsHaveCommands

(* Reading one argument.                                                    *)
LEMMA ReadStep ==
  ASSUME args \in Seq(Argument), NEW a, Reads(a), args' = Tail(args)
  PROVE  /\ a \in Argument /\ args' \in Seq(Argument)
         /\ Announced(args) => (a.is = "--" /\ args' # <<>>) \/ Announced(args)'
<1> HIDE DEF Argument
<1>1. /\ args # <<>> /\ a = args[1] /\ Len(args) \in Nat /\ Len(args) > 0
      /\ args' \in Seq(Argument) /\ Len(args') = Len(args) - 1
      /\ \A j \in 1 .. Len(args) - 1 : args'[j] = args[j + 1]
  BY DEF Reads
<1>2. a \in Argument
  BY <1>1
<1>3. ASSUME Announced(args) PROVE (a.is = "--" /\ args' # <<>>) \/ Announced(args)'
  <2>1. PICK i \in 1 .. Len(args) - 1 : args[i].is = "--"
    BY <1>3 DEF Announced
  <2>2. CASE i = 1
    <3>1. Len(args') # 0
      BY <1>1, <2>1, <2>2
    <3> QED
      BY <1>1, <2>1, <2>2, <3>1
  <2>3. CASE i # 1
    <3>1. i - 1 \in 1 .. Len(args') - 1 /\ args'[i - 1] = args[i]
      BY <1>1, <2>1, <2>3
    <3> QED
      BY <2>1, <3>1 DEF Announced
  <2> QED
    BY <2>2, <2>3
<1> QED
  BY <1>1, <1>2, <1>3

LEMMA RunnerCommandStep ==
  ASSUME RunnerInv, CommandInv, Works \/ SetenvFails \/ Throws, UNCHANGED added
  PROVE  CommandInv'
<1> HIDE DEF Argument
<1> USE DEF CommandInv
<1>1. HasCommand(added)'
  BY DEF HasCommand
<1>2. ASSUME UNCHANGED <<test, args, mode, command>>,
             \/ pc = "usage" /\ pc' = "parse"
             \/ pc' \in {pc, "exited"} /\ child' = child
             \/ pc \in {"set", "append"} /\ pc' \in {"append", "fork"} /\ child' = child
             \/ pc \in {"fork", "wait"} /\ pc' = "wait",
             pc = "usage" => child' = child
      PROVE  CommandInv'
  BY <1>1, <1>2 DEF ToCome, Announced, TestsHaveCommands
<1>3. CASE CheckUsage \/ AllSet \/ AllAppended \/ SetVariable \/ AppendVariable
  BY <1>2, <1>3 DEF CheckUsage, AllSet, AllAppended, SetVariable,
     AppendVariable, Exit, Jump
<1>4. CASE SetenvFails \/ Throws \/ Wait
  BY <1>2, <1>4 DEF SetenvFails, Throws, Wait, Exit
<1>5. CASE Fork
  BY <1>2, <1>5 DEF Fork, Becomes, Jump
<1>6. CASE Exec \/ CommandEnds
  <2>1. child.is \in {"forked", "running"}
    BY <1>6 DEF Exec, CommandEnds
  <2>2. pc = "wait"
    BY <2>1 DEF RunnerInv, Followed
  <2> QED
    BY <1>2, <1>6, <2>2 DEF Exec, CommandEnds, Becomes
<1>7. CASE TakeCommand
  <2>1. PICK a \in ToSet(args) :
          Reads(a) /\ args' = Tail(args) /\ command' = Append(command, a) /\ pc' = pc
    BY <1>7 DEF TakeCommand
  <2>2. a \in Argument /\ args' \in Seq(Argument) /\ test' = test /\ child' = child
        /\ pc = "parse"
    BY <2>1, ReadStep DEF Reads
  <2>3. command' \in Seq(Argument) /\ command' # <<>>
    BY <2>1, <2>2
  <2> QED
    BY <1>1, <2>1, <2>2, <2>3 DEF ToCome, TestsHaveCommands
<1>8. CASE ChangeMode
  <2>1. PICK a \in ToSet(args) :
          /\ Reads(a) /\ args' = Tail(args) /\ mode # "command"
          /\ a.is \in DOMAIN Modes /\ mode' = Modes[a.is]
          /\ pc' = pc /\ command' = command
    BY <1>8 DEF ChangeMode
  <2>2. /\ args' \in Seq(Argument) /\ test' = test /\ child' = child /\ pc = "parse"
        /\ Announced(args) => (a.is = "--" /\ args' # <<>>) \/ Announced(args)'
    BY <2>1, ReadStep DEF Reads
  <2>3. a.is = "--" => mode' = "command"
    BY <2>1 DEF Modes
  <2> QED
    BY <1>1, <2>1, <2>2, <2>3 DEF ToCome, TestsHaveCommands
<1>9. CASE TakePair
  <2>1. PICK a \in ToSet(args) :
          /\ Reads(a) /\ args' = Tail(args) /\ a.is = "pair" /\ mode # "command"
          /\ mode' = mode /\ pc' = pc /\ command' = command
    BY <1>9 DEF TakePair
  <2>2. /\ args' \in Seq(Argument) /\ test' = test /\ child' = child /\ pc = "parse"
        /\ Announced(args) => (a.is = "--" /\ args' # <<>>) \/ Announced(args)'
    BY <2>1, ReadStep DEF Reads
  <2> QED
    BY <1>1, <2>1, <2>2 DEF ToCome, TestsHaveCommands
<1>10. CASE Refuse
  BY <1>2, <1>10 DEF Refuse, Reads, Exit
<1>11. CASE EndOfArguments
  <2>1. args = <<>> /\ pc = "parse" /\ pc' = "set"
        /\ UNCHANGED <<test, args, mode, command, child>>
    BY <1>11 DEF EndOfArguments, Jump
  <2>2. ~Announced(args)
    BY <2>1 DEF Announced
  <2>3. test # NoTest => command # <<>>
    BY <2>1, <2>2 DEF ToCome
  <2> QED
    BY <1>1, <2>1, <2>3 DEF TestsHaveCommands
<1> QED
  BY <1>3, <1>4, <1>5, <1>6, <1>7, <1>8, <1>9, <1>10, <1>11 DEF Works

LEMMA StepCommandInv ==
  RunnerInv /\ CommandInv /\ [PackageNext]_packageVars => CommandInv'
<1> SUFFICES ASSUME RunnerInv, CommandInv, [PackageNext]_packageVars
             PROVE  CommandInv'
  OBVIOUS
<1> HIDE DEF Argument
<1>1. ASSUME UNCHANGED vars, HasCommand(added)'
      PROVE  CommandInv'
  BY <1>1 DEF vars, CommandInv, ToCome, Announced, TestsHaveCommands
<1>2. CASE Configures
  BY <1>1, <1>2 DEF Configures, CommandInv, HasCommand
<1>3. CASE AddTest
  BY <1>1, <1>3 DEF AddTest, CommandInv, HasCommand
<1>4. CASE RunnerStarts
  <2>1. /\ test' = added /\ added' = added /\ command' = command /\ child' = child
        /\ pc = "none" /\ pc' = "usage"
        /\ \/ test' \in Tests /\ args' = CmdWrapper(test')
           \/ test' = NoTest /\ args' \in Direct
    BY <1>4 DEF RunnerStarts, Starts
  <2>2. child.is = "none"
    BY <2>1 DEF RunnerInv, Followed, Before
  <2>3. HasCommand(added)' /\ HasCommand(test)'
    BY <2>1 DEF CommandInv, HasCommand
  <2>4. args' \in Seq(Argument) /\ (test' # NoTest => Announced(args'))
    <3>1. CASE test' = NoTest /\ args' \in Direct
      BY <3>1, ArgumentsAssumption
    <3>2. CASE test' \in Tests /\ args' = CmdWrapper(test')
      <4>1. test' # NoTest
        BY <3>2, NoTestAssumption
      <4>2. test'.command # <<>>
        BY <2>3, <4>1 DEF HasCommand
      <4> QED
        BY <3>2, <4>2, WrapperAnnounces
    <3> QED
      BY <2>1, <3>1, <3>2
  <2> QED
    BY <2>1, <2>2, <2>3, <2>4 DEF CommandInv, ToCome, Announced,
       TestsHaveCommands
<1>5. CASE RunnerWorks \/ RunnerFails
  BY <1>5, RunnerCommandStep DEF RunnerWorks, RunnerFails
<1>6. CASE UNCHANGED packageVars
  BY <1>1, <1>6 DEF packageVars, CommandInv, HasCommand
<1> QED
  BY <1>2, <1>3, <1>4, <1>5, <1>6 DEF PackageNext

(* No test of a package runs nothing, whatever its environment and its      *)
(* arguments look like (add_test.cmake:53-56, execute_process.hpp:107).     *)
THEOREM TestsNeverRunNothing == PackageSpec => []TestsHaveCommands
<1>1. CommandInv => TestsHaveCommands
  BY DEF CommandInv
<1>2. PackageInit => Init
  BY DEF PackageInit
<1> QED
  BY <1>1, <1>2, PackageStepsBoth, InitRunnerInv, StepRunnerInv, InitCommandInv,
     StepCommandInv, PTL DEF PackageSpec

-----------------------------------------------------------------------------
(* The types of the runner, with the arguments and the environment it may   *)
(* be given.                                                                *)
RunnerTypeInv ==
  /\ args \in Seq(Argument)
  /\ mode \in {"none", "env", "append_env", "command"}
  /\ DOMAIN setting \subseteq Var
  /\ DOMAIN appending \subseteq Var
  /\ DOMAIN env = Var
  /\ status \in 0 .. 255 \union {Aborted}

LEMMA InitRunnerTypeInv == Init => RunnerTypeInv
<1> HIDE DEF Argument
<1> QED
  BY DEF Init, RunnerTypeInv

(* A command line that add_test() builds is one of arguments.               *)
LEMMA WrapperIsList ==
  ASSUME NEW t \in Tests
  PROVE  CmdWrapper(t) \in Seq(Argument)
<1>1. /\ t.env \in Seq(Argument) /\ t.append \in Seq(Argument)
      /\ t.dirs \in Seq(Element) /\ t.command \in Seq(Argument)
  BY ArgumentsAssumption
<1>2. Looks("--") \in Argument
  BY DEF Looks, Argument
<1> HIDE DEF Argument
<1>3. AppendEnv(t) \in Seq(Argument)
  BY AppendEnvIsList
<1> DEFINE a == Flagged("--env", t.env)
           b == Flagged("--append-env", AppendEnv(t))
<1>4. a \in Seq(Argument) /\ b \in Seq(Argument)
  BY <1>1, <1>3, FlaggedIsList
<1> HIDE DEF a, b
<1>5. CmdWrapper(t) = ((a \o b) \o <<Looks("--")>>) \o t.command
  BY DEF CmdWrapper, a, b
<1> QED
  BY <1>1, <1>2, <1>4, <1>5

(* A status is eight bits wide.                                             *)
LEMMA StatusIsByte == ASSUME NEW s \in 1 .. 64 PROVE (0 - s) % 256 \in 0 .. 255
OBVIOUS

(* Every step keeps the types.                                               *)
LEMMA StepRunnerTypeInv ==
  RunnerInv /\ RunnerTypeInv /\ [Next]_vars => RunnerTypeInv'
<1> SUFFICES ASSUME RunnerInv, RunnerTypeInv, [Next]_vars PROVE RunnerTypeInv'
  OBVIOUS
<1> USE DEF RunnerTypeInv, Exit, Jump
<1> HIDE DEF Argument
<1>0. CASE Starts
  <2>1. args' \in Seq(Argument)
    BY <1>0, WrapperIsList, ArgumentsAssumption DEF Starts
  <2>2. DOMAIN env' = Var
    BY <1>0, ArgumentsAssumption DEF Starts
  <2> QED
    BY <1>0, <2>1, <2>2 DEF Starts
<1>1. ASSUME UNCHANGED <<args, mode, setting, appending, env>>,
             status' \in {status, 1}
      PROVE  RunnerTypeInv'
  BY <1>1
<1>2. CASE TakeCommand
  BY <1>2, ReadStep DEF TakeCommand, Reads
<1>3. CASE ChangeMode
  <2>1. PICK a \in ToSet(args) :
          /\ Reads(a) /\ args' = Tail(args) /\ a.is \in DOMAIN Modes
          /\ mode' = Modes[a.is]
          /\ UNCHANGED <<setting, appending, env, status>>
    BY <1>3 DEF ChangeMode, Reads
  <2>2. mode' \in {"none", "env", "append_env", "command"}
    BY <2>1 DEF Modes
  <2> QED
    BY <2>1, <2>2, ReadStep
<1>4. CASE TakePair
  <2>1. PICK a \in ToSet(args) :
          /\ Reads(a) /\ args' = Tail(args) /\ a.is = "pair"
          /\ \/ setting' = With(setting, a.var, a.value) /\ UNCHANGED appending
             \/ appending' = With(appending, a.var, a.value) /\ UNCHANGED setting
          /\ UNCHANGED <<mode, env, status>>
    BY <1>4 DEF TakePair, Reads
  <2>2. a \in Argument /\ args' \in Seq(Argument)
    BY <2>1, ReadStep
  <2>3. a.var \in Var
    BY <2>1, <2>2 DEF Argument
  <2>4. /\ DOMAIN With(setting, a.var, a.value) \subseteq Var
        /\ DOMAIN With(appending, a.var, a.value) \subseteq Var
    BY <2>3 DEF With
  <2> QED
    BY <2>1, <2>2, <2>4
<1>5. CASE CheckUsage
  BY <1>1, <1>5 DEF CheckUsage
<1>6. CASE Refuse
  BY <1>1, <1>6 DEF Refuse, Reads
<1>7. CASE EndOfArguments \/ AllSet \/ AllAppended \/ SetenvFails
  BY <1>1, <1>7 DEF EndOfArguments, AllSet, AllAppended, SetenvFails
<1>8. CASE SetVariable \/ AppendVariable
  BY <1>8 DEF SetVariable, AppendVariable, Without
<1>9. CASE Fork \/ Exec \/ CommandEnds
  BY <1>9 DEF Fork, Exec, CommandEnds, Becomes
<1>10. CASE Throws
  BY <1>10 DEF Throws
<1>11. CASE Wait
  <2>1. /\ child.is = "exited" => child.code \in 0 .. 255
        /\ child.is = "killed" => child.code \in 1 .. 64
    BY CodesAssumption DEF RunnerInv, Followed, ChildState
  <2>2. status' \in 0 .. 255
    BY <1>11, <2>1, StatusIsByte DEF Wait
  <2> QED
    BY <1>11, <2>2 DEF Wait
<1>12. CASE UNCHANGED vars
  BY <1>12 DEF vars
<1> QED
  BY <1>0, <1>2, <1>3, <1>4, <1>5, <1>6, <1>7, <1>8, <1>9, <1>10, <1>11, <1>12
     DEF Next, Works

(* Every value the runner and the configuration keep is of its type: the    *)
(* environment has the variables it had, and the exit status is a byte      *)
(* (execute_process.hpp:132).                                               *)
THEOREM PackageTypeCorrect == PackageSpec => []PackageTypeOK
<1> DEFINE IInv == /\ RunnerInv /\ RunnerTypeInv
                   /\ SelectInv /\ SelectTypeInv
                   /\ added \in Tests \union {NoTest}
<1>1. PackageInit => IInv
  BY InitRunnerInv, InitRunnerTypeInv, InitSelectInv, InitSelectTypeInv DEF
     PackageInit
<1>2. IInv /\ [PackageNext]_packageVars => IInv'
  <2> SUFFICES ASSUME IInv, [PackageNext]_packageVars PROVE IInv'
    OBVIOUS
  <2>1. added' \in Tests \union {NoTest}
    BY DEF PackageNext, Configures, AddTest, RunnerStarts, RunnerWorks,
       RunnerFails, packageVars
  <2> QED
    BY <2>1, PackageStepsBoth, StepRunnerInv, StepRunnerTypeInv, StepSelectInv,
       StepSelectTypeInv
<1>3. IInv => PackageTypeOK
  BY DEF PackageTypeOK, TypeOK, RunnerInv, Followed, Before, RunnerTypeInv,
     SelectTypeInv
<1> QED
  BY <1>1, <1>2, <1>3, PTL DEF PackageSpec

-----------------------------------------------------------------------------
(* The lists that add_test() is given have no "--" of their own: ENV and    *)
(* APPEND_ENV are "listed as VAR=value" (add_test.cmake:32-35).  One that   *)
(* has would end the runner's arguments before add_test() does.             *)
Unmarked(list) == \A i \in 1 .. Len(list) : list[i].is # "--"

ListsUnmarked == \A t \in Tests : Unmarked(t.env) /\ Unmarked(t.append)

(* What is left of a command line: the runner's own arguments, the "--" and *)
(* all of the command c, which is where n says.                             *)
MarkedAt(list, n, c) ==
  /\ n \in 1 .. Len(list)
  /\ Len(list) = n + Len(c)
  /\ list[n].is = "--"
  /\ \A i \in 1 .. n - 1 : list[i].is # "--"
  /\ \A i \in 1 .. Len(c) : list[n + i] = c[i]

(* What was taken and what is left are the command.                         *)
Parts(taken, left, c) ==
  /\ Len(taken) + Len(left) = Len(c)
  /\ \A i \in 1 .. Len(taken) : taken[i] = c[i]
  /\ \A i \in 1 .. Len(left) : left[i] = c[Len(taken) + i]

VerbatimInv ==
  /\ test \in Tests \union {NoTest}
  /\ args \in Seq(Argument)
  /\ command \in Seq(Argument)
  /\ pc = "none" => mode = "none" /\ command = <<>> /\ test = NoTest
  /\ pc = "usage" => mode # "command"
  /\ test # NoTest /\ pc \in {"usage", "parse"} =>
       IF mode = "command"
         THEN Parts(command, args, test.command)
         ELSE command = <<>> /\ \E n \in Nat : MarkedAt(args, n, test.command)
  /\ test # NoTest /\ pc \in {"set", "append", "fork", "wait"} =>
       command = test.command
  /\ RunsItsCommand

LEMMA InitVerbatimInv == Init => VerbatimInv
<1> HIDE DEF Argument
<1> QED
  BY DEF Init, VerbatimInv, RunsItsCommand

(* Two lists without a "--" make one.                                        *)
LEMMA UnmarkedJoin ==
  ASSUME NEW a \in Seq(Argument), NEW b \in Seq(Argument),
         Unmarked(a), Unmarked(b)
  PROVE  a \o b \in Seq(Argument) /\ Unmarked(a \o b)
<1> HIDE DEF Argument
<1>1. /\ Len(a) \in Nat /\ Len(b) \in Nat /\ a \o b \in Seq(Argument)
      /\ Len(a \o b) = Len(a) + Len(b)
      /\ \A i \in 1 .. Len(a) : (a \o b)[i] = a[i]
      /\ \A i \in 1 .. Len(b) : (a \o b)[Len(a) + i] = b[i]
  OBVIOUS
<1>2. ASSUME NEW i \in 1 .. Len(a \o b) PROVE (a \o b)[i].is # "--"
  <2>1. CASE i <= Len(a)
    BY <1>1, <2>1 DEF Unmarked
  <2>2. CASE i > Len(a)
    <3>1. i - Len(a) \in 1 .. Len(b) /\ Len(a) + (i - Len(a)) = i
      BY <1>1, <2>2
    <3>2. (a \o b)[i] = b[i - Len(a)]
      BY <1>1, <3>1
    <3> QED
      BY <3>1, <3>2 DEF Unmarked
  <2> QED
    BY <1>1, <2>1, <2>2
<1> QED
  BY <1>1, <1>2 DEF Unmarked

(* The flag before a list is no "--".                                        *)
LEMMA FlaggedUnmarked ==
  ASSUME NEW flag \in {"--env", "--append-env"}, NEW list \in Seq(Argument),
         Unmarked(list)
  PROVE  Unmarked(Flagged(flag, list))
<1>1. Looks(flag) \in Argument /\ Looks(flag).is # "--"
  BY DEF Looks, Argument
<1> HIDE DEF Argument
<1>2. CASE list = <<>>
  BY <1>2 DEF Flagged, Unmarked
<1>3. CASE list # <<>>
  <2>1. <<Looks(flag)>> \in Seq(Argument) /\ Unmarked(<<Looks(flag)>>)
    BY <1>1 DEF Unmarked
  <2> QED
    BY <1>3, <2>1, UnmarkedJoin DEF Flagged
<1> QED
  BY <1>2, <1>3

(* Nor is a library directory one.                                           *)
LEMMA DirsUnmarked ==
  ASSUME NEW dirs \in Seq(Element) PROVE Unmarked(LibraryDirs(dirs))
BY DirsAreList DEF Unmarked, LibraryDirs, Pair

(* The command line of a test has its command, whole and last.              *)
LEMMA WrapperKeepsCommand ==
  ASSUME ListsUnmarked, NEW t \in Tests
  PROVE  \E n \in Nat : MarkedAt(CmdWrapper(t), n, t.command)
<1>1. /\ t.env \in Seq(Argument) /\ t.append \in Seq(Argument)
      /\ t.dirs \in Seq(Element) /\ t.command \in Seq(Argument)
      /\ Unmarked(t.env) /\ Unmarked(t.append)
  BY ArgumentsAssumption DEF ListsUnmarked
<1>2. Looks("--") \in Argument /\ Looks("--").is = "--"
  BY DEF Looks, Argument
<1> HIDE DEF Argument
<1> DEFINE x == AppendEnv(t)
           a == Flagged("--env", t.env)
           b == Flagged("--append-env", x)
<1>3. x \in Seq(Argument) /\ Unmarked(x)
  BY <1>1, DirsAreList, DirsUnmarked, UnmarkedJoin DEF AppendEnv
<1> HIDE DEF x
<1>4. /\ a \in Seq(Argument) /\ Unmarked(a)
      /\ b \in Seq(Argument) /\ Unmarked(b)
  BY <1>1, <1>3, FlaggedIsList, FlaggedUnmarked
<1>5. CmdWrapper(t) = ((a \o b) \o <<Looks("--")>>) \o t.command
  BY DEF CmdWrapper, x
<1> HIDE DEF a, b
<1> DEFINE c == a \o b
           n == Len(c) + 1
           d == c \o <<Looks("--")>>
<1>6. c \in Seq(Argument) /\ Unmarked(c) /\ Len(c) \in Nat
  BY <1>4, UnmarkedJoin
<1> HIDE DEF c
<1>7. /\ d \in Seq(Argument) /\ Len(d) = n /\ d[n] = Looks("--")
      /\ \A i \in 1 .. n - 1 : d[i] = c[i]
  BY <1>2, <1>6
<1>8. n \in Nat /\ n > 0 /\ \A i \in 1 .. n - 1 : d[i].is # "--"
  BY <1>6, <1>7 DEF Unmarked
<1> HIDE DEF d, n
<1>9. /\ Len(d \o t.command) = n + Len(t.command) /\ Len(t.command) \in Nat
      /\ \A i \in 1 .. n : (d \o t.command)[i] = d[i]
      /\ \A i \in 1 .. Len(t.command) : (d \o t.command)[n + i] = t.command[i]
  <2>1. d \in Seq(Argument) /\ t.command \in Seq(Argument)
    BY <1>1, <1>7
  <2>2. /\ Len(d \o t.command) = Len(d) + Len(t.command) /\ Len(t.command) \in Nat
        /\ \A i \in 1 .. Len(d) : (d \o t.command)[i] = d[i]
        /\ \A i \in 1 .. Len(t.command) :
             (d \o t.command)[Len(d) + i] = t.command[i]
    BY <2>1
  <2> QED
    BY <1>7, <2>2
<1>10. MarkedAt(d \o t.command, n, t.command)
  BY <1>2, <1>7, <1>8, <1>9 DEF MarkedAt
<1> QED
  BY <1>5, <1>8, <1>10 DEF c, d

(* Reading one of the runner's own arguments, or the "--".                  *)
LEMMA ReadsOwn ==
  ASSUME args \in Seq(Argument), args # <<>>, args' = Tail(args),
         NEW c \in Seq(Argument), NEW n \in Nat, MarkedAt(args, n, c)
  PROVE  IF args[1].is = "--"
           THEN Parts(<<>>, args', c)
           ELSE \E m \in Nat : MarkedAt(args', m, c)
<1> HIDE DEF Argument
<1>1. /\ Len(args) \in Nat /\ Len(args) > 0 /\ Len(c) \in Nat
      /\ Len(args') = Len(args) - 1
      /\ \A j \in 1 .. Len(args) - 1 : args'[j] = args[j + 1]
  OBVIOUS
<1>2. CASE args[1].is = "--"
  <2>1. n = 1
    BY <1>1, <1>2 DEF MarkedAt
  <2>2. \A i \in 1 .. Len(c) : args'[i] = c[i]
    BY <1>1, <2>1 DEF MarkedAt
  <2> QED
    BY <1>1, <1>2, <2>1, <2>2 DEF MarkedAt, Parts
<1>3. CASE args[1].is # "--"
  <2> DEFINE m == n - 1
  <2>1. n # 1
    BY <1>3 DEF MarkedAt
  <2>2. m \in Nat /\ m \in 1 .. Len(args') /\ Len(args') = m + Len(c)
    BY <1>1, <2>1 DEF MarkedAt
  <2>3. args'[m].is = "--" /\ \A i \in 1 .. m - 1 : args'[i].is # "--"
    BY <1>1, <2>1 DEF MarkedAt
  <2>4. \A i \in 1 .. Len(c) : args'[m + i] = c[i]
    <3> TAKE i \in 1 .. Len(c)
    <3>1. m + i \in 1 .. Len(args) - 1 /\ m + i + 1 = n + i
      BY <1>1, <2>1 DEF MarkedAt
    <3> QED
      BY <1>1, <3>1 DEF MarkedAt
  <2> HIDE DEF m
  <2>5. MarkedAt(args', m, c)
    BY <2>2, <2>3, <2>4 DEF MarkedAt
  <2> QED
    BY <1>3, <2>2, <2>5
<1> QED
  BY <1>2, <1>3

(* Reading one argument of the command.                                     *)
LEMMA ReadsCommand ==
  ASSUME args \in Seq(Argument), args # <<>>, args' = Tail(args),
         command \in Seq(Argument), command' = Append(command, Head(args)),
         NEW c \in Seq(Argument), Parts(command, args, c)
  PROVE  Parts(command', args', c)
<1> HIDE DEF Argument
<1> DEFINE k == Len(command)
<1>1. /\ Len(args) \in Nat /\ Len(args) > 0 /\ k \in Nat /\ Len(c) \in Nat
      /\ Len(args') = Len(args) - 1
      /\ \A j \in 1 .. Len(args) - 1 : args'[j] = args[j + 1]
      /\ Len(command') = k + 1 /\ command'[k + 1] = args[1]
      /\ \A j \in 1 .. k : command'[j] = command[j]
  OBVIOUS
<1>2. /\ k + Len(args) = Len(c)
      /\ \A i \in 1 .. k : command[i] = c[i]
      /\ \A i \in 1 .. Len(args) : args[i] = c[k + i]
  BY DEF Parts
<1> HIDE DEF k
<1>3. \A i \in 1 .. k + 1 : command'[i] = c[i]
  BY <1>1, <1>2
<1>4. \A i \in 1 .. Len(args) - 1 : args'[i] = c[k + 1 + i]
  <2> TAKE i \in 1 .. Len(args) - 1
  <2>1. i + 1 \in 1 .. Len(args) /\ k + (i + 1) = k + 1 + i
    BY <1>1
  <2> QED
    BY <1>1, <1>2, <2>1
<1> QED
  BY <1>1, <1>2, <1>3, <1>4 DEF Parts

(* Where nothing is left, all was taken.                                    *)
LEMMA AllTaken ==
  ASSUME NEW taken \in Seq(Argument), NEW c \in Seq(Argument),
         Parts(taken, <<>>, c)
  PROVE  taken = c
<1> HIDE DEF Argument
<1>1. Len(taken) = Len(c) /\ \A i \in 1 .. Len(taken) : taken[i] = c[i]
  BY DEF Parts
<1> QED
  BY <1>1

(* VerbatimInv is inductive, where the lists have no "--".                   *)
LEMMA StepVerbatimInv ==
  ListsUnmarked /\ RunnerInv /\ VerbatimInv /\ [Next]_vars => VerbatimInv'
<1> SUFFICES ASSUME ListsUnmarked, RunnerInv, VerbatimInv, [Next]_vars
             PROVE  VerbatimInv'
  OBVIOUS
<1> HIDE DEF Argument
<1>0. ASSUME test # NoTest PROVE test.command \in Seq(Argument)
  BY <1>0, ArgumentsAssumption DEF VerbatimInv
<1>1. ASSUME UNCHANGED <<test, args, mode, command>>,
             \/ pc = "usage" /\ pc' = "parse" /\ child' = child
             \/ pc' \in {pc, "exited"} /\ child' = child
             \/ pc \in {"set", "append"} /\ pc' \in {"append", "fork"} /\ child' = child
             \/ pc \in {"fork", "wait"} /\ pc' = "wait"
      PROVE  VerbatimInv'
  BY <1>1 DEF VerbatimInv, Parts, MarkedAt, RunsItsCommand
<1>2. CASE CheckUsage \/ AllSet \/ AllAppended \/ SetVariable \/ AppendVariable
  BY <1>1, <1>2 DEF CheckUsage, AllSet, AllAppended, SetVariable,
     AppendVariable, Exit, Jump
<1>3. CASE SetenvFails \/ Throws \/ Wait \/ Fork
  BY <1>1, <1>3 DEF SetenvFails, Throws, Wait, Fork, Becomes, Exit, Jump
<1>4. CASE Exec \/ CommandEnds
  <2>1. pc = "wait"
    BY <1>4 DEF Exec, CommandEnds, RunnerInv, Followed
  <2> QED
    BY <1>1, <1>4, <2>1 DEF Exec, CommandEnds, Becomes
<1>5. CASE Refuse
  BY <1>1, <1>5 DEF Refuse, Reads, Exit
<1>6. CASE UNCHANGED vars
  BY <1>1, <1>6 DEF vars
<1>7. CASE Starts
  <2>1. /\ pc = "none" /\ pc' = "usage" /\ UNCHANGED <<mode, command, child>>
        /\ \/ test' \in Tests /\ args' = CmdWrapper(test')
           \/ test' = NoTest /\ args' \in Direct
    BY <1>7 DEF Starts
  <2>2. child.is = "none"
    BY <2>1 DEF RunnerInv, Followed, Before
  <2>3. CASE test' \in Tests /\ args' = CmdWrapper(test')
    <3>1. args' \in Seq(Argument)
      BY <2>3, WrapperIsList
    <3>2. \E n \in Nat : MarkedAt(args', n, test'.command)
      BY <2>3, WrapperKeepsCommand
    <3> QED
      BY <2>1, <2>2, <2>3, <3>1, <3>2 DEF VerbatimInv, RunsItsCommand
  <2>4. CASE test' = NoTest /\ args' \in Direct
    <3>1. args' \in Seq(Argument)
      BY <2>4, ArgumentsAssumption
    <3> QED
      BY <2>1, <2>2, <2>4, <3>1 DEF VerbatimInv, RunsItsCommand
  <2> QED
    BY <2>1, <2>3, <2>4
<1>8. ASSUME NEW a, Reads(a), args' = Tail(args)
      PROVE  /\ args' \in Seq(Argument) /\ a = args[1] /\ args # <<>>
             /\ pc = "parse" /\ UNCHANGED <<test, child>>
             /\ child.is = "none"
  BY <1>8, ReadStep DEF Reads, VerbatimInv, RunnerInv, Followed, Before
<1>9. CASE TakeCommand
  <2>1. PICK a \in ToSet(args) :
          /\ Reads(a) /\ args' = Tail(args) /\ mode = "command"
          /\ command' = Append(command, a) /\ UNCHANGED <<pc, mode>>
    BY <1>9 DEF TakeCommand
  <2>2. a \in Argument /\ a = Head(args)
    BY <2>1, ReadStep DEF VerbatimInv, Reads
  <2>3. command' \in Seq(Argument)
    BY <2>1, <2>2 DEF VerbatimInv
  <2>4. test # NoTest => Parts(command', args', test.command)
    BY <1>0, <1>8, <2>1, <2>2, ReadsCommand DEF VerbatimInv
  <2> QED
    BY <1>8, <2>1, <2>3, <2>4 DEF VerbatimInv, RunsItsCommand
<1>10. ASSUME NEW a, Reads(a), args' = Tail(args), mode # "command",
              mode' = "command" <=> a.is = "--", UNCHANGED <<pc, command>>
       PROVE  VerbatimInv'
  <2>1. ASSUME test # NoTest
        PROVE  /\ command = <<>>
               /\ IF a.is = "--"
                    THEN Parts(<<>>, args', test.command)
                    ELSE \E n \in Nat : MarkedAt(args', n, test.command)
    <3>1. PICK n \in Nat : MarkedAt(args, n, test.command)
      BY <1>8, <1>10, <2>1 DEF VerbatimInv
    <3> QED
      BY <1>0, <1>8, <1>10, <2>1, <3>1, ReadsOwn DEF VerbatimInv
  <2> QED
    BY <1>8, <1>10, <2>1 DEF VerbatimInv, RunsItsCommand
<1>11. CASE ChangeMode
  <2>1. PICK a \in ToSet(args) :
          /\ Reads(a) /\ args' = Tail(args) /\ mode # "command"
          /\ a.is \in DOMAIN Modes /\ mode' = Modes[a.is] /\ UNCHANGED <<pc, command>>
    BY <1>11 DEF ChangeMode
  <2>2. mode' = "command" <=> a.is = "--"
    BY <2>1 DEF Modes
  <2> QED
    BY <1>10, <2>1, <2>2
<1>12. CASE TakePair
  <2>1. PICK a \in ToSet(args) :
          /\ Reads(a) /\ args' = Tail(args) /\ mode # "command" /\ a.is = "pair"
          /\ UNCHANGED <<pc, mode, command>>
    BY <1>12 DEF TakePair
  <2> QED
    BY <1>10, <2>1
<1>13. CASE EndOfArguments
  <2>1. args = <<>> /\ pc = "parse" /\ pc' = "set"
        /\ UNCHANGED <<test, args, mode, command, child>>
    BY <1>13 DEF EndOfArguments, Jump
  <2>2. ASSUME test # NoTest PROVE command = test.command
    <3>1. ~\E n \in Nat : MarkedAt(args, n, test.command)
      BY <2>1 DEF MarkedAt
    <3>2. Parts(command, <<>>, test.command)
      BY <2>1, <2>2, <3>1 DEF VerbatimInv
    <3> QED
      BY <1>0, <2>2, <3>2, AllTaken DEF VerbatimInv
  <2>3. child.is = "none"
    BY <2>1 DEF RunnerInv, Followed, Before
  <2> QED
    BY <2>1, <2>2, <2>3 DEF VerbatimInv, RunsItsCommand
<1> QED
  BY <1>2, <1>3, <1>4, <1>5, <1>6, <1>7, <1>9, <1>11, <1>12, <1>13 DEF Next,
     Works

(* The command that runs is the test's own, with all its arguments and      *)
(* those only, whatever they look like (main.cpp:69).                       *)
THEOREM TestsRunTheirCommand == ListsUnmarked => (Spec => []RunsItsCommand)
<1> SUFFICES ASSUME ListsUnmarked PROVE Spec => []RunsItsCommand
  OBVIOUS
<1>1. VerbatimInv => RunsItsCommand
  BY DEF VerbatimInv
<1>2. RunnerInv /\ VerbatimInv /\ [Next]_vars => VerbatimInv'
  BY StepVerbatimInv
<1> QED
  BY <1>1, <1>2, InitRunnerInv, StepRunnerInv, InitVerbatimInv, PTL DEF Spec

-----------------------------------------------------------------------------
(* Lists of VAR=VALUE have none of the runner's flags in them, and what is  *)
(* appended has every variable once, the library directory's included.      *)
Plain(list) == \A i \in 1 .. Len(list) : list[i].is \notin DOMAIN Modes

ListsPlain == \A t \in Tests : Plain(t.env) /\ Plain(t.append)

AppendedOnce ==
  \A t \in Tests, v \in Var :
    \A i, j \in GivenAt(AppendEnv(t), v) : i = j

(* What a fold over nothing, and over one, comes to.                        *)
LEMMA AskedNone ==
  ASSUME NEW t, NEW b, NEW v, GivenAt(AppendEnv(t), v) = {}
  PROVE  Asked(t, b, v) = Assigned(t, b, v)
<1> DEFINE Value(j) == AppendEnv(t)[j].value
           Step(f) == [s \in SUBSET {} |->
                         IF s = {} THEN Assigned(t, b, v)
                         ELSE Joined(f[s \ {Max(s)}], Value(Max(s)))]
           join == CHOOSE f : f = Step(f)
           all  == [s \in SUBSET {} |-> Assigned(t, b, v)]
<1>1. join[{}] = Assigned(t, b, v)
  <2>1. all = Step(all)
    OBVIOUS
  <2> QED
    BY <2>1
<1>2. Asked(t, b, v) = join[{}]
  BY DEF Asked, MapThenFoldSet
<1> QED
  BY <1>1, <1>2

LEMMA MaxOfOne == ASSUME NEW i \in Nat PROVE Max({i}) = i
BY DEF Max

(* One value to be appended is appended once.                                *)
LEMMA AskedOne ==
  ASSUME NEW t, NEW b, NEW v, NEW i \in Nat, GivenAt(AppendEnv(t), v) = {i}
  PROVE  Asked(t, b, v) = Joined(Assigned(t, b, v), AppendEnv(t)[i].value)
<1> DEFINE Value(j) == AppendEnv(t)[j].value
           sets == SUBSET {i}
           Step(f) == [s \in sets |->
                         IF s = {} THEN Assigned(t, b, v)
                         ELSE Joined(f[s \ {Max(s)}], Value(Max(s)))]
           join == CHOOSE f : f = Step(f)
           all  == [s \in sets |-> IF s = {} THEN Assigned(t, b, v)
                                   ELSE Joined(Assigned(t, b, v), Value(i))]
<1>1. \A s \in sets : s = {} \/ s = {i}
  OBVIOUS
<1>2. all = Step(all)
  <2> SUFFICES ASSUME NEW s \in sets
               PROVE  all[s] = IF s = {} THEN Assigned(t, b, v)
                               ELSE Joined(all[s \ {Max(s)}], Value(Max(s)))
    OBVIOUS
  <2>1. CASE s = {}
    BY <2>1
  <2>2. CASE s = {i}
    <3>1. Max(s) = i /\ s \ {i} = {} /\ {} \in sets /\ s # {}
      BY <2>2, MaxOfOne
    <3> QED
      BY <2>2, <3>1
  <2> QED
    BY <1>1, <2>1, <2>2
<1> HIDE DEF all, Value
<1>3. join = Step(join)
  BY <1>2
<1> HIDE DEF join
<1>4. join[{i}] = Joined(Assigned(t, b, v), Value(i))
  <2>1. join[{}] = Assigned(t, b, v)
    BY <1>3
  <2>2. Max({i}) = i /\ {i} \ {i} = {} /\ {i} # {}
    BY MaxOfOne
  <2>3. join[{i}] = Joined(join[{i} \ {Max({i})}], Value(Max({i})))
    BY <1>3, <2>2
  <2> QED
    BY <2>1, <2>2, <2>3
<1>5. Asked(t, b, v) = join[{i}]
  BY DEF Asked, MapThenFoldSet, join, Value
<1> QED
  BY <1>4, <1>5 DEF Value

(* What reading the first k of a list of pairs leaves: every variable has   *)
(* the last value that was read for it.                                     *)
ReadOf(f, list, k) ==
  /\ \A i \in 1 .. k : list[i].is = "pair" /\ list[i].var \in DOMAIN f
  /\ \A v \in DOMAIN f : \E i \in 1 .. k :
       /\ list[i].var = v /\ f[v] = list[i].value
       /\ \A j \in i + 1 .. k : list[j].var # v

LEMMA ReadOfNone == ASSUME NEW list PROVE ReadOf(<<>>, list, 0)
BY DEF ReadOf

(* Reading one more pair.                                                    *)
LEMMA ReadOfNext ==
  ASSUME NEW f, NEW list, NEW k \in Nat, ReadOf(f, list, k),
         list[k + 1].is = "pair"
  PROVE  ReadOf(With(f, list[k + 1].var, list[k + 1].value), list, k + 1)
<1> DEFINE w == list[k + 1].var
           g == With(f, w, list[k + 1].value)
<1>1. /\ DOMAIN g = DOMAIN f \union {w} /\ g[w] = list[k + 1].value
      /\ \A v \in DOMAIN f \ {w} : g[v] = f[v]
  BY DEF With
<1> HIDE DEF g
<1>2. \A i \in 1 .. k + 1 : list[i].is = "pair" /\ list[i].var \in DOMAIN g
  <2> TAKE i \in 1 .. k + 1
  <2>1. i \in 1 .. k \/ i = k + 1
    OBVIOUS
  <2> QED
    BY <1>1, <2>1 DEF ReadOf
<1>3. ASSUME NEW v \in DOMAIN g
      PROVE  \E i \in 1 .. k + 1 :
               /\ list[i].var = v /\ g[v] = list[i].value
               /\ \A j \in i + 1 .. k + 1 : list[j].var # v
  <2>1. CASE v = w
    <3>1. k + 1 \in 1 .. k + 1 /\ \A j \in (k + 1) + 1 .. k + 1 : FALSE
      OBVIOUS
    <3> QED
      BY <1>1, <2>1, <3>1
  <2>2. CASE v # w
    <3>1. v \in DOMAIN f /\ g[v] = f[v]
      BY <1>1, <2>2
    <3>2. PICK i \in 1 .. k : /\ list[i].var = v /\ f[v] = list[i].value
                              /\ \A j \in i + 1 .. k : list[j].var # v
      BY <3>1 DEF ReadOf
    <3>3. \A j \in i + 1 .. k + 1 : j \in i + 1 .. k \/ j = k + 1
      OBVIOUS
    <3> QED
      BY <2>2, <3>1, <3>2, <3>3
  <2> QED
    BY <2>1, <2>2
<1> QED
  BY <1>2, <1>3 DEF ReadOf, g

(* Having read a whole list.                                                 *)
LEMMA ReadOfAll ==
  ASSUME NEW f, NEW list \in Seq(Argument), ReadOf(f, list, Len(list)), NEW v
  PROVE  LET given == GivenAt(list, v) IN
         /\ v \in DOMAIN f <=> given # {}
         /\ v \in DOMAIN f => Max(given) \in given /\ f[v] = list[Max(given)].value
<1> HIDE DEF Argument
<1> DEFINE given == GivenAt(list, v)
<1>1. Len(list) \in Nat /\ DOMAIN list = 1 .. Len(list)
  OBVIOUS
<1>2. given = {i \in 1 .. Len(list) : list[i].var = v}
  BY <1>1 DEF GivenAt, ReadOf
<1>3. given # {} => v \in DOMAIN f
  BY <1>2 DEF ReadOf
<1>4. ASSUME v \in DOMAIN f
      PROVE  Max(given) \in given /\ f[v] = list[Max(given)].value
  <2>1. PICK i \in 1 .. Len(list) :
          /\ list[i].var = v /\ f[v] = list[i].value
          /\ \A j \in i + 1 .. Len(list) : list[j].var # v
    BY <1>4 DEF ReadOf
  <2>2. i \in given /\ \A j \in given : i >= j
    BY <1>1, <1>2, <2>1
  <2>3. \A j \in given : j \in Nat
    BY <1>2
  <2> HIDE DEF given
  <2>4. Max(given) \in given /\ Max(given) >= i
    BY <2>2 DEF Max
  <2>5. Max(given) = i
    <3>1. Max(given) \in Nat /\ i >= Max(given)
      BY <2>2, <2>3, <2>4
    <3> QED
      BY <2>4, <3>1
  <2> QED
    BY <2>1, <2>2, <2>5
<1> QED
  BY <1>3, <1>4

-----------------------------------------------------------------------------
(* Where the parts of two lists are in the list of both.                    *)
LEMMA JoinedParts ==
  ASSUME NEW a \in Seq(Argument), NEW b \in Seq(Argument)
  PROVE  /\ Len(a) \in Nat /\ Len(b) \in Nat
         /\ a \o b \in Seq(Argument) /\ Len(a \o b) = Len(a) + Len(b)
         /\ \A i \in 1 .. Len(a) : (a \o b)[i] = a[i]
         /\ \A i \in 1 .. Len(b) : (a \o b)[Len(a) + i] = b[i]
<1> HIDE DEF Argument
<1> QED
  OBVIOUS

(* Where ENV, and what is appended, end on the command line of t.           *)
PartLen(list) == IF list = <<>> THEN 0 ELSE Len(list) + 1
EnvEnd(t)     == PartLen(t.env)
AppendEnd(t)  == EnvEnd(t) + PartLen(AppendEnv(t))

Layout(w, t) ==
  /\ w \in Seq(Argument)
  /\ Len(w) = AppendEnd(t) + 1 + Len(t.command)
  /\ EnvEnd(t) # 0 => w[1] = Looks("--env")
  /\ \A i \in 1 .. Len(t.env) : w[1 + i] = t.env[i]
  /\ AppendEnd(t) # EnvEnd(t) => w[EnvEnd(t) + 1] = Looks("--append-env")
  /\ \A i \in 1 .. Len(AppendEnv(t)) : w[EnvEnd(t) + 1 + i] = AppendEnv(t)[i]
  /\ w[AppendEnd(t) + 1] = Looks("--")

(* A list that is there follows its flag.                                   *)
LEMMA FlaggedLayout ==
  ASSUME NEW flag \in {"--env", "--append-env"}, NEW list \in Seq(Argument)
  PROVE  LET f == Flagged(flag, list) IN
         /\ PartLen(list) \in Nat /\ Len(list) \in Nat
         /\ Len(f) = PartLen(list)
         /\ PartLen(list) # 0 => PartLen(list) = Len(list) + 1 /\ f[1] = Looks(flag)
         /\ PartLen(list) = 0 => Len(list) = 0
         /\ \A i \in 1 .. Len(list) : f[1 + i] = list[i]
<1>1. Looks(flag) \in Argument
  BY DEF Looks, Argument
<1> HIDE DEF Argument
<1>2. Len(list) \in Nat
  OBVIOUS
<1>3. CASE list = <<>>
  BY <1>2, <1>3 DEF Flagged, PartLen
<1>4. CASE list # <<>>
  <2> DEFINE mark == <<Looks(flag)>>
  <2>1. mark \in Seq(Argument) /\ Len(mark) = 1 /\ mark[1] = Looks(flag)
    BY <1>1
  <2> HIDE DEF mark
  <2>2. /\ Len(mark \o list) = 1 + Len(list)
        /\ (mark \o list)[1] = Looks(flag)
        /\ \A i \in 1 .. Len(list) : (mark \o list)[1 + i] = list[i]
    <3>1. /\ Len(mark \o list) = Len(mark) + Len(list)
          /\ \A i \in 1 .. Len(mark) : (mark \o list)[i] = mark[i]
          /\ \A i \in 1 .. Len(list) : (mark \o list)[Len(mark) + i] = list[i]
      BY <2>1, JoinedParts
    <3> QED
      BY <2>1, <3>1
  <2> QED
    BY <1>2, <1>4, <2>2 DEF Flagged, PartLen, mark
<1> QED
  BY <1>3, <1>4

(* The command line that add_test() builds (add_test.cmake:70-91).          *)
LEMMA WrapperLayout ==
  ASSUME NEW t \in Tests PROVE Layout(CmdWrapper(t), t)
<1>1. /\ t.env \in Seq(Argument) /\ AppendEnv(t) \in Seq(Argument)
      /\ t.command \in Seq(Argument)
  BY ArgumentsAssumption, AppendEnvIsList
<1>2. Looks("--") \in Argument
  BY DEF Looks, Argument
<1> HIDE DEF Argument
<1> DEFINE a == Flagged("--env", t.env)
           b == Flagged("--append-env", AppendEnv(t))
           m == <<Looks("--")>>
           c == t.command
<1>3. /\ a \in Seq(Argument) /\ b \in Seq(Argument) /\ m \in Seq(Argument)
      /\ Len(m) = 1 /\ m[1] = Looks("--")
  BY <1>1, <1>2, FlaggedIsList
<1>4. /\ Len(a) = EnvEnd(t) /\ EnvEnd(t) \in Nat /\ Len(t.env) \in Nat
      /\ EnvEnd(t) # 0 => EnvEnd(t) = Len(t.env) + 1 /\ a[1] = Looks("--env")
      /\ EnvEnd(t) = 0 => Len(t.env) = 0
      /\ \A i \in 1 .. Len(t.env) : a[1 + i] = t.env[i]
  BY <1>1, FlaggedLayout DEF EnvEnd
<1> DEFINE p == PartLen(AppendEnv(t))
           k == Len(AppendEnv(t))
<1>5. /\ Len(b) = p /\ p \in Nat /\ k \in Nat
      /\ p # 0 => p = k + 1 /\ b[1] = Looks("--append-env")
      /\ p = 0 => k = 0
      /\ \A i \in 1 .. k : b[1 + i] = AppendEnv(t)[i]
  BY <1>1, FlaggedLayout
<1>6. CmdWrapper(t) = ((a \o b) \o m) \o c
  BY DEF CmdWrapper
<1> DEFINE e == EnvEnd(t)
           x == a \o b
           y == x \o m
           w == y \o c
<1> HIDE DEF a, b, m
<1>7. /\ x \in Seq(Argument) /\ Len(x) = e + p
      /\ \A i \in 1 .. e : x[i] = a[i]
      /\ \A i \in 1 .. p : x[e + i] = b[i]
  <2>1. /\ x \in Seq(Argument) /\ Len(x) = Len(a) + Len(b)
        /\ \A i \in 1 .. Len(a) : x[i] = a[i]
        /\ \A i \in 1 .. Len(b) : x[Len(a) + i] = b[i]
    BY <1>3, JoinedParts
  <2> QED
    BY <1>4, <1>5, <2>1
<1> HIDE DEF x
<1>8. /\ y \in Seq(Argument) /\ Len(y) = e + p + 1
      /\ \A i \in 1 .. e + p : y[i] = x[i]
      /\ y[e + p + 1] = Looks("--")
  <2>1. /\ y \in Seq(Argument) /\ Len(y) = Len(x) + Len(m)
        /\ \A i \in 1 .. Len(x) : y[i] = x[i]
        /\ \A i \in 1 .. Len(m) : y[Len(x) + i] = m[i]
    BY <1>3, <1>7, JoinedParts
  <2> QED
    BY <1>3, <1>7, <2>1
<1> HIDE DEF y
<1>9. /\ w \in Seq(Argument) /\ Len(w) = e + p + 1 + Len(c)
      /\ \A i \in 1 .. e + p + 1 : w[i] = y[i]
  <2>1. /\ w \in Seq(Argument) /\ Len(w) = Len(y) + Len(c)
        /\ \A i \in 1 .. Len(y) : w[i] = y[i]
    BY <1>1, <1>8, JoinedParts
  <2> QED
    BY <1>8, <2>1
<1> HIDE DEF w, c, e, p, k
<1>10. e \in Nat /\ p \in Nat /\ k \in Nat /\ Len(t.env) \in Nat
  BY <1>4, <1>5 DEF e
<1>11. /\ \A i \in 1 .. e : w[i] = a[i]
       /\ \A i \in 1 .. p : w[e + i] = b[i]
       /\ w[e + p + 1] = Looks("--")
  <2>1. \A i \in 1 .. e : i \in 1 .. e + p /\ i \in 1 .. e + p + 1
    BY <1>10
  <2>2. \A i \in 1 .. p : e + i \in 1 .. e + p /\ e + i \in 1 .. e + p + 1
    BY <1>10
  <2>3. e + p + 1 \in 1 .. e + p + 1
    BY <1>10
  <2> QED
    BY <1>7, <1>8, <1>9, <2>1, <2>2, <2>3
<1>12. /\ e # 0 => w[1] = Looks("--env")
       /\ \A i \in 1 .. Len(t.env) : w[1 + i] = t.env[i]
  <2>1. e # 0 => 1 \in 1 .. e
    BY <1>10
  <2>2. \A i \in 1 .. Len(t.env) : 1 + i \in 1 .. e
    BY <1>4, <1>10 DEF e
  <2> QED
    BY <1>4, <1>11, <2>1, <2>2 DEF e
<1>13. /\ p # 0 => w[e + 1] = Looks("--append-env")
       /\ \A i \in 1 .. k : w[e + 1 + i] = AppendEnv(t)[i]
  <2>1. p # 0 => 1 \in 1 .. p
    BY <1>10
  <2>2. \A i \in 1 .. k : 1 + i \in 1 .. p /\ e + 1 + i = e + (1 + i)
    BY <1>5, <1>10
  <2> QED
    BY <1>5, <1>11, <2>1, <2>2
<1>14. e = EnvEnd(t) /\ AppendEnd(t) = e + p /\ (AppendEnd(t) # EnvEnd(t) <=> p # 0)
  BY <1>10 DEF e, p, AppendEnd
<1>15. CmdWrapper(t) = w
  BY <1>6 DEF w, x, y
<1> QED
  BY <1>9, <1>11, <1>12, <1>13, <1>14, <1>15 DEF Layout, k, c

-----------------------------------------------------------------------------
(* What the runner has read when it has read r arguments of t's.            *)
EnvRead(t, r) ==
  IF r = 0 THEN 0 ELSE IF r <= EnvEnd(t) THEN r - 1 ELSE Len(t.env)

AppendRead(t, r) ==
  IF r <= EnvEnd(t) THEN 0
  ELSE IF r <= AppendEnd(t) THEN r - EnvEnd(t) - 1 ELSE Len(AppendEnv(t))

ModeAt(t, r) ==
  IF r = 0 THEN "none"
  ELSE IF r <= EnvEnd(t) THEN "env"
  ELSE IF r <= AppendEnd(t) THEN "append_env" ELSE "command"

ReadTo(t, r) ==
  /\ r \in 0 .. Len(CmdWrapper(t))
  /\ Len(args) = Len(CmdWrapper(t)) - r
  /\ \A i \in 1 .. Len(args) : args[i] = CmdWrapper(t)[r + i]
  /\ mode = ModeAt(t, r)
  /\ ReadOf(setting, t.env, EnvRead(t, r))
  /\ ReadOf(appending, AppendEnv(t), AppendRead(t, r))

(* What is left to be done for a variable: it is to be set if it is in      *)
(* setting, and appended to if it is in appending.                          *)
Settled(v) == IF v \in DOMAIN setting THEN setting[v] ELSE env[v]

Completed(x, v) == IF v \in DOMAIN appending THEN Joined(x, appending[v]) ELSE x

EnvInv ==
  /\ test \in Tests \union {NoTest}
  /\ pc = "none" => mode = "none" /\ setting = <<>> /\ appending = <<>>
  /\ test # NoTest /\ pc \in {"usage", "parse"} =>
       env = base /\ \E r \in Nat : ReadTo(test, r)
  /\ test # NoTest /\ pc = "set" =>
       \A v \in Var : /\ Settled(v) = Assigned(test, base, v)
                      /\ Completed(Assigned(test, base, v), v) = Asked(test, base, v)
  /\ test # NoTest /\ pc = "append" =>
       \A v \in Var : Completed(env[v], v) = Asked(test, base, v)
  /\ test # NoTest /\ pc \in {"fork", "wait"} =>
       \A v \in Var : env[v] = Asked(test, base, v)
  /\ RunsWhereAsked

LEMMA InitEnvInv == Init => EnvInv
BY DEF Init, EnvInv, RunsWhereAsked

(* The lengths of the parts.                                                *)
LEMMA EndsAreCounts ==
  ASSUME NEW t \in Tests
  PROVE  /\ Len(t.env) \in Nat /\ Len(AppendEnv(t)) \in Nat
         /\ Len(t.command) \in Nat
         /\ EnvEnd(t) \in Nat /\ AppendEnd(t) \in Nat
         /\ EnvEnd(t) = IF Len(t.env) = 0 THEN 0 ELSE Len(t.env) + 1
         /\ AppendEnd(t) = IF Len(AppendEnv(t)) = 0 THEN EnvEnd(t)
                           ELSE EnvEnd(t) + Len(AppendEnv(t)) + 1
<1> HIDE DEF Argument
<1>1. /\ t.env \in Seq(Argument) /\ AppendEnv(t) \in Seq(Argument)
      /\ t.command \in Seq(Argument)
  BY ArgumentsAssumption, AppendEnvIsList
<1> DEFINE a == AppendEnv(t)
<1>2. /\ Len(t.env) \in Nat /\ Len(a) \in Nat /\ Len(t.command) \in Nat
      /\ t.env = <<>> <=> Len(t.env) = 0
      /\ a = <<>> <=> Len(a) = 0
  BY <1>1
<1>3. /\ PartLen(t.env) = IF Len(t.env) = 0 THEN 0 ELSE Len(t.env) + 1
      /\ PartLen(a) = IF Len(a) = 0 THEN 0 ELSE Len(a) + 1
  BY <1>2 DEF PartLen
<1> HIDE DEF a
<1>4. /\ EnvEnd(t) = IF Len(t.env) = 0 THEN 0 ELSE Len(t.env) + 1
      /\ EnvEnd(t) \in Nat
  BY <1>2, <1>3 DEF EnvEnd
<1>5. AppendEnd(t) = EnvEnd(t) + PartLen(a)
  BY DEF AppendEnd, a
<1>6. /\ AppendEnd(t) = IF Len(a) = 0 THEN EnvEnd(t) ELSE EnvEnd(t) + Len(a) + 1
      /\ AppendEnd(t) \in Nat
  <2>1. CASE Len(a) = 0
    BY <1>3, <1>4, <1>5, <2>1
  <2>2. CASE Len(a) # 0
    <3>1. PartLen(a) = Len(a) + 1
      BY <1>3, <2>2
    <3>2. AppendEnd(t) = EnvEnd(t) + (Len(a) + 1)
      BY <1>5, <3>1
    <3>3. EnvEnd(t) \in Nat /\ Len(a) \in Nat
      BY <1>2, <1>4
    <3>4. /\ EnvEnd(t) + (Len(a) + 1) = EnvEnd(t) + Len(a) + 1
          /\ EnvEnd(t) + (Len(a) + 1) \in Nat
      BY <3>3
    <3> QED
      BY <2>2, <3>2, <3>4
  <2> QED
    BY <2>1, <2>2
<1> QED
  BY <1>2, <1>4, <1>6 DEF a

(* No library directory looks like a flag.                                  *)
LEMMA AppendedPlain ==
  ASSUME NEW t \in Tests, Plain(t.append)
  PROVE  Plain(AppendEnv(t))
<1>1. t.append \in Seq(Argument) /\ t.dirs \in Seq(Element)
  BY ArgumentsAssumption
<1> DEFINE d == LibraryDirs(t.dirs)
<1>2. d \in Seq(Argument) /\ Plain(d)
  BY <1>1, DirsAreList DEF Plain, LibraryDirs, Pair, Modes
<1> HIDE DEF d, Argument
<1>3. /\ Len(t.append) \in Nat /\ Len(d) \in Nat
      /\ Len(t.append \o d) = Len(t.append) + Len(d)
      /\ \A i \in 1 .. Len(t.append) : (t.append \o d)[i] = t.append[i]
      /\ \A i \in 1 .. Len(d) : (t.append \o d)[Len(t.append) + i] = d[i]
  BY <1>1, <1>2, JoinedParts
<1>4. ASSUME NEW i \in 1 .. Len(t.append \o d)
      PROVE  (t.append \o d)[i].is \notin DOMAIN Modes
  <2>1. CASE i <= Len(t.append)
    BY <1>3, <2>1 DEF Plain
  <2>2. CASE i > Len(t.append)
    <3> DEFINE j == i - Len(t.append)
    <3>1. j \in 1 .. Len(d) /\ Len(t.append) + j = i
      BY <1>3, <2>2
    <3>2. (t.append \o d)[i] = d[j]
      BY <1>3, <3>1
    <3> QED
      BY <1>2, <3>1, <3>2 DEF Plain
  <2> QED
    BY <1>3, <2>1, <2>2
<1>5. Plain(t.append \o d)
  BY <1>4 DEF Plain
<1> QED
  BY <1>5 DEF AppendEnv, d

(* The next argument to be read.                                            *)
LEMMA NextArgument ==
  ASSUME ListsPlain, NEW t \in Tests, NEW r \in Nat, ReadTo(t, r),
         args \in Seq(Argument), args # <<>>
  PROVE  LET a == args[1] IN
         /\ r < Len(CmdWrapper(t))
         /\ r = 0 /\ EnvEnd(t) # 0 => a = Looks("--env")
         /\ 0 < r /\ r < EnvEnd(t) =>
              a = t.env[EnvRead(t, r) + 1] /\ a.is \notin DOMAIN Modes
         /\ r = EnvEnd(t) /\ r # AppendEnd(t) => a = Looks("--append-env")
         /\ EnvEnd(t) < r /\ r < AppendEnd(t) =>
              /\ a = AppendEnv(t)[AppendRead(t, r) + 1]
              /\ a.is \notin DOMAIN Modes
         /\ r = AppendEnd(t) => a = Looks("--")
<1> HIDE DEF Argument
<1> DEFINE w == CmdWrapper(t)
           e == EnvEnd(t)
           f == AppendEnd(t)
<1>1. /\ Len(args) \in Nat /\ Len(args) > 0
  OBVIOUS
<1>2. Len(w) \in Nat /\ r < Len(w) /\ args[1] = w[r + 1]
  <2>1. Len(w) \in Nat
    BY WrapperIsList
  <2> QED
    BY <1>1, <2>1 DEF ReadTo
<1>3. Layout(w, t)
  BY WrapperLayout
<1>4. /\ Len(t.env) \in Nat /\ Len(AppendEnv(t)) \in Nat
      /\ e \in Nat /\ f \in Nat
      /\ e = IF Len(t.env) = 0 THEN 0 ELSE Len(t.env) + 1
      /\ f = IF Len(AppendEnv(t)) = 0 THEN e ELSE e + Len(AppendEnv(t)) + 1
  BY EndsAreCounts
<1>5. Plain(t.env) /\ Plain(AppendEnv(t))
  <2>1. Plain(t.env) /\ Plain(t.append)
    BY DEF ListsPlain
  <2>2. Plain(AppendEnv(t))
    BY <2>1, AppendedPlain
  <2> QED
    BY <2>1, <2>2
<1>6. ASSUME 0 < r, r < e
      PROVE  args[1] = t.env[EnvRead(t, r) + 1] /\ args[1].is \notin DOMAIN Modes
  <2>1. r \in 1 .. Len(t.env) /\ EnvRead(t, r) + 1 = r /\ r + 1 = 1 + r
    BY <1>4, <1>6 DEF EnvRead
  <2>2. w[1 + r] = t.env[r]
    BY <1>3, <2>1 DEF Layout
  <2> QED
    BY <1>2, <1>5, <2>1, <2>2 DEF Plain
<1>7. ASSUME e < r, r < f
      PROVE  /\ args[1] = AppendEnv(t)[AppendRead(t, r) + 1]
             /\ args[1].is \notin DOMAIN Modes
  <2> DEFINE i == r - e
  <2>1. /\ i \in 1 .. Len(AppendEnv(t)) /\ AppendRead(t, r) + 1 = i
        /\ e + 1 + i = r + 1
    <3> DEFINE k == Len(AppendEnv(t))
    <3>1. e \in Nat /\ f \in Nat /\ k \in Nat
      BY <1>4
    <3>2. AppendRead(t, r) = r - e - 1
      BY <1>7, <3>1 DEF AppendRead
    <3>3. f = e \/ f = e + k + 1
      BY <1>4
    <3> HIDE DEF e, f, k
    <3>4. f = e + k + 1
      BY <1>7, <3>1, <3>3
    <3>5. i \in 1 .. k /\ e + 1 + i = r + 1 /\ (r - e - 1) + 1 = i
      BY <1>7, <3>1, <3>4
    <3> QED
      BY <3>2, <3>5 DEF k
  <2>2. w[e + 1 + i] = AppendEnv(t)[i]
    BY <1>3, <2>1 DEF Layout
  <2> QED
    BY <1>2, <1>5, <2>1, <2>2 DEF Plain
<1>8. r = 0 /\ e # 0 => args[1] = Looks("--env")
  BY <1>2, <1>3 DEF Layout
<1>9. r = e /\ r # f => args[1] = Looks("--append-env")
  BY <1>2, <1>3 DEF Layout
<1>10. r = f => args[1] = Looks("--")
  BY <1>2, <1>3 DEF Layout
<1> QED
  BY <1>2, <1>6, <1>7, <1>8, <1>9, <1>10

(* The runner reads on.                                                     *)
LEMMA ReadOn ==
  ASSUME NEW t \in Tests, NEW r \in Nat, ReadTo(t, r),
         args \in Seq(Argument), args # <<>>, args' = Tail(args)
  PROVE  /\ r + 1 \in 0 .. Len(CmdWrapper(t))
         /\ Len(args') = Len(CmdWrapper(t)) - (r + 1)
         /\ \A i \in 1 .. Len(args') : args'[i] = CmdWrapper(t)[r + 1 + i]
<1> HIDE DEF Argument
<1> DEFINE w == CmdWrapper(t)
<1>1. /\ Len(args) \in Nat /\ Len(args) > 0
      /\ Len(args') = Len(args) - 1
      /\ \A i \in 1 .. Len(args) - 1 : args'[i] = args[i + 1]
  OBVIOUS
<1>2. Len(w) \in Nat
  BY WrapperIsList
<1>3. Len(args) = Len(w) - r /\ \A i \in 1 .. Len(args) : args[i] = w[r + i]
  BY DEF ReadTo
<1> HIDE DEF w
<1>4. ASSUME NEW i \in 1 .. Len(args') PROVE args'[i] = w[r + 1 + i]
  <2>1. i + 1 \in 1 .. Len(args) /\ r + (i + 1) = r + 1 + i
    BY <1>1
  <2> QED
    BY <1>1, <1>3, <2>1
<1>5. r + 1 \in 0 .. Len(w) /\ Len(args') = Len(w) - (r + 1)
  BY <1>1, <1>2, <1>3
<1> QED
  BY <1>4, <1>5 DEF w

(* A flag: nothing is read into the maps by it, and what comes before it    *)
(* was read in full.                                                        *)
LEMMA ReadFlag ==
  ASSUME ListsPlain, NEW t \in Tests, NEW r \in Nat, ReadTo(t, r),
         args \in Seq(Argument), args # <<>>, args' = Tail(args),
         mode # "command", args[1].is \in DOMAIN Modes,
         mode' = Modes[args[1].is], UNCHANGED <<setting, appending>>
  PROVE  ReadTo(t, r + 1)'
<1> DEFINE e == EnvEnd(t)
           f == AppendEnd(t)
<1>1. /\ Len(t.env) \in Nat /\ Len(AppendEnv(t)) \in Nat
      /\ e \in Nat /\ f \in Nat /\ e <= f
      /\ e = 0 \/ e = Len(t.env) + 1
      /\ e = 0 => Len(t.env) = 0
      /\ f = e \/ f = e + Len(AppendEnv(t)) + 1
      /\ f = e => Len(AppendEnv(t)) = 0
  BY EndsAreCounts
<1>2. /\ r = 0 /\ e # 0 => args[1] = Looks("--env")
      /\ ~(0 < r /\ r < e)
      /\ r = e /\ r # f => args[1] = Looks("--append-env")
      /\ ~(e < r /\ r < f)
      /\ r = f => args[1] = Looks("--")
  BY NextArgument
<1>3. mode = ModeAt(t, r)
  BY DEF ReadTo
<1>4. r <= f
  BY <1>1, <1>3 DEF ModeAt
<1>5. /\ mode' = ModeAt(t, r + 1)
      /\ EnvRead(t, r + 1) = EnvRead(t, r)
      /\ AppendRead(t, r + 1) = AppendRead(t, r)
  <2>1. CASE r = 0 /\ e # 0
    <3>1. mode' = "env"
      BY <1>2, <2>1 DEF Looks, Modes
    <3>2. r + 1 # 0 /\ r + 1 <= e
      BY <1>1, <2>1
    <3> QED
      BY <1>1, <2>1, <3>1, <3>2 DEF ModeAt, EnvRead, AppendRead
  <2>2. CASE r = e /\ r # f
    <3>1. mode' = "append_env"
      BY <1>2, <2>2 DEF Looks, Modes
    <3>2. r + 1 # 0 /\ ~(r + 1 <= e) /\ r + 1 <= f
      BY <1>1, <2>2
    <3>3. EnvRead(t, r) = Len(t.env)
      BY <1>1, <2>2 DEF EnvRead
    <3>4. AppendRead(t, r) = 0 /\ AppendRead(t, r + 1) = r + 1 - e - 1
      BY <1>1, <2>2, <3>2 DEF AppendRead
    <3> QED
      BY <1>1, <2>2, <3>1, <3>2, <3>3, <3>4 DEF ModeAt, EnvRead
  <2>3. CASE r = f
    <3>1. mode' = "command"
      BY <1>2, <2>3 DEF Looks, Modes
    <3>2. r + 1 # 0 /\ ~(r + 1 <= e) /\ ~(r + 1 <= f)
      BY <1>1, <2>3
    <3>3. EnvRead(t, r) = Len(t.env)
      BY <1>1, <2>3 DEF EnvRead
    <3>4. AppendRead(t, r) = Len(AppendEnv(t))
      <4>1. CASE f = e
        BY <1>1, <2>3, <4>1 DEF AppendRead
      <4>2. CASE f # e
        <5>1. AppendRead(t, r) = r - e - 1
          BY <1>1, <2>3, <4>2 DEF AppendRead
        <5> HIDE DEF e, f
        <5>2. r - e - 1 = Len(AppendEnv(t))
          BY <1>1, <2>3, <4>2
        <5> QED
          BY <5>1, <5>2
      <4> QED
        BY <4>1, <4>2
    <3> QED
      BY <3>1, <3>2, <3>3, <3>4 DEF ModeAt, EnvRead, AppendRead
  <2> HIDE DEF e, f
  <2>4. (r = 0 /\ e # 0) \/ (r = e /\ r # f) \/ r = f
    BY <1>1, <1>2, <1>4
  <2> QED
    BY <2>1, <2>2, <2>3, <2>4
<1> QED
  BY <1>5, ReadOn DEF ReadTo

(* A pair: it goes where the flag before it says.                           *)
LEMMA ReadPair ==
  ASSUME ListsPlain, NEW t \in Tests, NEW r \in Nat, ReadTo(t, r),
         args \in Seq(Argument), args # <<>>, args' = Tail(args),
         args[1].is = "pair", mode' = mode,
         \/ /\ mode = "env" /\ UNCHANGED appending
            /\ setting' = With(setting, args[1].var, args[1].value)
         \/ /\ mode = "append_env" /\ UNCHANGED setting
            /\ appending' = With(appending, args[1].var, args[1].value)
  PROVE  ReadTo(t, r + 1)'
<1> DEFINE e == EnvEnd(t)
           f == AppendEnd(t)
<1>1. e \in Nat /\ f \in Nat /\ e <= f
  BY EndsAreCounts
<1>2. mode = ModeAt(t, r)
  BY DEF ReadTo
<1>3. /\ 0 < r /\ r < e => args[1] = t.env[EnvRead(t, r) + 1]
      /\ e < r /\ r < f => args[1] = AppendEnv(t)[AppendRead(t, r) + 1]
  BY NextArgument
<1>4. /\ r = e /\ r # f => args[1].is # "pair"
      /\ r = f => args[1].is # "pair"
  BY NextArgument DEF Looks
<1>5. CASE mode = "env"
  <2>1. 0 < r /\ r <= e
    BY <1>1, <1>2, <1>5 DEF ModeAt
  <2>2. r < e
    <3> HIDE DEF e, f
    <3> QED
      BY <1>1, <1>4, <2>1
  <2>3. /\ EnvRead(t, r) \in Nat /\ EnvRead(t, r + 1) = EnvRead(t, r) + 1
        /\ AppendRead(t, r + 1) = AppendRead(t, r)
        /\ ModeAt(t, r + 1) = mode
    BY <1>1, <1>5, <2>1, <2>2 DEF EnvRead, AppendRead, ModeAt
  <2>4. ReadOf(setting', t.env, EnvRead(t, r) + 1)
    BY <1>3, <1>5, <2>1, <2>2, <2>3, ReadOfNext DEF ReadTo
  <2> QED
    BY <1>5, <2>3, <2>4, ReadOn DEF ReadTo
<1>6. CASE mode = "append_env"
  <2>1. e < r /\ r <= f
    BY <1>1, <1>2, <1>6 DEF ModeAt
  <2>2. r < f
    <3> HIDE DEF e, f
    <3> QED
      BY <1>1, <1>4, <2>1
  <2>3. AppendRead(t, r) = r - e - 1 /\ AppendRead(t, r + 1) = r + 1 - e - 1
    BY <1>1, <2>1, <2>2 DEF AppendRead
  <2>4. EnvRead(t, r + 1) = EnvRead(t, r) /\ ModeAt(t, r + 1) = mode
    BY <1>1, <1>6, <2>1, <2>2 DEF EnvRead, ModeAt
  <2>5. AppendRead(t, r) \in Nat /\ AppendRead(t, r + 1) = AppendRead(t, r) + 1
    <3> HIDE DEF e, f
    <3>1. r - e - 1 \in Nat /\ r + 1 - e - 1 = (r - e - 1) + 1
      BY <1>1, <2>1
    <3> QED
      BY <2>3, <3>1
  <2>6. ReadOf(appending', AppendEnv(t), AppendRead(t, r) + 1)
    BY <1>3, <1>6, <2>1, <2>2, <2>5, ReadOfNext DEF ReadTo
  <2> QED
    BY <1>6, <2>4, <2>5, <2>6, ReadOn DEF ReadTo
<1> QED
  BY <1>5, <1>6

(* An argument of the command: the runner's own were read in full.          *)
LEMMA ReadCommand ==
  ASSUME NEW t \in Tests, NEW r \in Nat, ReadTo(t, r),
         args \in Seq(Argument), args # <<>>, args' = Tail(args),
         mode = "command", UNCHANGED <<mode, setting, appending>>
  PROVE  ReadTo(t, r + 1)'
<1> DEFINE e == EnvEnd(t)
           f == AppendEnd(t)
<1>1. e \in Nat /\ f \in Nat /\ e <= f
  BY EndsAreCounts
<1>2. f < r
  BY <1>1 DEF ReadTo, ModeAt
<1>3. /\ r # 0 /\ ~(r <= e) /\ ~(r <= f)
      /\ r + 1 # 0 /\ ~(r + 1 <= e) /\ ~(r + 1 <= f)
  <2> HIDE DEF e, f
  <2> QED
    BY <1>1, <1>2
<1>4. /\ EnvRead(t, r + 1) = EnvRead(t, r)
      /\ AppendRead(t, r + 1) = AppendRead(t, r)
      /\ ModeAt(t, r + 1) = "command"
  BY <1>3 DEF EnvRead, AppendRead, ModeAt
<1> QED
  BY <1>4, ReadOn DEF ReadTo

(* Where nothing is left, both lists were read in full.                     *)
LEMMA ReadAll ==
  ASSUME NEW t \in Tests, NEW r \in Nat, ReadTo(t, r), args = <<>>
  PROVE  /\ ReadOf(setting, t.env, Len(t.env))
         /\ ReadOf(appending, AppendEnv(t), Len(AppendEnv(t)))
<1> DEFINE e == EnvEnd(t)
           f == AppendEnd(t)
<1>1. e \in Nat /\ f \in Nat /\ e <= f /\ Len(t.command) \in Nat
  BY EndsAreCounts
<1>2. Len(CmdWrapper(t)) = f + 1 + Len(t.command)
  BY WrapperLayout DEF Layout
<1>3. Len(args) = 0
  OBVIOUS
<1>4. Len(args) = Len(CmdWrapper(t)) - r
  BY DEF ReadTo
<1>5. r # 0 /\ ~(r <= e) /\ ~(r <= f)
  <2>1. 0 = (f + 1 + Len(t.command)) - r
    BY <1>2, <1>3, <1>4
  <2> DEFINE c == Len(t.command)
  <2>2. e \in Nat /\ f \in Nat /\ c \in Nat /\ e <= f /\ 0 = (f + 1 + c) - r
    BY <1>1, <2>1
  <2> HIDE DEF e, f, c
  <2> QED
    BY <2>2
<1>6. EnvRead(t, r) = Len(t.env) /\ AppendRead(t, r) = Len(AppendEnv(t))
  BY <1>5 DEF EnvRead, AppendRead
<1> QED
  BY <1>6 DEF ReadTo

(* Then setting is what ENV asks for, and appending what is to be appended. *)
LEMMA AllRead ==
  ASSUME AppendedOnce, NEW t \in Tests, NEW b, NEW v \in Var,
         ReadOf(setting, t.env, Len(t.env)),
         ReadOf(appending, AppendEnv(t), Len(AppendEnv(t))),
         env = b
  PROVE  /\ Settled(v) = Assigned(t, b, v)
         /\ Completed(Assigned(t, b, v), v) = Asked(t, b, v)
<1> HIDE DEF Argument
<1>1. t.env \in Seq(Argument) /\ AppendEnv(t) \in Seq(Argument)
  BY ArgumentsAssumption, AppendEnvIsList
<1>2. Settled(v) = Assigned(t, b, v)
  BY <1>1, ReadOfAll DEF Settled, Assigned
<1> DEFINE given == GivenAt(AppendEnv(t), v)
<1>3. /\ v \in DOMAIN appending <=> given # {}
      /\ v \in DOMAIN appending =>
           Max(given) \in given /\ appending[v] = AppendEnv(t)[Max(given)].value
  BY <1>1, ReadOfAll
<1>4. ASSUME v \notin DOMAIN appending
      PROVE  Completed(Assigned(t, b, v), v) = Asked(t, b, v)
  BY <1>3, <1>4, AskedNone DEF Completed
<1>5. ASSUME v \in DOMAIN appending
      PROVE  Completed(Assigned(t, b, v), v) = Asked(t, b, v)
  <2>1. Max(given) \in Nat
    BY <1>1, <1>3, <1>5 DEF GivenAt
  <2>2. \A i, j \in given : i = j
    BY DEF AppendedOnce
  <2> DEFINE m == Max(given)
  <2>3. m \in Nat /\ m \in given /\ appending[v] = AppendEnv(t)[m].value
    BY <1>3, <1>5, <2>1
  <2> HIDE DEF m
  <2>4. given = {m}
    BY <2>2, <2>3
  <2>5. Asked(t, b, v) = Joined(Assigned(t, b, v), AppendEnv(t)[m].value)
    BY <2>3, <2>4, AskedOne
  <2> QED
    BY <1>5, <2>3, <2>5 DEF Completed
<1> QED
  BY <1>2, <1>4, <1>5

(* EnvInv is inductive for such tests.                                       *)
LEMMA StepEnvInv ==
  /\ ListsPlain /\ AppendedOnce
  /\ RunnerInv /\ RunnerTypeInv /\ EnvInv /\ [Next]_vars
  => EnvInv'
<1> SUFFICES ASSUME ListsPlain, AppendedOnce, RunnerInv, RunnerTypeInv, EnvInv,
                    [Next]_vars
             PROVE  EnvInv'
  OBVIOUS
<1> HIDE DEF Argument
<1>1. ASSUME UNCHANGED <<test, base, args, mode, setting, appending, env>>,
             \/ pc = "usage" /\ pc' = "parse" /\ child' = child
             \/ pc' \in {pc, "exited"} /\ child' = child
             \/ pc = "fork" /\ pc' = "wait"
             \/ pc = "wait" /\ pc' = "wait"
      PROVE  EnvInv'
  BY <1>1 DEF EnvInv, ReadTo, Settled, Completed, RunsWhereAsked
<1>2. CASE CheckUsage
  BY <1>1, <1>2 DEF CheckUsage, Exit, Jump
<1>3. CASE SetenvFails \/ Throws \/ Wait \/ Fork
  BY <1>1, <1>3 DEF SetenvFails, Throws, Wait, Fork, Becomes, Exit, Jump
<1>4. CASE Exec \/ CommandEnds
  <2>1. pc = "wait"
    BY <1>4 DEF Exec, CommandEnds, RunnerInv, Followed
  <2> QED
    BY <1>1, <1>4, <2>1 DEF Exec, CommandEnds, Becomes
<1>5. CASE Refuse
  BY <1>1, <1>5 DEF Refuse, Reads, Exit
<1>6. CASE UNCHANGED vars
  BY <1>1, <1>6 DEF vars
<1>7. CASE Starts
  <2>1. /\ pc = "none" /\ pc' = "usage" /\ UNCHANGED <<mode, setting, appending, child>>
        /\ env' = base'
        /\ \/ test' \in Tests /\ args' = CmdWrapper(test')
           \/ test' = NoTest
    BY <1>7 DEF Starts
  <2>2. child.is = "none"
    BY <2>1 DEF RunnerInv, Followed, Before
  <2>3. mode = "none" /\ setting = <<>> /\ appending = <<>>
    BY <2>1 DEF EnvInv
  <2>4. ASSUME test' \in Tests, args' = CmdWrapper(test')
        PROVE  ReadTo(test, 0)'
    <3>1. Len(CmdWrapper(test')) \in Nat
      BY <2>4, WrapperIsList
    <3>2. EnvEnd(test') \in Nat
      BY <2>4, EndsAreCounts
    <3>3. /\ ModeAt(test', 0) = "none" /\ EnvRead(test', 0) = 0
          /\ AppendRead(test', 0) = 0
      BY <3>2 DEF ModeAt, EnvRead, AppendRead
    <3>4. ReadOf(<<>>, test'.env, 0) /\ ReadOf(<<>>, AppendEnv(test'), 0)
      BY ReadOfNone
    <3> QED
      BY <2>1, <2>3, <2>4, <3>1, <3>3, <3>4 DEF ReadTo
  <2> QED
    BY <2>1, <2>2, <2>4 DEF EnvInv, RunsWhereAsked
<1>8. ASSUME NEW a, Reads(a), args' = Tail(args), test # NoTest
      PROVE  /\ a = args[1] /\ args # <<>> /\ args \in Seq(Argument)
             /\ pc = "parse" /\ UNCHANGED <<test, base, env, child>>
             /\ child.is = "none" /\ test \in Tests /\ env = base
             /\ \E r \in Nat : ReadTo(test, r)
  BY <1>8 DEF Reads, EnvInv, RunnerTypeInv, RunnerInv, Followed, Before
<1>9. ASSUME NEW a, Reads(a), args' = Tail(args), pc' = pc,
             ASSUME NEW r \in Nat, ReadTo(test, r), test # NoTest
             PROVE  ReadTo(test, r + 1)'
      PROVE  EnvInv'
  <2>1. CASE test = NoTest
    BY <1>9, <2>1 DEF EnvInv, RunsWhereAsked, Reads
  <2>2. CASE test # NoTest
    <3>1. PICK r \in Nat : ReadTo(test, r)
      BY <1>8, <1>9, <2>2
    <3>2. ReadTo(test, r + 1)' /\ r + 1 \in Nat
      BY <1>9, <2>2, <3>1
    <3> QED
      BY <1>8, <1>9, <2>2, <3>2 DEF EnvInv, RunsWhereAsked
  <2> QED
    BY <2>1, <2>2
<1>10. CASE TakeCommand
  <2>1. PICK a \in ToSet(args) :
          /\ Reads(a) /\ args' = Tail(args) /\ mode = "command"
          /\ UNCHANGED <<pc, mode, setting, appending>>
    BY <1>10 DEF TakeCommand
  <2>2. ASSUME NEW r \in Nat, ReadTo(test, r), test # NoTest
        PROVE  ReadTo(test, r + 1)'
    <3>1. test' = test /\ test \in Tests /\ args # <<>> /\ args \in Seq(Argument)
      BY <1>8, <2>1, <2>2
    <3> QED
      BY <2>1, <2>2, <3>1, ReadCommand DEF ReadTo
  <2> QED
    BY <1>9, <2>1, <2>2
<1>11. CASE ChangeMode
  <2>1. PICK a \in ToSet(args) :
          /\ Reads(a) /\ args' = Tail(args) /\ mode # "command"
          /\ a.is \in DOMAIN Modes /\ mode' = Modes[a.is]
          /\ UNCHANGED <<pc, setting, appending>>
    BY <1>11 DEF ChangeMode
  <2>2. ASSUME NEW r \in Nat, ReadTo(test, r), test # NoTest
        PROVE  ReadTo(test, r + 1)'
    <3>1. /\ test' = test /\ test \in Tests /\ args # <<>>
          /\ args \in Seq(Argument) /\ a = args[1]
      BY <1>8, <2>1, <2>2
    <3> QED
      BY <2>1, <2>2, <3>1, ReadFlag DEF ReadTo
  <2> QED
    BY <1>9, <2>1, <2>2
<1>12. CASE TakePair
  <2>1. PICK a \in ToSet(args) :
          /\ Reads(a) /\ args' = Tail(args) /\ a.is = "pair"
          /\ \/ mode = "env" /\ setting' = With(setting, a.var, a.value)
                             /\ UNCHANGED appending
             \/ mode = "append_env" /\ appending' = With(appending, a.var, a.value)
                                    /\ UNCHANGED setting
          /\ UNCHANGED <<pc, mode>>
    BY <1>12 DEF TakePair
  <2>2. ASSUME NEW r \in Nat, ReadTo(test, r), test # NoTest
        PROVE  ReadTo(test, r + 1)'
    <3>1. /\ test' = test /\ test \in Tests /\ args # <<>>
          /\ args \in Seq(Argument) /\ a = args[1]
      BY <1>8, <2>1, <2>2
    <3> QED
      BY <2>1, <2>2, <3>1, ReadPair DEF ReadTo
  <2> QED
    BY <1>9, <2>1, <2>2
<1>13. CASE EndOfArguments
  <2>1. /\ pc = "parse" /\ pc' = "set" /\ args = <<>>
        /\ UNCHANGED <<test, base, args, mode, setting, appending, env, child>>
    BY <1>13 DEF EndOfArguments, Jump
  <2>2. child.is = "none"
    BY <2>1 DEF RunnerInv, Followed, Before
  <2>3. ASSUME test # NoTest, NEW v \in Var
        PROVE  /\ Settled(v) = Assigned(test, base, v)
               /\ Completed(Assigned(test, base, v), v) = Asked(test, base, v)
    <3>1. PICK r \in Nat : ReadTo(test, r)
      BY <2>1, <2>3 DEF EnvInv
    <3>2. test \in Tests /\ env = base
      BY <2>1, <2>3 DEF EnvInv
    <3> QED
      BY <2>1, <3>1, <3>2, ReadAll, AllRead
  <2> QED
    BY <2>1, <2>2, <2>3 DEF EnvInv, Settled, Completed, RunsWhereAsked
<1>14. CASE SetVariable
  <2>1. PICK w \in DOMAIN setting :
          /\ pc = "set" /\ env' = [env EXCEPT ![w] = setting[w]]
          /\ setting' = Without(setting, w)
          /\ UNCHANGED <<test, base, pc, mode, appending, child>>
    BY <1>14 DEF SetVariable
  <2>2. child.is = "none"
    BY <2>1 DEF RunnerInv, Followed, Before
  <2>3. ASSUME NEW v \in Var PROVE Settled(v)' = Settled(v)
    BY <2>1 DEF Settled, Without, RunnerTypeInv
  <2>4. ASSUME NEW v \in Var
        PROVE  Completed(Assigned(test, base, v), v)'
                 = Completed(Assigned(test, base, v), v)
    BY <2>1 DEF Completed
  <2> QED
    BY <2>1, <2>2, <2>3, <2>4 DEF EnvInv, RunsWhereAsked
<1>15. CASE AllSet
  <2>1. /\ pc = "set" /\ pc' = "append" /\ setting = <<>>
        /\ UNCHANGED <<test, base, args, mode, setting, appending, env, child>>
    BY <1>15 DEF AllSet, Jump
  <2>2. child.is = "none"
    BY <2>1 DEF RunnerInv, Followed, Before
  <2>3. ASSUME test # NoTest, NEW v \in Var
        PROVE  Completed(env[v], v) = Asked(test, base, v)
    <3>1. Settled(v) = env[v]
      BY <2>1 DEF Settled
    <3> QED
      BY <2>1, <2>3, <3>1 DEF EnvInv
  <2> QED
    BY <2>1, <2>2, <2>3 DEF EnvInv, Completed, RunsWhereAsked
<1>16. CASE AppendVariable
  <2>1. PICK w \in DOMAIN appending :
          /\ pc = "append" /\ env' = [env EXCEPT ![w] = Joined(env[w], appending[w])]
          /\ appending' = Without(appending, w)
          /\ UNCHANGED <<test, base, pc, mode, setting, child>>
    BY <1>16 DEF AppendVariable
  <2>2. child.is = "none"
    BY <2>1 DEF RunnerInv, Followed, Before
  <2>3. ASSUME NEW v \in Var PROVE Completed(env[v], v)' = Completed(env[v], v)
    BY <2>1 DEF Completed, Without, RunnerTypeInv
  <2> QED
    BY <2>1, <2>2, <2>3 DEF EnvInv, RunsWhereAsked
<1>17. CASE AllAppended
  <2>1. /\ pc = "append" /\ pc' = "fork" /\ appending = <<>>
        /\ UNCHANGED <<test, base, args, mode, setting, appending, env, child>>
    BY <1>17 DEF AllAppended, Jump
  <2>2. child.is = "none"
    BY <2>1 DEF RunnerInv, Followed, Before
  <2>3. ASSUME test # NoTest, NEW v \in Var
        PROVE  env[v] = Asked(test, base, v)
    <3>1. Completed(env[v], v) = env[v]
      BY <2>1 DEF Completed
    <3> QED
      BY <2>1, <2>3, <3>1 DEF EnvInv
  <2> QED
    BY <2>1, <2>2, <2>3 DEF EnvInv, RunsWhereAsked
<1> QED
  BY <1>2, <1>3, <1>4, <1>5, <1>6, <1>7, <1>10, <1>11, <1>12, <1>13, <1>14,
     <1>15, <1>16, <1>17 DEF Next, Works

(* The environment of a test's command is the runner's own with what ENV    *)
(* gives set, the last value where there are several, and what is to be     *)
(* appended at the end of it, and nothing else changed: for any tests whose *)
(* lists have no flags in them and append to no variable twice.  One that   *)
(* does loses all but the last value (main.cpp:94,108).                     *)
THEOREM TestsRunWhereAsked ==
  ListsPlain /\ AppendedOnce => (Spec => []RunsWhereAsked)
<1> SUFFICES ASSUME ListsPlain, AppendedOnce PROVE Spec => []RunsWhereAsked
  OBVIOUS
<1>1. EnvInv => RunsWhereAsked
  BY DEF EnvInv
<1>2. RunnerInv /\ RunnerTypeInv /\ EnvInv /\ [Next]_vars => EnvInv'
  BY StepEnvInv
<1> QED
  BY <1>1, <1>2, InitRunnerInv, StepRunnerInv, InitRunnerTypeInv,
     StepRunnerTypeInv, InitEnvInv, PTL DEF Spec
=============================================================================
