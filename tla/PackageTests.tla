---------------------------- MODULE PackageTests ----------------------------
(***************************************************************************)
(* A package that uses this repository's CMake code: its configuration     *)
(* calls require_googletest (GoogletestSelect) and add_test(); when it has *)
(* succeeded, ctest starts the test runner (TestRunner) on the command     *)
(* line that was built then, or somebody starts it by hand.                *)
(***************************************************************************)
EXTENDS TestRunner, GoogletestSelect

CONSTANT Timeouts  \* what TIMEOUT may be, 0 if it is not given

VARIABLE added  \* the test that was added

packageVars == <<vars, selectVars, added>>

(* osrf_testing_tools_cpp_get_googletest_versions().                        *)
Provided ==
  << <<1, 7, 0, 0>>, <<1, 8, 1, 0>>, <<1, 10, 0, 0>>,
     <<1, 10, 0, 1>>, <<1, 10, 0, 2>>, <<1, 14, 0, 0>> >>

PackageTypeOK ==
  /\ TypeOK
  /\ SelectTypeOK
  /\ added \in Tests \union {NoTest}

PackageInit == Init /\ RequireInit /\ added = NoTest

Configures ==
  /\ Requires \/ ConfigureEnds \/ ConfigureFails
  /\ UNCHANGED <<vars, added>>

(* TIMEOUT is 60 where it is not given, and where it is zero.               *)
Limit(timeout) == IF timeout = 0 THEN 60 ELSE timeout

(* Mutant: add_test() takes a test without a command.                       *)
AddAnyTest ==
  /\ place = "package"
  /\ \E t \in Tests, timeout \in Timeouts :
       \/ Limit(timeout) > 0 /\ ConfigureEnds /\ added' = t
       \/ ~(Limit(timeout) > 0) /\ ConfigureFails /\ UNCHANGED added
  /\ UNCHANGED vars

(* add_test() as the last statement of the package's configuration.         *)
AddTest ==
  /\ place = "package"
  /\ \E t \in Tests, timeout \in Timeouts :
       LET usable == t.command # <<>> /\ Limit(timeout) > 0 IN
       \/ usable /\ ConfigureEnds /\ added' = t
       \/ ~usable /\ ConfigureFails /\ UNCHANGED added
  /\ UNCHANGED vars

(* ctest starts it for the test that was added; where there is none it is   *)
(* started by hand.                                                         *)
RunnerStarts ==
  /\ place = "configured"
  /\ Starts
  /\ test' = added
  /\ UNCHANGED <<selectVars, added>>

RunnerWorks == Works /\ UNCHANGED <<selectVars, added>>

RunnerFails == (SetenvFails \/ Throws) /\ UNCHANGED <<selectVars, added>>

PackageNext == Configures \/ AddTest \/ RunnerStarts \/ RunnerWorks \/ RunnerFails

PackageSpec ==
  PackageInit /\ [][PackageNext]_packageVars /\ WF_packageVars(RunnerWorks)

-----------------------------------------------------------------------------
(* The runner's child reads commands[0] unchecked (execute_process.hpp:107):*)
(* no test of a package gets there without a command, because add_test()    *)
(* refused it when the package was configured (add_test.cmake:53-56).       *)
TestsHaveCommands == test # NoTest /\ child.is # "none" => command # <<>>
=============================================================================
