----------------------------- MODULE TestRunner -----------------------------
(***************************************************************************)
(* The test runner (src/test_runner/main.cpp and execute_process.hpp),     *)
(* started on the command line that osrf_testing_tools_cpp_add_test()      *)
(* builds, or by hand:                                                     *)
(*                                                                         *)
(*   runner [--env VAR=VALUE ...] [--append-env VAR=VALUE ...] -- command  *)
(*                                                                         *)
(* It reads its arguments, changes its environment, forks, and in the end  *)
(* exits with what the command exited with.  An argument is abstracted to  *)
(* what the runner's tests see of it, a value to the elements between its  *)
(* ":"s, of which Nothing is an empty one.                                 *)
(***************************************************************************)
EXTENDS Integers, SequencesExt

CONSTANTS
  Var,          \* environment variables
  LibraryPath,  \* the one that lists library directories
  Element,      \* what a value lists
  Nothing,      \* the empty element: "a:" is <<a, Nothing>>, and "" is <<>>
  Bases,        \* the environments the runner is started in
  Tests,        \* what add_test() is called with
  Direct,       \* command lines of other callers
  NoTest,       \* the test of those
  Codes,        \* exit codes of commands, 0 to 255
  Signals       \* signals that kill commands

ASSUME LibraryPathAssumption == LibraryPath \in Var
ASSUME NoTestAssumption == NoTest \notin Tests
ASSUME CodesAssumption == Codes \subseteq 0 .. 255
ASSUME SignalsAssumption == Signals \subseteq 1 .. 64

(* An argument is a pair that parse_environment_variable() accepts, or it   *)
(* looks like a flag or a call for help, or it is just text.                *)
Pair(v, x)   == [is |-> "pair", var |-> v, value |-> x]
Looks(like)  == [is |-> like]

Argument ==
  [is : {"pair"}, var : Var, value : Seq(Element)]
  \union [is : {"--env", "--append-env", "--", "-h", "text", ""}]

ASSUME ArgumentsAssumption ==
  /\ Nothing \in Element
  /\ Tests \subseteq [env : Seq(Argument), append : Seq(Argument),
                      dirs : Seq(Element), command : Seq(Argument)]
  /\ Direct \subseteq Seq(Argument)
  /\ Bases \subseteq [Var -> Seq(Element)]

VARIABLES
  test,       \* what add_test() was called with
  base,       \* the environment the runner was started in
  args,       \* the arguments still to be read
  pc,         \* where main() is
  mode,       \* what the next argument is
  setting,    \* env_variables still to be set
  appending,  \* append_env_variables still to be appended
  command,    \* commands
  env,        \* the environment of the runner, which the command inherits
  child,      \* what became of the command
  status      \* what the runner's parent sees of it

vars == <<test, base, args, pc, mode, setting, appending, command, env, child, status>>

Aborted == -1
ChildState ==
  [is : {"none", "forked", "running", "failed"}, code : {0}]
  \union [is : {"exited"}, code : Codes]
  \union [is : {"killed"}, code : 1 .. 64]

TypeOK ==
  /\ pc \in {"none", "usage", "parse", "set", "append", "fork", "wait", "exited"}
  /\ mode \in {"none", "env", "append_env", "command"}
  /\ DOMAIN setting \subseteq Var
  /\ DOMAIN appending \subseteq Var
  /\ DOMAIN env = Var
  /\ child \in ChildState
  /\ status \in 0 .. 255 \union {Aborted}

-----------------------------------------------------------------------------
(* add_test(): the arguments it passes to the runner.                       *)
Flagged(flag, list) == IF list = <<>> THEN <<>> ELSE <<Looks(flag)>> \o list

LibraryDirs(dirs) == [i \in DOMAIN dirs |-> Pair(LibraryPath, <<dirs[i]>>)]

AppendEnv(t) == t.append \o LibraryDirs(t.dirs)

CmdWrapper(t) ==
  Flagged("--env", t.env)
  \o Flagged("--append-env", AppendEnv(t))
  \o <<Looks("--")>> \o t.command

(* Nobody has started the runner yet.                                       *)
Init ==
  /\ test = NoTest
  /\ args = <<>>
  /\ base = [v \in Var |-> <<>>]
  /\ env = base
  /\ pc = "none"
  /\ mode = "none"
  /\ setting = <<>>
  /\ appending = <<>>
  /\ command = <<>>
  /\ child = [is |-> "none", code |-> 0]
  /\ status = 0

(* ctest starts it for a test, or somebody does by hand, in an environment. *)
Starts ==
  /\ pc = "none"
  /\ \/ test' \in Tests /\ args' = CmdWrapper(test')
     \/ test' = NoTest /\ args' \in Direct
  /\ base' \in Bases
  /\ env' = base'
  /\ pc' = "usage"
  /\ UNCHANGED <<mode, setting, appending, command, child, status>>

Exit(code) == pc' = "exited" /\ status' = code

Jump(place) == pc' = place /\ UNCHANGED status

-----------------------------------------------------------------------------
(* Too few arguments, or a call for help anywhere, the command included.    *)
CheckUsage ==
  /\ pc = "usage"
  /\ IF Len(args) <= 1 \/ \E i \in DOMAIN args : args[i].is = "-h"
       THEN Exit(1)
       ELSE Jump("parse")
  /\ UNCHANGED <<test, base, args, mode, setting, appending, command, env, child>>

Modes ==
  [flag \in {"--env", "--append-env", "--"} |->
     CASE flag = "--env"        -> "env"
       [] flag = "--append-env" -> "append_env"
       [] flag = "--"           -> "command"]

(* The next argument is read, and is an a.                                  *)
Reads(a) ==
  /\ pc = "parse"
  /\ args # <<>>
  /\ a = Head(args)
  /\ UNCHANGED <<test, base, env, child>>

TakeCommand ==
  \E a \in ToSet(args) :
    /\ Reads(a)
    /\ a.is # ""
    /\ mode = "command"
    /\ args' = Tail(args)
    /\ command' = Append(command, a)
    /\ UNCHANGED <<pc, mode, setting, appending, status>>

(* Mutant: a flag is a flag wherever it is.                                 *)
ChangeModeAnywhere ==
  \E a \in ToSet(args) :
    /\ Reads(a)
    /\ a.is \in DOMAIN Modes
    /\ args' = Tail(args)
    /\ mode' = Modes[a.is]
    /\ UNCHANGED <<pc, setting, appending, command, status>>

ChangeMode ==
  \E a \in ToSet(args) :
    /\ Reads(a)
    /\ mode # "command"
    /\ a.is \in DOMAIN Modes
    /\ args' = Tail(args)
    /\ mode' = Modes[a.is]
    /\ UNCHANGED <<pc, setting, appending, command, status>>

With(f, v, x)  == [w \in DOMAIN f \union {v} |-> IF w = v THEN x ELSE f[w]]
Without(f, v) == [w \in DOMAIN f \ {v} |-> f[w]]

(* A variable given twice keeps the last value.                             *)
TakePair ==
  \E a \in ToSet(args) :
    /\ Reads(a)
    /\ a.is = "pair"
    /\ \/ mode = "env" /\ setting' = With(setting, a.var, a.value)
                       /\ UNCHANGED appending
       \/ mode = "append_env" /\ appending' = With(appending, a.var, a.value)
                              /\ UNCHANGED setting
    /\ args' = Tail(args)
    /\ UNCHANGED <<pc, mode, command, status>>

(* An empty argument, one before any flag, one that is no VAR=VALUE.        *)
Refuse ==
  \E a \in ToSet(args) :
    /\ Reads(a)
    /\ \/ a.is = ""
       \/ mode = "none" /\ a.is \notin DOMAIN Modes
       \/ mode # "command" /\ a.is = "text"
    /\ Exit(1)
    /\ UNCHANGED <<args, mode, setting, appending, command>>

EndOfArguments ==
  /\ pc = "parse"
  /\ args = <<>>
  /\ Jump("set")
  /\ UNCHANGED <<test, base, args, mode, setting, appending, command, env, child>>

-----------------------------------------------------------------------------
(* Mutant: the loop does not go on to the next variable.                    *)
SetVariableAgain ==
  /\ pc = "set"
  /\ \E v \in DOMAIN setting :
       /\ env' = [env EXCEPT ![v] = setting[v]]
       /\ setting' = setting
  /\ UNCHANGED <<test, base, args, pc, mode, appending, command, child, status>>

SetVariable ==
  /\ pc = "set"
  /\ \E v \in DOMAIN setting :
       /\ env' = [env EXCEPT ![v] = setting[v]]
       /\ setting' = Without(setting, v)
  /\ UNCHANGED <<test, base, args, pc, mode, appending, command, child, status>>

AllSet ==
  /\ pc = "set"
  /\ setting = <<>>
  /\ Jump("append")
  /\ UNCHANGED <<test, base, args, mode, setting, appending, command, env, child>>

(* old, a ":" unless old is empty or ends in one, and then new.             *)
Joined(old, new) ==
  LET start == IF old # <<>> /\ Last(old) = Nothing THEN Front(old) ELSE old IN
  IF old = <<>> THEN new
  ELSE start \o (IF new = <<>> THEN <<Nothing>> ELSE new)

(* Mutant: what is appended to is looked up before anything is set.         *)
AppendVariableStale ==
  /\ pc = "append"
  /\ \E v \in DOMAIN appending :
       /\ env' = [env EXCEPT ![v] = Joined(base[v], appending[v])]
       /\ appending' = Without(appending, v)
  /\ UNCHANGED <<test, base, args, pc, mode, setting, command, child, status>>

AppendVariable ==
  /\ pc = "append"
  /\ \E v \in DOMAIN appending :
       /\ env' = [env EXCEPT ![v] = Joined(@, appending[v])]
       /\ appending' = Without(appending, v)
  /\ UNCHANGED <<test, base, args, pc, mode, setting, command, child, status>>

AllAppended ==
  /\ pc = "append"
  /\ appending = <<>>
  /\ Jump("fork")
  /\ UNCHANGED <<test, base, args, mode, setting, appending, command, env, child>>

(* setenv() fails, with part of the environment set.                        *)
SetenvFails ==
  /\ \/ pc = "set" /\ setting # <<>>
     \/ pc = "append" /\ appending # <<>>
  /\ Exit(1)
  /\ UNCHANGED <<test, base, args, mode, setting, appending, command, env, child>>

-----------------------------------------------------------------------------
Becomes(what, code) ==
  /\ child' = [is |-> what, code |-> code]
  /\ UNCHANGED <<test, base, args, mode, setting, appending, command, env>>

Fork ==
  /\ pc = "fork"
  /\ Becomes("forked", 0)
  /\ Jump("wait")

(* The exception of fork() or of waitpid() is not caught: abort().          *)
Throws ==
  /\ \/ pc = "fork"
     \/ pc = "wait" /\ child.is \in {"exited", "killed", "failed"}
  /\ Exit(Aborted)
  /\ UNCHANGED <<test, base, args, mode, setting, appending, command, env, child>>

(* Mutant: a command that cannot be run ends with an error code of its own. *)
ExecWithoutCode ==
  /\ child.is = "forked"
  /\ \/ command # <<>> /\ (Becomes("running", 0) \/ Becomes("failed", -1))
     \/ command = <<>> /\ Becomes("killed", 11)
  /\ UNCHANGED <<pc, status>>

(* The child: execvp() is called, and returns only if it fails.  Without a  *)
(* command, commands[0] is a string at address zero, read to call it.       *)
Exec ==
  /\ child.is = "forked"
  /\ \/ command # <<>> /\ (Becomes("running", 0) \/ Becomes("failed", 0))
     \/ command = <<>> /\ Becomes("killed", 11)
  /\ UNCHANGED <<pc, status>>

CommandEnds ==
  /\ child.is = "running"
  /\ \/ \E code \in Codes : Becomes("exited", code)
     \/ \E signal \in Signals : Becomes("killed", signal)
  /\ UNCHANGED <<pc, status>>

(* Mutant: only a command that exits has an exit code.                      *)
WaitForExit ==
  /\ pc = "wait"
  /\ \/ child.is = "exited" /\ Exit(child.code)
     \/ child.is = "failed" /\ Exit(127)
     \/ child.is = "killed" /\ Exit(0)
  /\ UNCHANGED <<test, base, args, mode, setting, appending, command, env, child>>

(* The exit code of one that was killed is the negated signal, in 8 bits.   *)
Wait ==
  /\ pc = "wait"
  /\ \/ child.is = "exited" /\ Exit(child.code)
     \/ child.is = "failed" /\ Exit(127)
     \/ child.is = "killed" /\ Exit((0 - child.code) % 256)
  /\ UNCHANGED <<test, base, args, mode, setting, appending, command, env, child>>

Works ==
  \/ CheckUsage
  \/ TakeCommand \/ ChangeMode \/ TakePair \/ Refuse \/ EndOfArguments
  \/ SetVariable \/ AllSet \/ AppendVariable \/ AllAppended
  \/ Fork \/ Exec \/ CommandEnds \/ Wait

Next == Starts \/ Works \/ SetenvFails \/ Throws

Spec == Init /\ [][Next]_vars

(* A runner that was started runs, and the command ends; nothing has to     *)
(* fail for it.                                                             *)
FairSpec == Spec /\ WF_vars(Works)

-----------------------------------------------------------------------------
(* What test t asks for v, in an environment b: the value v has there or,   *)
(* where ENV has some, the last of those, and then all that is to be        *)
(* appended.                                                                *)
GivenAt(list, v) == {i \in DOMAIN list : list[i].is = "pair" /\ list[i].var = v}

Assigned(t, b, v) ==
  LET given == GivenAt(t.env, v)
  IN  IF given = {} THEN b[v] ELSE t.env[Max(given)].value

Asked(t, b, v) ==
  LET Value(i)       == AppendEnv(t)[i].value
      Join(new, old) == Joined(old, new)
  IN  MapThenFoldSet(Join, Assigned(t, b, v), Value, Max, GivenAt(AppendEnv(t), v))

(* main.cpp:69, "consume all flags no matter the content": the command that *)
(* runs is the one the test was added with, none of it taken for the        *)
(* runner's own arguments and none of those for a part of it.               *)
RunsItsCommand ==
  test # NoTest /\ child.is \in {"running", "exited"} => command = test.command

(* osrf_testing_tools_cpp_add_test.cmake:30-37: it runs in an environment   *)
(* that has all that was asked for and nothing else changed, never in a     *)
(* part of it.                                                              *)
RunsWhereAsked ==
  test # NoTest /\ child.is \in {"running", "exited"} =>
    \A v \in Var : env[v] = Asked(test, base, v)

(* A test passes only if its command ran and exited with zero, and fails    *)
(* only if it did not or the runner was aborted: no signal, exit code or    *)
(* failure on the way is taken for the other (execute_process.hpp:131-137). *)
PassesIffCommandDoes ==
  pc = "exited" /\ status # Aborted =>
    (status = 0 <=> child = [is |-> "exited", code |-> 0])

(* The runner ends if the command does (execute_process.hpp:128).           *)
Ends == pc # "none" ~> pc = "exited"
=============================================================================
