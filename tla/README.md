# osrf_testing_tools_cpp in TLA+

Specifications of [osrf_testing_tools_cpp](../src/osrf_testing_tools_cpp), the TLC
configurations that check them, and TLAPS proofs of what holds for every value of their
constants. Paths below are relative to `src/osrf_testing_tools_cpp/`; `mt/` is
`src/memory_tools/` in it.

The package has two halves: *memory tools*, a library that is preloaded into a test and
calls back on malloc, realloc, calloc and free, and the *build and run side*: a test runner,
a CMake macro that wraps tests in it, and CMake that picks a version of googletest. The
core is memory tools: it runs inside every thread of a program, below malloc, and is where
interleavings, re-entry and exceptions meet. Both halves are modelled, from the first request
that reaches the pool to the failures a test reports, and from a package's configuration to
the exit code of its test.

## The system

| Component | State | Operations | Hard parts |
|---|---|---|---|
| gate, `mt/impl/unix_common.cpp` | initialization flag, recursive mutex, one plain counter | four replacement functions | the guard reads the counter without the mutex; calls nest |
| custom functions, `mt/custom_memory_functions.cpp` | none of their own | guard, section, dispatch, original, log | exceptions from callbacks; flags that change between reads |
| hooks, `mt/register_hooks.cpp`, `mt/dispatch_callback.hpp` | four atomic pointers to heap objects | `on_f`, `get_on_f`, `dispatch_f` | use after delete; `new` fails half way |
| switches, `mt/initialize.cpp`, `mt/monitoring.cpp`, `mt/implementation_monitoring_override.cpp` | process-wide and thread-local flags | (un)initialize, enable/disable, sections | sections nest and are shared by all threads |
| expectations, `mt/testing_helpers.cpp` | four atomic flags | `on_unexpected_f`, `expect_no_f_begin/end` | do not nest, belong to no thread; `on_unexpected_f` allocates with monitoring on |
| service, `mt/memory_tools_service*`, `mt/verbosity.cpp` | per call: ignored, backtrace; one atomic level | ignore, unignore, print_backtrace, set level | the level changes under a call |
| the program's locks | whatever it has | lock, unlock, in callbacks too | waits inside the gate for who waits at it |
| static allocator, `mt/impl/static_allocator.hpp` | a stack pointer into a pool | allocate, reallocate, zero_allocate, deallocate | size_t arithmetic, the end of the pool |
| Linux interposition, `mt/impl/linux.cpp` | the original functions, a flag | start-up, provenance test in `free` | memory of the pool outlives start-up; calls come before it |
| is_working, `mt/is_working.cpp` | none | swaps the malloc hook out and back | not atomic: other threads call and load hooks meanwhile; its probe refers to a local |
| gtest quickstart, `gtest_quickstart.hpp`, and the macros of `testing_helpers.hpp` | configuration | scoped set-up, `EXPECT_NO_F` | nesting, early exit, a set-up that throws half way |
| test runner, `src/test_runner/` | argument mode, two maps, a child | parse, set environment, fork, exec, wait | order of steps, exit codes |
| add_test, `cmake/` | argument lists | check, build a command line | what reaches the runner |
| googletest selection, `cmake/` | variables of a function | filter, pick, extract, build | boundaries of comparisons; scopes |
| macOS interposition, stack traces, googletest and backward-cpp | | | forwarding, third party |

A memory call of the program travels through them from top to bottom:

    malloc (linux.cpp) -- before the library's constructor --> static allocator
      |
      v
    gate: guard, recursive mutex, counter              HookGate
      v
    custom function: initialized? monitoring on?       MemoryTools, Monitoring
      section { service; dispatch -> callback;         RegisterHooks, CallReport
                original malloc; log }
      v
    counter--, unlock, return

A callback is program code again: it allocates (and must be let through by the gate), flips
switches, registers hooks (which allocate and delete through the monitored functions) and
throws. A test drives all of it from above, and a package starts the test:

    configuration: require_googletest(), add_test()    GoogletestSelect, PackageTests
      v
    ctest --> test runner --> test                     TestRunner
                               ScopedQuickstartGtest { EXPECT_NO_F { ... } }   Quickstart

What makes each part correct: the gate never lets two threads, or one thread twice, into
a custom function, and never stays locked; it adds no deadlock to a program that keeps to one of
two orders of locks; a hook object has one owner; the allocations that
the library's sections are there for are never reported; the program's are reported exactly when the switches say
so; a section never stays open; what is logged is what the callback asked for; blocks of the
pool do not overlap, and are copied out of memory that was handed out; `is_working()` is right unless another thread comes between, and changes nothing; a test fails for what it
asked to fail for, and leaves nothing to the next; the newest googletest that is allowed is built, once; a test runs its command in the environment that was asked for, and passes
exactly if the command does.

## Modules

| Module | Models | Extends or instantiates |
|---|---|---|
| `HookGate` | the gate | |
| `HookCells` | *abstract*: one current callback per memory function, replaced atomically | |
| `RegisterHooks` | registration, lookup and dispatch, with the life of every variant | `HookCells` (refined) |
| `Monitoring` | the flags of initialize, monitoring and sections, as operators on the state | |
| `MonitorContract` | *abstract*: which calls are reported | |
| `MemoryTools` | the composition: gate, hooks, switches, expectations, custom functions, `on_f` and `uninitialize()` statement by statement | `HookGate`, `RegisterHooks`, `Monitoring`; refines `MonitorContract` |
| `UserLock` | the gate in a program with a lock of its own | `HookGate` |
| `Quickstart` | tests one after another: set-up with `is_working()`, `EXPECT_NO_F`, tear-down | `MemoryTools` |
| `CallReport` | what a call prints | |
| `StaticAllocator` | the pool | |
| `LinuxInterpose` | start-up on Linux, and which allocator serves a call or gets a block back | `StaticAllocator` |
| `TestRunner` | the command line of `add_test()`, and the runner from its arguments to its exit status | |
| `GoogletestSelect` | calls of `require_googletest` in a package's configuration | |
| `PackageTests` | a package: its configuration, then its test's run | `TestRunner`, `GoogletestSelect` |
| `MC...` | constants for TLC | the module they name |
| `...Proofs` | theorems; `StaticAllocatorProofs` also those of `LinuxInterpose`, `PackageTestsProofs` also those of the modules it composes | the module they name, `TLAPS` |

### From code to state and actions

**HookGate.** `pc[t]` is the place of thread `t` in the innermost replacement function it runs,
`nest[t]` the number of outer ones on its stack; `owner` and `count` are the recursive mutex,
`inside` is `g_inside_custom_memory_function`. Guard, lock, `++`, custom function, `--` and
unlock are an action each. The guard's read is unsynchronised, so `Observed` gives the values it may
return: the exact one for the owner of the mutex, or while nobody owns it; either side of the `++` and `--` while another
thread is between them (an aligned word with x86-64's ordering of stores: the compiled code cannot return
anything else). The four functions differ only in what they forward; `free(nullptr)`, which
returns at once, is left out. The library's constructor makes the mutex (`AllocateMutex`, `made`) and then sets the flag (`CompleteStaticInitialization`, `ready`), two steps between which any
thread may call; their stores are seen in that order (x86-64 again).

**UserLock.** `mutex` is the thread that holds the program's (plain) mutex, `taken` whether it took it in a callback, `blocked` who waits for it.
A callback holds it only until it returns. `style` says what this program does: callbacks take the lock, holders of it call memory functions, both, or neither.
Every other action is the gate's, for a thread that does not wait (`CallGate`, `NestGate`, `LeaveCallback`, `AdvanceGate`).

**RegisterHooks.** `cell[f]` is the atomic pointer of memory function `f`; `content[o]` says what lives at
address `o` (`Dead`: nothing). `on_f` is `BeginOn`, `Construct` or `ConstructThrows`, `Exchange`, `Destroy`, `EndOn`;
`using[t]` is the pointer a dispatch or `get_on_f` has loaded. A deleted address is free to be allocated again.

**Monitoring.** One operator per function of the three files. `insideImpl` is one flag for the
process, which the code declares without `thread_local`.

**MemoryTools.** `step[t]` is the place in the custom function, `at[t]` (of `RegisterHooks`) the place in `on_f`,
`uninit[t]` the statement of `uninitialize()`. The `new` and `delete` of `on_f` are calls through the
gate (`OnCalls`, then `OnAllocates` when they return); `own` marks the threads whose outermost memory call is one of
these. `threw` marks a callback that threw: the program's malloc returns `nullptr`, a `new` throws
`std::bad_alloc`, which unwinds `on_f` and `uninitialize()`. A deleted variant reads as any
value (`MayRun`, `MayNotRun`). `helper[t]` is the place in an `on_unexpected_f` that is called from outside every memory function: around its `on_f` it copies the callback to the heap and
deletes the copy, in calls of `new` and `delete` that no section covers (`HelperCalls`; as many as the callback's type takes), and throws where one fails. Called from a callback, the same calls are turned
away at the gate, so `Registers` starts at its `on_f`. What `get_on_f` returns is copied by program code and registered again like any callback (`Registers`). The program starts when `main` does, after the library's constructor; `HookGate` on
its own starts before. Not followed: `on_f` from a callback that runs on behalf of `on_f`'s own
allocation, and anything but a return from a callback that runs inside `uninitialize()`. The copy of a
`std::function` inside `on_f` is one with the allocation of its variant: both are in the section.

**Quickstart.** `stage` is the place of the test's thread in set-up, `is_working()`, body and tear-down; each statement is an action that takes the
step of `MemoryTools` that it stands for, and `MainLibrary` follows the calls into the library: when `on_f`, `on_unexpected_f` or `uninitialize()` returns, `GoesOn` and `TearsDown` go to the
next statement, when it throws, `SetupThrows` leaves the set-up (the destructor of an object that was never constructed does not run) and `Terminates` ends the
program (a destructor is noexcept). `saved` and `called` are the locals of `is_working()`, whose value the stage "body" has in `called`; the copies it makes of the original hook are on the heap (`Copies`, `CopyThrows`), the second with its own hook in place. `open[f]` counts the blocks of
`EXPECT_NO_F` that are being run: a nested one ends in the same flag. `left` is history: the functions with a block that was left by an exception or a return; so are `broken` and
`dangling`, which say what went wrong in set-up, and `disturbed` (a worker was in a memory function during the `malloc` of `is_working()`), `watched` (who was monitored during its present call) and `heard` (who
holds the probe).
Workers act at every stage, in set-up, inside `is_working()`, in the body and in tear-down (`Works`): they make memory calls, run the hooks those find, and set their own switch. Callbacks are told apart by kind only, "plain" for the probe of `is_working()`, "unexpected" for the
configuration's, whose texts and backtraces are left out. A test's own hooks, and memory tools used by two tests at once, are not followed: that is `MemoryTools`.

**CallReport.** `BuildService` reads the level, a dispatch finds a plain hook (`DispatchPlain`) or the
wrapper of `on_unexpected_f` (`DispatchUnexpected`, `DispatchExpected`), the callback makes any sequence of `ignore()`, `unignore()`
and `print_backtrace()`, then returns or throws, and `Log` prints. It is a module apart from `MemoryTools`, whose
threads would only multiply its states: level, expectation and hook may be anything at any step, which covers every
schedule of the gate. `wrapped` and `asked` are history, read by the properties only. The wording of the line is abstracted to
"line".

**StaticAllocator.** Addresses are offsets from the beginning of the pool, `top` is the stack pointer. Sizes are
taken modulo `Word`; `Fits` has the code's arguments of `std::distance`, and `Calloc` its unchecked product. `Realloc` is
the allocation and the release of the old block; the bytes are not modelled, but from where the copy reads is (`CopyReadsHandedOut`): `reallocate()` copies the *new* size, and relies on having moved the stack pointer by that much
behind the old block.

**LinuxInterpose.** `found` counts the originals found, in the constructor's order, `mutex` is the block of the gate's mutex, which the pool serves, `flag` is
`g_static_initialization_complete`. Before the flag every request goes to the pool (`EarlyRequest`), after it through the gate, which is left out here, to an original
(`CallsOriginal`); `free` asks the pool at any time. A call through an original that is still null, or with a block of the other allocator, is undefined, so `end` records it and the
program is followed no further. `heap` counts blocks of the C library's, some of which come from functions nobody replaces (`OtherRequest`). A block that the pool handed out
beyond its end is a foreign block to `free`, which does not recognise it.

**TestRunner.** `pc` is the place of `main()`: `none` until it is started, `usage`, `parse` (one argument at a time, `mode` says what the next one
is), `set` and `append` (one variable at a time; in any order, because each variable is only ever set from itself), `fork`, `wait`, `exited`. `child` is the command's process,
`status` what the runner's parent sees. An argument is abstracted to what the runner's tests tell apart: one of
its flags, a call for help, a VAR=VALUE pair, nothing at all, other text. A value is the sequence of its elements between
":", with `Nothing` for an empty one, so that `Joined` shows where a separator is added. `setenv`, `fork`, `waitpid` and
`execvp` may fail; what they throw is caught by nobody and aborts the runner (`Aborted`). `waitpid` can only fail once the command is
gone, when the runner was started with SIGCHLD ignored: it handles no signals that could interrupt it. It never
reports a stopped child, because it does not ask for `WUNTRACED`. Without a command, the child reads a
string at address zero and is killed. CMake drops empty elements of lists, so empty arguments come from other callers
only (`Direct`). Not followed: the macro's WORKING_DIRECTORY, which it hands to CMake, what ctest does with TIMEOUT, and Windows.

**GoogletestSelect.** `place` is where the configuration is: in the package's own code, or in the macro and function of `require_googletest`. The loops of the filter and
of the choice are an iteration per action; `valid`, `index` and `newest` are the function's variables (counted from one), gone when it returns (`NoLocals`). `Older` is CMake's
`VERSION_LESS`, `SameNumber` its `EQUAL`, which the code uses on versions and which reads them as numbers. The two guards against a second call test variables
that are set in the function's scope only; they never fire, and what refuses a second call is `add_subdirectory()` (`AddSubdirectory`). CMake runs, and the external project's
archive is built, or not (`Extract`). `Accepts` is the filter as the code has it; `Meets` is what the macro's documentation says of each bound, and serves the properties only: `NewestSelected` compares the two
for the requests that the code reads as they were meant (`ReadAsMeant`), `BoundsMet` for all.

**PackageTests.** The configuration of a package calls `require_googletest` any number of times and ends with `add_test()`, or without, or fails; then the test is
run, or where none was added the runner is started by hand (`RunnerStarts`). `Provided` is the repository's list of versions.

Operators marked `Mutant:` in the modules stand next to the definition they break. They are not part of any
specification: with one of them in its place, TLC finds the property violated that is meant to catch such a bug.

## Runs

| Run | Configuration | Shows |
|---|---|---|
| `gate` | 3 threads, calls nested up to 2 deep, from before static initialization, with a lock of the program's | no re-entry, mutual exclusion of custom functions, exact counter, mutex never locked twice and never used while null; unless callbacks lock *and* holders call, the locks never wait for each other and the gate is given up again |
| `hooks` | 2 threads, 2 memory functions, 4 addresses | every object has one owner; registration refines `HookCells` |
| `hooks_use` | 2 threads, 1 function | **violated**: `UsedHookAlive` |
| `tools_one` | 1 thread, whole interface; callbacks register, disable, throw | refines `MonitorContract`; the allocations of `on_f` unreported; sections close; `uninitialize()` resets what an `initialize()` set up; every call returns |
| `tools_two` | tests with a worker thread that calls, opts in and opts out at every stage; blocks left early, set-ups that throw | `is_working()` says yes unless it was disturbed and puts hooks back, its probe is no hook afterwards; failures are deserved, whichever thread's; tests leave nothing; callbacks exclude each other, a disabled thread is silent |
| `tools_missed` | 2 threads, one hook | **violated**: `ConcurrentCallsReported` |
| `tools_own` | 2 threads register hooks | **violated**: `OwnAllocationsUnreported` |
| `pool` | a program from its first request on; pool of 16 bytes, alignment 4, sizes from 0 to beyond the pool, 4 requests, one block of the C library's | blocks aligned and disjoint; copies read what was handed out; who calls a null original |
| `pool_overrun` | the same pool | **violated**: `Recognised` |
| `call_report` | 2 threads, malloc and free | backtrace with its line and only with it, unless ignored last; unexpected calls logged; quiet unless asked |
| `test_runner` | packages that ask for googletest never, once or twice, with any one or two bounds; tests that set, append, set twice, set to nothing, use the runner's flags in their command; commands that exit, crash, cannot be run; other command lines | the newest googletest that passes the filter, for one bound the newest that meets it, and only one; the command runs as asked, in the environment asked for, never in part of it; passes exactly if it exits with 0; no test runs nothing; a started runner ends |
| `test_runner_dirs` | tests with two library directories | **violated**: `RunsWhereAsked` |

Six more configurations end with a violation each, of what a line of the documentation says beyond the properties above. They are for reading the counterexample; each takes seconds (`tlc -config MCToolsHelper.cfg MCMemoryTools`):

| Configuration, module | Violated | Shows |
|---|---|---|
| `MCToolsHelper`, `MCMemoryTools` | `ImplementationUnreported` | one thread: what `on_unexpected_f` allocates runs the hook |
| `MCUninitEarly`, `MCMemoryTools` | `EarlyUninitializeDoesNothing` | one thread: `uninitialize()` before `initialize()` |
| `MCWorkingMisled`, `MCQuickstart` | `WorkingIsReported` | a worker in a memory function while `is_working()` calls its own |
| `MCProbeOutlives`, `MCQuickstart` | `ProbeIsTemporary` | a worker with the hook of an `is_working()` that has returned |
| `MCCallReportIgnored`, `MCCallReport` | `IgnoredLastUnlogged` | a backtrace asked for, then `ignore()` |
| `MCGoogletestBounds`, `MCPackageTests` | `BoundsMet` | a package between two bounds |

### Bounds

*Threads.* Of a violated property the smallest instance that shows it. Three at the gate: one inside, one between guard and lock, one reading the counter; the theorems lift the number. Two
for hooks and tools: every hazard listed is a race of two; one for the contract, because with two it does not
hold (`tools_missed`), and one thread is what the contract is met for. *Nesting.* `MaxNest` is 2 at the gate although
`NoReentry` shows that 1 is all a call ever reaches; 1 in the composition. One lock of the program's: the theorem's argument looks at two threads and one lock at a time. In `tools_two`, blocks of one
function do not nest (`MaxBlocks` = 1; the theorem lifts it) and hooks are registered free first, so that the hook `is_working()` looks at is the last. *Memory functions.* malloc and free in the composition: the one `new` calls and
the one `delete` calls; the four share their control. *Addresses.* One per cell, one in each hand that registers, so that allocation never
fails for want of an address, only because it throws. *Callbacks.* `CallbackOps` in `tools_one` are to switch
monitoring off and to replace a hook, by `on_f` and by `on_unexpected_f`: the operations that change what the very call decides next. The switch of all threads is left to `tools_two`, whose threads share it. *Pool.* Small
enough that four requests overrun it; `Word` = 256 so that the reversed distance is a large number, as
it is in 64 bits; one block of the C library's, since it tells none apart. *Packages.* Two calls: the second is the one to be refused. Bounds lie between two provided versions, on one, on
a patched one, and above all (`Bounds`), and up to two are given at once: of three, two contradict each other. One test per package, because tests share nothing but the version. *Tests.* Two variables, one of them the library path: the runner treats each on its own, and the library path
is the one the macro appends to by itself. ENV and APPEND_ENV have up to two entries, enough for one to replace another; the environment
the runner starts in has each variable unset, set, and set with a separator at its end. Exit codes 0, 1 and 255 and signals 1, 9 and 64 are
the ends of their ranges; the theorems lift them. *Stopping.* Requests to the pool stop at `MaxRequests`,
the runner exits, a configuration may fail, and a destructor that throws ends a test program, so the runs of `LinuxInterpose`, `StaticAllocator`, `PackageTests`, `TestRunner` and `Quickstart` do not check for deadlock; all others do.
*Symmetry* is used where no thread or address is told apart, and never together with liveness.

### Fairness

A thread that runs goes on running: weak fairness of the steps the library itself takes, which wait for nothing
but the mutex. A callback is user code that is assumed to return if it is given the processor again and again:
strong fairness, because a memory call of its own disables its return for a while. A lock of the program's is assumed to be given up (`Drop`) and handed in the end to whoever waits for it (`Acquire`): strong fairness, as of a lock under which
a program makes progress at all. Nothing is assumed about who gets the mutex: `std::recursive_mutex` promises
no order, a waiter may starve, and so the claims are that the mutex is given up (`MutexReleased`), in programs that do not do both of what `UserLock` tells apart, and that a single thread's calls and
`uninitialize()` return (`CallsReturn`). Program code between calls has no fairness.

Nothing makes a package be configured or a test be started, so `Ends` is about a runner that was. The test runner is one process that waits for nothing but its command: weak fairness of its steps other than failures, and of the command's
end, which is an assumption about the test; ctest's TIMEOUT is for tests that break it.

## What the code does that its documentation does not say

* **`hooks_use`**: `get_on_f()` and `dispatch_f()` use the object of a loaded pointer that a
  concurrent `on_f()` may have deleted (`mt/register_hooks.cpp:44,54`). One thread is enough: a callback that registers a hook deletes
  the variant it is running from, and `dispatch_callback` looks at it again (`mt/dispatch_callback.hpp:44`).
* **`tools_missed`**: the counter of the gate and the flag of the section belong to the process: while one thread is
  inside the tools, calls of other threads go by their hooks (`mt/impl/unix_common.cpp:49`,
  `mt/implementation_monitoring_override.cpp:22`).
* **`tools_own`**: the end of any section ends them all, so an allocation of `on_f()` can reach the user's
  hooks (`mt/implementation_monitoring_override.cpp:39`).
* **`MCToolsHelper`**: what `on_unexpected_f()` allocates for its wrapper, and what it deletes, is in no section: with monitoring on, even in a program of one thread these calls of the library's
  run the hook that is registered (`mt/testing_helpers.cpp:32`).
* **`MCUninitEarly`**: `uninitialize()` stores `true` into the flag that says the tools are initialized, so that a call before `initialize()`, which is to do nothing, initializes them (`mt/initialize.cpp:64`).
* **`MCWorkingMisled`**: if another thread is inside a memory function when `is_working()` calls its own, the gate lets that by and `is_working()` returns false (`mt/is_working.cpp:50`).
* **`MCProbeOutlives`**: a monitored thread that loaded the hook of `is_working()` may call it when that has returned, and writes to a local that is gone (`mt/is_working.cpp:51`).
* **`MCCallReportIgnored`**: `ignore()` as the last word after `print_backtrace()` does not silence the call (`mt/memory_tools_service_factory.hpp:44`).
* **`pool_overrun`**: the pool's bound has its arguments swapped (`mt/impl/static_allocator.hpp:63`).
* **`test_runner_dirs`**: `APPEND_LIBRARY_DIRS` becomes one `--append-env` argument per directory, all of the same variable
  (`cmake/osrf_testing_tools_cpp_add_test.cmake:84`), and the runner keeps the last value of a variable given twice: the other directories are lost (`src/test_runner/main.cpp:108`).
* **`MCGoogletestBounds`**: a lower and an upper bound on googletest are joined by *or* (`cmake/osrf_testing_tools_cpp_require_googletest.cmake:80`), so that a version beyond one of them is built. `EQUAL`
  takes 1.10.0.1 for 1.10 and 1.14.5 for 1.14 in VERSION_LTE and VERSION_GTE (`:86,96`), which this run leaves out.

Also met while modelling, and (but for the last, which no module follows) part of the modules as the code has them:

* A block of the pool that is reallocated after start-up is handed to the original `realloc` (`mt/impl/linux.cpp:102`), and a block of the C library's that is freed
  before the originals are found calls a null pointer (`mt/impl/linux.cpp:122`); `NullCallsAreEarlyFrees` says that nothing else calls one.
* When the last block of the pool grows, the copy's source and target overlap (`mt/impl/static_allocator.hpp:89`); with the pool overrun (`pool_overrun`) it reads beyond the pool, and with a size that wraps beyond what was handed out.
* A program whose callbacks take a lock under which it also calls memory functions deadlocks (`mt/impl/unix_common.cpp:52`).
* If putting the hook back throws, the probe of `is_working()` outlives the local it writes to (`mt/is_working.cpp:51`).
* The end of a nested `EXPECT_NO_F` ends the outer one, and a block that is left by an exception goes on until the tear-down (`mt/testing_helpers.cpp:50`).
* A `ScopedQuickstartGtest` whose constructor throws tears nothing down, and one whose destructor does ends the program (`gtest_quickstart.hpp:232,238`).
* A second call of `require_googletest` extracts and builds before CMake refuses it: the variables of its guards do not outlive the function (`:181`).
* A TIMEOUT of 0 becomes 60, before it is refused (`cmake/osrf_testing_tools_cpp_add_test.cmake:57`).
* `-h` anywhere, the command's own arguments included, makes the runner print its usage and fail
  (`src/test_runner/main.cpp:50`).
* `WORKING_DIRECTORY` passes the name of the macro's variable on, not its value (`cmake/osrf_testing_tools_cpp_add_test.cmake:65`).

## Proofs

Every theorem is about the specification with arbitrary constants, under the `ASSUME`s of its module, which say that
"no thread", "no object" and the like are not threads or objects, that the alignment divides `Word`, that programs call operations that
exist, that workers of a test set switches only, that exit codes have 8 bits and that signals are from 1 to 64, that calls are bounded by a natural number, and that the first googletest provided is the oldest. Each module's proof has the same
shape: the invariant holds initially, every action keeps it (one step per action, and for a composition a lemma per component), and the conjuncts follow.

| Module | Inductive invariant | Theorems |
|---|---|---|
| `HookGateProofs` | `GateInv` | `GateInvariant`, `NeverReentered`, `MutualExclusion`, `CounterAlwaysExact`, `AlwaysLockedOnce`, `NeverUsedUnmade` |
| `UserLockProofs` | `UserInv` | `LockSpecIsGate`, `LockTypeCorrect`, `NoDeadlockOnGate` |
| `RegisterHooksProofs` | `HooksInv` | `HooksInvariant`, `NoLeakNoDoubleDelete`, `ImplementsCells` |
| `MemoryToolsProofs` | `ToolsInv`, `AloneInv` | `ToolsInvariant`, `TypeCorrect`, `SectionsAlwaysClose`, `DisabledNeverReports`, `CallbacksExclude`; for one thread `OneThreadReported`, `OneThreadUnreported`, `OneThreadResets` |
| `QuickstartProofs` | `QuickInv` | `QuickstartUsesTools`, `QuickTypeCorrect`, `WorkingIsTold`, `ProbeStaysInScope`, `TestsAreIndependent`, `FailuresAreDeserved`, `TestsReset` |
| `StaticAllocatorProofs` | `PoolInv`, `StartInv`, `StartTypes` | `AlwaysAligned`, `BlocksDisjoint`, `LinuxUsesPool`, `LinuxTypeCorrect`, `OnlyEarlyFreesCallNull`, `CopiesReadHandedOut` |
| `CallReportProofs` | `ReportInv` | `ReportTypeCorrect`, `BacktraceNeedsLine`, `UnexpectedAlwaysLogged`, `NothingUnasked` |
| `PackageTestsProofs` | `RunnerInv`, `SelectInv`, `CommandInv`, `RunnerTypeInv`, `SelectTypeInv`, `VerbatimInv`, `EnvInv` | `PackageUsesBoth`, `PackageTypeCorrect`, `RunnerReportsCommand`, `CommandNotLeftRunning`, `TestsNeverRunNothing`, `TestsRunTheirCommand`, `TestsRunWhereAsked`, `NewestIsSelected`, `NeverTwoGoogletests` |

A composition that takes the steps of a component and no others implements that component's specification: `LockSpecIsGate`, `QuickstartUsesTools`, `LinuxUsesPool` and
`PackageUsesBoth` say so, and carry the theorems about the components over.

*The gate.* Mutual exclusion does not follow from the guard, which any thread may pass at any time, nor is it inductive:
one has to know that a thread inside holds the mutex (`LockHeldOnce`), that it holds it once (else one unlock would not free it),
and that its nested calls are always turned away, for which the counter has to be exact (`CounterExact`) and its own
reads of it too. `GateInv` is these together, and `StartOrder`: the flag is set behind the mutex, and nobody passes the guard before the flag. `NeverUsedUnmade` follows from that, not from the guard, which does not look at the mutex.

*A lock of the program's.* That the locks do not cross needs to know where waiters and holders are: whoever waits is in the program or in a callback outside nested calls, a lock taken in a
callback is held inside the gate (`CallbackHolderPlaced`), and one taken in the program is carried into the gate in one style only (`ProgramHolderPlaced`). What a nested call does with
the lock held is the gate's part: it never waits, because `NoReentry` holds.

*The hooks.* `Ownership` (a live object is in one cell or in one hand, a dead one in none) needs `Registering`, which ties what a thread
holds to where it is in `on_f`. The refinement maps the exchange to the commit of `HookCells`, a
failed allocation to its abandonment, and everything else to a stutter.

*The composition.* `ToolsInv` takes `GateInv` and `HooksInv` over from the instances and adds that a thread is at a step of
the custom function exactly while it is behind the gate (`StepInHook`). With it, `OneCallbackAtATime` is the gate's mutual
exclusion and `SectionsClose` a statement about a single thread's stack of sections. Most steps of the composition change the variables of
one component only; the lemmas about the components are the ones proved there.

*One thread.* `tools_missed` and `tools_own` refute for two threads what the documentation promises, so three theorems have `OneThread` as their
hypothesis. `OneThreadReported` is the refinement of `MonitorContract`: each step of the library is the step of the contract that the mapping names, or a
stutter. It needs `Alone(t)`, which has two parts. `Placed(t)` says where `on_f`, `uninitialize()` and `on_unexpected_f` find their thread, and what the custom function has read of the
thread's own switches; it holds whatever other threads do. `Undisturbed(t)` says that the calls `on_f` makes for itself, inside its section, are decided at the first look and run no callback; that is what another
thread's section breaks. `OneThreadUnreported` is the second part, for `on_f` alone: what `on_unexpected_f` allocates around it is in no section, and runs hooks (`MCToolsHelper`).
`OneThreadResets` needs `UninitInv(t)`: which hooks and switches `uninitialize()` has put down at each of its statements, and that nothing it calls puts one up again. It is about tools that were initialized (`MCUninitEarly`).

*A quickstart test.* `ScriptInv` says at every stage of the test what its thread has done so far: which hooks are registered (`Registered`, `Hooked`), which
switches are on (`SwitchedOn`), what `is_working()` knows of its probe (`Probed`), what the library is asked to do at this statement (`Asked`, `Counts`), and where in the library it may be (`Outside`). Workers act all along:
`WorkerLeaves` lists what their steps leave alone, among it hooks and expectations, and is proved once; `Placed` and `UninitInv` of the test's thread hold beside them, `Undisturbed` does not and is not used. `Unscripted` is the one thing of
the script's that a worker's callback may change, what `is_working()` returns.
`WorkingIsTold` is `Probed` and `Hooked` at the beginning of the body: the `malloc` of `is_working()` is monitored and finds the probe, because everything before it was
registered and switched on, and the guard of the gate does not turn it away, because nobody else is in there unless `disturbed` says so (`ProbesAlone`). `ProbeStaysInScope` is `PlainScoped` (outside `is_working()` no object is a probe, unless putting the old hook back threw,
`dangling`) and `Heard` (the test's thread has let go of it). A failure needs a callback of the configuration, which looks at the process-wide expectation: `Explained` ties that flag to the open and left blocks, across nested
ends. The other half, that the thread was monitored during its call, whichever thread it is, is `Watching`. `TestsAreIndependent` and `TestsReset` follow from how far
`uninitialize()` has come, since workers neither register nor expect.

*The pool.* `AlwaysAligned` needs only that every rounded size is a multiple, wrapping included; `BlocksDisjoint` is
about `NoWrap`: without it a rounded size can be smaller than the size, and blocks overlap. `CopiesReadHandedOut` needs in addition that every live block ends below the stack pointer, so that what the new block adds to it covers the copy; `FreeRewinds`, which
looks like an improvement of `deallocate()`, breaks it. `StartInv` is the order of start-up: the flag after the mutex, the mutex after all four originals; then nobody
who waits for the flag can meet a null original.

*What a call prints.* The history of what the callback asked and the service's two flags agree (`History`) until the
log; a callback may unignore and ignore again, so the two flags need a conjunct each.

*The test runner.* What is reported at the end depends on where the child is all along: `Followed` says that there is none before the
fork and that the runner waits while it runs. The one arithmetic fact is `SignalShows`: the exit code of a killed command, a
negated signal in 8 bits, is never 0. A test that was added has a command, and its command line announces it with "--" (`CommandInv`): `CmdWrapper` puts it there, whatever comes before, and reading
arguments drops nothing behind it.

*What a test runs.* `TestsRunTheirCommand` says that the command arrives word for word, the runner's own flags in it included. `VerbatimInv` follows the first "--" of the command line, and
is about lists of variables without a "--" among them (`ListsUnmarked`): the macro hands such an entry on, and the runner would take it for the end of its own arguments.
`TestsRunWhereAsked` compares the command's environment with a reference definition of ENV, APPEND_ENV and APPEND_LIBRARY_DIRS (`Asked`). `Layout` is the command line the macro
writes, `ReadTo` what the runner has read of it so far (for each variable the *last* value, `ReadOf`, with the place it was given at, so that no maximum has to be computed), `Settled` and
`Completed` what the environment will be once the variables not yet set are set. Its hypotheses are `ListsPlain`, no entry is one of the runner's flags (the macro documents entries as
VAR=value, `cmake/osrf_testing_tools_cpp_add_test.cmake:32,34`), and `AppendedOnce`, no variable is appended to twice. The second is exactly what `test_runner_dirs` refutes the property
without; values set twice are covered. All tests of the run `test_runner` meet both, and there the property holds. With `AppendedOnce` the reference folds over at most one entry, which needs no induction
(`AskedNone`, `AskedOne`).

*The selection.* `SelectInv` carries what the two loops have done so far: `valid` lists exactly the accepted versions up to `current`, and `newest` is that of `index` and no older than any valid
one looked at. The search starts from the first version, valid or not: that it ends on a valid one needs that the first is the oldest (`OldestAssumption`, of the repository's list), since
then either the first is valid, or every valid one is newer and the first of them replaces it.

Model-checked only: liveness under fairness (`MutexReleased`, `CallsReturn`, `Ends`), which the provers cannot do. Every invariant and every action property of a passing run
is a theorem, for one thread where the property holds for one thread only. What is not proved because it is false: the contract and
`OwnAllocationsUnreported` for two threads, `ImplementationUnreported` for one, that `is_working()` says yes and its probe is called by nobody afterwards whatever the workers do, `Meets` for two bounds, and `RunsWhereAsked` for a variable that is appended to twice.

## Not modelled

macOS interposition (four forwarders and a linker table), unsupported platforms (a message), stack traces (reading the machine's stack
with a vendored library), the wrappers of the custom functions that detect recursion by backtrace (unused on the
platforms supported), the wording of messages and of environment variables, Windows, third-party code and the example project.

## Plan

1. `MonitorContract`: the guarantees that hold for any number of threads (nothing is reported that is switched off), as a contract of its own,
   leaving the missed reports aside, and the theorem that the tools implement it.
2. `TestRunner`: an abstract "run this command in this environment", which `TestsRunTheirCommand` and `TestsRunWhereAsked` are the two halves of, and the refinement.
3. The lazily built stack trace of the service and the recursion check by backtrace, if a platform comes to use it.

Abstract specifications are in place for the hooks (`HookCells`) and the composition (`MonitorContract`).
