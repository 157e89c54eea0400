---------------------------- MODULE MCQuickstart ----------------------------
(* Quickstart for TLC: a test's thread and a worker.                        *)
EXTENDS Quickstart, TLC

CONSTANTS t1, t2, malloc, free

MallocFree == <<malloc, free>>
FreeMalloc == <<free, malloc>>

Symmetric == Permutations(Obj)

(* t1 runs the tests; t2 makes memory calls and sets its own switch.        *)
TestAndWorker ==
  t1 :> {"initialize", "on_unexpected", "on", "unregister", "enable", "expect_begin", "expect_end",
         "enable_all", "disable_all", "disable", "uninitialize"}
  @@ t2 :> {"enable", "disable", "unset"}

NoCalls == {}
=============================================================================
