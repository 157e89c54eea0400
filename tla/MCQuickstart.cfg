\* Tests with a worker.
CONSTANTS
  t1 = t1
  t2 = t2
  malloc = malloc
  free = free
  Thread = {t1, t2}
  Main = t1
  NoThread = NoThread
  MaxNest = 1
  MaxBlocks = 1
  MemFn = {malloc, free}
  FnSeq <- MallocFree
  MapSeq <- FreeMalloc
  OtherKey = OtherKey
  AllocFn = malloc
  FreeFn = free
  Obj = {o1, o2, o3}
  NoObj = NoObj
  Dead = Dead
  Null = Null
  Unset = Unset
  NoRequest = NoRequest
  Ops <- TestAndWorker
  CallbackOps <- NoCalls
SYMMETRY Symmetric
SPECIFICATION QuickSpec
INVARIANTS
  QuickTypeOK
  OneCallbackAtATime
  DisabledThreadSilent
  IsWorkingTells
  ProbeIsUnset
  TestsLeaveNothing
PROPERTIES
  FailuresDeserved
\* A destructor that throws ends the program.
CHECK_DEADLOCK FALSE
