\* Two threads that register hooks: the allocation of one is reported.
CONSTANTS
  t1 = t1
  t2 = t2
  malloc = malloc
  free = free
  Thread = {t1, t2}
  NoThread = NoThread
  MaxNest = 1
  MemFn = {malloc, free}
  FnSeq <- MallocFree
  AllocFn = malloc
  FreeFn = free
  Obj = {o1, o2, o3}
  NoObj = NoObj
  Dead = Dead
  Null = Null
  Unset = Unset
  NoRequest = NoRequest
  Ops <- TwoMonitors
  CallbackOps <- NoCalls
SYMMETRY Symmetric
SPECIFICATION Spec
INVARIANTS
  OwnAllocationsUnreported
