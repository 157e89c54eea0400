\* Two threads under one hook: a call of one is missed during a call of the other.
CONSTANTS
  t1 = t1
  t2 = t2
  malloc = malloc
  free = free
  Thread = {t1, t2}
  NoThread = NoThread
  MaxNest = 1
  MemFn = {malloc, free}
  FnSeq <- MallocFree
  AllocFn = malloc
  FreeFn = free
  Obj = {o1, o2, o3}
  NoObj = NoObj
  Dead = Dead
  Null = Null
  Unset = Unset
  NoRequest = NoRequest
  Ops <- OneMonitor
  CallbackOps <- NoCalls
SPECIFICATION Spec
PROPERTIES
  ConcurrentCallsReported
