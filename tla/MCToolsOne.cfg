\* One thread, the library's operations, callbacks that switch, register and throw.
CONSTANTS
  t1 = t1
  t2 = t2
  malloc = malloc
  free = free
  Thread = {t1}
  NoThread = NoThread
  MaxNest = 1
  MemFn = {malloc, free}
  FnSeq <- MallocFree
  AllocFn = malloc
  FreeFn = free
  Obj = {o1, o2, o3}
  NoObj = NoObj
  Dead = Dead
  Null = Null
  Unset = Unset
  NoRequest = NoRequest
  Ops <- WholeInterface
  CallbackOps <- AnyCallbacks
SPECIFICATION FairSpec
INVARIANTS
  TypeOK
  OwnAllocationsUnreported
  SectionsClose
PROPERTIES
  
  UninitializeResets
  CallsReturn
