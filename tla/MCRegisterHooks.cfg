\* Two threads register and use the hooks of two memory functions.
CONSTANTS
  Thread = {t1, t2}
  MemFn = {malloc, free}
  Callback = {cb}
  Null = Null
  Obj = {o1, o2, o3, o4}
  NoObj = NoObj
  Dead = Dead
  Unset = Unset
  NoRequest = NoRequest
SPECIFICATION Spec
INVARIANTS
  HooksInv
PROPERTIES
  AtomicCells
