\* A hook that is used while another thread replaces it.
CONSTANTS
  Thread = {t1, t2}
  MemFn = {malloc}
  Callback = {cb}
  Null = Null
  Obj = {o1, o2, o3, o4}
  NoObj = NoObj
  Dead = Dead
  Unset = Unset
  NoRequest = NoRequest
SPECIFICATION Spec
INVARIANTS
  UsedHookAlive
