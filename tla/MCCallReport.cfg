\* Two threads, any verbosity, callbacks that ignore, unignore and ask for backtraces.
CONSTANTS
  Thread = {t1, t2}
  MemFn = {malloc, free}
  FreeFn = free
SYMMETRY Symmetric
SPECIFICATION Spec
INVARIANTS
  TypeOK
  BacktraceOnlyWithLine
  UnexpectedLogged
  QuietByDefault
