\* Three threads through the gate, with a lock of the program's.
CONSTANTS
  Thread = {t1, t2, t3}
  NoThread = NoThread
  MaxNest = 2
SPECIFICATION FairLockSpec
INVARIANTS
  LockTypeOK
  NoReentry
  HookMutualExclusion
  CounterExact
  LockHeldOnce
  MutexExists
  LocksNeverCross
PROPERTIES
  MutexReleased
\* The program that does both deadlocks.
CHECK_DEADLOCK FALSE
