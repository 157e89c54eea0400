\* A program from its first request on, with a pool that runs out.
\* Requests stop at MaxRequests, and a program may end.
CHECK_DEADLOCK FALSE
CONSTANTS
  PoolSize = 16
  MaxAlign = 4
  Word = 256
  Sizes <- SmallSizes
  MaxRequests = 4
  MutexSize = 6
  MaxHeap = 1
SPECIFICATION LinuxSpec
INVARIANTS
  LinuxTypeOK
  Aligned
  Disjoint
  NullCallsAreEarlyFrees
PROPERTIES
  CopyReadsHandedOut
