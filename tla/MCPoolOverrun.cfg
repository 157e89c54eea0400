\* A pool that runs out: what it hands out then.
\* Requests stop at MaxRequests.
CHECK_DEADLOCK FALSE
CONSTANTS
  PoolSize = 16
  MaxAlign = 4
  Word = 256
  Sizes <- SmallSizes
  MaxRequests = 4
SPECIFICATION Spec
INVARIANTS
  Recognised
