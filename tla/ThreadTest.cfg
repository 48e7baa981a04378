\* The test program with one round and no nesting: safety, its end,
\* and the liveness of the scheduler under it.
CONSTANTS
  k = k
  a = a
  b = b
  Thread = {k, a, b}
  Kernel = k
  NULL = NULL
  MaxNest = 1
  Rounds = 1
  First = a
SPECIFICATION TFairSpec
INVARIANTS
  ReadersSeeX
  XOutlivesItsUsers
PROPERTIES
  EndsUnlessLockLost
  EveryThreadRuns
