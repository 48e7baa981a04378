\* Safety and the round robin, with nested interrupts: the boot thread and
\* two places for new threads.
CONSTANTS
  k = k
  a = a
  b = b
  Thread = {k, a, b}
  Kernel = k
  NULL = NULL
  MaxNest = 2
SYMMETRY Places
SPECIFICATION Spec
INVARIANTS
  OwnContext
  NothingFreedInUse
  KillNeverReturns
  WholeRing
PROPERTIES
  LeavesOnlyByDying
  ImplementsRoundRobin
