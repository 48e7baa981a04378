\* The test program switches to a thread without a frame.
CONSTANTS
  k = k
  a = a
  b = b
  Thread = {k, a, b}
  Kernel = k
  NULL = NULL
  MaxNest = 1
  Rounds = 2
  First = a
SPECIFICATION TSpec
INVARIANTS
  NoWildSwitch
