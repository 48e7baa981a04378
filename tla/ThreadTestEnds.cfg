\* The test program does not reach its end.
CONSTANTS
  k = k
  a = a
  b = b
  Thread = {k, a, b}
  Kernel = k
  NULL = NULL
  MaxNest = 1
  Rounds = 2
  First = a
SPECIFICATION TFairSpec
PROPERTIES
  MainEnds
