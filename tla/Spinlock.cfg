\* Safety, refinement and liveness of the lock with four threads.
CONSTANTS
  p1 = p1
  p2 = p2
  p3 = p3
  p4 = p4
  Proc = {p1, p2, p3, p4}
SPECIFICATION FairSpec
PROPERTIES
  ImplementsMutex
  SomeoneGetsIn
