\* One zone whose page structures were never zeroed.
CONSTANTS
  PageSize = 4
  MaxOrder = 1
  MemoryMap <- OneMap
  FreeRanges <- OneFree
  LeftOver <- AnyFlags
SPECIFICATION Spec
INVARIANTS
  NoFault
