\* Any amount of memory up to more than fits, runs of up to eight pages in a
\* window of nine.
CONSTANTS
  Pages = 9
  Orders = 3
  Counts <- Requests
  PT_ENTRIES = 3
  HIGHER_BASE = 27
  KMAP_BEGIN = 63
  VIRTUAL_BASE = 72
  Limits <- AnyLimit
  KmapLimits = {14}
SPECIFICATION PSpec
INVARIANTS
  Tiled
  NothingFaults
  RefusesOnlyWhenNone
  MapsMemory
  WindowIsRuns
