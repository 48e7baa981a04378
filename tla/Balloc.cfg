\* Any memory map of two or three entries, overlapping or not, and the
\* allocations and frees that follow.
CONSTANTS
  Maps <- AnyMaps
  KernelImage <- Image
  MaxRanges = 14
  Requests <- SomeRequests
SPECIFICATION TSpec
INVARIANTS
  OnlyUsableIsFree
  NodesSuffice
  HandedOutOnce
  TreesAreRight
PROPERTIES
  NothingLeaks
  RefusesOnlyWhenFull
