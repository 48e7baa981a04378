\* Entries that overlap.
CONSTANTS
  Maps <- Overlapping
  KernelImage <- Image
  MaxRanges = 14
  Requests <- SomeRequests
SPECIFICATION TSpec
INVARIANTS
  NothingForgotten
