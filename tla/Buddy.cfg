\* Two zones, pages 1 to 4 and 8 to 11 free, blocks of up to four pages.
CONSTANTS
  PageSize = 4
  MaxOrder = 2
  MemoryMap <- TwoMaps
  FreeRanges <- TwoFree
  LeftOver <- Zeroed
SPECIFICATION Spec
INVARIANTS
  EveryPageOnce
  BuddyMarksAreFresh
PROPERTIES
  ImplementsPagePool
