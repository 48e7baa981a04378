\* Pools of three objects, a bitmask of two words of two bits.
CONSTANTS
  t1 = t1
  t2 = t2
  Thread = {t1, t2}
  Block <- Blocks
  NULL = NULL
  ObjCount = 3
  WordBits = 2
  Class = 23
  OtherClass = 1
  Requests = {1900, 3000, 16384, 16385}
SPECIFICATION HeapSpec
SYMMETRY Interchangeable
INVARIANTS
  InUseIsOurs
  MaskTellsUse
  NoBug
  LayoutFits
  FreeFindsItsWay
  CopiesWhatItHolds
PROPERTIES
  GrowsOnlyWhenFull
  ImplementsSlab
