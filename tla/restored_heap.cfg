SPECIFICATION Spec
CONSTANTS
  Granule = 8
  Classes = 2
  OversizedClass = 5
  HeapBase = 8
  PageSize = 64
  WordMod = 1000
  MaxPages = 1
  Sizes = {8, 16}
  Objects = {o1, o2}
  FreeOversized = FALSE
  CleanImages = FALSE
  MaxRefs = 1
  MaxHeap = 64
INVARIANT NoAlias
