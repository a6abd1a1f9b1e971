SPECIFICATION Spec
CONSTANTS
  Granule = 8
  Classes = 2
  OversizedClass = 5
  HeapBase = 8
  PageSize = 24
  WordMod = 1000
  MaxPages = 2
  Sizes = {8, 9, 16, 24, 32}
  Objects = {o1, o2, o3}
  FreeOversized = FALSE
  CleanImages = TRUE
  MaxRefs = 2
  MaxHeap = 64
SYMMETRY Symmetry
INVARIANTS NoAlias WellFormed NothingLeaks InMemory
