CONSTANTS
  Threads = {t1, t2}
  Bos = {b1, b2}
  Names = {n1}
  None = None
  SparseKernel = TRUE
  CacheSizes = {1, 10}
  SmallSize = 1
  SmallTotal = 1
  Few = 2
  Plenty = 15
  Fresh = 0
  Aged = 2
  Old = 2
  Requests <- SomeRequests
  ServerSize = 1
  MaxRefs = 2
  Admits = {}
SPECIFICATION Spec
SYMMETRY Symmetry
INVARIANTS TypeOK OwnershipAgrees OwnerCanUse NothingGetsOld
