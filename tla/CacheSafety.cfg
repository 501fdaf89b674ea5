SPECIFICATION Spec
CONSTANTS
  Workers = {w1, w2, w3}
  IndexKeys = {i1, i2}
  TagKeys = {o1}
  NoWorker = none
  FetchSlots = 1
  TTL = 1
  CanTimeOut = TRUE
  MaxTime = 2
  MaxScans = 1
  MaxAsks = 3
SYMMETRY Symmetry
INVARIANTS
  CacheInv
PROPERTIES
  ImplementsLookups
