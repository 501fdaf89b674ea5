SPECIFICATION FairSpec
CONSTANTS
  Workers = {w1, w2}
  IndexKeys = {i1, i2}
  TagKeys = {o1}
  NoWorker = none
  FetchSlots = 1
  TTL = 2
  CanTimeOut = FALSE
  MaxTime = 2
  MaxScans = 2
  MaxAsks = 2
INVARIANTS
  FetchedOnce
PROPERTIES
  IndexLookupsEnd
