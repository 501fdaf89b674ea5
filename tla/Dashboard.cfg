SPECIFICATION FairSpec
CONSTANTS
  MaxRequests = 3
  MaxScans = 2
  MaxBatches = 1
  MaxFailures = 1
INVARIANTS
  PageInv
  TableMatchesLastScan
PROPERTIES
  ChipSettles
CHECK_DEADLOCK FALSE
