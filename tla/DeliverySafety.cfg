SPECIFICATION FairSpec
CONSTANTS
  Jobs <- MCJobs
  Backoff <- MCBackoff
  MaxCrashes = 1
INVARIANTS
  DeliveryInv
  CompleteIsDelivered
  AckedIsOnShow
PROPERTIES
  OlderOnlyIfGivenUp
  JobEnds
