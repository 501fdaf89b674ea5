SPECIFICATION FairSpec
CONSTANTS
  Repos = {r1, r2}
  Triggers = {t1}
  Posts = {}
  Readers = {s1}
  Sched = sched
  Scheduled = TRUE
  InCluster = TRUE
  MaxTicks = 1
INVARIANTS
  PartialNeverLooksClean
  IdleStatusIsCurrent
PROPERTIES
  LatestResultsKept
  TriggeredScanHappens
