SPECIFICATION Spec
CONSTANTS
  Repos = {r1, r2}
  Triggers = {t1, t2}
  Posts = {p1}
  Readers = {}
  Sched = sched
  Scheduled = TRUE
  InCluster = TRUE
  MaxTicks = 0
SYMMETRY Symmetry
INVARIANTS
  ServiceInv
  ScanningFlagExact
  SuccessesAreSaves
PROPERTIES
  ResultsNeverWiped
  ImplementsBoard
