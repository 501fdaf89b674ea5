SPECIFICATION Spec
CONSTANTS
  Callers = {c1, c2}
  MaxSecond = 2
  TTL = 1
SYMMETRY Symmetry
INVARIANTS
  KubeInv
  RefusalsAreTruthful
  OverlapBounded
  RunningSeesSteadyJobs
