SPECIFICATION FairSpec
CONSTANTS
  NumRepos = 3
  Limit = 2
  KeepDir = FALSE
  MaxRefs = 1
INVARIANTS
  RunnerInv
  CompleteOrError
  NothingOutlivesRun
PROPERTIES
  ImplementsRun
  RunReturns
