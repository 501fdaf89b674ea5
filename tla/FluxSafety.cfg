SPECIFICATION Spec
CONSTANTS
  Repos <- MCRepos
  Names <- MCNames
  Trees <- MCTrees
  Flaky <- MCFlaky
  Newest = "2"
INVARIANTS
  FluxInv
  SourcesAreLast
  RefsExact
