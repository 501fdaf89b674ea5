SPECIFICATION Spec
CONSTANTS
  Repos <- MCRepos
  Names <- MCNames
  Trees <- DocTrees
  Flaky <- MCFlaky
  Newest = "2"
INVARIANTS
  OneSeriesPerOutdated
