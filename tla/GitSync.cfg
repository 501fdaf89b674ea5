SPECIFICATION FairSpec
CONSTANTS
  Urls <- MCUrls
  Branches <- MCBranches
  Files <- MCFiles
  SafeChars <- MCSafe
  MaxStops = 1
  MaxFailures = 1
  MaxChanges = 1
INVARIANTS
  GitInv
  ScannedIsUpstream
PROPERTIES
  SyncsUnlessBroken
