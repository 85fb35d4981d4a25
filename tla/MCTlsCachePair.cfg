CONSTANTS
  CaValid = 4
  LeafValid = 3
  Margin = 1
  SamePid = TRUE
  MaxTime = 6
  MaxPairs = 4
  MaxCrashes = 1
  MaxFailures = 0
SPECIFICATION Spec
INVARIANT MaterialMatches
