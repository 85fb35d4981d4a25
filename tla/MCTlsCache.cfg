CONSTANTS
  CaValid = 3
  LeafValid = 2
  Margin = 1
  SamePid = FALSE
  MaxTime = 3
  MaxPairs = 10
  MaxCrashes = 2
  MaxFailures = 1
SPECIFICATION Spec
INVARIANTS TypeOK CaPairMatches OnlyRenewalTears ChainBreaksOnlyByExpiry ServedFresh
PROPERTY Recovers
