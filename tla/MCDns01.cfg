CONSTANTS
  a = a
  b = b
  Names <- MCNames
  Configs <- MCConfigs
  TxtKept = 1
  Validity = 1
  MaxTime = 2
  MaxCerts = 5
  MaxCrashes = 1
  MaxFailures = 1
SPECIFICATION Spec
INVARIANTS PairMatches CnameFollowsCreds FewNamesSucceed StaleNamesOnlyFromCache NoNeedlessOrders
PROPERTY Recovers
