CONSTANTS
  s1 = s1
  s2 = s2
  s3 = s3
  s4 = s4
  Sids <- MCSids
  Reader = s1
  Limits <- MCLimits
  MaxLimit = 2
  MaxEvents = 3
SPECIFICATION Spec
INVARIANTS ListedOnce SkippedAtMostGone AloneMissesOne MoreMeansMore RevokedAtOnce
PROPERTY PagingEnds
