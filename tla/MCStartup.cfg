CONSTANTS
  p1 = p1
  p2 = p2
  Procs = {p1, p2}
  NoInput = NoInput
  NoProc = NoProc
  Cases <- MCCases
  U8Max = 4
  FalseWords = {"no"}
  Migrations = 2
  MaxCrashes = 1
  MaxFailures = 1
SPECIFICATION Spec
INVARIANTS ArgsMeanWhatTheySay NeverFailsOpen MigrationFailsOnlyInRace RefusedLeavesDb LifetimesFit OneDatabase
PROPERTIES NeverClobbers Recovers
