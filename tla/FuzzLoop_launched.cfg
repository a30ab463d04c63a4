SPECIFICATION FairSpec
CONSTANTS
  MaxRuns = 3
  MaxCrashes = 2
  ServerPid = 4097
  ServerMapSize = 600000
  MayCrashIdle = FALSE
  MayPanic = FALSE
  MayDie = FALSE
  InitServer = {"down"}
INVARIANTS
  VerdictFromOwnRun
PROPERTIES
  AbortsOnlyOnLoss
  ImplementsOracle
  RunsAreJudged
