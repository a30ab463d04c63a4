SPECIFICATION FairSpec
CONSTANTS
  MaxRuns = 2
  MaxCrashes = 1
  ServerPid = 4097
  ServerMapSize = 600000
  MayCrashIdle = FALSE
  MayPanic = FALSE
  MayDie = FALSE
  InitServer = {"up"}
PROPERTY
  InformedAfterKill
