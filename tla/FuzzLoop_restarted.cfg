SPECIFICATION Spec
CONSTANTS
  MaxRuns = 3
  MaxCrashes = 2
  ServerPid = 4097
  ServerMapSize = 600000
  MayCrashIdle = FALSE
  MayPanic = FALSE
  MayDie = FALSE
  InitServer = {"recovering"}
PROPERTY
  SingleServer
