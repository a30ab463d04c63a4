SPECIFICATION Spec
CONSTANTS
  MaxRuns = 3
  MaxCrashes = 3
  ServerPid = 4097
  ServerMapSize = 600000
  MayCrashIdle = TRUE
  MayPanic = TRUE
  MayDie = TRUE
  InitServer = {"up"}
CHECK_DEADLOCK FALSE
INVARIANTS
  NoMissedCrash
  NoPhantomCrashes
  LeaksAreFailures
