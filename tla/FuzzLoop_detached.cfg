SPECIFICATION FairSpec
CONSTANTS
  MaxRuns = 3
  MaxCrashes = 2
  ServerPid = 4097
  ServerMapSize = 600000
  MayCrashIdle = FALSE
  MayPanic = FALSE
  MayDie = TRUE
  InitServer = {"up"}
INVARIANTS
  TypeOK
  VerdictFromOwnRun
  ExecutesRequestedCase
  CrashAttribution
  CaseMeetsServer
  ExecutionIsMarked
  Lockstep
  Attribution
PROPERTIES
  AbortsOnlyOnLoss
  ImplementsOracle
  RunsAreJudged
