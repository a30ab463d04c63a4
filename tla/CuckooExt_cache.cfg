SPECIFICATION FairSpec
CONSTANTS
  b1 = b1
  b2 = b2
  Backends = {b1, b2}
  Texts <- CacheTexts
  Sent = {"first", "second", "table"}
  InitHook = "cache"
  Preloaded = "yes"
  Select1 = "one"
  Given = {"p1"}
  Calls <- CacheCalls
  QueryId <- CacheId
  PlanId <- CacheId
  Forced = {"first"}
  GivenId = 7
  CacheUse <- AllCache
  MayCancel = FALSE
  MaxStmts = 2
INVARIANTS
  TypeOK
  PlannerReactivated
PROPERTIES
  StatementsEnd
