SPECIFICATION Spec
CONSTANTS
  b1 = b1
  b2 = b2
  Backends = {b1}
  Texts <- InjectTexts
  Sent <- InjectTexts
  InitHook = "cache"
  Preloaded = "no"
  Select1 = "one"
  Given = {"p1", "p2"}
  Calls <- InjectCalls
  QueryId <- InjectId
  PlanId <- InjectId
  Forced = {}
  GivenId = 7
  CacheUse <- OneCaches
  MayCancel = FALSE
  MaxStmts = 4
INVARIANTS
  PlannerReactivated
