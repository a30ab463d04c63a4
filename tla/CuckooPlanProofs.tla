-------------------------- MODULE CuckooPlanProofs --------------------------
(***************************************************************************)
(* Proofs about the plans that statements run, in sessions without and     *)
(* with the cache.                                                         *)
(***************************************************************************)
EXTENDS CuckooProofs

(* The globals of a backend.                                               *)

(* The part of Clean that is about the globals.                            *)
Globals(b) ==
  /\ loaded[b] = "no" => hook[b] = "none" /\ myPlan[b] = NoPlan
  /\ hook[b] = "cache" => myPlan[b] = NoPlan

NoLookups(b) == \A i \in 1 .. Len(stack[b]) : stack[b][i].op \notin {"lookup", "insert"}

LEMMA GlobalsLocal ==
  ASSUME TypeOK, NEW b \in Backends, Local(b), Clean(b)
  PROVE  Globals(b)'
<1>0. Globals(b)
  BY DEF Clean, Globals
<1>1. ASSUME UNCHANGED <<hook, myPlan, loaded>>
      PROVE  Globals(b)'
  BY <1>0, <1>1 DEF Globals
<1>2. ASSUME hook'[b] = "none", loaded'[b] = loaded[b], UNCHANGED myPlan
      PROVE  Globals(b)'
  BY <1>0, <1>2 DEF Globals
<1>3. ASSUME hook' = [hook EXCEPT ![b] = _PG_init(b)], Loads(b), UNCHANGED myPlan
      PROVE  Globals(b)'
  BY CuckooAssumption, <1>0, <1>3 DEF Globals, _PG_init, Loads, TypeOK
<1>4. ASSUME NEW t \in Sent, Begin(b, t)
      PROVE  Globals(b)'
  BY <1>1, <1>4 DEF Begin
<1>5. ASSUME NEW v \in CacheUse[b], SetCache(b, v)
      PROVE  Globals(b)'
  BY <1>1, <1>5 DEF SetCache
<1>6. CASE ExecutionFails(b) \/ Cancel(b)
  BY <1>1, <1>6 DEF ExecutionFails, Cancel, Error
<1>7. ASSUME NEW t \in Texts,
             \/ call_fails(b, t) \/ string_to_const(b, t) \/ pg_plan_serialize(b, t)
      PROVE  Globals(b)'
  BY <1>3, <1>7 DEF call_fails, string_to_const, pg_plan_serialize, Hook
<1>8. ASSUME NEW t \in Texts, pg_plan_execute(b, t)
      PROVE  Globals(b)'
  BY <1>0, <1>8 DEF pg_plan_execute, Hook, Loads, TypeOK, Globals
<1>9. ASSUME NEW p \in Given, plan_executed(b, p)
      PROVE  Globals(b)'
  BY <1>2, <1>9, SMTT(30), ZenonT(30) DEF plan_executed, Hook, TypeOK
<1>10. ASSUME NEW t \in Texts,
              \/ Run(b, t) \/ Commit(b, t) \/ Standard(b, t) \/ Planned(b, t)
              \/ PlanDirectly(b, t)
       PROVE  Globals(b)'
  BY <1>1, <1>10 DEF Run, Commit, Standard, Planned, PlanDirectly
<1>11. ASSUME NEW t \in Texts, injection_planner(b, t)
       PROVE  Globals(b)'
  BY <1>2, <1>11, SMTT(30), ZenonT(30) DEF injection_planner, Hook, TypeOK
<1>12. ASSUME NEW t \in Texts, cache_planner(b, t)
       PROVE  Globals(b)'
  <2>1. \/ UNCHANGED <<hook, myPlan, loaded>>
        \/ hook' = [hook EXCEPT ![b] = "none"] /\ UNCHANGED <<myPlan, loaded>>
    BY <1>12, ZenonT(30) DEF cache_planner, Hook
  <2> QED BY <1>1, <1>2, <2>1 DEF TypeOK
<1>13. ASSUME NEW t \in Texts, LookupMiss(b, t) \/ InsertFails(b, t) \/ Deadlock(b, t)
       PROVE  Globals(b)'
  BY <1>1, <1>13 DEF LookupMiss, InsertFails, Deadlock, Error
<1>14. ASSUME NEW t \in Texts, LookupHit(b, t) \/ Insert(b, t)
       PROVE  Globals(b)'
  <2>1. At(b, "lookup", t) \/ At(b, "insert", t)
    BY <1>14 DEF LookupHit, Insert
  <2>2. 1 \in 1 .. Len(stack[b]) /\ stack[b][1].op \in {"lookup", "insert"}
    BY <2>1, Top
  <2>3. loaded[b] = "yes" /\ myPlan[b] = NoPlan
    BY <2>2 DEF Clean
  <2>4. UNCHANGED <<myPlan, loaded>>
    BY <1>14 DEF LookupHit, Insert
  <2> QED BY <2>3, <2>4 DEF Globals
<1> QED BY <1>4, <1>5, <1>6, <1>7, <1>8, <1>9, <1>10, <1>11, <1>12, <1>13, <1>14 DEF Local, Step

(* A backend whose planner does not consult the cache starts no query.     *)
LEMMA NoLookupsLocal ==
  ASSUME TypeOK, TypeOK', NEW b \in Backends, Local(b), NoLookups(b),
         hook[b] = "cache" => cache[b] = "off"
  PROVE  NoLookups(b)'
<1> DEFINE bad == {"lookup", "insert"}
<1>0. NoLookups(b)
  OBVIOUS
<1>1. ASSUME NEW a, NEW op, At(b, op, a),
             \/ Return(b)
             \/ \E f \in Frames : f.op \notin bad /\ Continue(b, <<f>>)
             \/ \E f, g \in Frames : f.op \notin bad /\ g.op \notin bad /\ Continue(b, <<f, g>>)
      PROVE  NoLookups(b)'
  <2>1. stack[b] # <<>>
    BY <1>1, Top
  <2>2. \A i \in 2 .. Len(stack[b]) : stack[b][i].op \notin bad
    <3>1. Len(stack[b]) \in Nat
      BY SMTT(30), ZenonT(30) DEF TypeOK
    <3> QED BY <1>0, <3>1 DEF NoLookups
  <2> HIDE DEF bad
  <2>3. \A i \in 1 .. Len(stack'[b]) : stack'[b][i].op \notin bad
    BY <1>1, <2>1, <2>2, NonePushed, ZenonT(30)
  <2> QED BY <2>3, SMTT(30), ZenonT(30) DEF NoLookups, bad
<1>2. ASSUME NEW a \in Texts \union Given
      PROVE  \A op \in {"planner", "standard", "planned", "call", "injected", "commit"} :
                Frame(op, a) \in Frames /\ Frame(op, a).op \notin bad
  BY FrameTypes, ZenonT(40) DEF Frame
<1>3. CASE stack'[b] = <<>>
  BY <1>3 DEF NoLookups
<1>4. ASSUME NEW t \in Sent, Begin(b, t)
      PROVE  NoLookups(b)'
  <2>1. stack'[b] = <<Frame("planner", t), Frame("run", t)>>
    BY <1>4 DEF Begin, TypeOK
  <2> QED BY <2>1 DEF NoLookups, Frame
<1>5. ASSUME NEW v \in CacheUse[b], SetCache(b, v)
      PROVE  NoLookups(b)'
  BY <1>0, <1>5 DEF SetCache, NoLookups
<1>6. CASE \/ ExecutionFails(b) \/ Cancel(b)
           \/ \E t \in Texts : \/ call_fails(b, t) \/ Commit(b, t)
                               \/ InsertFails(b, t) \/ Deadlock(b, t)
  <2>1. stack'[b] = <<>>
    BY <1>6 DEF ExecutionFails, Cancel, call_fails, Commit, InsertFails, Deadlock, Error, End, TypeOK
  <2> QED BY <1>3, <2>1
<1>7. ASSUME NEW p \in Given, plan_executed(b, p)
      PROVE  NoLookups(b)'
  BY <1>1, <1>7 DEF plan_executed
<1>8. ASSUME NEW t \in Texts, Run(b, t)
      PROVE  NoLookups(b)'
  <2>1. plan[b].of \in Texts \union Given
    BY PlanTypes DEF TypeOK
  <2>2. \/ Continue(b, <<Frame("commit", t)>>)
        \/ Continue(b, <<Frame("call", plan[b].of), Frame("commit", t)>>)
    BY <1>8 DEF Run
  <2>3. At(b, "run", t)
    BY <1>8 DEF Run
  <2> QED BY <1>1, <1>2, <2>1, <2>2, <2>3, ZenonT(40)
<1>9. ASSUME NEW t \in Texts,
             LookupMiss(b, t) \/ LookupHit(b, t) \/ Insert(b, t)
      PROVE  FALSE
  <2>1. At(b, "lookup", t) \/ At(b, "insert", t)
    BY <1>9, ZenonT(30) DEF LookupMiss, LookupHit, Insert
  <2> QED BY <1>0, <2>1, Top DEF NoLookups
<1>10. ASSUME NEW t \in Texts, Standard(b, t) \/ Planned(b, t)
       PROVE  NoLookups(b)'
  BY <1>1, <1>2, <1>10, ZenonT(30) DEF Standard, Planned
<1>11. ASSUME NEW t \in Texts,
              PlanDirectly(b, t) \/ injection_planner(b, t) \/ cache_planner(b, t)
       PROVE  NoLookups(b)'
  <2>1. At(b, "planner", t) /\ (Return(b) \/ Continue(b, <<Frame("standard", t)>>))
    BY <1>11 DEF PlanDirectly, injection_planner, cache_planner
  <2> QED BY <1>1, <1>2, <2>1, ZenonT(40)
<1>12. ASSUME NEW t \in Texts,
              string_to_const(b, t) \/ pg_plan_serialize(b, t) \/ pg_plan_execute(b, t)
       PROVE  NoLookups(b)'
  <2>1. At(b, "call", t)
    BY <1>12, ZenonT(30) DEF string_to_const, pg_plan_serialize, pg_plan_execute
  <2>2. \/ Return(b)
        \/ \E a \in Texts : Continue(b, <<Frame("planner", a)>>)
        \/ \E a \in Texts, p \in Given : Continue(b, <<Frame("planner", a), Frame("injected", p)>>)
    BY CuckooAssumption, <1>12, ZenonT(30) DEF string_to_const, pg_plan_serialize, pg_plan_execute
  <2>3. \/ Return(b)
        \/ \E f \in Frames : f.op \notin bad /\ Continue(b, <<f>>)
        \/ \E f, g \in Frames : f.op \notin bad /\ g.op \notin bad /\ Continue(b, <<f, g>>)
    BY <1>2, <2>2, ZenonT(30)
  <2> QED BY <1>1, <2>1, <2>3, ZenonT(30)
<1> QED BY <1>4, <1>5, <1>6, <1>7, <1>8, <1>9, <1>10, <1>11, <1>12 DEF Local, Step

LEMMA CacheStaysOff ==
  ASSUME TypeOK, NEW b \in Plain, Local(b), cache[b] = "off"
  PROVE  cache'[b] = "off"
<1>0. b \in Backends /\ CacheUse[b] \subseteq {"off"}
  BY CuckooAssumption DEF Plain
<1>1. CASE \E t \in Sent : Begin(b, t)
  BY <1>1 DEF Begin
<1>2. ASSUME NEW v \in CacheUse[b], SetCache(b, v)
      PROVE  cache'[b] = "off"
  BY <1>0, <1>2 DEF SetCache, TypeOK
<1>3. CASE ExecutionFails(b) \/ Cancel(b) \/ \E t \in Texts : call_fails(b, t)
  BY <1>3 DEF ExecutionFails, Cancel, call_fails, Error
<1>4. CASE Step(b)
  <2>1. UNCHANGED cache
    BY <1>4, Zenon DEF Step, Run, Commit, PlanDirectly, injection_planner, cache_planner, LookupMiss,
                LookupHit, Standard, Planned, Insert, InsertFails, Deadlock, Error,
                string_to_const, pg_plan_serialize, pg_plan_execute, plan_executed
  <2> QED BY <2>1
<1> QED BY <1>1, <1>2, <1>3, <1>4 DEF Local

LEMMA UncachedLocal ==
  ASSUME TypeOK, TypeOK', NEW b \in Plain, Local(b), Uncached(b)
  PROVE  Uncached(b)'
<1>0. b \in Backends
  BY DEF Plain
<1>1. cache[b] = "off" /\ Clean(b) /\ NoLookups(b)
  BY DEF Uncached, Clean, NoLookups
<1>2. cache'[b] = "off"
  BY <1>1, CacheStaysOff
<1>3. Globals(b)'
  BY <1>0, <1>1, GlobalsLocal
<1>4. NoLookups(b)'
  BY <1>0, <1>1, NoLookupsLocal
<1> QED BY <1>2, <1>3, <1>4 DEF Uncached, Globals, NoLookups

LEMMA ArmedInCallLocal ==
  ASSUME ~MayCancel, TypeOK, NEW b \in Backends, Local(b), ArmedInCall(b)
  PROVE  ArmedInCall(b)'
<1>0. ArmedInCall(b)
  OBVIOUS
<1>1. ASSUME NEW a, NEW op, At(b, op, a), op # "planner"
      PROVE  hook[b] # "inject"
  BY <1>0, <1>1, Top DEF ArmedInCall
<1>16. Idle(b) => hook[b] # "inject"
  <2>1. Idle(b) => ~(Len(stack[b]) > 1)
    BY DEF Idle
  <2> QED BY <1>0, <2>1 DEF ArmedInCall
<1>2. ASSUME NEW t \in Sent, Begin(b, t)
      PROVE  ArmedInCall(b)'
  <2>1. hook[b] # "inject"
    BY <1>2, <1>16 DEF Begin
  <2> QED BY <1>0, <1>2, <2>1 DEF Begin, ArmedInCall
<1>3. ASSUME NEW v \in CacheUse[b], SetCache(b, v)
      PROVE  ArmedInCall(b)'
  <2>1. hook[b] # "inject"
    BY <1>3, <1>16 DEF SetCache
  <2> QED BY <1>3, <2>1 DEF SetCache, ArmedInCall
<1>4. ASSUME hook[b] # "inject", UNCHANGED <<hook, myPlan, cache, loaded>>
      PROVE  ArmedInCall(b)'
  BY <1>0, <1>4 DEF ArmedInCall
<1>5. ASSUME hook'[b] \in {"none", "cache"}
      PROVE  ArmedInCall(b)'
  BY <1>0, <1>5 DEF ArmedInCall
<1>6. ASSUME hook[b] # "inject", hook' = [hook EXCEPT ![b] = _PG_init(b)], Loads(b),
             UNCHANGED <<myPlan, cache>>
      PROVE  ArmedInCall(b)'
  BY CuckooAssumption, <1>0, <1>6 DEF ArmedInCall, _PG_init, Loads, TypeOK
<1>7. CASE ExecutionFails(b) \/ Cancel(b)
  <2>1. hook[b] # "inject" /\ Error(b)
    BY <1>1, <1>7, SMTT(30), ZenonT(30) DEF ExecutionFails, Cancel
  <2> QED BY <1>4, <2>1 DEF Error
<1>8. ASSUME NEW t \in Texts,
             \/ call_fails(b, t) \/ string_to_const(b, t) \/ pg_plan_serialize(b, t)
      PROVE  ArmedInCall(b)'
  BY <1>1, <1>6, <1>8 DEF call_fails, string_to_const, pg_plan_serialize, Hook
<1>9. ASSUME NEW t \in Texts, pg_plan_execute(b, t)
      PROVE  ArmedInCall(b)'
  <2> DEFINE f == Frame("planner", Select1)
             g == Frame("injected", Calls[t].arg)
  <2>1. At(b, "call", t) /\ Continue(b, <<f, g>>)
    BY <1>9 DEF pg_plan_execute
  <2>2. f \in Frames /\ g \in Frames /\ f.op = "planner" /\ g.op = "injected"
    <3>1. Select1 \in Texts \union Given
      BY CuckooAssumption
    <3>2. Calls[t].arg \in Texts \union Given
      BY <1>9, CallArgs DEF pg_plan_execute
    <3> QED BY <3>1, <3>2, FrameTypes, FrameFields
  <2>4. stack[b] # <<>> /\ Len(stack[b]) \in Nat /\ Len(stack[b]) >= 1
    BY <2>1, Top
  <2> HIDE DEF f, g
  <2>5. /\ Len(stack'[b]) = Len(stack[b]) + 1
        /\ stack'[b][1] = f
        /\ stack'[b][2] = g
    BY <2>1, <2>2, <2>4, Pushed
  <2> QED BY <2>2, <2>4, <2>5, SMTT(30), ZenonT(30) DEF ArmedInCall
<1>10. ASSUME NEW p \in Given, plan_executed(b, p)
       PROVE  ArmedInCall(b)'
  BY <1>5, <1>10, SMTT(30), ZenonT(30) DEF plan_executed, Hook, TypeOK
<1>11. ASSUME NEW t \in Texts,
              Run(b, t) \/ Commit(b, t) \/ Standard(b, t) \/ Planned(b, t)
       PROVE  ArmedInCall(b)'
  BY <1>1, <1>4, <1>11, SMTT(30), ZenonT(30) DEF Run, Commit, Standard, Planned
<1>12. ASSUME NEW t \in Texts, LookupMiss(b, t) \/ InsertFails(b, t) \/ Deadlock(b, t)
       PROVE  ArmedInCall(b)'
  BY <1>1, <1>4, <1>12 DEF LookupMiss, InsertFails, Deadlock, Error
<1>17. ASSUME NEW t \in Texts, LookupHit(b, t) \/ Insert(b, t)
       PROVE  ArmedInCall(b)'
  <2>1. hook'[b] = "cache"
    BY <1>17 DEF LookupHit, Insert, Hook, TypeOK
  <2> QED BY <1>5, <2>1
<1>13. ASSUME NEW t \in Texts, PlanDirectly(b, t)
       PROVE  ArmedInCall(b)'
  BY <1>4, <1>13 DEF PlanDirectly
<1>14. ASSUME NEW t \in Texts, injection_planner(b, t)
       PROVE  ArmedInCall(b)'
  BY <1>5, <1>14, SMTT(30), ZenonT(30) DEF injection_planner, Hook, TypeOK
<1>15. ASSUME NEW t \in Texts, cache_planner(b, t)
       PROVE  ArmedInCall(b)'
  <2>1. hook'[b] \in {"none", "cache"}
    BY <1>15 DEF cache_planner, Hook, TypeOK
  <2> QED BY <1>5, <2>1
<1> QED BY <1>2, <1>3, <1>7, <1>8, <1>9, <1>10, <1>11, <1>12, <1>13, <1>14, <1>15, <1>17, SMTT(30), ZenonT(30)
    DEF Local, Step
-----------------------------------------------------------------------------
(* Sessions that do not use the cache.                                     *)

Above == {"planner", "standard", "planned"}

LEMMA SpentStep ==
  TypeOK /\ TypeOK' /\ HookSpent /\ [Next]_vars => HookSpent'
<1> SUFFICES ASSUME TypeOK, TypeOK', HookSpent, [Next]_vars, NEW d \in Plain
             PROVE  Uncached(d)' /\ Awaits(d, "run", Above, TRUE)'
  BY ZenonT(30) DEF HookSpent, Above
<1>0. d \in Backends
  BY DEF Plain
<1>1. Uncached(d) /\ Awaits(d, "run", Above, TRUE)
  BY ZenonT(30) DEF HookSpent, Above
<1>2. CASE UNCHANGED vars \/ Finished
  BY <1>1, <1>2 DEF Uncached, Awaits, Finished, vars
<1>3. CASE \E t \in Forced, p \in Given : StorePlan(t, p)
  BY <1>1, <1>3 DEF Uncached, Awaits, StorePlan
<1>4. ASSUME NEW b \in Backends, Local(b)
      PROVE  Uncached(d)' /\ Awaits(d, "run", Above, TRUE)'
  <2>1. CASE d = b
    <3>1. Uncached(b)'
      BY <1>1, <1>4, <2>1, UncachedLocal
    <3>2. /\ Above \subseteq {"planner", "standard", "planned"}
          /\ {"standard", "planned"} \subseteq Above
          /\ "planner" \in Above
          /\ "run" \in {"insert", "run"}
      BY DEF Above
    <3>3. Awaits(b, "run", Above, TRUE)'
      BY <1>1, <1>4, <2>1, <3>2, AwaitsLocal, ZenonT(40)
    <3> QED BY <2>1, <3>1, <3>3, ZenonT(30)
  <2>2. CASE d # b
    <3>1. Mine(b)
      BY <1>4, LocalIsMine
    <3>2. /\ stack'[d] = stack[d] /\ plan'[d] = plan[d]
          /\ hook'[d] = hook[d] /\ myPlan'[d] = myPlan[d]
          /\ cache'[d] = cache[d] /\ loaded'[d] = loaded[d]
      BY <1>0, <2>2, <3>1, ZenonT(30) DEF Mine
    <3> QED BY <1>1, <3>2 DEF Uncached, Awaits
  <2> QED BY <2>1, <2>2, ZenonT(30)
<1> QED BY <1>2, <1>3, <1>4, ZenonT(30) DEF Next, Local

(* In a session that does not use the cache, a statement cancelled while   *)
(* the hook is armed makes at most the next statement run a plan that is   *)
(* not its own: when that one runs, the hook is gone, whatever the other   *)
(* sessions do.                                                            *)
THEOREM StalePlansAreSpent == Spec => []StalePlanIsSpent
<1>1. Init => HookSpent
  <2> SUFFICES ASSUME Init, NEW b \in Plain
               PROVE  Uncached(b) /\ Awaits(b, "run", Above, TRUE)
    BY ZenonT(30) DEF HookSpent, Above
  <2>0. b \in Backends
    BY DEF Plain
  <2>1. stack[b] = <<>> /\ 1 .. Len(stack[b]) = {}
    BY <2>0 DEF Init
  <2> QED BY <2>0, <2>1 DEF Init, Uncached, Awaits
<1>2. TypeOK /\ HookSpent => StalePlanIsSpent
  <2> SUFFICES ASSUME TypeOK, HookSpent, NEW b \in Plain, NEW t \in Texts,
                      At(b, "run", t), hook[b] # "none"
               PROVE  plan[b] = Std(t)
    BY DEF StalePlanIsSpent, OwnPlan
  <2>1. Len(stack[b]) \in Nat /\ Len(stack[b]) >= 1
        /\ stack[b][1].op = "run" /\ stack[b][1].arg = t
    BY Top DEF Plain
  <2> QED BY <2>1 DEF HookSpent, Awaits
<1> QED BY <1>1, <1>2, CuckooTypes, SpentStep, PTL DEF Spec

-----------------------------------------------------------------------------
(* Sessions that use the cache.                                            *)

(* plan_execute is not called inside cache_planner.                        *)
LEMMA ExecutesApart ==
  ASSUME TypeOK, NEW b \in Backends, Apart(b), NEW t \in Texts, At(b, "call", t),
         Calls[t].fn = "execute"
  PROVE  \A i \in 2 .. Len(stack[b]) : stack[b][i].op \notin {"lookup", "insert"}
<1>1. /\ Len(stack[b]) \in Nat /\ Len(stack[b]) >= 1
      /\ stack[b][1].op = "call" /\ stack[b][1].arg = t
  BY Top
<1>2. CASE Uncached(b)
  BY <1>1, <1>2 DEF Uncached
<1>3. CASE ExecuteAtRun /\ Outermost(b)
  <2>1. Calls[t].site = "run" /\ 1 \in 1 .. Len(stack[b])
    BY <1>1, <1>3 DEF ExecuteAtRun
  <2>2. 1 + 1 = Len(stack[b]) /\ stack[b][1 + 1].op = "commit"
    BY <1>1, <1>3, <2>1, ZenonT(30) DEF Outermost
  <2>3. \A i \in 2 .. Len(stack[b]) : i = 1 + 1
    <3>1. Len(stack[b]) = 2
      BY <2>2
    <3> QED BY <3>1
  <2> QED BY <2>2, <2>3
<1> QED BY <1>2, <1>3 DEF Apart

LEMMA CleanLocal ==
  ASSUME TypeOK, TypeOK', NEW b \in Backends, Local(b), Clean(b), Apart(b)
  PROVE  Clean(b)'
<1>1. Globals(b)'
  BY GlobalsLocal
<1>2. ASSUME NEW t \in Texts, pg_plan_execute(b, t)
      PROVE  NoLookups(b)'
  <2> DEFINE f == Frame("planner", Select1)
             g == Frame("injected", Calls[t].arg)
             bad == {"lookup", "insert"}
  <2>1. At(b, "call", t) /\ Calls[t].fn = "execute" /\ Continue(b, <<f, g>>)
    BY <1>2 DEF pg_plan_execute
  <2>2. stack[b] # <<>>
    BY <2>1, Top
  <2>3. \A i \in 2 .. Len(stack[b]) : stack[b][i].op \notin bad
    BY <2>1, ExecutesApart
  <2>4. f \in Frames /\ g \in Frames
    <3>1. Select1 \in Texts \union Given /\ Calls[t].arg \in Texts \union Given
      BY <2>1, CuckooAssumption, CallArgs
    <3> QED BY <3>1, FrameTypes
  <2>5. f.op \notin bad /\ g.op \notin bad
    BY FrameFields
  <2> HIDE DEF f, g, bad
  <2>6. \A i \in 1 .. Len(stack'[b]) : stack'[b][i].op \notin bad
    BY <2>1, <2>2, <2>3, <2>4, <2>5, NonePushed, ZenonT(30)
  <2> QED BY <2>6 DEF NoLookups, bad
<1>3. ASSUME ~\E t \in Texts : pg_plan_execute(b, t)
      PROVE  /\ myPlan'[b] = myPlan[b]
             /\ loaded[b] = "yes" => loaded'[b] = "yes"
  <2>1. CASE \E t \in Sent : Begin(b, t)
    BY <2>1 DEF Begin
  <2>2. CASE \E v \in CacheUse[b] : SetCache(b, v)
    BY <2>2 DEF SetCache
  <2>3. CASE ExecutionFails(b) \/ Cancel(b)
    BY <2>3, SMTT(30), ZenonT(30) DEF ExecutionFails, Cancel, Error
  <2>4. ASSUME NEW t \in Texts,
               call_fails(b, t) \/ string_to_const(b, t) \/ pg_plan_serialize(b, t)
        PROVE  myPlan'[b] = myPlan[b] /\ loaded'[b] = "yes"
    BY <2>4 DEF call_fails, string_to_const, pg_plan_serialize, Loads, TypeOK
  <2>5. ASSUME NEW t \in Texts,
               \/ Run(b, t) \/ Commit(b, t) \/ PlanDirectly(b, t) \/ injection_planner(b, t)
               \/ cache_planner(b, t) \/ LookupMiss(b, t) \/ LookupHit(b, t) \/ Standard(b, t)
               \/ Planned(b, t) \/ Insert(b, t) \/ InsertFails(b, t) \/ Deadlock(b, t)
        PROVE  UNCHANGED <<myPlan, loaded>>
    BY <2>5, ZenonT(30) DEF Run, Commit, PlanDirectly, injection_planner, cache_planner, LookupMiss,
                LookupHit, Standard, Planned, Insert, InsertFails, Deadlock, Error
  <2>6. ASSUME NEW p \in Given, plan_executed(b, p)
        PROVE  UNCHANGED <<myPlan, loaded>>
    BY <2>6, SMTT(30), ZenonT(30) DEF plan_executed
  <2> QED BY <1>3, <2>1, <2>2, <2>3, <2>4, <2>5, <2>6, ZenonT(60) DEF Local, Step
<1>4. CASE NoLookups(b)'
  BY <1>1, <1>4 DEF Clean, Globals, NoLookups
<1>5. CASE ~\E t \in Texts : pg_plan_execute(b, t)
  <2>1. CASE myPlan[b] = NoPlan /\ loaded[b] = "yes"
    BY <1>1, <1>3, <1>5, <2>1 DEF Clean, Globals
  <2>2. CASE ~(myPlan[b] = NoPlan /\ loaded[b] = "yes")
    <3>1. NoLookups(b) /\ hook[b] # "cache"
      BY <2>2 DEF Clean, NoLookups, TypeOK
    <3>2. NoLookups(b)'
      BY <3>1, NoLookupsLocal
    <3> QED BY <1>4, <3>2
  <2> QED BY <2>1, <2>2, SMTT(30), ZenonT(30)
<1> QED BY <1>2, <1>4, <1>5

(* Where statements are executed.                                          *)

Inner == {"planner", "lookup", "standard", "planned", "insert", "injected"}

LEMMA OutermostReturn ==
  ASSUME TypeOK, TypeOK', NEW b \in Backends, Outermost(b), stack[b] # <<>>, Return(b)
  PROVE  Outermost(b)'
<1>0. Len(stack[b]) \in Nat /\ Len(stack'[b]) \in Nat
  BY DEF TypeOK
<1>1. Len(stack'[b]) = Len(stack[b]) - 1
  BY Returned
<1>2. \A i \in 1 .. Len(stack'[b]) : stack'[b][i] = stack[b][i + 1]
  BY Returned
<1> SUFFICES ASSUME NEW i \in 1 .. Len(stack'[b])
             PROVE  /\ stack'[b][i].op \in {"run", "commit"} => i = Len(stack'[b])
                    /\ stack'[b][i].op = "call" /\ Calls[stack'[b][i].arg].site = "run" =>
                          i + 1 = Len(stack'[b]) /\ stack'[b][i + 1].op = "commit"
  BY DEF Outermost
<1>3. i + 1 \in 1 .. Len(stack[b]) /\ stack'[b][i] = stack[b][i + 1]
  BY <1>0, <1>1, <1>2
<1>4. stack'[b][i].op \in {"run", "commit"} => i = Len(stack'[b])
  <2>1. stack[b][i + 1].op \in {"run", "commit"} => i + 1 = Len(stack[b])
    BY <1>3 DEF Outermost
  <2> QED BY <1>0, <1>1, <1>3, <2>1
<1>5. ASSUME stack'[b][i].op = "call", Calls[stack'[b][i].arg].site = "run"
      PROVE  i + 1 = Len(stack'[b]) /\ stack'[b][i + 1].op = "commit"
  <2>1. (i + 1) + 1 = Len(stack[b]) /\ stack[b][(i + 1) + 1].op = "commit"
    BY <1>3, <1>5 DEF Outermost
  <2>2. i + 1 = Len(stack'[b]) /\ i + 1 \in 1 .. Len(stack'[b])
    BY <1>0, <1>1, <2>1
  <2>3. stack'[b][i + 1] = stack[b][(i + 1) + 1]
    BY <1>2, <2>2
  <2> QED BY <2>1, <2>2, <2>3
<1> QED BY <1>4, <1>5

LEMMA OutermostReplace ==
  ASSUME TypeOK, TypeOK', NEW b \in Backends, Outermost(b), stack[b] # <<>>,
         NEW f \in Frames, Continue(b, <<f>>),
         f.op \in Inner \/ (f.op = "commit" /\ Len(stack[b]) = 1)
  PROVE  Outermost(b)'
<1>0. Len(stack[b]) \in Nat /\ Len(stack'[b]) \in Nat
  BY DEF TypeOK
<1>1. Len(stack'[b]) = Len(stack[b]) /\ stack'[b][1] = f
  BY Replaced
<1>2. \A i \in 2 .. Len(stack'[b]) : stack'[b][i] = stack[b][i]
  BY Replaced
<1> SUFFICES ASSUME NEW i \in 1 .. Len(stack'[b])
             PROVE  /\ stack'[b][i].op \in {"run", "commit"} => i = Len(stack'[b])
                    /\ stack'[b][i].op = "call" /\ Calls[stack'[b][i].arg].site = "run" =>
                          i + 1 = Len(stack'[b]) /\ stack'[b][i + 1].op = "commit"
  BY DEF Outermost
<1>3. CASE i = 1
  <2>1. f.op # "call" /\ (f.op \in {"run", "commit"} => Len(stack[b]) = 1)
    BY DEF Inner
  <2> QED BY <1>1, <1>3, <2>1
<1>4. CASE i > 1
  <2>1. i \in 2 .. Len(stack'[b]) /\ i \in 1 .. Len(stack[b])
    BY <1>0, <1>1, <1>4
  <2>2. stack'[b][i] = stack[b][i]
    BY <1>2, <2>1
  <2>3. stack'[b][i].op \in {"run", "commit"} => i = Len(stack'[b])
    BY <1>1, <2>1, <2>2 DEF Outermost
  <2>4. ASSUME stack'[b][i].op = "call", Calls[stack'[b][i].arg].site = "run"
        PROVE  i + 1 = Len(stack'[b]) /\ stack'[b][i + 1].op = "commit"
    <3>1. i + 1 = Len(stack[b]) /\ stack[b][i + 1].op = "commit"
      BY <2>1, <2>2, <2>4 DEF Outermost
    <3>2. i + 1 \in 2 .. Len(stack'[b])
      BY <1>0, <1>1, <1>4, <3>1
    <3>3. stack'[b][i + 1] = stack[b][i + 1]
      BY <1>2, <3>2
    <3> QED BY <1>1, <3>1, <3>3
  <2> QED BY <2>3, <2>4
<1> QED BY <1>0, <1>3, <1>4

LEMMA OutermostPush ==
  ASSUME TypeOK, TypeOK', NEW b \in Backends, Outermost(b), stack[b] # <<>>,
         NEW f \in Frames, NEW g \in Frames, Continue(b, <<f, g>>),
         g.op \in Inner \/ (g.op = "commit" /\ Len(stack[b]) = 1),
         f.op \in Inner \union {"call"},
         f.op = "call" /\ Calls[f.arg].site = "run" => g.op = "commit"
  PROVE  Outermost(b)'
<1>0. Len(stack[b]) \in Nat /\ Len(stack'[b]) \in Nat
  BY DEF TypeOK
<1>1. Len(stack'[b]) = Len(stack[b]) + 1 /\ stack'[b][1] = f /\ stack'[b][2] = g
  BY Pushed
<1>2. \A i \in 3 .. Len(stack'[b]) : stack'[b][i] = stack[b][i - 1]
  BY Pushed
<1> SUFFICES ASSUME NEW i \in 1 .. Len(stack'[b])
             PROVE  /\ stack'[b][i].op \in {"run", "commit"} => i = Len(stack'[b])
                    /\ stack'[b][i].op = "call" /\ Calls[stack'[b][i].arg].site = "run" =>
                          i + 1 = Len(stack'[b]) /\ stack'[b][i + 1].op = "commit"
  BY DEF Outermost
<1>3. g.op # "call" /\ (g.op \in {"run", "commit"} => Len(stack[b]) = 1)
  BY DEF Inner
<1>4. CASE i = 1
  <2>1. f.op \notin {"run", "commit"}
    BY DEF Inner
  <2>2. ASSUME f.op = "call", Calls[f.arg].site = "run"
        PROVE  Len(stack'[b]) = 2 /\ g.op = "commit"
    <3>1. g.op = "commit"
      BY <2>2
    <3>2. Len(stack[b]) = 1
      BY <1>3, <3>1
    <3>3. Len(stack'[b]) = 1 + 1
      BY <1>1, <3>2
    <3> QED BY <3>1, <3>3
  <2>3. i + 1 = 2 /\ stack'[b][i] = f
    BY <1>1, <1>4
  <2> QED BY <1>1, <2>1, <2>2, <2>3
<1>5. CASE i = 2
  <2>1. stack'[b][i] = g
    BY <1>1, <1>5
  <2>2. Len(stack[b]) = 1 => Len(stack'[b]) = 2
    BY <1>1
  <2> QED BY <1>3, <1>5, <2>1, <2>2
<1>6. CASE i > 2
  <2>1. i \in 3 .. Len(stack'[b]) /\ i - 1 \in 1 .. Len(stack[b])
    BY <1>0, <1>1, <1>6
  <2>2. stack'[b][i] = stack[b][i - 1]
    BY <1>2, <2>1
  <2>3. stack'[b][i].op \in {"run", "commit"} => i = Len(stack'[b])
    <3>1. stack[b][i - 1].op \in {"run", "commit"} => i - 1 = Len(stack[b])
      BY <2>1 DEF Outermost
    <3> QED BY <1>0, <1>1, <2>2, <3>1
  <2>4. ASSUME stack'[b][i].op = "call", Calls[stack'[b][i].arg].site = "run"
        PROVE  i + 1 = Len(stack'[b]) /\ stack'[b][i + 1].op = "commit"
    <3>1. (i - 1) + 1 = Len(stack[b]) /\ stack[b][(i - 1) + 1].op = "commit"
      BY <2>1, <2>2, <2>4 DEF Outermost
    <3>2. i + 1 = Len(stack'[b]) /\ i + 1 \in 3 .. Len(stack'[b]) /\ (i + 1) - 1 = (i - 1) + 1
      <4> DEFINE n == Len(stack[b])
                 m == Len(stack'[b])
      <4>1. m = n + 1 /\ m \in Nat /\ n \in Nat /\ i \in 1 .. m /\ i > 2 /\ (i - 1) + 1 = n
        BY <1>0, <1>1, <1>6, <3>1
      <4> HIDE DEF n, m
      <4>2. i + 1 = m /\ i + 1 \in 3 .. m /\ (i + 1) - 1 = (i - 1) + 1
        BY <4>1
      <4> QED BY <4>2 DEF m
    <3>3. stack'[b][i + 1] = stack[b][(i + 1) - 1]
      BY <1>2, <3>2, SMTT(30)
    <3> QED BY <3>1, <3>2, <3>3
  <2> QED BY <2>3, <2>4
<1> QED BY <1>0, <1>4, <1>5, <1>6

LEMMA OutermostLocal ==
  ASSUME TypeOK, TypeOK', NEW b \in Backends, Local(b), Outermost(b)
  PROVE  Outermost(b)'
<1>1. ASSUME NEW a, NEW o, At(b, o, a),
             \/ Return(b)
             \/ \E f \in Frames : f.op \in Inner /\ Continue(b, <<f>>)
             \/ \E f, g \in Frames : f.op \in Inner /\ g.op \in Inner /\ Continue(b, <<f, g>>)
      PROVE  Outermost(b)'
  <2>1. stack[b] # <<>>
    BY <1>1, Top
  <2>2. CASE Return(b)
    BY <2>1, <2>2, OutermostReturn
  <2>3. ASSUME NEW f \in Frames, f.op \in Inner, Continue(b, <<f>>)
        PROVE  Outermost(b)'
    BY <2>1, <2>3, OutermostReplace
  <2>4. ASSUME NEW f \in Frames, NEW g \in Frames, f.op \in Inner, g.op \in Inner,
               Continue(b, <<f, g>>)
        PROVE  Outermost(b)'
    <3>1. f.op # "call" /\ f.op \in Inner \union {"call"}
      BY <2>4 DEF Inner
    <3> QED BY <2>1, <2>4, <3>1, OutermostPush
  <2> QED BY <1>1, <2>2, <2>3, <2>4, ZenonT(30)
<1>2. ASSUME NEW a \in Texts \union Given
      PROVE  \A o \in Inner : Frame(o, a) \in Frames /\ Frame(o, a).op \in Inner
  BY FrameTypes, FrameFields DEF Inner
<1>3. ASSUME NEW t \in Sent, Begin(b, t)
      PROVE  Outermost(b)'
  <2>1. stack'[b] = <<Frame("planner", t), Frame("run", t)>>
    BY <1>3 DEF Begin, TypeOK
  <2>2. /\ Len(stack'[b]) = 2 /\ stack'[b][1].op = "planner" /\ stack'[b][2].op = "run"
    BY <2>1, SMTT(30), ZenonT(30) DEF Frame
  <2> QED BY <2>2 DEF Outermost
<1>4. ASSUME NEW v \in CacheUse[b], SetCache(b, v)
      PROVE  Outermost(b)'
  BY <1>4 DEF SetCache, Outermost
<1>5. CASE \/ ExecutionFails(b) \/ Cancel(b)
           \/ \E t \in Texts : \/ call_fails(b, t) \/ Commit(b, t)
                               \/ InsertFails(b, t) \/ Deadlock(b, t)
  <2>1. stack'[b] = <<>>
    BY <1>5 DEF ExecutionFails, Cancel, call_fails, Commit, InsertFails, Deadlock, Error, End, TypeOK
  <2>2. 1 .. Len(stack'[b]) = {}
    BY <2>1
  <2> QED BY <2>2 DEF Outermost
<1>6. ASSUME NEW p \in Given, plan_executed(b, p)
      PROVE  Outermost(b)'
  BY <1>1, <1>6 DEF plan_executed
<1>7. ASSUME NEW t \in Texts, Run(b, t)
      PROVE  Outermost(b)'
  <2> DEFINE f == Frame("call", plan[b].of)
             g == Frame("commit", t)
  <2>1. At(b, "run", t) /\ (Continue(b, <<g>>) \/ Continue(b, <<f, g>>))
    BY <1>7 DEF Run
  <2>2. f \in Frames /\ g \in Frames /\ f.op = "call" /\ g.op = "commit"
    BY PlanTypes, FrameTypes, ZenonT(30) DEF Frame, TypeOK
  <2>3. stack[b] # <<>> /\ Len(stack[b]) = 1
    <3>1. 1 \in 1 .. Len(stack[b]) /\ stack[b][1].op = "run" /\ stack[b] # <<>>
      BY <2>1, Top
    <3> QED BY <3>1, ZenonT(30) DEF Outermost
  <2> HIDE DEF f, g
  <2>4. CASE Continue(b, <<g>>)
    BY <2>2, <2>3, <2>4, OutermostReplace
  <2>5. CASE Continue(b, <<f, g>>)
    BY <2>2, <2>3, <2>5, OutermostPush
  <2> QED BY <2>1, <2>4, <2>5
<1>8. ASSUME NEW t \in Texts,
             \/ LookupMiss(b, t) \/ LookupHit(b, t) \/ Insert(b, t) \/ Planned(b, t)
             \/ PlanDirectly(b, t) \/ injection_planner(b, t) \/ cache_planner(b, t)
      PROVE  Outermost(b)'
  <2>1. \E o \in Inner : At(b, o, t)
    BY <1>8, ZenonT(30) DEF LookupMiss, LookupHit, Insert, Planned, PlanDirectly, injection_planner,
                cache_planner, Inner
  <2>2. \/ Return(b)
        \/ \E o \in {"standard", "lookup"} : Continue(b, <<Frame(o, t)>>)
        \/ Continue(b, <<Frame("standard", t), Frame("insert", t)>>)
    BY <1>8, ZenonT(30) DEF LookupMiss, LookupHit, Insert, Planned, PlanDirectly, injection_planner,
                cache_planner
  <2>3. {"standard", "lookup", "insert"} \subseteq Inner
    BY SMTT(30), ZenonT(30) DEF Inner
  <2> QED BY <1>1, <1>2, <2>1, <2>2, <2>3, ZenonT(30)
<1>9. ASSUME NEW t \in Texts, Standard(b, t)
      PROVE  Outermost(b)'
  <2> DEFINE f == Frame("call", t)
             g == Frame("planned", t)
  <2>1. /\ At(b, "standard", t)
        /\ Return(b) \/ (Calls[t].site = "plan" /\ Continue(b, <<f, g>>))
    BY <1>9, ZenonT(30) DEF Standard
  <2>2. /\ f \in Frames /\ g \in Frames
        /\ f.op = "call" /\ f.arg = t /\ g.op = "planned"
    BY FrameTypes, ZenonT(30) DEF Frame
  <2>3. stack[b] # <<>> /\ "planned" \in Inner
    BY <2>1, Top DEF Inner
  <2> HIDE DEF f, g
  <2>4. CASE Return(b)
    BY <1>1, <2>1, <2>4
  <2>5. CASE Calls[t].site = "plan" /\ Continue(b, <<f, g>>)
    BY <2>2, <2>3, <2>5, OutermostPush
  <2> QED BY <2>1, <2>4, <2>5, SMTT(30), ZenonT(30)
<1>10. ASSUME NEW t \in Texts,
              string_to_const(b, t) \/ pg_plan_serialize(b, t) \/ pg_plan_execute(b, t)
       PROVE  Outermost(b)'
  <2>1. At(b, "call", t)
    BY <1>10, ZenonT(30) DEF string_to_const, pg_plan_serialize, pg_plan_execute
  <2>2. \/ Return(b)
        \/ \E a \in Texts : Continue(b, <<Frame("planner", a)>>)
        \/ \E a \in Texts, p \in Given : Continue(b, <<Frame("planner", a), Frame("injected", p)>>)
    BY CuckooAssumption, <1>10, ZenonT(30) DEF string_to_const, pg_plan_serialize, pg_plan_execute
  <2>3. "planner" \in Inner /\ "injected" \in Inner
    BY DEF Inner
  <2>4. \/ Return(b)
        \/ \E f \in Frames : f.op \in Inner /\ Continue(b, <<f>>)
        \/ \E f, g \in Frames : f.op \in Inner /\ g.op \in Inner /\ Continue(b, <<f, g>>)
    BY <1>2, <2>2, <2>3, ZenonT(30)
  <2> QED BY <1>1, <2>1, <2>4, ZenonT(30)
<1> QED BY <1>3, <1>4, <1>5, <1>6, <1>7, <1>8, <1>9, <1>10, ZenonT(30) DEF Local, Step

(* Statements that wait for their plan.                                    *)

Planning == {"planner", "lookup", "standard", "planned", "insert"}

LEMMA RunsOwnReturn ==
  ASSUME TypeOK, TypeOK', NEW b \in Backends, RunsOwn(b), stack[b] # <<>>, Return(b), NEW t,
         Len(stack[b]) > 1 /\ stack[b][2].op = "run" => stack[b][2].arg = t /\ OwnPlan(b, t)'
  PROVE  RunsOwn(b)'
<1>0. Len(stack[b]) \in Nat /\ Len(stack'[b]) \in Nat
  BY DEF TypeOK
<1>1. Len(stack'[b]) = Len(stack[b]) - 1
  BY Returned
<1>2. \A i \in 1 .. Len(stack'[b]) : stack'[b][i] = stack[b][i + 1]
  BY Returned
<1> SUFFICES ASSUME NEW i \in 1 .. Len(stack'[b]), stack'[b][i].op = "run"
             PROVE  \/ i = 1 /\ stack'[b][1].arg = t /\ OwnPlan(b, t)'
                    \/ i > 1 /\ stack'[b][i - 1].op \in Planning
                             /\ stack'[b][i - 1].arg = stack'[b][i].arg
  BY DEF RunsOwn, Planning, OwnPlan, Hits
<1>3. CASE i = 1
  <2>1. Len(stack[b]) > 1 /\ stack'[b][1] = stack[b][2]
    BY <1>0, <1>1, <1>2, <1>3
  <2>2. stack[b][2].op = "run"
    BY <1>3, <2>1
  <2>3. stack[b][2].arg = t /\ OwnPlan(b, t)'
    BY <2>1, <2>2
  <2> QED BY <1>3, <2>1, <2>3
<1>4. CASE i > 1
  <2>1. i - 1 \in 1 .. Len(stack'[b]) /\ i + 1 \in 1 .. Len(stack[b]) /\ (i - 1) + 1 = i
        /\ (i + 1) - 1 = i
    BY <1>0, <1>1, <1>4
  <2>2. stack'[b][i] = stack[b][i + 1] /\ stack'[b][i - 1] = stack[b][i]
    BY <1>2, <2>1
  <2>3. /\ stack[b][(i + 1) - 1].op \in Planning
        /\ stack[b][(i + 1) - 1].arg = stack[b][i + 1].arg
    BY <1>4, <2>1, <2>2 DEF RunsOwn, Planning
  <2> QED BY <1>4, <2>1, <2>2, <2>3
<1> QED BY <1>3, <1>4, SMTT(30), ZenonT(30)

LEMMA RunsOwnReplace ==
  ASSUME TypeOK, TypeOK', NEW b \in Backends, RunsOwn(b), stack[b] # <<>>,
         NEW f \in Frames, Continue(b, <<f>>), f.op # "run",
         Len(stack[b]) > 1 /\ stack[b][2].op = "run" =>
            f.op \in Planning /\ f.arg = stack[b][2].arg
  PROVE  RunsOwn(b)'
<1>0. Len(stack[b]) \in Nat /\ Len(stack'[b]) \in Nat
  BY DEF TypeOK
<1>1. Len(stack'[b]) = Len(stack[b]) /\ stack'[b][1] = f
  BY Replaced
<1>2. \A i \in 2 .. Len(stack'[b]) : stack'[b][i] = stack[b][i]
  BY Replaced
<1> SUFFICES ASSUME NEW i \in 1 .. Len(stack'[b]), stack'[b][i].op = "run"
             PROVE  i > 1 /\ stack'[b][i - 1].op \in Planning
                          /\ stack'[b][i - 1].arg = stack'[b][i].arg
  BY ZenonT(30) DEF RunsOwn, Planning
<1>3. i # 1
  BY <1>1
<1>4. CASE i = 2
  BY <1>0, <1>1, <1>2, <1>4
<1>5. CASE i > 2
  <2>1. i \in 2 .. Len(stack'[b]) /\ i - 1 \in 2 .. Len(stack'[b]) /\ i \in 1 .. Len(stack[b])
    BY <1>0, <1>1, <1>5
  <2>2. stack'[b][i] = stack[b][i] /\ stack'[b][i - 1] = stack[b][i - 1]
    BY <1>2, <2>1
  <2> QED BY <1>5, <2>1, <2>2 DEF RunsOwn, Planning
<1> QED BY <1>0, <1>3, <1>4, <1>5

LEMMA RunsOwnPush ==
  ASSUME TypeOK, TypeOK', NEW b \in Backends, RunsOwn(b), stack[b] # <<>>,
         NEW f \in Frames, NEW g \in Frames, Continue(b, <<f, g>>), f.op # "run", g.op # "run",
         Len(stack[b]) > 1 /\ stack[b][2].op = "run" =>
            g.op \in Planning /\ g.arg = stack[b][2].arg
  PROVE  RunsOwn(b)'
<1>0. Len(stack[b]) \in Nat /\ Len(stack'[b]) \in Nat
  BY DEF TypeOK
<1>1. Len(stack'[b]) = Len(stack[b]) + 1 /\ stack'[b][1] = f /\ stack'[b][2] = g
  BY Pushed
<1>2. \A i \in 3 .. Len(stack'[b]) : stack'[b][i] = stack[b][i - 1]
  BY Pushed
<1> SUFFICES ASSUME NEW i \in 1 .. Len(stack'[b]), stack'[b][i].op = "run"
             PROVE  i > 1 /\ stack'[b][i - 1].op \in Planning
                          /\ stack'[b][i - 1].arg = stack'[b][i].arg
  BY ZenonT(30) DEF RunsOwn, Planning
<1>3. i # 1 /\ i # 2
  BY <1>1
<1>5. CASE i = 3
  BY <1>0, <1>1, <1>2, <1>5
<1>6. CASE i > 3
  <2>1. /\ i \in 3 .. Len(stack'[b]) /\ i - 1 \in 3 .. Len(stack'[b])
        /\ i - 1 \in 1 .. Len(stack[b])
    BY <1>0, <1>1, <1>6
  <2>2. stack'[b][i] = stack[b][i - 1] /\ stack'[b][i - 1] = stack[b][(i - 1) - 1]
    BY <1>2, <2>1
  <2>3. i - 1 # 1 /\ stack[b][i - 1].op = "run"
    BY <1>6, <2>2
  <2>4. /\ stack[b][(i - 1) - 1].op \in Planning
        /\ stack[b][(i - 1) - 1].arg = stack[b][i - 1].arg
    BY <2>1, <2>3 DEF RunsOwn, Planning
  <2> QED BY <1>6, <2>2, <2>4
<1> QED BY <1>0, <1>3, <1>5, <1>6

(* A statement right under the top waits for what the top is at work on.   *)
LEMMA RunsOwnSecond ==
  ASSUME NEW b, RunsOwn(b), Len(stack[b]) \in Nat, Len(stack[b]) > 1, stack[b][2].op = "run"
  PROVE  stack[b][1].op \in Planning /\ stack[b][1].arg = stack[b][2].arg
<1>1. 2 \in 1 .. Len(stack[b])
  OBVIOUS
<1>2. /\ 2 > 1
      /\ stack[b][2 - 1].op \in Planning
      /\ stack[b][2 - 1].arg = stack[b][2].arg
  BY <1>1 DEF RunsOwn, Planning
<1>3. 2 - 1 = 1
  BY SMTT(30)
<1> QED BY <1>2, <1>3

LEMMA RunsOwnLocal ==
  ASSUME TypeOK, TypeOK', NEW b \in Backends, Local(b), Clean(b), ArmedInCall(b), InsertReady,
         RunsOwn(b)
  PROVE  RunsOwn(b)'
<1>0. Len(stack[b]) \in Nat /\ Len(stack'[b]) \in Nat
  BY SMTT(30), ZenonT(30) DEF TypeOK
<1>1. ASSUME Len(stack[b]) > 1, stack[b][2].op = "run"
      PROVE  stack[b][1].op \in Planning /\ stack[b][1].arg = stack[b][2].arg
  BY <1>0, <1>1, RunsOwnSecond
<1>2. ASSUME NEW t \in Sent, Begin(b, t)
      PROVE  RunsOwn(b)'
  <2>1. stack'[b] = <<Frame("planner", t), Frame("run", t)>>
    BY <1>2 DEF Begin, TypeOK
  <2>2. /\ Len(stack'[b]) = 2
        /\ stack'[b][1] = Frame("planner", t) /\ stack'[b][2] = Frame("run", t)
    BY <2>1
  <2>3. /\ stack'[b][1].op = "planner" /\ stack'[b][1].arg = t
        /\ stack'[b][2].op = "run" /\ stack'[b][2].arg = t
    BY <2>2, SMTT(30), ZenonT(30) DEF Frame
  <2> SUFFICES ASSUME NEW i \in 1 .. 2, stack'[b][i].op = "run"
               PROVE  i > 1 /\ stack'[b][i - 1].op = "planner"
                            /\ stack'[b][i - 1].arg = stack'[b][i].arg
    BY <2>2 DEF RunsOwn
  <2>4. i = 2 /\ i - 1 = 1
    BY <2>3, SMTT(30), ZenonT(30)
  <2> QED BY <2>3, <2>4
<1>3. ASSUME NEW v \in CacheUse[b], SetCache(b, v)
      PROVE  RunsOwn(b)'
  BY <1>3, SMTT(30), ZenonT(30) DEF SetCache, RunsOwn, OwnPlan, Hits
<1>4. CASE \/ ExecutionFails(b) \/ Cancel(b)
           \/ \E t \in Texts : \/ call_fails(b, t) \/ Commit(b, t)
                               \/ InsertFails(b, t) \/ Deadlock(b, t)
  <2>1. stack'[b] = <<>>
    BY <1>4, SMTT(30), ZenonT(30) DEF ExecutionFails, Cancel, call_fails, Commit, InsertFails, Deadlock, Error, End, TypeOK
  <2>2. 1 .. Len(stack'[b]) = {}
    BY <2>1
  <2> QED BY <2>2 DEF RunsOwn
(* The top frame is none a waiting statement can be under.                 *)
<1>5. ASSUME NEW a, NEW o \in {"call", "injected", "run"}, At(b, o, a),
             \/ Return(b)
             \/ \E f \in Frames : f.op # "run" /\ Continue(b, <<f>>)
             \/ \E f, g \in Frames : f.op # "run" /\ g.op # "run" /\ Continue(b, <<f, g>>)
      PROVE  RunsOwn(b)'
  <2>1. stack[b] # <<>> /\ stack[b][1].op = o
    BY <1>5, Top, ZenonT(30)
  <2>2. ~(Len(stack[b]) > 1 /\ stack[b][2].op = "run")
    BY <1>1, <2>1 DEF Planning
  <2>3. CASE Return(b)
    BY <2>1, <2>2, <2>3, RunsOwnReturn
  <2>4. ASSUME NEW f \in Frames, f.op # "run", Continue(b, <<f>>)
        PROVE  RunsOwn(b)'
    BY <2>1, <2>2, <2>4, RunsOwnReplace
  <2>5. ASSUME NEW f \in Frames, NEW g \in Frames, f.op # "run", g.op # "run",
               Continue(b, <<f, g>>)
        PROVE  RunsOwn(b)'
    BY <2>1, <2>2, <2>5, RunsOwnPush
  <2> QED BY <1>5, <2>3, <2>4, <2>5, ZenonT(30)
<1>6. ASSUME NEW p \in Given, plan_executed(b, p)
      PROVE  RunsOwn(b)'
  BY <1>5, <1>6 DEF plan_executed
<1>7. ASSUME NEW t \in Texts, Run(b, t)
      PROVE  RunsOwn(b)'
  <2>1. /\ Frame("commit", t) \in Frames /\ Frame("commit", t).op = "commit"
        /\ Frame("call", plan[b].of) \in Frames /\ Frame("call", plan[b].of).op = "call"
    BY PlanTypes, FrameTypes, ZenonT(30) DEF Frame, TypeOK
  <2>2. \/ Continue(b, <<Frame("commit", t)>>)
        \/ Continue(b, <<Frame("call", plan[b].of), Frame("commit", t)>>)
    BY <1>7 DEF Run
  <2>3. At(b, "run", t)
    BY <1>7 DEF Run
  <2> QED BY <1>5, <2>1, <2>2, <2>3, ZenonT(30)
<1>8. ASSUME NEW t \in Texts,
             string_to_const(b, t) \/ pg_plan_serialize(b, t) \/ pg_plan_execute(b, t)
      PROVE  RunsOwn(b)'
  <2>1. At(b, "call", t)
    BY <1>8, ZenonT(30) DEF string_to_const, pg_plan_serialize, pg_plan_execute
  <2>2. \/ Return(b)
        \/ \E a \in Texts : Continue(b, <<Frame("planner", a)>>)
        \/ \E a \in Texts, p \in Given : Continue(b, <<Frame("planner", a), Frame("injected", p)>>)
    BY CuckooAssumption, <1>8, ZenonT(30) DEF string_to_const, pg_plan_serialize, pg_plan_execute
  <2>3. /\ \A a \in Texts : Frame("planner", a) \in Frames /\ Frame("planner", a).op # "run"
        /\ \A a \in Given : Frame("injected", a) \in Frames /\ Frame("injected", a).op # "run"
    BY FrameTypes, ZenonT(30) DEF Frame
  <2> QED BY <1>5, <2>1, <2>2, <2>3, ZenonT(30)
(* The top frame is at work on the text of the statement that waits.       *)
<1>9. ASSUME NEW t \in Texts, NEW o, At(b, o, t)
      PROVE  /\ stack[b] # <<>>
             /\ Len(stack[b]) > 1 /\ stack[b][2].op = "run" => stack[b][2].arg = t
  <2>1. stack[b] # <<>> /\ stack[b][1].arg = t
    BY <1>9, Top
  <2> QED BY <1>1, <2>1
<1>10. ASSUME NEW t \in Texts, NEW o, At(b, o, t), Return(b), OwnPlan(b, t)'
       PROVE  RunsOwn(b)'
  <2>1. stack[b] # <<>>
    BY <1>9, <1>10
  <2>2. Len(stack[b]) > 1 /\ stack[b][2].op = "run" => stack[b][2].arg = t
    BY <1>9, <1>10, SMTT(30), ZenonT(30)
  <2> QED BY <1>10, <2>1, <2>2, RunsOwnReturn
<1>11. ASSUME NEW t \in Texts, NEW o, At(b, o, t),
              NEW n \in {"standard", "lookup"}, Continue(b, <<Frame(n, t)>>)
       PROVE  RunsOwn(b)'
  <2> DEFINE f == Frame(n, t)
  <2>1. f \in Frames /\ f.op = n /\ f.arg = t /\ Continue(b, <<f>>)
    BY <1>11, FrameTypes, FrameFields
  <2>2. n \in Planning /\ n # "run"
    BY DEF Planning
  <2> HIDE DEF f
  <2> QED BY <1>9, <1>11, <2>1, <2>2, RunsOwnReplace
<1>12. ASSUME NEW t \in Texts, NEW o, At(b, o, t),
              NEW m \in {"standard", "call"}, NEW n \in {"insert", "planned"},
              Continue(b, <<Frame(m, t), Frame(n, t)>>)
       PROVE  RunsOwn(b)'
  <2> DEFINE f == Frame(m, t)
             g == Frame(n, t)
  <2>1. /\ f \in Frames /\ f.op = m /\ g \in Frames /\ g.op = n /\ g.arg = t
        /\ Continue(b, <<f, g>>)
    BY <1>12, FrameTypes, FrameFields
  <2>2. n \in Planning /\ n # "run" /\ m # "run"
    BY SMTT(30), ZenonT(30) DEF Planning
  <2> HIDE DEF f, g
  <2> QED BY <1>9, <1>12, <2>1, <2>2, RunsOwnPush
<1>13. ASSUME NEW t \in Texts, Standard(b, t) \/ Planned(b, t)
       PROVE  RunsOwn(b)'
  <2>1. At(b, "standard", t) \/ At(b, "planned", t)
    BY <1>13 DEF Standard, Planned
  <2>2. CASE Return(b) /\ Plans(b, Std(t))
    <3>1. OwnPlan(b, t)'
      BY <2>2, ZenonT(30) DEF Plans, TypeOK, OwnPlan
    <3> QED BY <1>10, <2>1, <2>2, <3>1, SMTT(30), ZenonT(30)
  <2>3. CASE Continue(b, <<Frame("call", t), Frame("planned", t)>>)
    BY <1>12, <2>1, <2>3, ZenonT(30)
  <2> QED BY <1>13, <2>2, <2>3, SMTT(30), ZenonT(30) DEF Standard, Planned
<1>14. ASSUME NEW t \in Texts, PlanDirectly(b, t)
       PROVE  RunsOwn(b)'
  BY <1>11, <1>14, ZenonT(30) DEF PlanDirectly
<1>15. ASSUME NEW t \in Texts, injection_planner(b, t)
       PROVE  RunsOwn(b)'
  <2>1. At(b, "planner", t) /\ Return(b) /\ hook[b] = "inject"
    BY <1>15, ZenonT(30) DEF injection_planner
  <2>2. stack[b] # <<>> /\ stack[b][2].op = "injected"
    BY <2>1, Top DEF ArmedInCall
  <2> QED BY <2>1, <2>2, RunsOwnReturn, ZenonT(30)
<1>16. ASSUME NEW t \in Texts, cache_planner(b, t)
       PROVE  RunsOwn(b)'
  <2>1. myPlan[b] = NoPlan
    BY <1>16, ZenonT(30) DEF cache_planner, Clean
  <2>2. At(b, "planner", t) /\ \E n \in {"standard", "lookup"} : Continue(b, <<Frame(n, t)>>)
    BY <1>16, <2>1, ZenonT(30) DEF cache_planner
  <2> QED BY <1>11, <2>2, ZenonT(30)
<1>17. ASSUME NEW t \in Texts, LookupMiss(b, t)
       PROVE  RunsOwn(b)'
  BY <1>12, <1>17, ZenonT(30) DEF LookupMiss
(* A row that is forced has the query id of the text.                      *)
<1>18. ASSUME NEW t \in Texts, LookupHit(b, t)
       PROVE  RunsOwn(b)'
  <2>1. At(b, "lookup", t) /\ UNCHANGED snap
    BY <1>18 DEF LookupHit
  <2>2. PICK r \in Hits(b, t) :
           \/ r.force = "yes" /\ Plans(b, r.plan) /\ Return(b)
           \/ r.force = "no" /\ Continue(b, <<Frame("standard", t)>>) /\ UNCHANGED plan
    BY <1>18 DEF LookupHit
  <2>3. CASE r.force = "yes" /\ Plans(b, r.plan) /\ Return(b)
    <3>1. plan'[b] = r.plan
      BY <2>3, SMTT(30), ZenonT(30) DEF Plans, TypeOK
    <3>2. OwnPlan(b, t)'
      BY <2>1, <2>3, <3>1 DEF OwnPlan, Hits
    <3> QED BY <1>10, <2>1, <2>3, <3>2
  <2>4. CASE Continue(b, <<Frame("standard", t)>>)
    BY <1>11, <2>1, <2>4, ZenonT(30)
  <2> QED BY <2>2, <2>3, <2>4
(* What is inserted is the plan of the text.                               *)
<1>19. ASSUME NEW t \in Texts, Insert(b, t)
       PROVE  RunsOwn(b)'
  <2>1. At(b, "insert", t) /\ Return(b) /\ UNCHANGED plan
    BY <1>19, SMTT(30), ZenonT(30) DEF Insert
  <2>2. /\ Len(stack[b]) \in Nat /\ Len(stack[b]) >= 1
        /\ stack[b][1].op = "insert" /\ stack[b][1].arg = t
    BY <2>1, Top, SMTT(30), ZenonT(30)
  <2>3. plan[b] = Std(t)
    BY <2>2, SMTT(30), ZenonT(30) DEF InsertReady, Awaits
  <2>4. OwnPlan(b, t)'
    BY <2>1, <2>3 DEF OwnPlan
  <2> QED BY <1>10, <2>1, <2>4
<1> QED BY <1>2, <1>3, <1>4, <1>6, <1>7, <1>8, <1>13, <1>14, <1>15, <1>16, <1>17, <1>18, <1>19, ZenonT(30)
    DEF Local, Step

LEMMA ApartLocal ==
  ASSUME TypeOK, TypeOK', NEW b \in Backends, Local(b), Apart(b)
  PROVE  Apart(b)'
<1>1. CASE NoCache /\ Uncached(b)
  BY <1>1, UncachedLocal, SMTT(30), ZenonT(30) DEF Apart, NoCache
<1>2. CASE ExecuteAtRun /\ Outermost(b)
  BY <1>2, OutermostLocal DEF Apart, ExecuteAtRun
<1> QED BY <1>1, <1>2 DEF Apart

(* No statement is cancelled, and plan_execute is never called inside      *)
(* cache_planner: no session uses the cache, or the planner evaluates no   *)
(* call of plan_execute.                                                   *)
Undisturbed == ~MayCancel /\ (NoCache \/ ExecuteAtRun)

LEMMA DisciplineStep ==
  ASSUME Undisturbed
  PROVE  TypeOK /\ TypeOK' /\ InsertReady /\ HookDiscipline /\ [Next]_vars => HookDiscipline'
<1> SUFFICES ASSUME TypeOK, TypeOK', InsertReady, HookDiscipline, [Next]_vars, NEW d \in Backends
             PROVE  Clean(d)' /\ Apart(d)' /\ ArmedInCall(d)' /\ RunsOwn(d)'
  BY ZenonT(30) DEF HookDiscipline
<1>1. Clean(d) /\ Apart(d) /\ ArmedInCall(d) /\ RunsOwn(d)
  BY ZenonT(30) DEF HookDiscipline
<1>2. ASSUME stack'[d] = stack[d], plan'[d] = plan[d], hook'[d] = hook[d], myPlan'[d] = myPlan[d],
             cache'[d] = cache[d], loaded'[d] = loaded[d], snap'[d] = snap[d]
      PROVE  Clean(d)' /\ Apart(d)' /\ ArmedInCall(d)' /\ RunsOwn(d)'
  <2>1. Clean(d)' /\ ArmedInCall(d)'
    BY <1>1, <1>2, ZenonT(30) DEF Clean, ArmedInCall
  <2>2. Apart(d)'
    <3>1. Uncached(d) => Uncached(d)'
      BY <1>2 DEF Uncached
    <3>2. Outermost(d) => Outermost(d)'
      BY <1>2, SMTT(30), ZenonT(30) DEF Outermost
    <3> QED BY <1>1, <3>1, <3>2, ZenonT(30) DEF Apart, NoCache, ExecuteAtRun
  <2>3. RunsOwn(d)'
    BY <1>1, <1>2, SMTT(30), ZenonT(30) DEF RunsOwn, OwnPlan, Hits
  <2> QED BY <2>1, <2>2, <2>3, SMTT(30), ZenonT(30)
<1>3. CASE \/ UNCHANGED vars \/ Finished
           \/ \E t \in Forced, p \in Given : StorePlan(t, p)
  <2>1. UNCHANGED <<stack, plan, hook, myPlan, cache, loaded, snap>>
    BY <1>3 DEF vars, Finished, StorePlan
  <2> QED BY <1>2, <2>1
<1>4. ASSUME NEW b \in Backends, Local(b)
      PROVE  Clean(d)' /\ Apart(d)' /\ ArmedInCall(d)' /\ RunsOwn(d)'
  <2>1. CASE d = b
    <3>1. Clean(d)' /\ Apart(d)'
      BY <1>1, <1>4, <2>1, CleanLocal, ApartLocal
    <3>2. ArmedInCall(d)'
      BY <1>1, <1>4, <2>1, ArmedInCallLocal DEF Undisturbed
    <3>3. RunsOwn(d)'
      BY <1>1, <1>4, <2>1, RunsOwnLocal
    <3> QED BY <3>1, <3>2, <3>3
  <2>2. CASE d # b
    <3>1. Mine(b)
      BY <1>4, LocalIsMine
    <3> QED BY <1>2, <2>2, <3>1, ZenonT(30) DEF Mine
  <2> QED BY <2>1, <2>2
<1> QED BY <1>3, <1>4, ZenonT(30) DEF Next, Local

(* At the start no call is in progress and no hook armed.                  *)
LEMMA HookInit ==
  ASSUME Undisturbed
  PROVE  Init => InsertReady /\ HookDiscipline
<1> SUFFICES ASSUME Init, NEW b \in Backends
             PROVE  /\ Awaits(b, "insert", {"standard", "planned"}, FALSE)
                    /\ Clean(b) /\ Apart(b) /\ ArmedInCall(b) /\ RunsOwn(b)
  BY ZenonT(30) DEF InsertReady, HookDiscipline
<1>1. 1 .. Len(stack[b]) = {}
  <2>1. stack[b] = <<>> /\ Len(stack[b]) = 0
    BY DEF Init
  <2> QED BY <2>1
<1>2. /\ cache[b] = "off" /\ myPlan[b] = NoPlan
      /\ hook[b] # "inject"
      /\ loaded[b] = "no" => hook[b] = "none"
  BY CuckooAssumption DEF Init
<1>3. Clean(b) /\ ArmedInCall(b) /\ Uncached(b)
  BY <1>1, <1>2 DEF Clean, ArmedInCall, Uncached
<1>4. RunsOwn(b) /\ Outermost(b) /\ Awaits(b, "insert", {"standard", "planned"}, FALSE)
  BY <1>1 DEF RunsOwn, Outermost, Awaits
<1> QED BY <1>3, <1>4, ZenonT(30) DEF Apart, Undisturbed

(* When no statement is cancelled, every statement runs its own plan,      *)
(* whether the calls of the extension's functions succeed or fail and      *)
(* however sessions race for plan_cache, as long as no session uses the    *)
(* cache, or the planner evaluates no call of plan_execute.                *)
THEOREM PlannerComesBack ==
  ASSUME Undisturbed
  PROVE  Spec => []PlannerReactivated
<1>1. TypeOK /\ HookDiscipline => PlannerReactivated
  <2> SUFFICES ASSUME TypeOK, HookDiscipline, NEW b \in Backends, NEW t \in Texts,
                      At(b, "run", t)
               PROVE  OwnPlan(b, t)
    BY DEF PlannerReactivated
  <2>1. /\ Len(stack[b]) \in Nat /\ Len(stack[b]) >= 1
        /\ stack[b][1].op = "run" /\ stack[b][1].arg = t
    BY Top
  <2> QED BY <2>1 DEF HookDiscipline, RunsOwn
<1> QED BY <1>1, HookInit, CuckooTypes, InsertReadyStep, DisciplineStep, PTL DEF Spec
=============================================================================
