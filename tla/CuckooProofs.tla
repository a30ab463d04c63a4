--------------------------- MODULE CuckooProofs ---------------------------
(***************************************************************************)
(* Proofs about the extension, for any sessions, texts, plans and calls:   *)
(* types, the plans plan_execute executes, the plans the cache holds.      *)
(***************************************************************************)
EXTENDS CuckooExt, TLAPS

(* Stacks: the effect of Return and Continue.                              *)
LEMMA Stacks ==
  ASSUME NEW S, NEW s \in Seq(S), s # <<>>, NEW a \in S, NEW c \in S
  PROVE  /\ Len(s) \in Nat /\ Len(s) >= 1 /\ Head(s) = s[1] /\ s[1] \in S
         /\ Tail(s) \in Seq(S)
         /\ Len(Tail(s)) = Len(s) - 1
         /\ \A i \in 1 .. Len(s) - 1 : Tail(s)[i] = s[i + 1]
         /\ <<a>> \o Tail(s) \in Seq(S)
         /\ Len(<<a>> \o Tail(s)) = Len(s)
         /\ (<<a>> \o Tail(s))[1] = a
         /\ \A i \in 2 .. Len(s) : (<<a>> \o Tail(s))[i] = s[i]
         /\ <<a, c>> \o Tail(s) \in Seq(S)
         /\ Len(<<a, c>> \o Tail(s)) = Len(s) + 1
         /\ (<<a, c>> \o Tail(s))[1] = a
         /\ (<<a, c>> \o Tail(s))[2] = c
         /\ \A i \in 3 .. Len(s) + 1 : (<<a, c>> \o Tail(s))[i] = s[i - 1]
<1>1. /\ Len(s) \in Nat /\ Len(s) >= 1 /\ Head(s) = s[1] /\ s[1] \in S
      /\ Tail(s) \in Seq(S)
      /\ Len(Tail(s)) = Len(s) - 1
      /\ \A i \in 1 .. Len(s) - 1 : Tail(s)[i] = s[i + 1]
  OBVIOUS
<1>2. /\ <<a>> \o Tail(s) \in Seq(S)
      /\ Len(<<a>> \o Tail(s)) = Len(s)
      /\ (<<a>> \o Tail(s))[1] = a
      /\ \A i \in 2 .. Len(s) : (<<a>> \o Tail(s))[i] = s[i]
  BY <1>1
<1>3. /\ <<a, c>> \o Tail(s) \in Seq(S)
      /\ Len(<<a, c>> \o Tail(s)) = Len(s) + 1
      /\ (<<a, c>> \o Tail(s))[1] = a
      /\ (<<a, c>> \o Tail(s))[2] = c
      /\ \A i \in 3 .. Len(s) + 1 : (<<a, c>> \o Tail(s))[i] = s[i - 1]
  BY <1>1
<1> QED BY <1>1, <1>2, <1>3
-----------------------------------------------------------------------------
(* Type correctness.                                                       *)

LEMMA PlanTypes ==
  /\ NoPlan \in Plan
  /\ \A t \in Texts : Std(t) \in Plan
  /\ \A p \in Given : Own(p) \in Plan
  /\ \A p \in Plan : p.of \in Texts \union Given
<1>1. \A p \in Plan : p.of \in Texts \union Given
  <2> SUFFICES ASSUME NEW p \in Plan
               PROVE  p.of \in Texts \union Given
    OBVIOUS
  <2>1. CASE p = NoPlan
    BY <2>1, CuckooAssumption DEF NoPlan
  <2>2. ASSUME NEW t \in Texts, p = Std(t)
        PROVE  p.of \in Texts \union Given
    BY <2>2 DEF Std
  <2>3. ASSUME NEW q \in Given, p = Own(q)
        PROVE  p.of \in Texts \union Given
    BY <2>3 DEF Own
  <2> QED BY <2>1, <2>2, <2>3 DEF Plan
<1> QED BY <1>1 DEF Plan

LEMMA FrameTypes ==
  ASSUME NEW a \in Texts \union Given
  PROVE  \A op \in {"planner", "lookup", "standard", "planned", "insert",
                    "call", "injected", "run", "commit"} : Frame(op, a) \in Frames
BY DEF Frame, Frames

LEMMA FrameFields ==
  ASSUME NEW op, NEW a
  PROVE  Frame(op, a).op = op /\ Frame(op, a).arg = a
BY DEF Frame

(* What a call is given.                                                   *)
LEMMA CallArgs ==
  ASSUME NEW t \in Texts
  PROVE  /\ Calls[t].fn = "serialize" => Calls[t].arg \in Texts
         /\ Calls[t].fn = "execute" => Calls[t].arg \in Given
BY CuckooAssumption

(* A step of backend b changes its own stack, by a return, by one or two   *)
(* frames, or by its end.                                                  *)
StackStep(b) ==
  \/ UNCHANGED stack
  \/ stack[b] # <<>> /\ stack' = [stack EXCEPT ![b] = Tail(@)]
  \/ stack[b] # <<>> /\ \E f \in Frames : stack' = [stack EXCEPT ![b] = <<f>> \o Tail(@)]
  \/ stack[b] # <<>> /\ \E f, g \in Frames : stack' = [stack EXCEPT ![b] = <<f, g>> \o Tail(@)]
  \/ \E f, g \in Frames : stack' = [stack EXCEPT ![b] = <<f, g>>]
  \/ stack' = [stack EXCEPT ![b] = <<>>]

LEMMA StackTypes ==
  ASSUME TypeOK, NEW b \in Backends, StackStep(b)
  PROVE  stack' \in [Backends -> Seq(Frames)]
<1>1. stack \in [Backends -> Seq(Frames)] /\ stack[b] \in Seq(Frames)
  BY DEF TypeOK
<1>2. ASSUME NEW s \in Seq(Frames), stack' = [stack EXCEPT ![b] = s]
      PROVE  stack' \in [Backends -> Seq(Frames)]
  BY <1>1, <1>2
<1>3. ASSUME stack[b] # <<>>, NEW f \in Frames, NEW g \in Frames
      PROVE  /\ Tail(stack[b]) \in Seq(Frames)
             /\ <<f>> \o Tail(stack[b]) \in Seq(Frames)
             /\ <<f, g>> \o Tail(stack[b]) \in Seq(Frames)
  BY <1>1, <1>3, Stacks
<1>4. CASE stack[b] # <<>> /\ stack' = [stack EXCEPT ![b] = Tail(@)]
  <2>1. Tail(stack[b]) \in Seq(Frames)
    BY <1>1, <1>4
  <2> QED BY <1>2, <1>4, <2>1, ZenonT(30)
<1>5. ASSUME stack[b] # <<>>, NEW f \in Frames, stack' = [stack EXCEPT ![b] = <<f>> \o Tail(@)]
      PROVE  stack' \in [Backends -> Seq(Frames)]
  BY <1>2, <1>3, <1>5, ZenonT(30)
<1>6. ASSUME stack[b] # <<>>, NEW f \in Frames, NEW g \in Frames,
             stack' = [stack EXCEPT ![b] = <<f, g>> \o Tail(@)]
      PROVE  stack' \in [Backends -> Seq(Frames)]
  BY <1>2, <1>3, <1>6, ZenonT(30)
<1>7. ASSUME NEW f \in Frames, NEW g \in Frames, stack' = [stack EXCEPT ![b] = <<f, g>>]
      PROVE  stack' \in [Backends -> Seq(Frames)]
  <2>1. <<f, g>> \in Seq(Frames)
    OBVIOUS
  <2> QED BY <1>2, <1>7, <2>1, Zenon
<1>8. CASE stack' = [stack EXCEPT ![b] = <<>>]
  <2>1. <<>> \in Seq(Frames)
    OBVIOUS
  <2> QED BY <1>2, <1>8, <2>1, Zenon
<1> QED BY <1>1, <1>4, <1>5, <1>6, <1>7, <1>8, ZenonT(30) DEF StackStep

LEMMA EndTypes ==
  ASSUME TypeOK, NEW b \in Backends, End(b)
  PROVE  /\ StackStep(b)
         /\ stack' \in [Backends -> Seq(Frames)]
         /\ plan' \in [Backends -> Plan]
         /\ snap' \in [Backends -> SUBSET Row]
         /\ pending' \in [Backends -> SUBSET Row]
<1>1. StackStep(b)
  BY DEF End, StackStep
<1>2. {} \in SUBSET Row
  OBVIOUS
<1>3. snap' \in [Backends -> SUBSET Row]
  BY <1>2, Zenon DEF End, TypeOK
<1>4. pending' \in [Backends -> SUBSET Row]
  BY <1>2, Zenon DEF End, TypeOK
<1>5. plan' \in [Backends -> Plan]
  BY PlanTypes DEF End, TypeOK
<1> QED BY <1>1, <1>3, <1>4, <1>5, StackTypes

LEMMA TypeStep == TypeOK /\ [Next]_vars => TypeOK'
<1> SUFFICES ASSUME TypeOK, [Next]_vars
             PROVE  TypeOK'
  OBVIOUS
<1> USE CuckooAssumption, PlanTypes
<1>1. CASE UNCHANGED vars
  BY <1>1 DEF TypeOK, vars
<1>2. CASE Finished
  BY <1>2 DEF Finished, TypeOK, vars
<1>3. ASSUME NEW t \in Forced, NEW p \in Given, StorePlan(t, p)
      PROVE  TypeOK'
  BY <1>3 DEF StorePlan, TypeOK, Row
<1>4. ASSUME NEW b \in Backends, NEW t \in Sent, Begin(b, t)
      PROVE  TypeOK'
  <2>1. StackStep(b)
    BY <1>4, FrameTypes, ZenonT(30) DEF Begin, StackStep
  <2>2. stack' \in [Backends -> Seq(Frames)]
    BY <2>1, StackTypes
  <2> QED BY <1>4, <2>2 DEF Begin, TypeOK
<1>5. ASSUME NEW b \in Backends, NEW v \in CacheUse[b], SetCache(b, v)
      PROVE  TypeOK'
  BY <1>5, ZenonT(30) DEF SetCache, TypeOK
<1>6. ASSUME NEW b \in Backends, ExecutionFails(b) \/ Cancel(b)
      PROVE  TypeOK'
  <2>1. Error(b)
    BY <1>6 DEF ExecutionFails, Cancel
  <2> QED BY <2>1, EndTypes DEF Error, TypeOK
<1>7. ASSUME NEW b \in Backends, NEW t \in Texts, call_fails(b, t)
      PROVE  TypeOK'
  BY <1>7, EndTypes DEF call_fails, Loads, Hook, _PG_init, TypeOK
<1>8. ASSUME NEW b \in Backends, Step(b)
      PROVE  TypeOK'
  <2>1. ASSUME NEW p \in Given, plan_executed(b, p)
        PROVE  TypeOK'
    <3>1. StackStep(b)
      BY <2>1 DEF plan_executed, At, Return, StackStep
    <3>2. stack' \in [Backends -> Seq(Frames)]
      BY <3>1, StackTypes
    <3> QED BY <2>1, <3>2, ZenonT(30) DEF plan_executed, Hook, TypeOK
  <2>2. ASSUME NEW t \in Texts, Run(b, t)
        PROVE  TypeOK'
    <3>0. plan[b].of \in Texts \union Given
      BY DEF TypeOK
    <3>1. StackStep(b)
      BY <2>2, <3>0, FrameTypes, ZenonT(30) DEF Run, At, Continue, StackStep
    <3>2. stack' \in [Backends -> Seq(Frames)]
      BY <3>1, StackTypes
    <3> QED BY <2>2, <3>2 DEF Run, TypeOK
  <2>10. ASSUME NEW t \in Texts, Commit(b, t)
         PROVE  TypeOK'
    <3>1. rows \union pending[b] \subseteq Row
      BY DEF TypeOK
    <3> QED BY <2>10, <3>1, EndTypes DEF Commit, TypeOK
  <2>3. ASSUME NEW t \in Texts,
               PlanDirectly(b, t) \/ injection_planner(b, t) \/ cache_planner(b, t)
        PROVE  TypeOK'
    <3>1. StackStep(b)
      BY <2>3, FrameTypes, ZenonT(30) DEF PlanDirectly, injection_planner, cache_planner, At,
                              Return, Continue, StackStep
    <3>2. stack' \in [Backends -> Seq(Frames)]
      BY <3>1, StackTypes
    <3> QED BY <2>3, <3>2, ZenonT(30) DEF PlanDirectly, injection_planner, cache_planner, Hook, Plans, TypeOK
  <2>4. ASSUME NEW t \in Texts, LookupMiss(b, t) \/ Standard(b, t) \/ Planned(b, t)
        PROVE  TypeOK'
    <3>1. StackStep(b)
      BY <2>4, FrameTypes, ZenonT(30) DEF LookupMiss, Standard, Planned, At, Return, Continue, StackStep
    <3>2. stack' \in [Backends -> Seq(Frames)]
      BY <3>1, StackTypes
    <3>3. plan' \in [Backends -> Plan]
      BY <2>4 DEF LookupMiss, Standard, Planned, Plans, TypeOK
    <3>4. UNCHANGED <<hook, myPlan, cache, loaded, snap, pending, count, rows>>
      BY <2>4 DEF LookupMiss, Standard, Planned
    <3> QED BY <3>2, <3>3, <3>4 DEF TypeOK
  <2>5. ASSUME NEW t \in Texts, LookupHit(b, t)
        PROVE  TypeOK'
    <3>1. StackStep(b)
      BY <2>5, FrameTypes, ZenonT(30) DEF LookupHit, At, Return, Continue, StackStep
    <3>2. stack' \in [Backends -> Seq(Frames)]
      BY <3>1, StackTypes
    <3>3. PICK r \in Hits(b, t) :
             \/ r.force = "yes" /\ Plans(b, r.plan) /\ Return(b)
             \/ r.force = "no" /\ Continue(b, <<Frame("standard", t)>>) /\ UNCHANGED plan
      BY <2>5 DEF LookupHit
    <3>4. r.plan \in Plan
      BY DEF Hits, TypeOK, Row
    <3> QED BY <2>5, <3>2, <3>3, <3>4, ZenonT(30) DEF LookupHit, Hook, Plans, TypeOK
  <2>6. ASSUME NEW t \in Texts, Insert(b, t)
        PROVE  TypeOK'
    <3>1. StackStep(b)
      BY <2>6 DEF Insert, At, Return, StackStep
    <3>2. stack' \in [Backends -> Seq(Frames)]
      BY <3>1, StackTypes
    <3>3. NewRow(b, t) \in Row
      BY DEF NewRow, Row, TypeOK
    <3> QED BY <2>6, <3>2, <3>3, ZenonT(30) DEF Insert, Hook, TypeOK
  <2>7. ASSUME NEW t \in Texts, InsertFails(b, t) \/ Deadlock(b, t)
        PROVE  TypeOK'
    <3>1. Error(b)
      BY <2>7 DEF InsertFails, Deadlock
    <3> QED BY <3>1, EndTypes DEF Error, TypeOK
  <2>8. ASSUME NEW t \in Texts, string_to_const(b, t) \/ pg_plan_serialize(b, t)
        PROVE  TypeOK'
    <3>1. StackStep(b)
      BY <2>8, FrameTypes, ZenonT(30) DEF string_to_const, pg_plan_serialize, At, Return, Continue, StackStep
    <3>2. stack' \in [Backends -> Seq(Frames)]
      BY <3>1, StackTypes
    <3>3. _PG_init(b) \in {"none", "cache", "inject"}
      BY DEF _PG_init, TypeOK
    <3>4. /\ hook' = [hook EXCEPT ![b] = _PG_init(b)]
          /\ loaded' = [loaded EXCEPT ![b] = "yes"]
          /\ UNCHANGED <<myPlan, cache, plan, snap, pending, count, rows>>
      BY <2>8 DEF string_to_const, pg_plan_serialize, Loads, Hook
    <3> QED BY <3>2, <3>3, <3>4 DEF TypeOK
  <2>9. ASSUME NEW t \in Texts, pg_plan_execute(b, t)
        PROVE  TypeOK'
    <3>1. StackStep(b)
      BY <2>9, FrameTypes, ZenonT(30) DEF pg_plan_execute, At, Continue, StackStep
    <3>2. stack' \in [Backends -> Seq(Frames)]
      BY <3>1, StackTypes
    <3>3. Own(Calls[t].arg) \in Plan
      BY <2>9 DEF pg_plan_execute
    <3> QED BY <2>9, <3>2, <3>3, ZenonT(30) DEF pg_plan_execute, Loads, Hook, TypeOK
  <2> QED BY <1>8, <2>1, <2>2, <2>3, <2>4, <2>5, <2>6, <2>7, <2>8, <2>9, <2>10 DEF Step
<1> QED BY <1>1, <1>2, <1>3, <1>4, <1>5, <1>6, <1>7, <1>8 DEF Next

(* The types of the backends' globals, of the stacks and of plan_cache.    *)
THEOREM CuckooTypes == Spec => []TypeOK
<1>1. Init => TypeOK
  BY CuckooAssumption, PlanTypes, SMTT(30) DEF Init, TypeOK
<1> QED BY <1>1, TypeStep, PTL DEF Spec
-----------------------------------------------------------------------------
(* Steps of one backend, and what they leave alone.                        *)

(* The other backends keep their globals and their calls.                  *)
Mine(b) ==
  \A d \in Backends \ {b} :
     /\ stack'[d] = stack[d] /\ plan'[d] = plan[d]
     /\ hook'[d] = hook[d] /\ myPlan'[d] = myPlan[d]
     /\ cache'[d] = cache[d] /\ loaded'[d] = loaded[d]
     /\ pending'[d] = pending[d] /\ snap'[d] = snap[d]

Local(b) ==
  \/ Step(b)
  \/ ExecutionFails(b)
  \/ \E t \in Texts : call_fails(b, t)
  \/ Cancel(b)
  \/ \E t \in Sent : Begin(b, t)
  \/ \E v \in CacheUse[b] : SetCache(b, v)

LEMMA LocalIsMine ==
  ASSUME TypeOK, NEW b \in Backends, Local(b)
  PROVE  Mine(b)
<1>1. CASE ExecutionFails(b) \/ Cancel(b) \/ \E t \in Texts : call_fails(b, t)
  BY <1>1 DEF ExecutionFails, Cancel, call_fails, Error, End, Loads, Hook, TypeOK, Mine
<1>2. CASE \E t \in Sent : Begin(b, t)
  BY <1>2 DEF Begin, TypeOK, Mine
<1>3. CASE \E v \in CacheUse[b] : SetCache(b, v)
  BY <1>3 DEF SetCache, TypeOK, Mine
<1>4. CASE \E p \in Given : plan_executed(b, p)
  BY <1>4 DEF plan_executed, Hook, Return, TypeOK, Mine
<1>5. ASSUME NEW t \in Texts,
             Run(b, t) \/ Commit(b, t) \/ InsertFails(b, t) \/ Deadlock(b, t) \/ Insert(b, t)
      PROVE  Mine(b)
  BY <1>5, ZenonT(40) DEF Run, Commit, InsertFails, Deadlock, Insert, Error, End, Hook, Return, Continue,
              TypeOK, Mine
<1>6. ASSUME NEW t \in Texts,
             PlanDirectly(b, t) \/ injection_planner(b, t) \/ cache_planner(b, t)
      PROVE  Mine(b)
  BY <1>6 DEF PlanDirectly, injection_planner, cache_planner, Hook, Plans, Return, Continue,
              TypeOK, Mine
<1>7. ASSUME NEW t \in Texts,
             LookupMiss(b, t) \/ LookupHit(b, t) \/ Standard(b, t) \/ Planned(b, t)
      PROVE  Mine(b)
  BY <1>7 DEF LookupMiss, LookupHit, Standard, Planned, Hook, Plans, Return, Continue,
              TypeOK, Mine
<1>8. ASSUME NEW t \in Texts,
             string_to_const(b, t) \/ pg_plan_serialize(b, t) \/ pg_plan_execute(b, t)
      PROVE  Mine(b)
  BY <1>8 DEF string_to_const, pg_plan_serialize, pg_plan_execute, Loads, Hook, Return,
              Continue, TypeOK, Mine
<1> QED BY <1>1, <1>2, <1>3, <1>4, <1>5, <1>6, <1>7, <1>8 DEF Local, Step

(* The new stack, position by position.                                    *)
LEMMA Returned ==
  ASSUME TypeOK, NEW b \in Backends, stack[b] # <<>>, Return(b)
  PROVE  /\ Len(stack'[b]) = Len(stack[b]) - 1
         /\ \A i \in 1 .. Len(stack'[b]) : stack'[b][i] = stack[b][i + 1]
<1>1. stack[b] \in Seq(Frames) /\ stack'[b] = Tail(stack[b])
  BY DEF TypeOK, Return
<1> QED BY <1>1

LEMMA Replaced ==
  ASSUME TypeOK, NEW b \in Backends, stack[b] # <<>>, NEW f \in Frames, Continue(b, <<f>>)
  PROVE  /\ Len(stack'[b]) = Len(stack[b])
         /\ stack'[b][1] = f
         /\ \A i \in 2 .. Len(stack'[b]) : stack'[b][i] = stack[b][i]
<1>1. stack[b] \in Seq(Frames) /\ stack'[b] = <<f>> \o Tail(stack[b])
  BY DEF TypeOK, Continue
<1> QED BY <1>1, Stacks

LEMMA Pushed ==
  ASSUME TypeOK, NEW b \in Backends, stack[b] # <<>>, NEW f \in Frames, NEW g \in Frames,
         Continue(b, <<f, g>>)
  PROVE  /\ Len(stack'[b]) = Len(stack[b]) + 1
         /\ stack'[b][1] = f
         /\ stack'[b][2] = g
         /\ \A i \in 3 .. Len(stack'[b]) : stack'[b][i] = stack[b][i - 1]
<1>1. stack[b] \in Seq(Frames) /\ stack'[b] = <<f, g>> \o Tail(stack[b])
  BY DEF TypeOK, Continue
<1> QED BY <1>1, Stacks

LEMMA Top ==
  ASSUME TypeOK, NEW b \in Backends, NEW op, NEW a, At(b, op, a)
  PROVE  /\ stack[b] # <<>>
         /\ Len(stack[b]) \in Nat /\ Len(stack[b]) >= 1
         /\ stack[b][1].op = op /\ stack[b][1].arg = a
<1>1. stack[b] \in Seq(Frames) /\ stack[b] # <<>> /\ Head(stack[b]) = Frame(op, a)
  BY DEF TypeOK, At
<1> QED BY <1>1 DEF Frame
-----------------------------------------------------------------------------
(* Calls of plan_execute execute the plan they were handed.                *)

(* Unless planner() was called for plan_execute, no frame under the top    *)
(* one is a call of plan_execute.                                          *)
LEMMA NoneBelow ==
  ASSUME TypeOK, NEW b \in Backends, Armed(b), stack[b] # <<>>,
         stack[b][1].op # "planner" \/ hook[b] # "inject"
  PROVE  \A i \in 2 .. Len(stack[b]) : stack[b][i].op # "injected"
<1>1. stack[b] \in Seq(Frames)
  BY DEF TypeOK
<1> QED BY <1>1 DEF Armed

(* A step that pushes other frames puts none there.                        *)
LEMMA NonePushed ==
  ASSUME TypeOK, TypeOK', NEW b \in Backends, NEW bad, stack[b] # <<>>,
         \A i \in 2 .. Len(stack[b]) : stack[b][i].op \notin bad,
         \/ Return(b)
         \/ \E f \in Frames : f.op \notin bad /\ Continue(b, <<f>>)
         \/ \E f, g \in Frames : f.op \notin bad /\ g.op \notin bad /\ Continue(b, <<f, g>>)
  PROVE  \A i \in 1 .. Len(stack'[b]) : stack'[b][i].op \notin bad
<1>0. Len(stack[b]) \in Nat /\ Len(stack'[b]) \in Nat
  BY DEF TypeOK
<1>1. SUFFICES ASSUME NEW i \in 1 .. Len(stack'[b])
               PROVE  stack'[b][i].op \notin bad
  OBVIOUS
<1>2. CASE Return(b)
  <2>1. Len(stack'[b]) = Len(stack[b]) - 1 /\ stack'[b][i] = stack[b][i + 1]
    BY <1>2, Returned
  <2>2. i + 1 \in 2 .. Len(stack[b])
    BY <2>1, <1>0
  <2> QED BY <2>1, <2>2
<1>3. ASSUME NEW f \in Frames, f.op \notin bad, Continue(b, <<f>>)
      PROVE  stack'[b][i].op \notin bad
  <2>1. /\ Len(stack'[b]) = Len(stack[b])
        /\ stack'[b][1] = f
        /\ i > 1 => stack'[b][i] = stack[b][i]
    BY <1>0, <1>3, Replaced
  <2> QED BY <1>0, <1>3, <2>1
<1>4. ASSUME NEW f \in Frames, NEW g \in Frames, f.op \notin bad, g.op \notin bad,
             Continue(b, <<f, g>>)
      PROVE  stack'[b][i].op \notin bad
  <2>1. /\ Len(stack'[b]) = Len(stack[b]) + 1
        /\ stack'[b][1] = f
        /\ stack'[b][2] = g
        /\ i > 2 => stack'[b][i] = stack[b][i - 1]
    BY <1>0, <1>4, Pushed
  <2>2. CASE i > 2
    <3>1. i - 1 \in 2 .. Len(stack[b])
      BY <1>0, <2>1, <2>2
    <3> QED BY <2>1, <2>2, <3>1
  <2>3. CASE i = 1 \/ i = 2
    BY <1>4, <2>1, <2>3
  <2> QED BY <1>0, <2>2, <2>3
<1> QED BY <1>2, <1>3, <1>4, ZenonT(30)

LEMMA NoneAfter ==
  ASSUME TypeOK, TypeOK', NEW b \in Backends, stack[b] # <<>>,
         \A i \in 2 .. Len(stack[b]) : stack[b][i].op # "injected",
         \/ Return(b)
         \/ \E f \in Frames : f.op # "injected" /\ Continue(b, <<f>>)
         \/ \E f, g \in Frames : f.op # "injected" /\ g.op # "injected" /\ Continue(b, <<f, g>>)
  PROVE  Armed(b)'
<1> DEFINE bad == {"injected"}
<1>1. /\ \A i \in 2 .. Len(stack[b]) : stack[b][i].op \notin bad
      /\ \/ Return(b)
         \/ \E f \in Frames : f.op \notin bad /\ Continue(b, <<f>>)
         \/ \E f, g \in Frames : f.op \notin bad /\ g.op \notin bad /\ Continue(b, <<f, g>>)
  BY ZenonT(30)
<1> HIDE DEF bad
<1>2. \A i \in 1 .. Len(stack'[b]) : stack'[b][i].op \notin bad
  BY <1>1, NonePushed, ZenonT(30)
<1> QED BY <1>2 DEF bad, Armed

LEMMA ArmedLocal ==
  ASSUME TypeOK, TypeOK', NEW b \in Backends, Armed(b), Local(b)
  PROVE  Armed(b)'
<1> USE CuckooAssumption
<1>0. stack[b] \in Seq(Frames) /\ stack'[b] \in Seq(Frames)
  BY DEF TypeOK
<1>1. CASE stack'[b] = <<>>
  BY <1>1 DEF Armed
<1>2. ASSUME NEW t \in Sent, Begin(b, t)
      PROVE  Armed(b)'
  <2>1. stack'[b] = <<Frame("planner", t), Frame("run", t)>>
    BY <1>2 DEF Begin, TypeOK
  <2> QED BY <2>1 DEF Armed, Frame
<1>3. ASSUME NEW v \in CacheUse[b], SetCache(b, v)
      PROVE  Armed(b)'
  BY <1>3, SMTT(30), ZenonT(30) DEF SetCache, Armed
<1>4. ASSUME NEW p \in Given, plan_executed(b, p)
      PROVE  Armed(b)'
  <2>1. At(b, "injected", p) /\ Return(b)
    BY <1>4 DEF plan_executed
  <2>2. stack[b] # <<>> /\ stack[b][1].op = "injected"
    BY <2>1, Top
  <2>3. \A i \in 2 .. Len(stack[b]) : stack[b][i].op # "injected"
    BY <2>2, NoneBelow, ZenonT(30)
  <2> QED BY <2>1, <2>2, <2>3, NoneAfter
<1>5. ASSUME NEW t \in Texts, NEW op \in {"lookup", "standard", "planned", "insert", "call", "run"},
             At(b, op, t),
             \/ Return(b)
             \/ \E f \in Frames : f.op # "injected" /\ Continue(b, <<f>>)
             \/ \E f, g \in Frames : f.op # "injected" /\ g.op # "injected" /\ Continue(b, <<f, g>>)
      PROVE  Armed(b)'
  <2>1. stack[b] # <<>> /\ stack[b][1].op = op
    BY <1>5, Top
  <2>2. \A i \in 2 .. Len(stack[b]) : stack[b][i].op # "injected"
    BY <2>1, NoneBelow, ZenonT(30)
  <2> QED BY <1>5, <2>1, <2>2, NoneAfter, ZenonT(30)
<1>6. ASSUME NEW t \in Texts, injection_planner(b, t)
      PROVE  Armed(b)'
  <2>1. At(b, "planner", t) /\ Return(b) /\ plan'[b] = myPlan[b]
    BY <1>6 DEF injection_planner, Plans, TypeOK
  <2>2. stack[b] # <<>> /\ stack[b][1].op = "planner"
    BY <2>1, Top
  <2>3. Len(stack'[b]) = Len(stack[b]) - 1
    BY <2>1, <2>2, Returned, SMTT(30), ZenonT(30)
  <2> SUFFICES ASSUME NEW i \in 1 .. Len(stack'[b]), stack'[b][i].op = "injected"
               PROVE  i = 1 /\ plan'[b] = Own(stack'[b][1].arg)
    BY DEF Armed
  <2>6. stack'[b][i] = stack[b][i + 1]
    BY <2>1, <2>2, Returned, ZenonT(30)
  <2>7. i + 1 \in 2 .. Len(stack[b])
    BY <1>0, <2>3
  <2>4. stack[b][i + 1].op = "injected"
    BY <2>6
  <2>5. i + 1 = 2 /\ myPlan[b] = Own(stack[b][2].arg)
    BY <1>0, <2>4, <2>7 DEF Armed
  <2> QED BY <2>1, <2>6, <2>5
<1>7. ASSUME NEW t \in Texts, PlanDirectly(b, t) \/ cache_planner(b, t)
      PROVE  Armed(b)'
  <2>1. At(b, "planner", t) /\ hook[b] # "inject"
    BY <1>7 DEF PlanDirectly, cache_planner
  <2>2. stack[b] # <<>>
    BY <2>1, Top
  <2>5. \A i \in 2 .. Len(stack[b]) : stack[b][i].op # "injected"
    BY <2>1, <2>2, NoneBelow
  <2>3. \A op \in {"standard", "lookup"} :
           Frame(op, t) \in Frames /\ Frame(op, t).op # "injected"
    BY FrameTypes, ZenonT(30) DEF Frame
  <2>4. Return(b) \/ \E f \in Frames : f.op # "injected" /\ Continue(b, <<f>>)
    BY <1>7, <2>3, SMTT(30), ZenonT(30) DEF PlanDirectly, cache_planner
  <2> QED BY <2>2, <2>4, <2>5, NoneAfter, ZenonT(30)
<1>8. ASSUME NEW t \in Texts, pg_plan_execute(b, t)
      PROVE  Armed(b)'
  <2> DEFINE f == Frame("planner", Select1)
             g == Frame("injected", Calls[t].arg)
  <2>1. At(b, "call", t) /\ Continue(b, <<f, g>>)
    BY <1>8 DEF pg_plan_execute
  <2>2. f \in Frames /\ g \in Frames /\ f.op = "planner" /\ g.arg = Calls[t].arg
    BY <1>8, FrameTypes, ZenonT(30) DEF pg_plan_execute, Frame
  <2>3. hook'[b] = "inject" /\ myPlan'[b] = Own(Calls[t].arg)
    BY <1>8 DEF pg_plan_execute, Hook, TypeOK
  <2>4. stack[b] # <<>> /\ stack[b][1].op = "call"
    BY <2>1, Top, SMTT(30), ZenonT(30)
  <2>5. \A i \in 2 .. Len(stack[b]) : stack[b][i].op # "injected"
    BY <2>4, NoneBelow, ZenonT(30)
  <2> HIDE DEF f, g
  <2>6. /\ Len(stack'[b]) = Len(stack[b]) + 1
        /\ stack'[b][1] = f
        /\ stack'[b][2] = g
        /\ \A i \in 3 .. Len(stack'[b]) : stack'[b][i] = stack[b][i - 1]
    BY <2>1, <2>2, <2>4, Pushed, SMTT(30), ZenonT(30)
  <2> SUFFICES ASSUME NEW i \in 1 .. Len(stack'[b]), stack'[b][i].op = "injected"
               PROVE  i = 2
    BY <2>2, <2>3, <2>6 DEF Armed
  <2>7. ASSUME i > 2
        PROVE  FALSE
    <3>1. stack'[b][i] = stack[b][i - 1] /\ i - 1 \in 2 .. Len(stack[b])
      BY <1>0, <2>6, <2>7
    <3> QED BY <2>5, <3>1, SMTT(30), ZenonT(30)
  <2> QED BY <1>0, <2>2, <2>6, <2>7
<1>9. ASSUME NEW t \in Texts, Run(b, t)
      PROVE  Armed(b)'
  <2>1. /\ Frame("commit", t) \in Frames /\ Frame("commit", t).op = "commit"
        /\ Frame("call", plan[b].of) \in Frames /\ Frame("call", plan[b].of).op = "call"
    BY PlanTypes, FrameTypes, ZenonT(30) DEF Frame, TypeOK
  <2>2. \/ Continue(b, <<Frame("commit", t)>>)
        \/ Continue(b, <<Frame("call", plan[b].of), Frame("commit", t)>>)
    BY <1>9 DEF Run
  <2>3. At(b, "run", t)
    BY <1>9 DEF Run
  <2> QED BY <1>5, <2>1, <2>2, <2>3, ZenonT(30)
<1>10. ASSUME NEW t \in Texts,
              LookupMiss(b, t) \/ LookupHit(b, t) \/ Standard(b, t) \/ Planned(b, t) \/ Insert(b, t)
       PROVE  Armed(b)'
  <2>1. \A op \in {"standard", "insert", "call", "planned"} :
           Frame(op, t) \in Frames /\ Frame(op, t).op # "injected"
    BY FrameTypes, ZenonT(40) DEF Frame
  <2>2. \E op \in {"lookup", "standard", "planned", "insert"} : At(b, op, t)
    BY <1>10 DEF LookupMiss, LookupHit, Standard, Planned, Insert
  <2>3. \/ Return(b)
        \/ \E f \in Frames : f.op # "injected" /\ Continue(b, <<f>>)
        \/ \E f, g \in Frames : f.op # "injected" /\ g.op # "injected" /\ Continue(b, <<f, g>>)
    BY <1>10, <2>1, ZenonT(30) DEF LookupMiss, LookupHit, Standard, Planned, Insert
  <2> QED BY <1>5, <2>2, <2>3, ZenonT(30)
<1>11. ASSUME NEW t \in Texts, string_to_const(b, t) \/ pg_plan_serialize(b, t)
       PROVE  Armed(b)'
  <2>1. At(b, "call", t)
    BY <1>11 DEF string_to_const, pg_plan_serialize
  <2>2. Return(b) \/ \E f \in Frames : f.op # "injected" /\ Continue(b, <<f>>)
    BY <1>11, FrameTypes, ZenonT(40) DEF string_to_const, pg_plan_serialize, Frame
  <2> QED BY <1>5, <2>1, <2>2
<1>12. CASE \/ ExecutionFails(b) \/ Cancel(b)
            \/ \E t \in Texts : \/ call_fails(b, t) \/ Commit(b, t)
                                \/ InsertFails(b, t) \/ Deadlock(b, t)
  <2>1. stack'[b] = <<>>
    BY <1>12, SMTT(30) DEF ExecutionFails, Cancel, call_fails, Commit, InsertFails, Deadlock, Error, End, TypeOK
  <2> QED BY <1>1, <2>1
<1> QED BY <1>2, <1>3, <1>4, <1>6, <1>7, <1>8, <1>9, <1>10, <1>11, <1>12 DEF Local, Step

(* Steps of one backend preserve what holds of each backend by itself.     *)
LEMMA ArmedStep == TypeOK /\ TypeOK' /\ InjectionArmed /\ [Next]_vars => InjectionArmed'
<1> SUFFICES ASSUME TypeOK, TypeOK', InjectionArmed, [Next]_vars, NEW d \in Backends
             PROVE  Armed(d)'
  BY DEF InjectionArmed
<1>1. Armed(d)
  BY SMTT(30), ZenonT(30) DEF InjectionArmed
<1>2. CASE UNCHANGED vars \/ Finished
  BY <1>1, <1>2, ZenonT(30) DEF Armed, Finished, vars
<1>3. CASE \E t \in Forced, p \in Given : StorePlan(t, p)
  BY <1>1, <1>3 DEF Armed, StorePlan
<1>4. ASSUME NEW b \in Backends, Local(b)
      PROVE  Armed(d)'
  <2>1. CASE d = b
    BY <1>1, <1>4, <2>1, ArmedLocal
  <2>2. CASE d # b
    <3>1. Mine(b)
      BY <1>4, LocalIsMine
    <3>2. /\ stack'[d] = stack[d] /\ plan'[d] = plan[d]
          /\ hook'[d] = hook[d] /\ myPlan'[d] = myPlan[d]
      BY <2>2, <3>1 DEF Mine
    <3> QED BY <1>1, <3>2 DEF Armed
  <2> QED BY <2>1, <2>2
<1> QED BY <1>2, <1>3, <1>4, ZenonT(30) DEF Next, Local

(* Whatever sessions did before, with the cache or without it, cancelled   *)
(* or not, plan_execute executes the plan it was handed.                   *)
THEOREM InjectionsAreExact == Spec => []InjectionIsExact
<1>1. Init => InjectionArmed
  BY DEF Init, InjectionArmed, Armed
<1>2. TypeOK /\ InjectionArmed => InjectionIsExact
  <2> SUFFICES ASSUME TypeOK, InjectionArmed, NEW b \in Backends, NEW p \in Given,
                      At(b, "injected", p)
               PROVE  plan[b] = Own(p)
    BY DEF InjectionIsExact
  <2>1. Len(stack[b]) \in Nat /\ Len(stack[b]) >= 1
        /\ stack[b][1].op = "injected" /\ stack[b][1].arg = p
    BY Top
  <2> QED BY <2>1 DEF InjectionArmed, Armed
<1> QED BY <1>1, <1>2, CuckooTypes, ArmedStep, PTL DEF Spec
-----------------------------------------------------------------------------
(* Frames that wait for the planner's result.                              *)

LEMMA AwaitsReturn ==
  ASSUME TypeOK, TypeOK', NEW b \in Backends, NEW op, NEW above, NEW spent,
         Awaits(b, op, above, spent),
         stack[b] # <<>>, Return(b),
         Len(stack[b]) > 1 /\ stack[b][2].op = op =>
            plan'[b] = Std(stack[b][2].arg) \/ (spent /\ hook'[b] = "none")
  PROVE  Awaits(b, op, above, spent)'
<1>0. Len(stack[b]) \in Nat /\ Len(stack'[b]) \in Nat
  BY DEF TypeOK
<1>1. Len(stack'[b]) = Len(stack[b]) - 1
  BY Returned
<1>2. \A i \in 1 .. Len(stack'[b]) : stack'[b][i] = stack[b][i + 1]
  BY Returned
<1> SUFFICES ASSUME NEW i \in 1 .. Len(stack'[b]), stack'[b][i].op = op
             PROVE  \/ /\ i = 1
                       /\ plan'[b] = Std(stack'[b][1].arg) \/ (spent /\ hook'[b] = "none")
                    \/ i > 1 /\ stack'[b][i - 1].op \in above
                             /\ stack'[b][i - 1].arg = stack'[b][i].arg
  BY DEF Awaits
<1>3. CASE i = 1
  BY <1>0, <1>1, <1>2, <1>3
<1>4. CASE i > 1
  <2>1. i - 1 \in 1 .. Len(stack'[b]) /\ i + 1 \in 1 .. Len(stack[b]) /\ (i - 1) + 1 = i
        /\ (i + 1) - 1 = i
    BY <1>0, <1>1, <1>4
  <2>2. stack'[b][i] = stack[b][i + 1] /\ stack'[b][i - 1] = stack[b][i]
    BY <1>2, <2>1
  <2>3. stack[b][(i + 1) - 1].op \in above /\ stack[b][(i + 1) - 1].arg = stack[b][i + 1].arg
    BY <1>4, <2>1, <2>2 DEF Awaits
  <2> QED BY <1>4, <2>1, <2>2, <2>3
<1> QED BY <1>3, <1>4

LEMMA AwaitsReplace ==
  ASSUME TypeOK, TypeOK', NEW b \in Backends, NEW op, NEW above, NEW spent,
         Awaits(b, op, above, spent),
         stack[b] # <<>>, NEW f \in Frames, Continue(b, <<f>>),
         f.op # op,
         Len(stack[b]) > 1 /\ stack[b][2].op = op => f.op \in above /\ f.arg = stack[b][2].arg
  PROVE  Awaits(b, op, above, spent)'
<1>0. Len(stack[b]) \in Nat /\ Len(stack'[b]) \in Nat
  BY DEF TypeOK
<1>1. Len(stack'[b]) = Len(stack[b]) /\ stack'[b][1] = f
  BY Replaced
<1>2. \A i \in 2 .. Len(stack'[b]) : stack'[b][i] = stack[b][i]
  BY Replaced
<1> SUFFICES ASSUME NEW i \in 1 .. Len(stack'[b]), stack'[b][i].op = op
             PROVE  i > 1 /\ stack'[b][i - 1].op \in above
                          /\ stack'[b][i - 1].arg = stack'[b][i].arg
  BY DEF Awaits
<1>3. i # 1
  BY <1>1
<1>4. CASE i = 2
  BY <1>0, <1>1, <1>2, <1>4
<1>5. CASE i > 2
  <2>1. i \in 2 .. Len(stack'[b]) /\ i - 1 \in 2 .. Len(stack'[b]) /\ i \in 1 .. Len(stack[b])
    BY <1>0, <1>1, <1>5
  <2>2. stack'[b][i] = stack[b][i] /\ stack'[b][i - 1] = stack[b][i - 1]
    BY <1>2, <2>1
  <2> QED BY <1>5, <2>1, <2>2 DEF Awaits
<1> QED BY <1>0, <1>3, <1>4, <1>5

LEMMA AwaitsPush ==
  ASSUME TypeOK, TypeOK', NEW b \in Backends, NEW op, NEW above, NEW spent,
         Awaits(b, op, above, spent),
         stack[b] # <<>>, NEW f \in Frames, NEW g \in Frames, Continue(b, <<f, g>>),
         f.op # op,
         g.op = op => f.op \in above /\ f.arg = g.arg,
         Len(stack[b]) > 1 /\ stack[b][2].op = op => g.op \in above /\ g.arg = stack[b][2].arg
  PROVE  Awaits(b, op, above, spent)'
<1>0. Len(stack[b]) \in Nat /\ Len(stack'[b]) \in Nat
  BY DEF TypeOK
<1>1. Len(stack'[b]) = Len(stack[b]) + 1 /\ stack'[b][1] = f /\ stack'[b][2] = g
  BY Pushed
<1>2. \A i \in 3 .. Len(stack'[b]) : stack'[b][i] = stack[b][i - 1]
  BY Pushed
<1> SUFFICES ASSUME NEW i \in 1 .. Len(stack'[b]), stack'[b][i].op = op
             PROVE  i > 1 /\ stack'[b][i - 1].op \in above
                          /\ stack'[b][i - 1].arg = stack'[b][i].arg
  BY DEF Awaits
<1>3. i # 1
  BY <1>1
<1>4. CASE i = 2
  BY <1>1, <1>4
<1>5. CASE i = 3
  BY <1>0, <1>1, <1>2, <1>5
<1>6. CASE i > 3
  <2>1. /\ i \in 3 .. Len(stack'[b]) /\ i - 1 \in 3 .. Len(stack'[b])
        /\ i - 1 \in 1 .. Len(stack[b])
    BY <1>0, <1>1, <1>6
  <2>2. stack'[b][i] = stack[b][i - 1] /\ stack'[b][i - 1] = stack[b][(i - 1) - 1]
    BY <1>2, <2>1
  <2>3. i - 1 # 1 /\ stack[b][i - 1].op = op
    BY <1>6, <2>2
  <2>4. /\ stack[b][(i - 1) - 1].op \in above
        /\ stack[b][(i - 1) - 1].arg = stack[b][i - 1].arg
    BY <2>1, <2>3 DEF Awaits
  <2> QED BY <1>6, <2>2, <2>4
<1> QED BY <1>0, <1>3, <1>4, <1>5, <1>6

(* A frame that waits right under the top gets the result of the top.      *)
LEMMA AwaitsSecond ==
  ASSUME NEW b, NEW op, NEW above, NEW spent, Awaits(b, op, above, spent), Len(stack[b]) \in Nat,
         Len(stack[b]) > 1, stack[b][2].op = op
  PROVE  stack[b][1].op \in above /\ stack[b][1].arg = stack[b][2].arg
<1>1. 2 \in 1 .. Len(stack[b])
  OBVIOUS
<1>2. /\ 2 > 1
      /\ stack[b][2 - 1].op \in above
      /\ stack[b][2 - 1].arg = stack[b][2].arg
  BY <1>1 DEF Awaits
<1>3. 2 - 1 = 1
  BY SMTT(30)
<1> QED BY <1>2, <1>3

(* One lemma for both kinds of frames: an insert of cache_planner, and the *)
(* execution of a statement in a session without the cache, whose plan an  *)
(* armed hook may have replaced.                                           *)
LEMMA AwaitsLocal ==
  ASSUME TypeOK, TypeOK', NEW b \in Backends, Local(b),
         NEW op \in {"insert", "run"}, NEW above, NEW spent,
         {"standard", "planned"} \subseteq above,
         above \subseteq {"planner", "standard", "planned"},
         op = "run" => "planner" \in above,
         "planner" \in above => Uncached(b) /\ spent,
         Awaits(b, op, above, spent)
  PROVE  Awaits(b, op, above, spent)'
<1>0. Len(stack[b]) \in Nat /\ Len(stack'[b]) \in Nat
  BY DEF TypeOK
<1>1. ASSUME stack[b] # <<>>, Len(stack[b]) > 1, stack[b][2].op = op
      PROVE  stack[b][1].op \in above /\ stack[b][1].arg = stack[b][2].arg
  BY <1>0, <1>1, AwaitsSecond, ZenonT(30)
<1>2. ASSUME NEW t \in Sent, Begin(b, t)
      PROVE  Awaits(b, op, above, spent)'
  <2>1. stack'[b] = <<Frame("planner", t), Frame("run", t)>>
    BY <1>2 DEF Begin, TypeOK
  <2>2. /\ Len(stack'[b]) = 2
        /\ stack'[b][1] = Frame("planner", t) /\ stack'[b][2] = Frame("run", t)
    BY <2>1
  <2>3. /\ stack'[b][1].op = "planner" /\ stack'[b][1].arg = t
        /\ stack'[b][2].op = "run" /\ stack'[b][2].arg = t
    BY <2>2 DEF Frame
  <2> SUFFICES ASSUME NEW i \in 1 .. 2, stack'[b][i].op = op
               PROVE  i > 1 /\ stack'[b][i - 1].op \in above
                            /\ stack'[b][i - 1].arg = stack'[b][i].arg
    BY <2>2 DEF Awaits
  <2>4. i = 2 /\ i - 1 = 1 /\ op = "run"
    BY <2>3
  <2> QED BY <2>3, <2>4
<1>3. ASSUME NEW v \in CacheUse[b], SetCache(b, v)
      PROVE  Awaits(b, op, above, spent)'
  BY <1>3, SMTT(30), ZenonT(30) DEF SetCache, Awaits
<1>4. CASE \/ ExecutionFails(b) \/ Cancel(b)
           \/ \E t \in Texts : \/ call_fails(b, t) \/ Commit(b, t)
                               \/ InsertFails(b, t) \/ Deadlock(b, t)
  <2>1. stack'[b] = <<>>
    BY <1>4 DEF ExecutionFails, Cancel, call_fails, Commit, InsertFails, Deadlock, Error, End, TypeOK
  <2>2. 1 .. Len(stack'[b]) = {}
    BY <2>1
  <2> QED BY <2>2 DEF Awaits
(* The top frame is none a waiting frame can be under.                     *)
<1>5. ASSUME NEW a, NEW o \in {"lookup", "insert", "call", "injected", "run"}, At(b, o, a),
             \/ Return(b)
             \/ \E f \in Frames : f.op # op /\ Continue(b, <<f>>)
             \/ \E f, g \in Frames : /\ f.op # op /\ Continue(b, <<f, g>>)
                                     /\ g.op = op => f.op \in above /\ f.arg = g.arg
      PROVE  Awaits(b, op, above, spent)'
  <2>1. stack[b] # <<>> /\ stack[b][1].op = o
    BY <1>5, Top
  <2>2. ~(Len(stack[b]) > 1 /\ stack[b][2].op = op)
    BY <1>1, <2>1
  <2>3. CASE Return(b)
    BY <2>1, <2>2, <2>3, AwaitsReturn
  <2>4. ASSUME NEW f \in Frames, f.op # op, Continue(b, <<f>>)
        PROVE  Awaits(b, op, above, spent)'
    BY <2>1, <2>2, <2>4, AwaitsReplace
  <2>5. ASSUME NEW f \in Frames, NEW g \in Frames, f.op # op, Continue(b, <<f, g>>),
               g.op = op => f.op \in above /\ f.arg = g.arg
        PROVE  Awaits(b, op, above, spent)'
    BY <2>1, <2>2, <2>5, AwaitsPush
  <2> QED BY <1>5, <2>3, <2>4, <2>5, ZenonT(30)
<1>6. ASSUME NEW p \in Given, plan_executed(b, p)
      PROVE  Awaits(b, op, above, spent)'
  BY <1>5, <1>6 DEF plan_executed
<1>7. ASSUME NEW t \in Texts, Run(b, t)
      PROVE  Awaits(b, op, above, spent)'
  <2>1. /\ Frame("commit", t) \in Frames /\ Frame("commit", t).op = "commit"
        /\ Frame("call", plan[b].of) \in Frames /\ Frame("call", plan[b].of).op = "call"
    BY PlanTypes, FrameTypes, ZenonT(30) DEF Frame, TypeOK
  <2>2. \/ Continue(b, <<Frame("commit", t)>>)
        \/ Continue(b, <<Frame("call", plan[b].of), Frame("commit", t)>>)
    BY <1>7 DEF Run
  <2>3. At(b, "run", t)
    BY <1>7 DEF Run
  <2> QED BY <1>5, <2>1, <2>2, <2>3, ZenonT(30)
<1>8. ASSUME NEW t \in Texts, LookupMiss(b, t) \/ LookupHit(b, t) \/ Insert(b, t)
      PROVE  Awaits(b, op, above, spent)'
  <2>1. \A o \in {"standard", "insert"} :
           Frame(o, t) \in Frames /\ Frame(o, t).op = o /\ Frame(o, t).arg = t
    BY FrameTypes, ZenonT(40) DEF Frame
  <2>2. \E o \in {"lookup", "insert"} : At(b, o, t)
    BY <1>8 DEF LookupMiss, LookupHit, Insert
  <2>3. \/ Return(b)
        \/ Continue(b, <<Frame("standard", t)>>)
        \/ Continue(b, <<Frame("standard", t), Frame("insert", t)>>)
    BY <1>8 DEF LookupMiss, LookupHit, Insert
  <2>4. "standard" \in above
    OBVIOUS
  <2> QED BY <1>5, <2>1, <2>2, <2>3, <2>4, ZenonT(30)
<1>9. ASSUME NEW t \in Texts,
             string_to_const(b, t) \/ pg_plan_serialize(b, t) \/ pg_plan_execute(b, t)
      PROVE  Awaits(b, op, above, spent)'
  <2>1. At(b, "call", t)
    BY <1>9, ZenonT(30) DEF string_to_const, pg_plan_serialize, pg_plan_execute
  <2>2. /\ \A a \in Texts : Frame("planner", a) \in Frames /\ Frame("planner", a).op = "planner"
        /\ \A a \in Given : Frame("injected", a) \in Frames /\ Frame("injected", a).op = "injected"
    BY FrameTypes, ZenonT(30) DEF Frame
  <2>3. \/ Return(b)
        \/ \E f \in Frames : f.op # op /\ Continue(b, <<f>>)
        \/ \E f, g \in Frames : f.op # op /\ g.op # op /\ Continue(b, <<f, g>>)
    <3>1. CASE string_to_const(b, t)
      BY <3>1, ZenonT(30) DEF string_to_const
    <3>2. CASE pg_plan_serialize(b, t)
      <4>1. Calls[t].arg \in Texts /\ Continue(b, <<Frame("planner", Calls[t].arg)>>)
        BY <3>2, CallArgs, ZenonT(30) DEF pg_plan_serialize
      <4> QED BY <2>2, <4>1, ZenonT(30)
    <3>3. CASE pg_plan_execute(b, t)
      <4>1. Select1 \in Texts
        BY CuckooAssumption, SMTT(30), ZenonT(30)
      <4>2. /\ Calls[t].arg \in Given
            /\ Continue(b, <<Frame("planner", Select1), Frame("injected", Calls[t].arg)>>)
        BY <3>3, CallArgs, ZenonT(30) DEF pg_plan_execute
      <4> QED BY <2>2, <4>1, <4>2, ZenonT(30)
    <3> QED BY <1>9, <3>1, <3>2, <3>3, ZenonT(40)
  <2> QED BY <1>5, <2>1, <2>3, ZenonT(30)
(* The top frame is at work on the text of the frame that waits.           *)
<1>10. ASSUME NEW t \in Texts, Standard(b, t) \/ Planned(b, t)
       PROVE  Awaits(b, op, above, spent)'
  <2>1. stack[b] # <<>> /\ stack[b][1].arg = t
    BY <1>10, Top, ZenonT(30) DEF Standard, Planned
  <2>2. Len(stack[b]) > 1 /\ stack[b][2].op = op => stack[b][2].arg = t
    BY <1>1, <2>1, SMTT(30), ZenonT(30)
  <2>3. CASE Return(b) /\ Plans(b, Std(t))
    <3>1. plan'[b] = Std(t)
      BY <2>3, SMTT(30), ZenonT(30) DEF Plans, TypeOK
    <3> QED BY <2>1, <2>2, <2>3, <3>1, AwaitsReturn
  <2>4. CASE Continue(b, <<Frame("call", t), Frame("planned", t)>>)
    <3> DEFINE f == Frame("call", t)
               g == Frame("planned", t)
    <3>1. f \in Frames /\ g \in Frames /\ f.op = "call" /\ g.op = "planned" /\ g.arg = t
      BY FrameTypes, ZenonT(30) DEF Frame
    <3>2. Continue(b, <<f, g>>)
      BY <2>4
    <3>3. "planned" \in above
      OBVIOUS
    <3> HIDE DEF f, g
    <3> QED BY <2>1, <2>2, <3>1, <3>2, <3>3, AwaitsPush
  <2> QED BY <1>10, <2>3, <2>4, ZenonT(30) DEF Standard, Planned
<1>11. ASSUME NEW t \in Texts,
              PlanDirectly(b, t) \/ injection_planner(b, t) \/ cache_planner(b, t)
       PROVE  Awaits(b, op, above, spent)'
  <2>1. At(b, "planner", t)
    BY <1>11, ZenonT(30) DEF PlanDirectly, injection_planner, cache_planner
  <2>2. stack[b] # <<>> /\ stack[b][1].op = "planner" /\ stack[b][1].arg = t
    BY <2>1, Top
  <2>3. Len(stack[b]) > 1 /\ stack[b][2].op = op =>
          Uncached(b) /\ spent /\ stack[b][2].arg = t
    BY <1>1, <2>2, SMTT(30), ZenonT(30)
  <2>4. ASSUME NEW o \in {"standard", "lookup"}, Continue(b, <<Frame(o, t)>>),
               Len(stack[b]) > 1 /\ stack[b][2].op = op => o = "standard"
        PROVE  Awaits(b, op, above, spent)'
    <3>1. Frame(o, t) \in Frames /\ Frame(o, t).op = o /\ Frame(o, t).arg = t
      BY FrameTypes, ZenonT(30) DEF Frame
    <3>2. "standard" \in above
      BY SMTT(30), ZenonT(30)
    <3> QED BY <2>2, <2>3, <2>4, <3>1, <3>2, AwaitsReplace
  <2>5. CASE PlanDirectly(b, t)
    <3>1. Continue(b, <<Frame("standard", t)>>)
      BY <2>5, ZenonT(30) DEF PlanDirectly
    <3> QED BY <2>4, <3>1, ZenonT(30)
  <2>6. CASE injection_planner(b, t)
    <3>1. Return(b) /\ hook'[b] = "none"
      BY <2>6 DEF injection_planner, Hook, TypeOK
    <3> QED BY <2>2, <2>3, <3>1, AwaitsReturn
  <2>7. CASE cache_planner(b, t)
    <3>1. Uncached(b) => Continue(b, <<Frame("standard", t)>>)
      BY <2>7, ZenonT(30) DEF Uncached, cache_planner
    <3>2. CASE Uncached(b)
      BY <2>4, <3>1, <3>2, SMTT(30), ZenonT(30)
    <3>3. CASE ~Uncached(b)
      <4>1. ~(Len(stack[b]) > 1 /\ stack[b][2].op = op)
        BY <2>3, <3>3, SMTT(30), ZenonT(30)
      <4>2. Return(b) \/ Continue(b, <<Frame("standard", t)>>) \/ Continue(b, <<Frame("lookup", t)>>)
        BY <2>7, ZenonT(30) DEF cache_planner
      <4> QED BY <2>2, <2>4, <4>1, <4>2, AwaitsReturn, ZenonT(30)
    <3> QED BY <3>2, <3>3, SMTT(30), ZenonT(30)
  <2> QED BY <1>11, <2>5, <2>6, <2>7, SMTT(30), ZenonT(30)
<1> QED BY <1>2, <1>3, <1>4, <1>6, <1>7, <1>8, <1>9, <1>10, <1>11, ZenonT(30) DEF Local, Step
-----------------------------------------------------------------------------
(* What the cache holds.                                                   *)

LEMMA InsertReadyStep == TypeOK /\ TypeOK' /\ InsertReady /\ [Next]_vars => InsertReady'
<1> DEFINE above == {"standard", "planned"}
<1> SUFFICES ASSUME TypeOK, TypeOK', InsertReady, [Next]_vars, NEW d \in Backends
             PROVE  Awaits(d, "insert", above, FALSE)'
  BY ZenonT(30) DEF InsertReady
<1>1. Awaits(d, "insert", above, FALSE)
  BY ZenonT(30) DEF InsertReady
<1>2. CASE UNCHANGED vars \/ Finished
  BY <1>1, <1>2, ZenonT(30) DEF Awaits, Finished, vars
<1>3. CASE \E t \in Forced, p \in Given : StorePlan(t, p)
  BY <1>1, <1>3 DEF Awaits, StorePlan
<1>4. ASSUME NEW b \in Backends, Local(b)
      PROVE  Awaits(d, "insert", above, FALSE)'
  <2>1. CASE d = b
    <3>1. "planner" \notin above /\ above \subseteq {"planner", "standard", "planned"}
      OBVIOUS
    <3>2. {"standard", "planned"} \subseteq above
      OBVIOUS
    <3> HIDE DEF above
    <3>3. /\ "insert" \in {"insert", "run"}
          /\ "insert" = "run" => "planner" \in above
          /\ "planner" \in above => Uncached(b) /\ FALSE
          /\ Awaits(b, "insert", above, FALSE)
      BY <1>1, <2>1, <3>1, ZenonT(30)
    <3>4. Awaits(b, "insert", above, FALSE)'
      BY <1>4, <3>1, <3>2, <3>3, AwaitsLocal, ZenonT(40)
    <3> QED BY <2>1, <3>4, Zenon
  <2>2. CASE d # b
    <3>1. Mine(b)
      BY <1>4, LocalIsMine, SMTT(30), ZenonT(30)
    <3>2. stack'[d] = stack[d] /\ plan'[d] = plan[d] /\ hook'[d] = hook[d]
      BY <2>2, <3>1, ZenonT(30) DEF Mine
    <3> HIDE DEF above
    <3> QED BY <1>1, <3>2, ZenonT(30) DEF Awaits
  <2> QED BY <2>1, <2>2, ZenonT(30)
<1> QED BY <1>2, <1>3, <1>4, ZenonT(30) DEF Next, Local

(* A row of cache_planner's holds the standard plan of a text with its id. *)
Made(r) == r.force = "no" => \E t \in Texts : QueryId[t] = r.id /\ r.plan = Std(t)

AllMade ==
  /\ \A r \in rows : Made(r)
  /\ \A b \in Backends : \A r \in pending[b] : Made(r)

LEMMA AllMadeStep == TypeOK /\ InsertReady /\ AllMade /\ [Next]_vars => AllMade'
<1> SUFFICES ASSUME TypeOK, InsertReady, AllMade, [Next]_vars
             PROVE  AllMade'
  OBVIOUS
<1>1. ASSUME UNCHANGED <<rows, pending>>
      PROVE  AllMade'
  BY <1>1, SMTT(30), ZenonT(30) DEF AllMade, Made
<1>2. ASSUME NEW b \in Backends, End(b), UNCHANGED rows
      PROVE  AllMade'
  BY <1>2, SMTT(30), ZenonT(30) DEF End, AllMade, Made, TypeOK
<1>3. ASSUME NEW b \in Backends, NEW t \in Texts, Commit(b, t)
      PROVE  AllMade'
  BY <1>3, SMTT(30), ZenonT(30) DEF Commit, End, AllMade, Made, TypeOK
<1>4. ASSUME NEW b \in Backends, NEW t \in Texts, Insert(b, t)
      PROVE  AllMade'
  <2>1. At(b, "insert", t) /\ UNCHANGED rows
    BY <1>4 DEF Insert
  <2>2. Len(stack[b]) \in Nat /\ Len(stack[b]) >= 1
        /\ stack[b][1].op = "insert" /\ stack[b][1].arg = t
    BY <2>1, Top
  <2>3. plan[b] = Std(t)
    BY <2>2 DEF InsertReady, Awaits
  <2>4. Made(NewRow(b, t))
    BY <2>3 DEF Made, NewRow
  <2>5. pending' = [pending EXCEPT ![b] = @ \union {NewRow(b, t)}]
    BY <1>4 DEF Insert
  <2>6. \A d \in Backends : \A r \in pending'[d] : r \in pending[d] \/ r = NewRow(b, t)
    BY <2>5 DEF TypeOK
  <2>7. \A d \in Backends : \A r \in pending'[d] : Made(r)
    BY <2>4, <2>6 DEF AllMade
  <2> QED BY <2>1, <2>7 DEF AllMade, Made
<1>5. ASSUME NEW t \in Forced, NEW p \in Given, StorePlan(t, p)
      PROVE  AllMade'
  BY <1>5 DEF StorePlan, AllMade, Made
<1>6. CASE Finished \/ UNCHANGED vars
  BY <1>1, <1>6 DEF Finished, vars
<1>7. ASSUME NEW b \in Backends, Local(b)
      PROVE  AllMade'
  <2>1. \/ UNCHANGED <<rows, pending>>
        \/ End(b) /\ UNCHANGED rows
        \/ \E t \in Texts : Commit(b, t) \/ Insert(b, t)
    <3>1. CASE \E t \in Sent : Begin(b, t)
      BY <3>1 DEF Begin
    <3>2. CASE \E v \in CacheUse[b] : SetCache(b, v)
      BY <3>2 DEF SetCache
    <3>3. CASE ExecutionFails(b) \/ Cancel(b) \/ \E t \in Texts : call_fails(b, t)
      BY <3>3 DEF ExecutionFails, Cancel, call_fails, Error
    <3>4. CASE Step(b)
      BY <3>4, Zenon DEF Step, Run, PlanDirectly, injection_planner, cache_planner, LookupMiss,
                  LookupHit, Standard, Planned, InsertFails, Deadlock, Error, string_to_const,
                  pg_plan_serialize, pg_plan_execute, plan_executed
    <3> QED BY <1>7, <3>1, <3>2, <3>3, <3>4, ZenonT(30) DEF Local
  <2> QED BY <1>1, <1>2, <1>3, <1>4, <2>1, SMTT(30)
<1> QED BY <1>5, <1>6, <1>7 DEF Next, Local

(* No plan handed to plan_execute, and no plan of a text with another      *)
(* query id, gets into plan_cache through cache_planner.                   *)
THEOREM CacheIsHonest == Spec => []CacheHoldsOwnPlans
<1>1. Init => InsertReady /\ AllMade
  BY DEF Init, InsertReady, Awaits, AllMade
<1>2. AllMade => CacheHoldsOwnPlans
  BY DEF AllMade, Made, CacheHoldsOwnPlans
<1> QED BY <1>1, <1>2, CuckooTypes, InsertReadyStep, AllMadeStep, PTL DEF Spec
=============================================================================
