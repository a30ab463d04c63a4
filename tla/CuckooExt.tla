----------------------------- MODULE CuckooExt -----------------------------
(***************************************************************************)
(* The server extension pg_cuckoo/PgExtension/src/cuckoo.c, which the      *)
(* driver installs: execution of a plan handed over as text, by way of     *)
(* planner_hook, and the plan cache, the hook that is set when the library *)
(* is loaded.  src/dbextension/planfuzzer.c is a smaller version of it     *)
(* that has plan_execute only and sets no hook (constant InitHook).        *)
(*                                                                         *)
(* planner_hook, myPlan and the setting pg_cuckoo.cache are globals of the *)
(* backend that serves a session; the table plan_cache is shared.          *)
(*                                                                         *)
(* A backend is sequential but its calls nest: the functions are declared  *)
(* IMMUTABLE, so a call with constant arguments is evaluated by the        *)
(* planner, inside cache_planner when that is the hook.  The calls in      *)
(* progress are therefore kept as a stack of frames, innermost first.      *)
(***************************************************************************)
EXTENDS Naturals, Sequences

CONSTANTS Backends,    \* one per session
          Texts,       \* statement texts
          Sent,        \* the ones sessions send
          InitHook,    \* the hook set when the library is loaded
          Preloaded,   \* whether the library is among the preloaded ones
          Select1,     \* the statement "select 1" that plan_execute prepares
          Given,       \* plans handed over as text
          Calls,       \* the call each text makes, if any
          QueryId,     \* hash_any of the text
          PlanId,      \* hash_any of 64 bytes of the standard plan's text
          Forced,      \* the texts a user stores a plan for
          GivenId,     \* the plan_id it is stored under
          CacheUse,    \* the values each session sets pg_cuckoo.cache to
          MayCancel,   \* the user may cancel a statement at any point
          MaxStmts     \* bound on the statements of a session

VARIABLES hook,     \* planner_hook
          myPlan,   \* myPlan
          cache,    \* pg_cuckoo_cache_enabled
          loaded,   \* whether the library was loaded into the backend
          stack,    \* the calls in progress
          plan,     \* what the last call of planner() returned
          snap,     \* plan_cache as the statement's snapshot has it
          pending,  \* rows the statement inserted
          count,    \* number of statements so far
          rows      \* plan_cache, the committed rows

vars == <<hook, myPlan, cache, loaded, stack, plan, snap, pending, count, rows>>

NoPlan == [by |-> "nobody", of |-> Select1]

(* The plan standard_planner makes for a text; a plan handed over.         *)
Std(t) == [by |-> "planner", of |-> t]

Own(p) == [by |-> "user", of |-> p]

Plan == {Std(t) : t \in Texts} \union {Own(p) : p \in Given} \union {NoPlan}

Row == [id : Nat, pid : Nat, plan : Plan, force : {"yes", "no"}]

(* A text makes at most one call; site says who evaluates it.              *)
Call == [fn : {"none", "const", "serialize", "execute"},
         arg : Texts \union Given, site : {"plan", "run"}]

ASSUME CuckooAssumption ==
  /\ Select1 \in Texts
  /\ Sent \subseteq Texts
  /\ InitHook \in {"cache", "none"}
  /\ Preloaded \in {"yes", "no"}
  /\ Calls \in [Texts -> Call]
  /\ Calls[Select1].fn = "none"
  /\ \A t \in Texts : /\ Calls[t].fn = "serialize" => Calls[t].arg \in Texts
                      /\ Calls[t].fn = "execute" => Calls[t].arg \in Given
  /\ QueryId \in [Texts -> Nat]
  /\ PlanId \in [Texts -> Nat]
  /\ Forced \subseteq Texts
  /\ GivenId \in Nat
  /\ CacheUse \in [Backends -> SUBSET {"on", "off"}]
  /\ MaxStmts \in Nat

ASSUME CuckooSwitch == MayCancel \in BOOLEAN

Frame(op, arg) == [op |-> op, arg |-> arg]

Frames == [op : {"planner", "lookup", "standard", "planned", "insert",
                 "call", "injected", "run", "commit"},
           arg : Texts \union Given]

TypeOK ==
  /\ hook \in [Backends -> {"none", "cache", "inject"}]
  /\ myPlan \in [Backends -> Plan]
  /\ cache \in [Backends -> {"on", "off"}]
  /\ loaded \in [Backends -> {"yes", "no"}]
  /\ stack \in [Backends -> Seq(Frames)]
  /\ plan \in [Backends -> Plan]
  /\ snap \in [Backends -> SUBSET Row]
  /\ pending \in [Backends -> SUBSET Row]
  /\ count \in [Backends -> 0 .. MaxStmts]
  /\ rows \subseteq Row

Init ==
  /\ hook = [b \in Backends |-> IF Preloaded = "yes" THEN InitHook ELSE "none"]
  /\ myPlan = [b \in Backends |-> NoPlan]
  /\ cache = [b \in Backends |-> "off"]
  /\ loaded = [b \in Backends |-> Preloaded]
  /\ stack = [b \in Backends |-> <<>>]
  /\ plan = [b \in Backends |-> NoPlan]
  /\ snap = [b \in Backends |-> {}]
  /\ pending = [b \in Backends |-> {}]
  /\ count = [b \in Backends |-> 0]
  /\ rows = {}
-----------------------------------------------------------------------------
(* Frames.                                                                 *)

Idle(b) == stack[b] = <<>>

(* Backend b is at op for arg.                                             *)
At(b, op, arg) == stack[b] # <<>> /\ Head(stack[b]) = Frame(op, arg)

Return(b) == stack' = [stack EXCEPT ![b] = Tail(@)]

(* The innermost call goes on as fs.                                       *)
Continue(b, fs) == stack' = [stack EXCEPT ![b] = fs \o Tail(@)]

Hook(b, h) == hook' = [hook EXCEPT ![b] = h]

Plans(b, p) == plan' = [plan EXCEPT ![b] = p]
-----------------------------------------------------------------------------
(* Statements of a session, each in a transaction of its own.              *)

Begin(b, t) ==
  /\ Idle(b)
  /\ count[b] < MaxStmts
  /\ count' = [count EXCEPT ![b] = @ + 1]
  /\ snap' = [snap EXCEPT ![b] = rows]
  /\ stack' = [stack EXCEPT ![b] = <<Frame("planner", t), Frame("run", t)>>]
  /\ UNCHANGED <<hook, myPlan, cache, loaded, plan, pending, rows>>

(* SET pg_cuckoo.cache, pg_cuckoo_enable_cache, pg_cuckoo_disable_cache.   *)
SetCache(b, v) ==
  /\ Idle(b)
  /\ cache[b] # v
  /\ cache' = [cache EXCEPT ![b] = v]
  /\ UNCHANGED <<hook, myPlan, loaded, stack, plan, snap, pending, count, rows>>

(* The user stores a plan for a text and marks it to be forced.            *)
StorePlan(t, p) ==
  /\ ~\E r \in rows \union UNION {pending[b] : b \in Backends} :
        r.id = QueryId[t] /\ r.pid = GivenId
  /\ rows' = rows \union
       {[id |-> QueryId[t], pid |-> GivenId, plan |-> Own(p), force |-> "yes"]}
  /\ UNCHANGED <<hook, myPlan, cache, loaded, stack, plan, snap, pending, count>>

(* What a plan evaluates while it runs; plans handed over make no calls.   *)
CallOf(p) == IF p.by = "planner" THEN Calls[p.of] ELSE Calls[Select1]

(* The executor runs whatever planner() returned.                          *)
Run(b, t) ==
  /\ At(b, "run", t)
  /\ LET c == CallOf(plan[b]) IN
       Continue(b, IF c.fn # "none" /\ c.site = "run"
                   THEN <<Frame("call", plan[b].of), Frame("commit", t)>>
                   ELSE <<Frame("commit", t)>>)
  /\ UNCHANGED <<hook, myPlan, cache, loaded, plan, snap, pending, count, rows>>

(* The end of the statement and of its transaction.                        *)
End(b) ==
  /\ stack' = [stack EXCEPT ![b] = <<>>]
  /\ plan' = [plan EXCEPT ![b] = NoPlan]
  /\ snap' = [snap EXCEPT ![b] = {}]
  /\ pending' = [pending EXCEPT ![b] = {}]

Commit(b, t) ==
  /\ At(b, "commit", t)
  /\ rows' = rows \union pending[b]
  /\ End(b)
  /\ UNCHANGED <<hook, myPlan, cache, loaded, count>>

(* An ERROR: the transaction is rolled back, C globals keep their values.  *)
Error(b) == End(b) /\ UNCHANGED <<hook, myPlan, cache, loaded, count, rows>>

(* The executor fails, in the statement or in a plan handed over.          *)
ExecutionFails(b) ==
  /\ (\E t \in Texts : At(b, "run", t)) \/ (\E p \in Given : At(b, "injected", p))
  /\ Error(b)

Cancel(b) == MayCancel /\ ~Idle(b) /\ Error(b)
-----------------------------------------------------------------------------
(* planner(): the hook decides.                                            *)

(* No hook: standard_planner.                                              *)
PlanDirectly(b, t) ==
  /\ At(b, "planner", t)
  /\ hook[b] = "none"
  /\ Continue(b, <<Frame("standard", t)>>)
  /\ UNCHANGED <<hook, myPlan, cache, loaded, plan, snap, pending, count, rows>>

(* Mutant: the hook stays on.                                              *)
injection_plannerKeepsHook(b, t) ==
  /\ At(b, "planner", t)
  /\ hook[b] = "inject"
  /\ Plans(b, myPlan[b])
  /\ Return(b)
  /\ UNCHANGED <<hook, myPlan, cache, loaded, snap, pending, count, rows>>

injection_planner(b, t) ==
  /\ At(b, "planner", t)
  /\ hook[b] = "inject"
  /\ Hook(b, "none")
  /\ Plans(b, myPlan[b])
  /\ Return(b)
  /\ UNCHANGED <<myPlan, cache, loaded, snap, pending, count, rows>>

(* cache_planner up to the query on plan_cache, for which the hook is off. *)
cache_planner(b, t) ==
  /\ At(b, "planner", t)
  /\ hook[b] = "cache"
  /\ \/ /\ myPlan[b] # NoPlan
        /\ Plans(b, myPlan[b])
        /\ Return(b)
        /\ UNCHANGED hook
     \/ /\ myPlan[b] = NoPlan
        /\ cache[b] = "off"
        /\ Continue(b, <<Frame("standard", t)>>)
        /\ UNCHANGED <<hook, plan>>
     \/ /\ myPlan[b] = NoPlan
        /\ cache[b] = "on"
        /\ Continue(b, <<Frame("lookup", t)>>)
        /\ Hook(b, "none")
        /\ UNCHANGED plan
  /\ UNCHANGED <<myPlan, cache, loaded, snap, pending, count, rows>>

(* Rows of the cache for a text; the query returns one of them.            *)
Hits(b, t) == {r \in snap[b] : r.id = QueryId[t]}

(* Mutant: the row is inserted before the text is planned.                 *)
LookupMissInsertsFirst(b, t) ==
  /\ At(b, "lookup", t)
  /\ Hits(b, t) = {}
  /\ Continue(b, <<Frame("insert", t), Frame("standard", t)>>)
  /\ UNCHANGED <<hook, myPlan, cache, loaded, plan, snap, pending, count, rows>>

LookupMiss(b, t) ==
  /\ At(b, "lookup", t)
  /\ Hits(b, t) = {}
  /\ Continue(b, <<Frame("standard", t), Frame("insert", t)>>)
  /\ UNCHANGED <<hook, myPlan, cache, loaded, plan, snap, pending, count, rows>>

LookupHit(b, t) ==
  /\ At(b, "lookup", t)
  /\ \E r \in Hits(b, t) :
        \/ r.force = "yes" /\ Plans(b, r.plan) /\ Return(b)
        \/ r.force = "no" /\ Continue(b, <<Frame("standard", t)>>) /\ UNCHANGED plan
  /\ Hook(b, "cache")
  /\ UNCHANGED <<myPlan, cache, loaded, snap, pending, count, rows>>

(* standard_planner evaluates a call with constant arguments.              *)
Standard(b, t) ==
  /\ At(b, "standard", t)
  /\ IF Calls[t].fn # "none" /\ Calls[t].site = "plan"
     THEN Continue(b, <<Frame("call", t), Frame("planned", t)>>) /\ UNCHANGED plan
     ELSE Return(b) /\ Plans(b, Std(t))
  /\ UNCHANGED <<hook, myPlan, cache, loaded, snap, pending, count, rows>>

Planned(b, t) ==
  /\ At(b, "planned", t)
  /\ Plans(b, Std(t))
  /\ Return(b)
  /\ UNCHANGED <<hook, myPlan, cache, loaded, snap, pending, count, rows>>

(* Mutant: the column force_plan is left out of the INSERT.                *)
NewRowNull(b, t) ==
  [id |-> QueryId[t], pid |-> PlanId[t], plan |-> plan[b], force |-> "null"]

(* The new row, and UNIQUE(query_id, plan_id).                             *)
NewRow(b, t) ==
  [id |-> QueryId[t], pid |-> PlanId[t], plan |-> plan[b], force |-> "no"]

SameKey(r, t) == r.id = QueryId[t] /\ r.pid = PlanId[t]

WaitsFor(b, d, t) == d # b /\ \E r \in pending[d] : SameKey(r, t)

Waits(b, t) == \E d \in Backends : WaitsFor(b, d, t)

(* INSERT waits for a transaction that inserted the same key.              *)
Insert(b, t) ==
  /\ At(b, "insert", t)
  /\ ~Waits(b, t)
  /\ ~\E r \in rows \union pending[b] : SameKey(r, t)
  /\ pending' = [pending EXCEPT ![b] = @ \union {NewRow(b, t)}]
  /\ Hook(b, "cache")
  /\ Return(b)
  /\ UNCHANGED <<myPlan, cache, loaded, plan, snap, count, rows>>

(* Mutant: look the text up again, under the same snapshot.                *)
InsertFailsRetries(b, t) ==
  /\ At(b, "insert", t)
  /\ \E r \in rows \union pending[b] : SameKey(r, t)
  /\ Continue(b, <<Frame("lookup", t)>>)
  /\ UNCHANGED <<hook, myPlan, cache, loaded, plan, snap, pending, count, rows>>

(* Once there is such a row it fails, which leaves the hook off.           *)
InsertFails(b, t) ==
  /\ At(b, "insert", t)
  /\ \E r \in rows \union pending[b] : SameKey(r, t)
  /\ Error(b)

(* Of two backends that wait for each other the server fails one.          *)
Deadlock(b, t) ==
  /\ At(b, "insert", t)
  /\ \E d \in Backends, u \in Texts :
        WaitsFor(b, d, t) /\ At(d, "insert", u) /\ WaitsFor(d, b, u)
  /\ Error(b)
-----------------------------------------------------------------------------
(* The functions of the extension.                                         *)

(* The first use of a function loads the library: _PG_init sets the hook.  *)
_PG_init(b) == IF loaded[b] = "no" THEN InitHook ELSE hook[b]

Loads(b) == loaded' = [loaded EXCEPT ![b] = "yes"]

(* An argument that does not parse: ERROR before anything else.            *)
call_fails(b, t) ==
  /\ At(b, "call", t)
  /\ Loads(b)
  /\ Hook(b, _PG_init(b))
  /\ End(b)
  /\ UNCHANGED <<myPlan, cache, count, rows>>

string_to_const(b, t) ==
  /\ At(b, "call", t)
  /\ Calls[t].fn = "const"
  /\ Loads(b)
  /\ Hook(b, _PG_init(b))
  /\ Return(b)
  /\ UNCHANGED <<myPlan, cache, plan, snap, pending, count, rows>>

(* pg_plan_serialize plans its argument and prints the plan.               *)
pg_plan_serialize(b, t) ==
  /\ At(b, "call", t)
  /\ Calls[t].fn = "serialize"
  /\ Loads(b)
  /\ Hook(b, _PG_init(b))
  /\ Continue(b, <<Frame("planner", Calls[t].arg)>>)
  /\ UNCHANGED <<myPlan, cache, plan, snap, pending, count, rows>>

(* Mutant: the hook is not armed.                                          *)
pg_plan_executeUnarmed(b, t) ==
  /\ At(b, "call", t)
  /\ Calls[t].fn = "execute"
  /\ Loads(b)
  /\ myPlan' = [myPlan EXCEPT ![b] = Own(Calls[t].arg)]
  /\ Hook(b, _PG_init(b))
  /\ Continue(b, <<Frame("planner", Select1), Frame("injected", Calls[t].arg)>>)
  /\ UNCHANGED <<cache, plan, snap, pending, count, rows>>

(* pg_plan_execute, pg_plan_execute_print: arm the hook and have SPI plan  *)
(* and execute "select 1".                                                 *)
pg_plan_execute(b, t) ==
  /\ At(b, "call", t)
  /\ Calls[t].fn = "execute"
  /\ Loads(b)
  /\ myPlan' = [myPlan EXCEPT ![b] = Own(Calls[t].arg)]
  /\ Hook(b, "inject")
  /\ Continue(b, <<Frame("planner", Select1), Frame("injected", Calls[t].arg)>>)
  /\ UNCHANGED <<cache, plan, snap, pending, count, rows>>

(* Mutant: the hook of _PG_init is put back.                               *)
plan_executedRestores(b, p) ==
  /\ At(b, "injected", p)
  /\ Hook(b, InitHook)
  /\ Return(b)
  /\ UNCHANGED <<myPlan, cache, loaded, plan, snap, pending, count, rows>>

(* The plan was executed; disable the hook.                                *)
plan_executed(b, p) ==
  /\ At(b, "injected", p)
  /\ Hook(b, "none")
  /\ Return(b)
  /\ UNCHANGED <<myPlan, cache, loaded, plan, snap, pending, count, rows>>
-----------------------------------------------------------------------------
(* One step of backend b inside a statement.                               *)
Step(b) ==
  \/ \E t \in Texts :
       \/ Run(b, t)
       \/ Commit(b, t)
       \/ PlanDirectly(b, t)
       \/ injection_planner(b, t)
       \/ cache_planner(b, t)
       \/ LookupMiss(b, t)
       \/ LookupHit(b, t)
       \/ Standard(b, t)
       \/ Planned(b, t)
       \/ Insert(b, t)
       \/ InsertFails(b, t)
       \/ Deadlock(b, t)
       \/ string_to_const(b, t)
       \/ pg_plan_serialize(b, t)
       \/ pg_plan_execute(b, t)
  \/ \E p \in Given : plan_executed(b, p)

(* Every session made all its statements.                                  *)
Finished == (\A b \in Backends : Idle(b) /\ count[b] = MaxStmts) /\ UNCHANGED vars

Next ==
  \/ Finished
  \/ \E b \in Backends :
       \/ Step(b)
       \/ ExecutionFails(b)
       \/ \E t \in Texts : call_fails(b, t)
       \/ Cancel(b)
       \/ \E t \in Sent : Begin(b, t)
       \/ \E v \in CacheUse[b] : SetCache(b, v)
  \/ \E t \in Forced, p \in Given : StorePlan(t, p)

Spec == Init /\ [][Next]_vars

(* A backend that can go on with its statement does.                       *)
FairSpec == Spec /\ \A b \in Backends : WF_vars(Step(b))
-----------------------------------------------------------------------------
(* plan_execute executes the plan it was handed, in whatever state earlier *)
(* statements, the cache and a planner that called it left the globals.    *)
InjectionIsExact ==
  \A b \in Backends, p \in Given : At(b, "injected", p) => plan[b] = Own(p)

(* The plan of a statement is its own.                                     *)
OwnPlan(b, t) ==
  \/ plan[b] = Std(t)
  \/ \E r \in Hits(b, t) : r.force = "yes" /\ plan[b] = r.plan

(* "Disable the hook, and reactivate the planner.  Remote plan injection   *)
(* is done at this point": a statement runs the plan that standard_planner *)
(* made for it, or one the user stored to be forced for its query id.      *)
PlannerReactivated ==
  \A b \in Backends, t \in Texts : At(b, "run", t) => OwnPlan(b, t)

(* The sessions that never turn the cache on.                              *)
Plain == {b \in Backends : "on" \notin CacheUse[b]}

(* When a statement is cancelled between the arming of the hook and the    *)
(* planning of "select 1", the plan it was handed replaces the plan of the *)
(* session's next statement, but of no later one, unless the session turns *)
(* the cache on: that another session does makes no difference.            *)
StalePlanIsSpent ==
  \A b \in Plain, t \in Texts :
     At(b, "run", t) /\ ~OwnPlan(b, t) => hook[b] = "none"

(* What cache_planner stores under a query id is the standard planner's    *)
(* plan of a text with that id, also when the planner called plan_execute  *)
(* in between.                                                             *)
CacheHoldsOwnPlans ==
  \A r \in rows : r.force = "no" => \E t \in Texts : QueryId[t] = r.id /\ r.plan = Std(t)

(* Every statement ends although sessions wait for each other's rows.      *)
StatementsEnd == \A b \in Backends : ~Idle(b) ~> Idle(b)
-----------------------------------------------------------------------------
(* The invariants behind these properties.                                 *)

(* A call of plan_execute either has its plan as the result of planner(),  *)
(* or waits for planner() with the hook armed and myPlan in place.         *)
Armed(b) ==
  \A i \in 1 .. Len(stack[b]) : stack[b][i].op = "injected" =>
     \/ i = 1 /\ plan[b] = Own(stack[b][1].arg)
     \/ /\ i = 2 /\ stack[b][1].op = "planner"
        /\ hook[b] = "inject" /\ myPlan[b] = Own(stack[b][2].arg)

InjectionArmed == \A b \in Backends : Armed(b)

(* What waits for the planner's result gets that of its own text: the      *)
(* frame on top of it is at work on that text until the result is there.   *)
(* With spent, an armed hook may have replaced the result, and is gone.    *)
Awaits(b, op, above, spent) ==
  \A i \in 1 .. Len(stack[b]) : stack[b][i].op = op =>
     \/ i = 1 /\ (plan[b] = Std(stack[b][1].arg) \/ (spent /\ hook[b] = "none"))
     \/ /\ i > 1
        /\ stack[b][i - 1].op \in above
        /\ stack[b][i - 1].arg = stack[b][i].arg

(* cache_planner inserts what standard_planner returned.                   *)
InsertReady == \A b \in Backends : Awaits(b, "insert", {"standard", "planned"}, FALSE)

(* Without the cache, cache_planner never meets a plan in myPlan.          *)
Uncached(b) ==
  /\ cache[b] = "off"
  /\ loaded[b] = "no" => hook[b] = "none" /\ myPlan[b] = NoPlan
  /\ hook[b] = "cache" => myPlan[b] = NoPlan
  /\ \A i \in 1 .. Len(stack[b]) : stack[b][i].op \notin {"lookup", "insert"}

(* A cancelled statement may leave the hook armed, for one planning.       *)
HookSpent ==
  \A b \in Plain :
     Uncached(b) /\ Awaits(b, "run", {"planner", "standard", "planned"}, TRUE)

(* The hook is armed only while planner() is called for plan_execute.      *)
ArmedInCall(b) ==
  hook[b] = "inject" =>
    Len(stack[b]) > 1 /\ stack[b][1].op = "planner" /\ stack[b][2].op = "injected"

(* While cache_planner is the hook, or will be when it is done with the    *)
(* query it is at, nothing is left in myPlan.                              *)
Clean(b) ==
  /\ loaded[b] = "no" => hook[b] = "none" /\ myPlan[b] = NoPlan
  /\ hook[b] = "cache" => myPlan[b] = NoPlan
  /\ \A i \in 1 .. Len(stack[b]) : stack[b][i].op \in {"lookup", "insert"} =>
        loaded[b] = "yes" /\ myPlan[b] = NoPlan

(* A statement is executed under no other call, and so is a call that the  *)
(* executor evaluates.                                                     *)
Outermost(b) ==
  \A i \in 1 .. Len(stack[b]) :
     /\ stack[b][i].op \in {"run", "commit"} => i = Len(stack[b])
     /\ stack[b][i].op = "call" /\ Calls[stack[b][i].arg].site = "run" =>
          i + 1 = Len(stack[b]) /\ stack[b][i + 1].op = "commit"

(* A statement waits for the plan of its own text, or has it.              *)
RunsOwn(b) ==
  \A i \in 1 .. Len(stack[b]) : stack[b][i].op = "run" =>
     \/ i = 1 /\ OwnPlan(b, stack[b][1].arg)
     \/ /\ i > 1
        /\ stack[b][i - 1].op \in {"planner", "lookup", "standard", "planned", "insert"}
        /\ stack[b][i - 1].arg = stack[b][i].arg

(* No session turns the cache on; no call of plan_execute is evaluated by  *)
(* the planner.                                                            *)
NoCache == Plain = Backends

ExecuteAtRun == \A t \in Texts : Calls[t].fn = "execute" => Calls[t].site = "run"

(* plan_execute is never called inside cache_planner.                      *)
Apart(b) ==
  \/ NoCache /\ Uncached(b)
  \/ ExecuteAtRun /\ Outermost(b)

HookDiscipline ==
  \A b \in Backends : Clean(b) /\ Apart(b) /\ ArmedInCall(b) /\ RunsOwn(b)
=============================================================================
