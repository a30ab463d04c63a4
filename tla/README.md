# PlanFuzzer in TLA+

PlanFuzzer fuzzes PostgreSQL below the SQL level: afl-fuzz mutates query plans
with a grammar mutator, a driver translates each one to PostgreSQL's plan format
and has the server execute it through an extension that replaces the planner's
result. This directory holds TLA+ models of those parts, the TLC runs that check
them on small instances and TLAPS proofs of the main results for every instance.
`PROJECT.json` lists components, runs, findings, hazards and theorems, and for
each definition the source lines it stands for.

## The system and its modules

```
  (AflQueue, TestcaseCache)
  grammar mutator <-> afl-fuzz  ==pipes 198/199, test case file, map==  db_driver
  (GrammarMutator)    (AflRun)              (Channels)                  (DbDriver)
                                  ^                                        | libpq
                                  | inherited pipes, if launched by        v
                                  +-------- the driver ------- PostgreSQL + AFL++ runtime
                                                               (PgServer)
                                                               + cuckoo.c (CuckooExt)
```

| module | stands for | state | actions |
| --- | --- | --- | --- |
| `Channels` | what the processes share | control and status pipe, test case file, coverage map | (operators for the words on the pipes) |
| `PgServer` | the server as its clients meet it, and the AFL++ runtime inside an instrumented server, `afl-compiler-rt.o.c` | postmaster, runtime, its child, the driver's connection | ready, crash of a backend, exit; greeting, fork, report of pid and status, hangup |
| `DbDriver` | `db_driver.cc`, `client_postgresql.cc` | control state, test case, outcome, connections that were not freed | one per step visible to another process, from `__afl_map_shm` to `__afl_end_testcase` |
| `AflRun` | `afl-forkserver.c` | control state, run, child pid, verdicts | greeting, write test case, request, read pid, read status, time limit, end of file, stop, kill |
| `FuzzLoop` | the three together | all of the above | |
| `RunOracle` | what the loop promises | runs, crashes, verdicts | start, crash, judge |
| `CuckooExt` | `cuckoo.c` (and, with `InitHook = "none"`, `planfuzzer.c`) | per backend the hook, `myPlan`, the setting and a stack of calls; the table `plan_cache` | each hook and function of the extension, statements, commit, error, cancel |
| `GrammarMutator` | `grammar_mutator.c`, `tree_mutation.c`, and what `afl-fuzz-init.c` does to the output directory | folders `queue/`, `_resume/`, `trees/`, the mutator's trees, stage, counters and cursor | `afl_custom_init`, `queue_get` (import and pick), `queue_new_entry`, `fuzz_count`, `fuzz`; kill, in-place resume, starting over |
| `AflQueue` | the queue of afl-fuzz: `afl-fuzz-queue.c`, `-one.c`, `-run.c`, `-bitmap.c`, the loop of `main` | the entries' fields, `top_rated` with its reference counts, the counters of the queue, the alias table | dry run, `calibrate_case`, `update_bitmap_score` (a step per byte), `cull_queue`, selection, skipping, trimming, fuzzing, saving |
| `TestcaseStore` | what `fuzz_one` expects of test case buffers | files, the buffers in use | open, close, trim, splice, new entry |
| `TestcaseCache` | `queue_testcase_get`, `_retake`, `_store_mem` | buffers, table of cached entries, size, count, learned limit | each call, eviction as a loop of its own |

`MCCuckooExt`, `MCGrammarMutator` and `MCTestcaseCache` give constants their
values; the other modules are checked as they stand. Definitions named `...` plus
a suffix and commented "Mutant" are faulty variants of the definition below them;
no specification uses them. They record which mistake each property is sensitive
to.

### The fuzzing loop

Every word on the status pipe is four bytes: a greeting, a process id and a wait
status differ by position only. Words are therefore modelled by value, together
with two history fields (`from`, `run`) that no process reads and that the
properties use. `verdict` and `source` record the result of each run and the word
it was computed from; `crashed` the runs whose execution took the server down.

A test case is its number. A translation gives a statement or fails; a statement
returns normally, with an error, or loses its connection. A wait in the code
(`sleep`, `read`, the loop on `check_alive`) is a guard. A translation or a plan may
also never end (`Busy`): no statement has a time limit in the server, and what
afl-fuzz kills when its own is over is the process id 0xffffff. The time limit of
afl-fuzz may expire whenever no answer is there yet, except while the driver
boots: `-t 600000` is ten minutes, the boot takes some seconds.

If the driver has to launch the server, the instrumented `postgres` inherits the
pipes and its constructor makes it a second fork server. The models show how that
works out: the runtime greets afl-fuzz first, wins the first request, forks the
server, and the driver's greeting is taken for the status of the first run. From
the second run on the driver is alone. `VerdictFromOwnRun` and `AbortsOnlyOnLoss`
state exactly this exception.

### The extension

A backend is sequential, but its calls nest: the functions are declared
`IMMUTABLE`, so that the planner itself evaluates `plan_execute_print('...')`,
inside `cache_planner` when that is the hook. Calls in progress are a stack of
frames, and each action works on the innermost one. Texts, plans and hashes are
abstract; two texts may share a query id. Plans handed over make no calls of their
own. `CacheUse` says, for each session, what it sets `pg_cuckoo.cache` to.
`plan_explain` is left out, it does not touch the globals.

### The grammar mutator

A tree is an abstract value with the list of its non-terminal nodes; which tree a
mutation returns is left open, with which node and rule `rules_mutation` is called
is not. afl-fuzz writes a new test case before it tells the mutator
(`afl-fuzz-bitmap.c:530-534`), and may be killed in between. Printing cuts the
text at `max_size`, so a long tree has a text that need not parse.
`TreeAssumption` assumes of the parser that a tree it returns prints as the text
it was given. Files are written whole or, after a kill, are unreadable and count
as absent.

A session that resumes in place moves `queue/` to `_resume/`, imports from there
and removes `_resume/` file by file; a session may also start over from the seeds.
Either may be killed at any step. An entry is known by the part of its name that
survives the renumbering. Once a removal was cut short, or a session started over
while `_resume/` was still there, the next resume imports from a folder that is no
longer the whole queue (`afl-fuzz-init.c:1576`); `torn` records that, and
`NothingLost` speaks of directories where it did not happen. Resuming a session
that had nothing to resume is taken not to happen. afl-fuzz refuses to start over
in the directory of a session that lasted longer than `OUTPUT_GRACE` minutes; the
model has no durations, its sessions may all have been shorter.

### The queue of afl-fuzz

`AflQueue` keeps the bookkeeping and leaves runs open: the result of a run, and
the bytes of the bitmap it sets, may differ from one run of a test case to the
next, since the server keeps state. A run that sets no new byte is interesting if
it has a new hit count, which the model allows in any run (`NewCounts`).
`update_bitmap_score` and `cull_queue` walk
over the bitmap one byte per step. Scores are compared by `exec_us * len`, as the
default schedule does. The alias table is the set of entries it may yield; random
choices are nondeterministic. Entries of `Refused` are those the mutator cannot
parse and skips.

The state reached in this model includes some corners of the code that no
property forbids: a disabled duplicate keeps the slots of `top_rated` it won; when
an average that `compute_weight` divides by is zero the weights are no numbers,
and a disabled entry can be selected; an entry whose late calibration succeeds
without new bits is abandoned and still marked `was_fuzzed`.

### The test case cache

`TestcaseCache` has the calls `fuzz_one` makes, in its order: the buffer of the
current entry, trimming, the buffer of a splice partner. A test case is an
abstract value with a length. The eviction loop and the search for a free slot are
the code's; that they end is the invariant `GetEnds`. The limits are those that
afl-fuzz accepts (`CacheAssumption`): at least `2 * MAX_FILE` bytes, and a number of
entries that is not zero (with zero there is no table to model). They include some
at which the eviction loop does not end: a cache of exactly `2 * MAX_FILE` bytes, or
of fewer than three entries, can be full with the current entry as its only one,
which may not be evicted. `GetEnds` names this case (`Cornered`) as its exception.

## Runs

| run | what it checks | states |
| --- | --- | --- |
| `detached` | a server that was up before: types, verdicts from the own run, the requested case executed, crashes attributed, no case on a server that is down, the map marked, the inductive invariants `Lockstep` and `Attribution`, aborts only after a loss, refinement of `RunOracle`, and every request judged | 6 804 |
| `launched` | with the runtime on the pipes: verdicts, aborts, the refinement and that every request is judged | 1 471 |
| `failures` | backends also crash between test cases, the postmaster may exit, the driver may die: no crash is missed, crash verdicts do not outnumber failures, connections are left unfreed by failures only | 79 063 |
| `cuckoo_session` | two sessions, one with the cache and one without, every function called by the planner and by the executor, two plans handed over, errors and cancels anywhere: the right plan is injected, the cache holds standard plans only, a hook left armed costs one statement | 1 367 141 |
| `cuckoo_cache` | two sessions with the cache that ask for each other's plans, no cancels: types, own plans, and that statements end although inserts wait, fail and deadlock | 247 528 |
| `mutator_sessions` | the mutator over three kills, resumes and fresh starts: folders agree, the picked entry is fuzzed, nothing is lost, no "mutation error", every stage complete | 304 012 |
| `queue` | two seeds and what is found from them: reference counts, counters, favored entries cover the bitmap, a splice partner exists, the alias table is current, every entry is taken up | 276 013 |
| `testcase_cache` | five entries in a cache that holds two or more: sizes and table are exact, every call ends, refinement of `TestcaseStore` | 748 496 |

Four runs show a statement of the sources that does not hold (`findings` in
`PROJECT.json`):

- `restarted`: a driver started while the server recovers launches another one
  (`db_driver.cc:213` says it should not).
- `hang`: a plan that does not end keeps afl-fuzz waiting for good: what it kills
  when the time is up (`afl-forkserver.c:1683`) is the process id 0xffffff that the
  driver reports (`db_driver.cc:175`), and nobody informs it afterwards.
- `cuckoo_stale`: after `plan_execute_print` under the cache the planner is not
  reactivated (`cuckoo.c:423`): `cache_planner` returns the old plan from then on.
- `mutator_reseed`: a session from other seeds in the same output directory reads
  trees that do not correspond to them (`grammar_mutator.c:224`).

To run one: `tlc -config FuzzLoop_detached.cfg FuzzLoop`. The longest take one to
two minutes.

### Bounds

- `MaxRuns = 3` (2 in `hang`): a run, one that suffers from what the first left
  behind, and one after the loop should be back to normal. The first run is the
  special one when the server was launched.
- `MaxCrashes = 2` or `3`: a crash in two consecutive runs, and one between runs.
- `ServerPid`, `ServerMapSize`: any legal value; only their being told apart from
  the driver's words matters, and the type proof holds for all.
- `MaxStmts = 3` for each session of `cuckoo_session` (one that arms the hook and
  is cancelled, one that gets the stale plan, one that should be normal again), 2 in
  `cuckoo_cache` (each session plans both texts).
- Two seeds, one of which does not parse, two names for new entries (symmetric),
  and three trees: one with two nodes that have alternatives and one without
  between them, one without alternatives, one too long. Numbers of steps 1, 1 and
  2; a tree without recursion makes the recursive stage empty.
- `MaxKills = 3`: a session, a resumed one killed during its import, and a third
  that resumes from what the two left behind.
- `AflQueue`: two seeds and one entry more, so that one entry can lose to another
  in `top_rated` and a third arrive while both are in use; two bytes of bitmap, so
  that an entry can win one and lose the other; lengths 3 and 5 on both sides of
  the four bytes that splicing asks for; one execution time, since only the
  product with the length is compared; `CalChances = 2` for a calibration that
  fails for the last time and one that does not; `LongQueue = 2` instead of 10, so
  that both skip rules apply; the first seed is one the mutator refuses; `NewCounts`
  is off, since with it the space is sixteen times as large. The proofs cover both.
- `TestcaseCache`: five entries (symmetric) of length 1 or 2, and `MaxSize = 5`,
  the smallest size at which it is never cornered with `MaxLen = 2`: the cache fills by size with three to
  five entries and evicts one or two of them at a time. `MaxEntries = 5`, so that
  the limit learned when the size first runs out is below it. The smaller limits are
  left to the proofs, which cover them all: a cornered loop spins, and the model then
  has no next state.

Deadlock is checked in `detached` and `launched`, where a finished session
stutters, and in the runs of the extension, the mutator, the queue and the cache. It is not checked in
`failures`: there the driver really may wait for good for a server that
does not come back.

### Fairness

`RunsAreJudged` and `InformedAfterKill` are checked under weak fairness of the steps
of afl-fuzz, of the driver and of the server with its runtime. Each is a sequential
process that the operating system schedules, and PostgreSQL finishes a start or a
recovery. The driver's fairness leaves out the end of a translation and of the
execution of a plan (`Busy`), since nothing in the code bounds them. `RunsAreJudged`
therefore states its assumption that they end (`CasesEnd`), and `hang` shows what
happens when one does not. Nothing is assumed of time limits, crashes, kills or the
user.
`StatementsEnd` is under weak fairness of each backend's own steps; the deadlock
detector is one of them. `TakenUp` is under weak fairness of the steps of afl-fuzz,
which includes that runs of the target end, so that calibrations and stages do,
and strong fairness of selecting each entry and of not skipping it: both are random
draws whose probability is bounded away from zero for as long as the entry can be
drawn. The other runs need no fairness.

## Proofs

All proofs are checked by TLAPS; they hold for every value of the constants that
satisfies the named assumptions of the modules.

- `FuzzLoopProofs`: `TypeCorrect` and `LockstepHolds`. For the first, the words of
  the protocol are shown to be integers of the ranges the types need, then one step
  per action. `Lockstep` gives, for each state of afl-fuzz, the states the driver
  may be in and the exact content of both pipes (`Phase`), and follows the test case
  from the file to the driver (`CaseFlow`). A launched server goes through phases
  of its own (`Launching`) until its runtime only waits for its child, and from
  then on the two sides are in step like those of any other (`InStep`); if the
  driver's greeting is the first answer to the first request, the session ends
  (`Doomed`). Assumption `Orderly`: the server is up when the driver starts, and
  then backends may crash at any time after the boot, the postmaster may exit and
  the driver die; or the driver may have to launch it, and then postmaster and
  driver stay alive. A driver that dies while the runtime still reads the pipes
  leaves it as the only fork server, for which nothing of this holds.
- `VerdictProofs`, from `Lockstep` and under `Orderly`: `VerdictsAreOwn`,
  `RequestedCaseExecuted`, `AbortsAreLosses`, `ExecutionsAreMarked` and
  `LeaksAreBounded`, none of which is inductive by itself. `CrashesNoticed` follows
  a failure that took a test case with it from the connection to the driver's
  `outcome`, to the last word on the pipe and to the verdict (`CrashKnown`).
  `FailuresCountedOnce` keeps an account (`CrashAccount`): the runs judged or about
  to be judged crashes (`Charged`), and the driver's next surprise, never outnumber
  the failures of the server. It holds because the driver stays in the run that met
  a failure until the server is back.
  Then `AttributionHolds`, `CrashesAttributed`, `CasesMeetServer` and the refinement
  `LoopImplementsOracle`, from `CrashOwn` (the driver finds the server gone only
  through its own test case) and `VerdictFlow` (a run has its verdict once its last
  word was read, not before). Assumption `Quiet`: in addition, backends crash only
  while a test case executes and the postmaster does not exit; `failures` shows
  what is left without it. `CasesMeetServer` also needs the server up before the
  driver: on one that is launched the first test cases may find it still starting,
  and count as untranslatable.
- `CuckooProofs`: `CuckooTypes`, `InjectionsAreExact` and `CacheIsHonest` without
  further assumptions. `CuckooPlanProofs`: `StalePlansAreSpent` for every session
  that does not turn the cache on (`Plain`), and `PlannerComesBack` when no statement is cancelled and
  either no session uses the cache or no call of `plan_execute` is evaluated by the
  planner (`Undisturbed`). `cuckoo_stale` is the case left out, the cache together
  with `plan_execute_print` on a constant; `cuckoo_cache` lies within the
  assumption. The invariants speak of the stack: a frame that waits for planner()
  either has its result or has the frame that works on its text directly above
  (`Awaits`, `InsertReady`, `RunsOwn`), a waiting injection has its plan armed
  (`InjectionArmed`). `HookDiscipline` adds that the hook is armed only during a
  call, that nothing is left in `myPlan` while `cache_planner` is the hook or will
  be again (`Clean`), and why: `plan_execute` is not called inside `cache_planner`
  (`Apart`), since the calls of the executor are outermost (`Outermost`). After a
  cancel the hook may stay armed until the next statement was planned (`HookSpent`).
- `GrammarMutatorProofs`: `StoresTyped`; `StoresAgree` and `PickedIsFuzzed` when
  all sessions have the same seeds (`OneInput`); `ResumeKeepsAll` without
  assumption. What the first two need is that a name has the same text in every
  folder that has it (`SameText`, part of `Agree`); a session from other seeds
  breaks it. The last needs `Complete`: at each stage of a resume, which folder
  holds which entries. `MutatorTyped`, `CallsSucceed` and `StagesDone` need no
  assumption either. They rest on `InStage`: the calls left are those of the stages
  left, and the alternatives tried are those before the cursor. That the rules
  stage then ends with the last alternative is `RulesCounted`: the fold over the
  node list that is `rules_mutation_count` equals the number of alternatives of the
  tree. Its induction is over sets of nodes, by a smallest counterexample
  (`LeastSubset`).
- `QueueCountsProofs` and `AflQueueProofs`: `QueueTyped`, `ReferencesExact`, `CountsExact`,
  `FavoredsCover`, `SpliceEnds`, `SelectionComplete`. The inductive invariant is the
  conjunction of the types, what holds at each control state (`Shape`), the exact
  reference counts and counters, the bounds on the entries ready for splicing
  (`ReadyBounds`), and for each of the three loops what its finished part has
  established (`FavoredCover`, `CullInv`, `TableInv`). A counter is the cardinality
  of a set, so that each step changes it by a lemma on adding or removing an
  element.
- `TestcaseCacheProofs`: `CacheTyped`, `CacheIsExact`, `GetsEnd` and the refinement
  `CacheImplementsStore`. The invariant has the types, `CacheExact`, that buffers
  equal files (`Fresh`), the limits (`Limits`) and what a call in progress relies
  on (`CallInv`). At limits with room for two test cases of `MAX_FILE` a full cache
  holds an entry besides the current one, by its bytes or by its count, and the
  learned limit keeps it so. A free slot exists by the pigeonhole principle: fewer entries are
  cached than the table has slots.

Every invariant and every refinement that a passing run checks is also proved, and
each run's constants satisfy the assumptions of those theorems. Only model-checked
are the liveness properties `RunsAreJudged`, `StatementsEnd` and `TakenUp`, which
need fairness, beyond these provers.

## Not modelled

The table of components in `PROJECT.json` gives the reason for each part. The map
covers a small share of all the lines in the repository, because most of them are
third-party code that PlanFuzzer does not run or that holds no state: the other
modes and tools of AFL++, its instrumentation passes, SQLsmith, and the plan
inference library in Haskell, a pure translation over a very large data type. Of
what PlanFuzzer does run:

- trimming of trees (`afl_custom_trim` and its helpers) is switched off by
  `AFL_DISABLE_TRIM` in `scripts/fuzz.sh`. `AflQueue` and `TestcaseCache` allow
  trimming with any result;
- the seed pool (`preprocess.py`, `tree.py`) is one sequential loop; no state
  outlives it and nothing runs beside it;
- the restart of the driver with a larger map: afl-fuzz starts with 2^23 bytes
  (`get_map_size`), and no greeting can ask for more;
- the grammar generator and parser, of which `TreeAssumption` says what is used;
- `plan_explain`, which touches none of the extension's globals;
- crashes and hangs saved by afl-fuzz, statistics, locking of the output directory,
  the seed translation, the bug reproduction script and the other scripts.
