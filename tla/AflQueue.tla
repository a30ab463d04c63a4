------------------------------ MODULE AflQueue ------------------------------
(***************************************************************************)
(* The queue of afl-fuzz and the loop that works on it: the dry run of the *)
(* seeds, the choice of the next entry, fuzz_one, the saving of what a     *)
(* mutation finds, calibration, trimming, and the two parts of "favored    *)
(* entries", update_bitmap_score and cull_queue.                           *)
(*                                                                         *)
(* A run of the target is abstracted to its result and to the set of bytes *)
(* of the bitmap it sets.  Both are left open, also for runs of the same   *)
(* test case: the server keeps state between runs, so that they vary.      *)
(* With NewCounts, bytes that were seen may have a new hit count in a run. *)
(* Crashes and hangs are saved without a change of the queue and are left  *)
(* out.  The schedule is the default one (FAST), old_seed_selection and    *)
(* cycle_schedules are off.                                                *)
(***************************************************************************)
EXTENDS Naturals, FiniteSets

CONSTANTS SeedCount,   \* number of seeds
          MaxItems,    \* bound on queued_items
          MapSize,     \* size of the bitmap
          Lens,        \* lengths of test cases
          Times,       \* execution times
          CalChances,  \* CAL_CHANCES
          LongQueue,   \* a longer queue is skipped through (10)
          Refused,     \* the entries the mutator cannot parse
          MayTrim,     \* disable_trim is off
          NewCounts    \* whether a byte seen before may have a new hit count

ASSUME QueueAssumption ==
  /\ SeedCount \in Nat \ {0}
  /\ MaxItems \in Nat /\ SeedCount <= MaxItems
  /\ MapSize \in Nat \ {0}
  /\ Lens \subseteq Nat \ {0} /\ Lens # {}
  /\ Times \subseteq Nat \ {0}
  /\ CalChances \in Nat \ {0}
  /\ LongQueue \in Nat

ASSUME SwitchAssumption == MayTrim \in BOOLEAN /\ NewCounts \in BOOLEAN

Ids == 1 .. MaxItems      \* queue_buf
Bytes == 1 .. MapSize     \* the bitmap
NoEntry == 0

(* What a run sets in the bitmap: something, or it has no instrumentation. *)
Traces == SUBSET Bytes \ {{}}

VARIABLES queued_items,
          len, exec_us, bitmap_size, exec_cksum, cal_failed, trim_done,
          was_fuzzed, disabled, favored,  \* sets of entries
          fuzzed_before,   \* the entries with fuzz_level > 0
          top_rated, tc_ref, trace_mini,  \* {} for no trace_mini
          score_changed,
          seen,            \* bytes that are not virgin any more
          active_items, pending_not_fuzzed, queued_favored, pending_favored,
          ready_for_splicing_count,
          table,           \* entries the alias table may yield
          reinit_table, prev_queued_items,
          queue_cur,
          pc, caller,      \* where afl-fuzz is, and where it returns to
          subj,            \* q of calibrate_case and update_bitmap_score
          res,             \* result of calibrate_case
          trace_bits, byte, temp_v

entryVars == <<len, exec_us, bitmap_size, exec_cksum, cal_failed, trim_done>>
rateVars == <<top_rated, tc_ref, trace_mini, score_changed>>
favVars == <<favored, queued_favored, pending_favored>>
countVars == <<queued_items, disabled, active_items, ready_for_splicing_count>>
fuzzedVars == <<was_fuzzed, fuzzed_before, pending_not_fuzzed>>
pickVars == <<table, reinit_table, prev_queued_items, queue_cur>>
callVars == <<caller, subj, res, trace_bits, byte, temp_v>>
vars == <<entryVars, rateVars, favVars, countVars, fuzzedVars, pickVars, seen, pc, callVars>>

Items == 1 .. queued_items

TypeOK ==
  /\ queued_items \in 0 .. MaxItems
  /\ len \in [Ids -> Nat] /\ exec_us \in [Ids -> Nat] /\ bitmap_size \in [Ids -> Nat]
  /\ exec_cksum \in [Ids -> SUBSET Bytes]
  /\ cal_failed \in [Ids -> Nat]
  /\ trim_done \subseteq Ids /\ was_fuzzed \subseteq Ids /\ disabled \subseteq Ids
  /\ favored \subseteq Ids /\ fuzzed_before \subseteq Ids
  /\ top_rated \in [Bytes -> Ids \union {NoEntry}]
  /\ tc_ref \in [Ids -> Nat]
  /\ trace_mini \in [Ids -> SUBSET Bytes]
  /\ score_changed \in 0 .. 1 /\ reinit_table \in 0 .. 1
  /\ seen \subseteq Bytes
  /\ active_items \in Nat /\ pending_not_fuzzed \in Nat
  /\ queued_favored \in Nat /\ pending_favored \in Nat
  /\ ready_for_splicing_count \in Nat
  /\ table \subseteq Ids /\ prev_queued_items \in 0 .. MaxItems
  /\ queue_cur \in Ids \union {NoEntry}
  /\ pc \in {"calibrate", "score", "dedup", "loop", "cull", "select", "fuzz_one",
             "trim", "mutate", "abandon", "finish", "fatal"}
  /\ caller \in {"dry_run", "fuzz_one", "save", "trim"}
  /\ subj \in Ids
  /\ res \in {"ok", "nobits"}
  /\ trace_bits \subseteq Bytes /\ temp_v \subseteq Bytes
  /\ byte \in 1 .. MapSize + 1

(* read_testcases has added the seeds; the dry run starts.                 *)
Init ==
  /\ queued_items = SeedCount
  /\ len \in {f \in [Ids -> Lens \union {0}] : \A q \in Ids : f[q] = 0 <=> q > SeedCount}
  /\ exec_us = [q \in Ids |-> 0] /\ bitmap_size = [q \in Ids |-> 0]
  /\ exec_cksum = [q \in Ids |-> {}]
  /\ cal_failed = [q \in Ids |-> 0]
  /\ trim_done = {} /\ was_fuzzed = {} /\ disabled = {} /\ favored = {} /\ fuzzed_before = {}
  /\ top_rated = [b \in Bytes |-> NoEntry]
  /\ tc_ref = [q \in Ids |-> 0]
  /\ trace_mini = [q \in Ids |-> {}]
  /\ score_changed = 0 /\ reinit_table = 0
  /\ seen = {}
  /\ active_items = SeedCount /\ pending_not_fuzzed = SeedCount
  /\ queued_favored = 0 /\ pending_favored = 0
  /\ ready_for_splicing_count = Cardinality({q \in Ids : len[q] > 4})
  /\ table = {} /\ prev_queued_items = 0
  /\ queue_cur = NoEntry
  /\ pc = "calibrate" /\ caller = "dry_run" /\ subj = 1 /\ res = "ok"
  /\ trace_bits = {} /\ byte = 1 /\ temp_v = {}

Goto(l) == pc' = l
-----------------------------------------------------------------------------
(* calibrate_case: several runs of subj.                                   *)

(* The dry run goes on with the next seed.                                 *)
NextSeed ==
  IF subj < SeedCount
  THEN subj' = subj + 1 /\ Goto("calibrate")
  ELSE UNCHANGED subj /\ Goto("dedup")

(* All runs were good: the first set the bytes first, the last the bytes   *)
(* last, and all of them together the bytes all.                           *)
CalibrateGood(first, last, all, us) ==
  /\ pc = "calibrate"
  /\ first \union last \subseteq all
  /\ exec_cksum' = [exec_cksum EXCEPT ![subj] = first]
  /\ seen' = seen \union all
  /\ \/ res' = "ok" /\ (NewCounts \/ ~(all \subseteq seen))
     \/ res' = "nobits" /\ all \subseteq seen
  /\ exec_us' = [exec_us EXCEPT ![subj] = us]
  /\ bitmap_size' = [bitmap_size EXCEPT ![subj] = Cardinality(last)]
  /\ cal_failed' = [cal_failed EXCEPT ![subj] = 0]
  /\ trace_bits' = last
  /\ byte' = 1
  /\ Goto("score")
  /\ UNCHANGED <<len, trim_done, rateVars, favVars, countVars, fuzzedVars, pickVars,
                 caller, subj, temp_v>>

(* A run failed; the runs before it set the bytes good.  An exec_cksum     *)
(* that they set is not used any more.                                     *)
Failed(good, chances) ==
  /\ pc = "calibrate"
  /\ seen' = seen \union good
  /\ cal_failed' = [cal_failed EXCEPT ![subj] = chances]
  /\ UNCHANGED <<len, exec_us, bitmap_size, exec_cksum, trim_done, rateVars, favVars, pickVars,
                 caller, res, trace_bits, byte, temp_v>>

(* perform_dry_run: a seed that times out or crashes is disabled.          *)
SeedFails(good, chances) ==
  /\ caller = "dry_run"
  /\ Failed(good, chances)
  /\ disabled' = disabled \union {subj}
  /\ was_fuzzed' = was_fuzzed \union {subj}
  /\ pending_not_fuzzed' = pending_not_fuzzed - 1
  /\ active_items' = active_items - 1
  /\ NextSeed
  /\ UNCHANGED <<queued_items, ready_for_splicing_count, fuzzed_before>>

SeedTimesOut(good) == SeedFails(good, CalChances)

SeedCrashes(good) == SeedFails(good, cal_failed[subj] + 1)

(* fuzz_one abandons the entry, save_if_interesting does not mind.         *)
CalibrateFails(good) ==
  /\ caller \in {"fuzz_one", "save"}
  /\ Failed(good, cal_failed[subj] + 1)
  /\ Goto(IF caller = "save" THEN "mutate" ELSE "abandon")
  /\ UNCHANGED <<countVars, fuzzedVars, subj>>

(* The target cannot be run, or a seed has no instrumentation.             *)
Fatal ==
  /\ pc \in {"calibrate", "trim", "mutate"}
  /\ Goto("fatal")
  /\ UNCHANGED <<entryVars, rateVars, favVars, countVars, fuzzedVars, pickVars, seen, callVars>>
-----------------------------------------------------------------------------
(* update_bitmap_score, one byte of the bitmap after the other.            *)

fav_factor(q) == exec_us[q] * len[q]

(* subj takes the byte: there is no winner yet, or no better one.          *)
Wins == top_rated[byte] = NoEntry \/ fav_factor(subj) <= fav_factor(top_rated[byte])

(* Mutant: the reference count of the entry that loses is kept.            *)
ReleasedNever == tc_ref

(* The winner so far loses a reference, and its trace with the last one.   *)
Released ==
  IF top_rated[byte] = NoEntry THEN tc_ref
  ELSE [tc_ref EXCEPT ![top_rated[byte]] = @ - 1]

Discarded == [q \in Ids |-> IF q = top_rated[byte] /\ Released[q] = 0 THEN {} ELSE trace_mini[q]]

WinsByte ==
  /\ top_rated' = [top_rated EXCEPT ![byte] = subj]
  /\ tc_ref' = [Released EXCEPT ![subj] = @ + 1]
  /\ trace_mini' = IF Discarded[subj] = {} THEN [Discarded EXCEPT ![subj] = trace_bits]
                   ELSE Discarded
  /\ score_changed' = 1

ScoreByte ==
  /\ pc = "score"
  /\ byte <= MapSize
  /\ byte' = byte + 1
  /\ IF byte \in trace_bits /\ Wins THEN WinsByte ELSE UNCHANGED rateVars
  /\ UNCHANGED <<entryVars, favVars, countVars, fuzzedVars, pickVars, seen, pc,
                 caller, subj, res, trace_bits, temp_v>>

(* Back to the caller.  fuzz_one takes "nobits" for a failure.             *)
Scored ==
  /\ pc = "score"
  /\ byte > MapSize
  /\ trace_bits' = {} /\ byte' = 1 /\ res' = "ok"
  /\ IF caller = "dry_run" THEN NextSeed
     ELSE /\ UNCHANGED subj
          /\ Goto(CASE caller = "fuzz_one" -> IF res = "ok" THEN "trim" ELSE "abandon"
                    [] caller = "trim" -> "trim"
                    [] caller = "save" -> "mutate")
  /\ UNCHANGED <<entryVars, rateVars, favVars, countVars, fuzzedVars, pickVars, seen,
                 caller, temp_v>>
-----------------------------------------------------------------------------
(* The end of perform_dry_run.                                             *)

Calibrated == {q \in Items \ disabled : cal_failed[q] = 0}

(* Of the seeds with the same trace the first of the shortest is kept.     *)
Duplicates ==
  {p \in Calibrated : \E q \in Calibrated \ {p} :
     /\ exec_cksum[q] = exec_cksum[p]
     /\ len[q] < len[p] \/ (len[q] = len[p] /\ q < p)}

Dedup ==
  /\ pc = "dedup"
  /\ disabled' = disabled \union Duplicates
  /\ was_fuzzed' = was_fuzzed \union Duplicates
  /\ pending_not_fuzzed' = pending_not_fuzzed - Cardinality(Duplicates)
  /\ active_items' = active_items - Cardinality(Duplicates)
  /\ Goto(IF pending_not_fuzzed' = 0 THEN "fatal" ELSE "loop")
  /\ UNCHANGED <<entryVars, rateVars, favVars, queued_items, ready_for_splicing_count,
                 fuzzed_before, pickVars, seen, callVars>>
-----------------------------------------------------------------------------
(* cull_queue, one byte of the bitmap after the other.                     *)

CullNothing ==
  /\ pc = "loop"
  /\ score_changed = 0
  /\ Goto("select")
  /\ UNCHANGED <<entryVars, rateVars, favVars, countVars, fuzzedVars, pickVars, seen, callVars>>

CullStart ==
  /\ pc = "loop"
  /\ score_changed = 1
  /\ score_changed' = 0
  /\ favored' = {} /\ queued_favored' = 0 /\ pending_favored' = 0
  /\ temp_v' = Bytes /\ byte' = 1
  /\ Goto("cull")
  /\ UNCHANGED <<entryVars, top_rated, tc_ref, trace_mini, countVars, fuzzedVars, pickVars, seen,
                 caller, subj, res, trace_bits>>

(* Mutant: the bytes of a winner are taken out, but it is not favored.     *)
FavorsFuzzedOnly(q) ==
  /\ temp_v' = temp_v \ trace_mini[q]
  /\ IF q \in favored \union was_fuzzed THEN UNCHANGED favVars
     ELSE /\ favored' = favored \union {q}
          /\ queued_favored' = queued_favored + 1
          /\ pending_favored' = pending_favored + 1

(* Mutant: a favored entry is pending also when it was fuzzed before.      *)
FavorsPending(q) ==
  /\ temp_v' = temp_v \ trace_mini[q]
  /\ IF q \in favored THEN UNCHANGED favVars
     ELSE /\ favored' = favored \union {q}
          /\ queued_favored' = queued_favored + 1
          /\ pending_favored' = pending_favored + 1

(* A byte that no favored entry sets: its winner becomes favored.          *)
Favors(q) ==
  /\ temp_v' = temp_v \ trace_mini[q]
  /\ IF q \in favored THEN UNCHANGED favVars
     ELSE /\ favored' = favored \union {q}
          /\ queued_favored' = queued_favored + 1
          /\ pending_favored' = IF q \in was_fuzzed THEN pending_favored ELSE pending_favored + 1

CullByte ==
  /\ pc = "cull"
  /\ byte <= MapSize
  /\ byte' = byte + 1
  /\ IF top_rated[byte] # NoEntry /\ byte \in temp_v
     THEN Favors(top_rated[byte])
     ELSE UNCHANGED <<favVars, temp_v>>
  /\ UNCHANGED <<entryVars, rateVars, countVars, fuzzedVars, pickVars, seen, pc,
                 caller, subj, res, trace_bits>>

CullEnd ==
  /\ pc = "cull"
  /\ byte > MapSize
  /\ byte' = 1 /\ temp_v' = {}
  /\ Goto("select")
  /\ UNCHANGED <<entryVars, rateVars, favVars, countVars, fuzzedVars, pickVars, seen,
                 caller, subj, res, trace_bits>>
-----------------------------------------------------------------------------
(* The choice of the next entry.                                           *)

Enabled == Items \ disabled

(* compute_weight divides by averages over the enabled entries.  It yields *)
(* no number for an entry without a bitmap size (log(0), once it is in the *)
(* average), and for all entries when the average is zero (all logarithms  *)
(* or all reference counts are).                                           *)
NotANumber ==
  \/ \E q \in Enabled : bitmap_size[q] = 0
  \/ \A q \in Enabled : bitmap_size[q] = 1
  \/ \A q \in Enabled : tc_ref[q] = 0

(* Weights are positive, and 0 for disabled entries.  When their sum is    *)
(* not a number no comparison holds and every slot keeps its own entry.    *)
create_alias_table == IF NotANumber THEN Items ELSE Enabled

(* Mutant: the table is only rebuilt after an entry was fuzzed first.      *)
RebuildOnlyReinit == reinit_table = 1 \/ prev_queued_items = 0

Rebuild == prev_queued_items < queued_items \/ reinit_table = 1

Select(q) ==
  /\ pc = "select"
  /\ table' = IF Rebuild THEN create_alias_table ELSE table
  /\ prev_queued_items' = IF Rebuild THEN queued_items ELSE prev_queued_items
  /\ reinit_table' = 0
  /\ q \in table'
  /\ queue_cur' = q
  /\ Goto("fuzz_one")
  /\ UNCHANGED <<entryVars, rateVars, favVars, countVars, fuzzedVars, seen, callVars>>
-----------------------------------------------------------------------------
(* fuzz_one_original, with a custom mutator and nothing else.              *)

MaySkip ==
  \/ pending_favored > 0 /\ (queue_cur \in fuzzed_before \/ queue_cur \notin favored)
  \/ pending_favored = 0 /\ queue_cur \notin favored /\ queued_items > LongQueue

(* Mutant: the skip rules leave nothing to chance.                         *)
AcceptsStrict(q) == q \notin Refused /\ ~MaySkip

(* afl_custom_queue_get.                                                   *)
Accepts(q) == q \notin Refused

Skip ==
  /\ pc = "fuzz_one"
  /\ ~Accepts(queue_cur) \/ MaySkip
  /\ Goto("select")
  /\ UNCHANGED <<entryVars, rateVars, favVars, countVars, fuzzedVars, pickVars, seen, callVars>>

(* An entry whose calibration failed is calibrated again, or given up.     *)
Enter(q) ==
  /\ pc = "fuzz_one"
  /\ q = queue_cur
  /\ Accepts(q)
  /\ IF cal_failed[q] = 0
     THEN Goto("trim") /\ UNCHANGED <<exec_cksum, caller, subj>>
     ELSE IF cal_failed[q] < CalChances
     THEN /\ Goto("calibrate") /\ caller' = "fuzz_one" /\ subj' = q
          /\ exec_cksum' = [exec_cksum EXCEPT ![q] = {}]
     ELSE Goto("abandon") /\ UNCHANGED <<exec_cksum, caller, subj>>
  /\ UNCHANGED <<len, exec_us, bitmap_size, cal_failed, trim_done,
                 rateVars, favVars, countVars, fuzzedVars, pickVars, seen,
                 res, trace_bits, byte, temp_v>>

Trims == MayTrim /\ queue_cur \notin trim_done

(* Mutant: an entry that becomes too short is still counted.               *)
ResizeKeepsReady(l) ==
  /\ len' = [len EXCEPT ![queue_cur] = l]
  /\ UNCHANGED ready_for_splicing_count

Resize(l) ==
  /\ len' = [len EXCEPT ![queue_cur] = l]
  /\ ready_for_splicing_count' = IF l <= 4 /\ len[queue_cur] > 4
                                 THEN ready_for_splicing_count - 1
                                 ELSE ready_for_splicing_count

(* trim_case with the mutator's trimmer replaced the entry by one with the *)
(* same trace, seldom a longer one; the trace is scored once more.         *)
trim_case(l) ==
  /\ pc = "trim"
  /\ Trims
  /\ Resize(l)
  /\ trim_done' = trim_done \union {queue_cur}
  /\ trace_bits' = exec_cksum[queue_cur]
  /\ byte' = 1 /\ subj' = queue_cur /\ caller' = "trim"
  /\ Goto("score")
  /\ UNCHANGED <<exec_us, bitmap_size, exec_cksum, cal_failed, rateVars, favVars,
                 queued_items, disabled, active_items, fuzzedVars, pickVars, seen, res, temp_v>>

TrimNothing ==
  /\ pc = "trim"
  /\ Trims
  /\ trim_done' = trim_done \union {queue_cur}
  /\ UNCHANGED <<len, exec_us, bitmap_size, exec_cksum, cal_failed, rateVars, favVars,
                 countVars, fuzzedVars, pickVars, seen, pc, callVars>>

(* perf_score is 0 for disabled entries, and positive otherwise.           *)
Begin ==
  /\ pc = "trim"
  /\ ~Trims
  /\ Goto(IF queue_cur \in disabled /\ active_items > 1 THEN "abandon" ELSE "mutate")
  /\ UNCHANGED <<entryVars, rateVars, favVars, countVars, fuzzedVars, pickVars, seen, callVars>>

(* save_if_interesting: a run that set new bytes, or old ones to new hit   *)
(* counts.  add_to_queue.                                                  *)
Save(trace, l) ==
  /\ pc = "mutate"
  /\ NewCounts \/ ~(trace \subseteq seen)
  /\ queued_items < MaxItems
  /\ seen' = seen \union trace
  /\ queued_items' = queued_items + 1
  /\ len' = [len EXCEPT ![queued_items + 1] = l]
  /\ active_items' = active_items + 1
  /\ pending_not_fuzzed' = pending_not_fuzzed + 1
  /\ ready_for_splicing_count' = IF l > 4 THEN ready_for_splicing_count + 1
                                 ELSE ready_for_splicing_count
  /\ subj' = queued_items + 1 /\ caller' = "save"
  /\ Goto("calibrate")
  /\ UNCHANGED <<exec_us, bitmap_size, exec_cksum, cal_failed, trim_done, rateVars, favVars,
                 disabled, was_fuzzed, fuzzed_before, pickVars, res, trace_bits, byte, temp_v>>

(* The announced runs were made, or common_fuzz_stuff gives up after too   *)
(* many timeouts in a row or at the user's request.                        *)
MutationsEnd ==
  /\ pc = "mutate"
  /\ pc' \in {"finish", "abandon"}
  /\ UNCHANGED <<entryVars, rateVars, favVars, countVars, fuzzedVars, pickVars, seen, callVars>>

(* Mutant: the entry is counted again although it was fuzzed before.       *)
FirstTimeAlways == cal_failed[queue_cur] = 0 /\ queue_cur \notin disabled

FirstTime ==
  cal_failed[queue_cur] = 0 /\ queue_cur \notin was_fuzzed /\ queue_cur \notin disabled

(* abandon_entry.  After a skip the next entry is chosen without a cull.   *)
Leave ==
  /\ pc \in {"finish", "abandon"}
  /\ fuzzed_before' = fuzzed_before \union {queue_cur}
  /\ IF FirstTime
     THEN /\ was_fuzzed' = was_fuzzed \union {queue_cur}
          /\ pending_not_fuzzed' = pending_not_fuzzed - 1
          /\ reinit_table' = 1
          /\ pending_favored' = IF queue_cur \in favored THEN pending_favored - 1
                                ELSE pending_favored
     ELSE UNCHANGED <<was_fuzzed, pending_not_fuzzed, reinit_table, pending_favored>>
  /\ Goto(IF pc = "finish" THEN "loop" ELSE "select")
  /\ UNCHANGED <<entryVars, rateVars, favored, queued_favored, countVars,
                 table, prev_queued_items, queue_cur, seen, callVars>>
-----------------------------------------------------------------------------
Finished == pc = "fatal" /\ UNCHANGED vars

(* The steps afl-fuzz is bound to take: each loop and each stage ends.     *)
Step ==
  \/ \E first, last, all \in Traces, us \in Times : CalibrateGood(first, last, all, us)
  \/ \E good \in SUBSET Bytes : SeedTimesOut(good) \/ SeedCrashes(good) \/ CalibrateFails(good)
  \/ ScoreByte \/ Scored \/ Dedup
  \/ CullNothing \/ CullStart \/ CullByte \/ CullEnd
  \/ \E l \in Lens : trim_case(l)
  \/ \E q \in Ids : Select(q)
  \/ Skip \/ TrimNothing \/ Begin \/ MutationsEnd \/ Leave

Next ==
  \/ Finished
  \/ Fatal
  \/ \E q \in Ids : Enter(q)
  \/ \E trace \in Traces, l \in Lens : Save(trace, l)
  \/ Step

Spec == Init /\ [][Next]_vars

(* afl-fuzz does not pause, and every run of the target ends, at the       *)
(* latest when its time is up: calibrations and stages end.  The selection *)
(* draws every entry of the table, and fuzz_one goes past its skip rules,  *)
(* with a probability that stays above zero.                               *)
Fairness ==
  /\ WF_vars(Step)
  /\ \A q \in Ids \ Refused : SF_vars(Select(q)) /\ SF_vars(Enter(q))

FairSpec == Spec /\ Fairness
-----------------------------------------------------------------------------
(* An entry has as many references as bytes it won, and its trace is kept  *)
(* as long as it has one: cull_queue reads the trace of every winner.      *)
RefsExact ==
  \A q \in Ids :
     /\ tc_ref[q] = Cardinality({b \in Bytes : top_rated[b] = q})
     /\ trace_mini[q] # {} <=> tc_ref[q] > 0

(* The counters that steer fuzz_one are the numbers they stand for, with   *)
(* seeds disabled in the dry run, entries that turn favored after they     *)
(* were fuzzed, calibrations that fail, and entries trimmed on the way.    *)
CountersExact ==
  /\ active_items = Cardinality(Items \ disabled)
  /\ pending_not_fuzzed = Cardinality(Items \ was_fuzzed)
  /\ queued_favored = Cardinality(favored)
  /\ pending_favored = Cardinality(favored \ was_fuzzed)

(* The splicing loop of the custom stage draws entries until it finds      *)
(* another one of at least 4 bytes.  When it is entered there is one, also *)
(* after entries were trimmed.                                             *)
SplicePartner ==
  pc = "mutate" /\ ready_for_splicing_count > 1 =>
     \E q \in Items \ {queue_cur} : len[q] >= 4

(* "A minimal set of paths that trigger all the bits": after cull_queue,   *)
(* and as long as no score changes, each byte that has a winner is in the  *)
(* trace of a favored entry, or its winner is favored; and only winners    *)
(* are favored.                                                            *)
FavoredCover ==
  score_changed = 0 /\ pc # "cull" =>
     /\ \A b \in Bytes : top_rated[b] # NoEntry =>
           top_rated[b] \in favored \/ \E q \in favored : b \in trace_mini[q]
     /\ \A q \in favored : tc_ref[q] > 0

(* The table from which the current entry was drawn could have yielded     *)
(* every entry that is not disabled: none is left out of the selection,    *)
(* however entries are saved, abandoned and skipped in between.            *)
TableComplete ==
  pc = "fuzz_one" => Items \ disabled \subseteq table

(* Every entry that is not disabled and that the mutator can parse is      *)
(* taken up by fuzz_one sooner or later (unless the target cannot be run   *)
(* any more), also when others are saved and favored before its turn.  The *)
(* runs of the target are assumed to end (Fairness); that a plan may keep  *)
(* afl-fuzz waiting is shown for the loop with the driver (FuzzLoop).      *)
TakenUp ==
  \A q \in Ids \ Refused :
     q \in Items \ disabled /\ pc = "loop" ~> q \in fuzzed_before \/ pc = "fatal"
=============================================================================
