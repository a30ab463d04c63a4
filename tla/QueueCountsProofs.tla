-------------------------- MODULE QueueCountsProofs --------------------------
(***************************************************************************)
(* The inductive invariant of the queue, and that every step keeps what it *)
(* says of the control states, the reference counts, the counters and the  *)
(* entries ready for splicing.                                             *)
(***************************************************************************)
EXTENDS AflQueue, FiniteSetTheorems, TLAPS

(* During perform_dry_run.                                                 *)
Dry == pc = "dedup" \/ (caller = "dry_run" /\ pc \in {"calibrate", "score"})

(* fuzz_one works on an entry.                                             *)
Busy ==
  \/ pc \in {"fuzz_one", "trim", "mutate", "abandon", "finish"}
  \/ caller # "dry_run" /\ pc \in {"calibrate", "score"}

(* Only entries of the queue are marked, referred to and worked on; and    *)
(* seeds are disabled one after the other, before any is favored.          *)
Shape ==
  /\ SeedCount <= queued_items
  /\ disabled \subseteq Items /\ was_fuzzed \subseteq Items
  /\ favored \subseteq Items /\ trim_done \subseteq Items
  /\ table \subseteq Items /\ prev_queued_items <= queued_items
  /\ \A b \in Bytes : top_rated[b] \in Items \union {NoEntry}
  /\ subj \in Items
  /\ Busy => queue_cur \in Items
  /\ Dry => was_fuzzed = disabled /\ favored = {}
  /\ Dry /\ pc # "dedup" => \A q \in disabled : q < subj

Long == {q \in Items : len[q] > 4}

(* The count of entries for splicing misses at most entries that became    *)
(* longer when they were trimmed.                                          *)
ReadyBounds ==
  /\ ready_for_splicing_count <= Cardinality(Long)
  /\ ready_for_splicing_count >= Cardinality(Long \ trim_done)

Covered(b) == top_rated[b] \in favored \/ \E q \in favored : b \in trace_mini[q]

(* FavoredCover while cull_queue is under way.                             *)
CullInv ==
  pc = "cull" =>
     /\ score_changed = 0
     /\ \A b \in Bytes : b < byte /\ top_rated[b] # NoEntry => Covered(b)
     /\ \A b \in Bytes \ temp_v : \E q \in favored : b \in trace_mini[q]
     /\ \A q \in favored : tc_ref[q] > 0

TableInv ==
  /\ prev_queued_items = queued_items => Items \ disabled \subseteq table
  /\ pc = "fuzz_one" => prev_queued_items = queued_items

Inv ==
  /\ TypeOK /\ Shape /\ RefsExact /\ CountersExact /\ ReadyBounds
  /\ FavoredCover /\ CullInv /\ TableInv
-----------------------------------------------------------------------------
LEMMA IdsFinite == \A S : S \subseteq Ids => IsFiniteSet(S) /\ Cardinality(S) \in Nat
<1>1. IsFiniteSet(Ids)
  BY FS_Interval, QueueAssumption DEF Ids
<1> QED BY <1>1, FS_Subset, FS_CardinalityType

LEMMA BytesFinite == \A S : S \subseteq Bytes => IsFiniteSet(S) /\ Cardinality(S) \in Nat
<1>1. IsFiniteSet(Bytes)
  BY FS_Interval, QueueAssumption DEF Bytes
<1> QED BY <1>1, FS_Subset, FS_CardinalityType

LEMMA ItemsIds == TypeOK => Items \subseteq Ids
BY QueueAssumption DEF TypeOK, Items, Ids

(* A byte changes its winner: the references stay exact.                   *)
LEMMA RefsWin ==
  ASSUME TypeOK, RefsExact, byte \in Bytes, byte \in trace_bits, WinsByte
  PROVE  RefsExact' /\ tc_ref' \in [Ids -> Nat] /\ trace_mini' \in [Ids -> SUBSET Bytes]
<1> DEFINE p == top_rated[byte]
           Won(q) == {b \in Bytes : top_rated[b] = q}
           WonThen(q) == {b \in Bytes : top_rated'[b] = q}
<1>1. \A q \in Ids : IsFiniteSet(Won(q)) /\ tc_ref[q] = Cardinality(Won(q))
  BY BytesFinite DEF RefsExact
<1>2. WonThen(subj) = Won(subj) \union {byte} /\ \A q \in Ids \ {subj} : WonThen(q) = Won(q) \ {byte}
  BY DEF WinsByte, TypeOK
<1>3. subj \in Ids /\ 0 \notin Ids /\ p \in Ids \union {0}
  BY DEF TypeOK, Ids, NoEntry
<1>4. Cardinality(WonThen(subj)) = IF p = subj THEN tc_ref[subj] ELSE tc_ref[subj] + 1
  <2>1. byte \in Won(subj) <=> p = subj
    OBVIOUS
  <2> QED BY <1>1, <1>2, <1>3, <2>1, FS_AddElement, ZenonT(30)
<1>5. ASSUME NEW q \in Ids, q # subj
      PROVE  Cardinality(WonThen(q)) = IF p = q THEN tc_ref[q] - 1 ELSE tc_ref[q]
  <2>1. byte \in Won(q) <=> p = q
    OBVIOUS
  <2>2. Cardinality(Won(q) \ {byte}) =
          IF byte \in Won(q) THEN Cardinality(Won(q)) - 1 ELSE Cardinality(Won(q))
    BY <1>1, FS_RemoveElement, ZenonT(30)
  <2>3. WonThen(q) = Won(q) \ {byte}
    BY <1>2, <1>5
  <2> QED BY <1>1, <2>1, <2>2, <2>3
<1>6. \A q \in Ids : tc_ref[q] \in Nat
  BY DEF TypeOK
<1>7. ASSUME NEW q \in Ids
      PROVE  Released[q] = IF p = q THEN tc_ref[q] - 1 ELSE tc_ref[q]
  BY <1>3, <1>6 DEF Released, TypeOK, NoEntry
<1>8. DOMAIN Released = Ids
  BY DEF Released, TypeOK
<1>9. ASSUME NEW q \in Ids
      PROVE  tc_ref'[q] = IF q = subj THEN Released[q] + 1 ELSE Released[q]
  BY <1>8, <1>3 DEF WinsByte
<1>10. \A q \in Ids : tc_ref'[q] = Cardinality(WonThen(q))
  <2> SUFFICES ASSUME NEW q \in Ids PROVE tc_ref'[q] = Cardinality(WonThen(q))
    OBVIOUS
  <2>1. CASE q = subj
    BY <1>4, <1>6, <1>7, <1>9, <2>1
  <2>2. CASE q # subj
    BY <1>5, <1>6, <1>7, <1>9, <2>2, ZenonT(30)
  <2> QED BY <2>1, <2>2
<1>11. \A q \in Ids : IsFiniteSet(WonThen(q)) /\ Cardinality(WonThen(q)) \in Nat
  BY BytesFinite
<1>12. tc_ref' \in [Ids -> Nat]
  <2>1. tc_ref' = [Released EXCEPT ![subj] = Released[subj] + 1]
    BY DEF WinsByte
  <2>2. Released = [q \in Ids |-> Released[q]]
    BY ZenonT(30) DEF Released, TypeOK
  <2>3. tc_ref' = [q \in Ids |-> tc_ref'[q]]
    BY <2>1, <2>2
  <2> QED BY <1>10, <1>11, <2>3, ZenonT(30)
<1>13. ASSUME NEW q \in Ids
       PROVE  trace_mini'[q] = IF q = subj /\ Discarded[q] = {} THEN trace_bits ELSE Discarded[q]
  BY <1>3 DEF WinsByte, Discarded
<1>14. trace_mini' \in [Ids -> SUBSET Bytes]
  <2>1. Discarded \in [Ids -> SUBSET Bytes]
    BY DEF Discarded, TypeOK
  <2> QED BY <2>1 DEF WinsByte, TypeOK
<1>15. ASSUME NEW q \in Ids
       PROVE  trace_mini'[q] # {} <=> tc_ref'[q] > 0
  <2>1. Discarded[q] = IF q = p /\ Released[q] = 0 THEN {} ELSE trace_mini[q]
    BY DEF Discarded
  <2>2. trace_mini[q] # {} <=> tc_ref[q] > 0
    BY ZenonT(30) DEF RefsExact
  <2>3. p = q => tc_ref[q] > 0
    <3>1. p = q => byte \in Won(q)
      OBVIOUS
    <3>2. Cardinality(Won(q)) = 0 <=> Won(q) = {}
      BY <1>1, FS_EmptySet
    <3> QED BY <1>1, <1>6, <3>1, <3>2
  <2>4. Released[q] \in Nat
    BY <1>6, <1>7, <2>3
  <2>5. Discarded[q] # {} <=> Released[q] > 0
    BY <1>6, <1>7, <2>1, <2>2, <2>3
  <2>6. CASE q = subj
    <3>1. trace_mini'[q] # {}
      BY <1>13, <2>6
    <3>2. tc_ref'[q] > 0
      BY <1>9, <2>4, <2>6
    <3> QED BY <3>1, <3>2
  <2>7. CASE q # subj
    BY <1>9, <1>13, <2>5, <2>7
  <2> QED BY <2>6, <2>7
<1> QED BY <1>10, <1>12, <1>14, <1>15 DEF RefsExact

(* Whether and how a step changes the winners of the bytes.                *)
Rated == pc = "score" /\ byte \in Bytes /\ byte \in trace_bits /\ WinsByte


LEMMA RatesFrame ==
  ASSUME TypeOK, [Next]_vars
  PROVE  Rated \/ UNCHANGED <<top_rated, tc_ref, trace_mini>>
<1> USE DEF rateVars
<1>1. CASE Finished \/ Fatal \/ Skip \/ TrimNothing \/ Begin \/ MutationsEnd \/ Leave
  BY <1>1 DEF Finished, Fatal, Skip, TrimNothing, Begin, MutationsEnd, Leave, vars
<1>2. CASE Scored \/ Dedup \/ CullNothing \/ CullStart \/ CullByte \/ CullEnd
  BY <1>2 DEF Scored, Dedup, CullNothing, CullStart, CullByte, CullEnd
<1>3. ASSUME NEW q \in Ids, Enter(q) \/ Select(q)
      PROVE  UNCHANGED <<top_rated, tc_ref, trace_mini>>
  BY <1>3 DEF Enter, Select
<1>4. ASSUME NEW l \in Lens, trim_case(l) \/ \E trace \in Traces : Save(trace, l)
      PROVE  UNCHANGED <<top_rated, tc_ref, trace_mini>>
  BY <1>4 DEF trim_case, Save
<1>5. ASSUME NEW first \in Traces, NEW last \in Traces, NEW all \in Traces, NEW us \in Times,
             CalibrateGood(first, last, all, us)
      PROVE  UNCHANGED <<top_rated, tc_ref, trace_mini>>
  BY <1>5 DEF CalibrateGood
<1>6. ASSUME NEW good \in SUBSET Bytes,
             SeedTimesOut(good) \/ SeedCrashes(good) \/ CalibrateFails(good)
      PROVE  UNCHANGED <<top_rated, tc_ref, trace_mini>>
  BY <1>6 DEF SeedTimesOut, SeedCrashes, SeedFails, CalibrateFails, Failed
<1>7. CASE ScoreByte
  <2>1. byte \in Nat /\ trace_bits \subseteq Bytes
    BY DEF TypeOK
  <2> QED BY <1>7, <2>1 DEF ScoreByte, Rated
<1>8. CASE UNCHANGED vars
  BY <1>8 DEF vars
<1> QED BY <1>1, <1>2, <1>3, <1>4, <1>5, <1>6, <1>7, <1>8 DEF Next, Step

LEMMA RefsStep ==
  TypeOK /\ RefsExact /\ [Next]_vars =>
     RefsExact' /\ tc_ref' \in [Ids -> Nat] /\ trace_mini' \in [Ids -> SUBSET Bytes]
<1> SUFFICES ASSUME TypeOK, RefsExact, [Next]_vars
             PROVE  RefsExact' /\ tc_ref' \in [Ids -> Nat] /\ trace_mini' \in [Ids -> SUBSET Bytes]
  OBVIOUS
<1>1. CASE Rated
  BY <1>1, RefsWin DEF Rated
<1>2. CASE UNCHANGED <<top_rated, tc_ref, trace_mini>>
  BY <1>2, ZenonT(30) DEF RefsExact, TypeOK
<1> QED BY <1>1, <1>2, RatesFrame

LEMMA ShapeStep == TypeOK /\ Shape /\ [Next]_vars => Shape'
<1> SUFFICES ASSUME TypeOK, Shape, [Next]_vars
             PROVE  Shape'
  OBVIOUS
<1> USE QueueAssumption DEF Shape, Busy, Dry, Items, TypeOK,
        entryVars, rateVars, favVars, countVars, fuzzedVars, pickVars, callVars, Goto
<1>1. CASE Fatal
  BY <1>1 DEF Fatal
<1>2. CASE Skip
  BY <1>2 DEF Skip
<1>3. CASE TrimNothing
  BY <1>3 DEF TrimNothing
<1>4. CASE Begin
  BY <1>4 DEF Begin
<1>5. CASE MutationsEnd
  BY <1>5 DEF MutationsEnd
<1>6. CASE Leave
  BY <1>6, ZenonT(30) DEF Leave, FirstTime
<1>7. CASE Scored
  BY <1>7 DEF Scored, NextSeed
<1>8. CASE Dedup
  <2>1. Duplicates \subseteq Items
    BY DEF Duplicates, Calibrated
  <2> QED BY <1>8, <2>1 DEF Dedup
<1>9. CASE CullNothing
  BY <1>9 DEF CullNothing
<1>10. CASE CullStart
  BY <1>10 DEF CullStart
<1>11. CASE CullByte
  <2>1. byte \in Bytes
    BY <1>11 DEF CullByte, Bytes
  <2>2. favored' \subseteq Items
    <3>1. top_rated[byte] # NoEntry => top_rated[byte] \in Items
      BY <2>1
    <3> QED BY <1>11, <3>1, ZenonT(30) DEF CullByte, Favors
  <2> QED BY <1>11, <2>2 DEF CullByte
<1>12. CASE CullEnd
  BY <1>12 DEF CullEnd
<1>13. ASSUME NEW q \in Ids, Enter(q)
       PROVE  Shape'
  BY <1>13 DEF Enter
<1>14. ASSUME NEW q \in Ids, Select(q)
       PROVE  Shape'
  <2>1. table' \subseteq Items
    BY <1>14 DEF Select, create_alias_table, Enabled
  <2> QED BY <1>14, <2>1 DEF Select
<1>15. ASSUME NEW l \in Lens, trim_case(l)
       PROVE  Shape'
  BY <1>15 DEF trim_case, Resize
<1>16. ASSUME NEW trace \in Traces, NEW l \in Lens, Save(trace, l)
       PROVE  Shape'
  BY <1>16 DEF Save
<1>17. ASSUME NEW first \in Traces, NEW last \in Traces, NEW all \in Traces, NEW us \in Times,
              CalibrateGood(first, last, all, us)
       PROVE  Shape'
  BY <1>17 DEF CalibrateGood
<1>18. ASSUME NEW good \in SUBSET Bytes, NEW chances, SeedFails(good, chances)
       PROVE  Shape'
  BY <1>18 DEF SeedFails, Failed, NextSeed
<1>19. ASSUME NEW good \in SUBSET Bytes, CalibrateFails(good)
       PROVE  Shape'
  BY <1>19 DEF CalibrateFails, Failed
<1>20. CASE ScoreByte
  <2>1. CASE Rated
    BY <1>20, <2>1 DEF ScoreByte, Rated, WinsByte
  <2>2. CASE UNCHANGED <<top_rated, tc_ref, trace_mini>>
    BY <1>20, <2>2 DEF ScoreByte
  <2> QED BY <2>1, <2>2, RatesFrame
<1>21. CASE Finished \/ UNCHANGED vars
  BY <1>21, ZenonT(30) DEF Finished, vars
<1> QED
  BY <1>1, <1>2, <1>3, <1>4, <1>5, <1>6, <1>7, <1>8, <1>9, <1>10, <1>11, <1>12, <1>13, <1>14,
     <1>15, <1>16, <1>17, <1>18, <1>19, <1>20, <1>21, ZenonT(30)
  DEF Next, Step, SeedTimesOut, SeedCrashes

(* The counters: what changes them, and by how much.                       *)
counted == <<queued_items, disabled, was_fuzzed, favored,
             active_items, pending_not_fuzzed, queued_favored, pending_favored>>

LEMMA CountSeedFails ==
  ASSUME TypeOK, Shape, CountersExact, NEW good, NEW chances, SeedFails(good, chances)
  PROVE  CountersExact'
<1>1. /\ subj \in Items /\ subj \notin disabled /\ subj \notin was_fuzzed
      /\ favored = {} /\ UNCHANGED <<queued_items, favored, queued_favored, pending_favored>>
      /\ disabled' = disabled \union {subj} /\ was_fuzzed' = was_fuzzed \union {subj}
      /\ active_items' = active_items - 1 /\ pending_not_fuzzed' = pending_not_fuzzed - 1
  BY DEF SeedFails, Failed, Shape, Dry, favVars, countVars, fuzzedVars, Items, TypeOK
<1>2. IsFiniteSet(Items \ disabled) /\ IsFiniteSet(Items \ was_fuzzed)
  BY IdsFinite, ItemsIds
<1>3. Items' = Items
  BY <1>1 DEF Items
<1>4. Items' \ disabled' = (Items \ disabled) \ {subj} /\ Items' \ was_fuzzed' = (Items \ was_fuzzed) \ {subj}
  BY <1>1, <1>3
<1>5. Cardinality((Items \ disabled) \ {subj}) = Cardinality(Items \ disabled) - 1
  BY <1>1, <1>2, FS_RemoveElement, ZenonT(30)
<1>6. Cardinality((Items \ was_fuzzed) \ {subj}) = Cardinality(Items \ was_fuzzed) - 1
  BY <1>1, <1>2, FS_RemoveElement, ZenonT(30)
<1>7. favored' \ was_fuzzed' = favored \ was_fuzzed
  BY <1>1
<1> QED BY <1>1, <1>4, <1>5, <1>6, <1>7, ZenonT(30) DEF CountersExact

LEMMA CountDedup ==
  ASSUME TypeOK, Shape, CountersExact, Dedup
  PROVE  CountersExact'
<1>1. /\ Duplicates \subseteq Items \ disabled /\ was_fuzzed = disabled
      /\ favored = {} /\ UNCHANGED <<queued_items, favored, queued_favored, pending_favored>>
      /\ disabled' = disabled \union Duplicates /\ was_fuzzed' = was_fuzzed \union Duplicates
      /\ active_items' = active_items - Cardinality(Duplicates)
      /\ pending_not_fuzzed' = pending_not_fuzzed - Cardinality(Duplicates)
  BY DEF Dedup, Duplicates, Calibrated, Shape, Dry, favVars
<1>2. IsFiniteSet(Items \ disabled)
  BY IdsFinite, ItemsIds
<1>3. Items' = Items
  BY <1>1 DEF Items
<1>4. (Items \ disabled) \cap Duplicates = Duplicates
  BY <1>1
<1>5. Cardinality((Items \ disabled) \ Duplicates) = Cardinality(Items \ disabled) - Cardinality(Duplicates)
  BY <1>2, <1>4, FS_Difference
<1>6. Items' \ disabled' = (Items \ disabled) \ Duplicates /\ Items' \ was_fuzzed' = (Items \ disabled) \ Duplicates
  BY <1>1, <1>3
<1>7. favored' \ was_fuzzed' = favored \ was_fuzzed
  BY <1>1
<1> QED BY <1>1, <1>5, <1>6, <1>7 DEF CountersExact

LEMMA CountFavors ==
  ASSUME TypeOK, CountersExact, NEW q \in Ids, Favors(q),
         UNCHANGED <<queued_items, disabled, was_fuzzed, active_items, pending_not_fuzzed>>
  PROVE  CountersExact'
<1>1. CASE q \in favored
  BY <1>1 DEF Favors, favVars, CountersExact, Items
<1>2. CASE q \notin favored
  <2>1. IsFiniteSet(favored) /\ IsFiniteSet(favored \ was_fuzzed)
    BY IdsFinite DEF TypeOK
  <2>2. favored' = favored \union {q} /\ queued_favored' = queued_favored + 1
    BY <1>2 DEF Favors
  <2>3. Cardinality(favored') = Cardinality(favored) + 1
    BY <1>2, <2>1, <2>2, FS_AddElement, ZenonT(30)
  <2>4. Cardinality(favored' \ was_fuzzed') =
          IF q \in was_fuzzed THEN Cardinality(favored \ was_fuzzed)
          ELSE Cardinality(favored \ was_fuzzed) + 1
    <3>1. CASE q \in was_fuzzed
      <4>1. favored' \ was_fuzzed' = favored \ was_fuzzed
        BY <2>2, <3>1
      <4> QED BY <3>1, <4>1
    <3>2. CASE q \notin was_fuzzed
      <4>1. favored' \ was_fuzzed' = (favored \ was_fuzzed) \union {q}
        BY <2>2, <3>2
      <4> QED BY <1>2, <2>1, <3>2, <4>1, FS_AddElement, ZenonT(30)
    <3> QED BY <3>1, <3>2
  <2>5. pending_favored' = IF q \in was_fuzzed THEN pending_favored ELSE pending_favored + 1
    BY <1>2 DEF Favors
  <2> QED BY <2>2, <2>3, <2>4, <2>5 DEF CountersExact, Items
<1> QED BY <1>1, <1>2

LEMMA CountSave ==
  ASSUME TypeOK, Shape, CountersExact, NEW trace, NEW l, Save(trace, l)
  PROVE  CountersExact'
<1> DEFINE n == queued_items + 1
<1>1. /\ UNCHANGED <<disabled, was_fuzzed, favored, queued_favored, pending_favored>>
      /\ active_items' = active_items + 1 /\ pending_not_fuzzed' = pending_not_fuzzed + 1
      /\ queued_items' = n
  BY DEF Save, favVars
<1>2. Items' = Items \union {n} /\ n \notin Items
  BY <1>1 DEF Items, TypeOK
<1>3. n \notin disabled /\ n \notin was_fuzzed
  BY <1>2 DEF Shape
<1>4. IsFiniteSet(Items \ disabled) /\ IsFiniteSet(Items \ was_fuzzed)
  BY IdsFinite, ItemsIds
<1>5. Items' \ disabled' = (Items \ disabled) \union {n} /\ Items' \ was_fuzzed' = (Items \ was_fuzzed) \union {n}
  BY <1>1, <1>2, <1>3
<1>6. Cardinality((Items \ disabled) \union {n}) = Cardinality(Items \ disabled) + 1
  BY <1>2, <1>4, FS_AddElement, SMTT(30)
<1>7. Cardinality((Items \ was_fuzzed) \union {n}) = Cardinality(Items \ was_fuzzed) + 1
  BY <1>2, <1>4, FS_AddElement, SMTT(30)
<1> QED BY <1>1, <1>5, <1>6, <1>7, ZenonT(30) DEF CountersExact

LEMMA CountLeave ==
  ASSUME TypeOK, Shape, CountersExact, Leave
  PROVE  CountersExact'
<1>1. UNCHANGED <<queued_items, disabled, favored, queued_favored, active_items>>
  BY DEF Leave, countVars
<1>2. CASE FirstTime
  <2>1. /\ queue_cur \in Items /\ queue_cur \notin was_fuzzed
        /\ was_fuzzed' = was_fuzzed \union {queue_cur}
        /\ pending_not_fuzzed' = pending_not_fuzzed - 1
        /\ pending_favored' = IF queue_cur \in favored THEN pending_favored - 1 ELSE pending_favored
    BY <1>2 DEF Leave, FirstTime, Shape, Busy
  <2>2. IsFiniteSet(Items \ was_fuzzed) /\ IsFiniteSet(favored \ was_fuzzed)
    BY IdsFinite, ItemsIds DEF TypeOK
  <2>3. Items' = Items
    BY <1>1 DEF Items
  <2>4. /\ Items' \ was_fuzzed' = (Items \ was_fuzzed) \ {queue_cur}
        /\ favored' \ was_fuzzed' = (favored \ was_fuzzed) \ {queue_cur}
    BY <1>1, <2>1, <2>3
  <2>5. Cardinality((Items \ was_fuzzed) \ {queue_cur}) = Cardinality(Items \ was_fuzzed) - 1
    BY <2>1, <2>2, FS_RemoveElement, ZenonT(30)
  <2>6. Cardinality((favored \ was_fuzzed) \ {queue_cur}) =
          IF queue_cur \in favored THEN Cardinality(favored \ was_fuzzed) - 1
          ELSE Cardinality(favored \ was_fuzzed)
    BY <2>1, <2>2, FS_RemoveElement, ZenonT(30)
  <2> QED BY <1>1, <2>1, <2>3, <2>4, <2>5, <2>6 DEF CountersExact
<1>3. CASE ~FirstTime
  <2>1. UNCHANGED <<was_fuzzed, pending_not_fuzzed, pending_favored>>
    BY <1>3 DEF Leave
  <2> QED BY <1>1, <2>1 DEF CountersExact, Items
<1> QED BY <1>2, <1>3

LEMMA CountersStep == TypeOK /\ Shape /\ CountersExact /\ [Next]_vars => CountersExact'
<1> SUFFICES ASSUME TypeOK, Shape, CountersExact, [Next]_vars
             PROVE  CountersExact'
  OBVIOUS
<1> USE DEF favVars, countVars, fuzzedVars, counted
<1>1. ASSUME UNCHANGED counted
      PROVE  CountersExact'
  BY <1>1 DEF CountersExact, Items
<1>2. CASE Finished \/ Fatal \/ Skip \/ TrimNothing \/ Begin \/ MutationsEnd
  BY <1>1, <1>2 DEF Finished, Fatal, Skip, TrimNothing, Begin, MutationsEnd, vars
<1>3. CASE ScoreByte \/ Scored \/ CullNothing \/ CullEnd
  BY <1>1, <1>3 DEF ScoreByte, Scored, CullNothing, CullEnd
<1>4. ASSUME NEW q \in Ids, Enter(q) \/ Select(q)
      PROVE  CountersExact'
  BY <1>1, <1>4 DEF Enter, Select
<1>5. ASSUME NEW l \in Lens, trim_case(l)
      PROVE  CountersExact'
  BY <1>1, <1>5 DEF trim_case
<1>6. ASSUME NEW first \in Traces, NEW last \in Traces, NEW all \in Traces, NEW us \in Times,
             CalibrateGood(first, last, all, us)
      PROVE  CountersExact'
  BY <1>1, <1>6 DEF CalibrateGood
<1>7. ASSUME NEW good \in SUBSET Bytes, CalibrateFails(good)
      PROVE  CountersExact'
  BY <1>1, <1>7 DEF CalibrateFails, Failed
<1>8. ASSUME NEW good \in SUBSET Bytes, SeedTimesOut(good) \/ SeedCrashes(good)
      PROVE  CountersExact'
  BY <1>8, CountSeedFails DEF SeedTimesOut, SeedCrashes
<1>9. CASE CullStart
  <2>1. /\ favored' = {} /\ queued_favored' = 0 /\ pending_favored' = 0
        /\ UNCHANGED <<queued_items, disabled, was_fuzzed, active_items, pending_not_fuzzed>>
    BY <1>9 DEF CullStart
  <2>2. favored' \ was_fuzzed' = {} /\ Cardinality({}) = 0
    BY <2>1, FS_EmptySet
  <2> QED BY <2>1, <2>2 DEF CountersExact, Items
<1>10. CASE CullByte
  <2>1. UNCHANGED <<queued_items, disabled, was_fuzzed, active_items, pending_not_fuzzed>>
    BY <1>10 DEF CullByte
  <2>2. CASE top_rated[byte] # NoEntry /\ byte \in temp_v
    <3>1. byte \in Bytes
      BY <2>2 DEF TypeOK
    <3>2. top_rated[byte] \in Ids
      BY <2>2, <3>1 DEF TypeOK
    <3> QED BY <1>10, <2>1, <2>2, <3>2, CountFavors DEF CullByte
  <2>3. CASE ~(top_rated[byte] # NoEntry /\ byte \in temp_v)
    BY <1>1, <1>10, <2>1, <2>3 DEF CullByte
  <2> QED BY <2>2, <2>3
<1>11. CASE UNCHANGED vars
  BY <1>1, <1>11 DEF vars
<1> QED
  BY <1>2, <1>3, <1>4, <1>5, <1>6, <1>7, <1>8, <1>9, <1>10, <1>11,
     CountDedup, CountSave, CountLeave
  DEF Next, Step
-----------------------------------------------------------------------------
(* The count of entries for splicing.                                      *)
LEMMA ReadySave ==
  ASSUME TypeOK, Shape, ReadyBounds, NEW trace, NEW l \in Lens, Save(trace, l)
  PROVE  ReadyBounds' /\ ready_for_splicing_count' \in Nat
<1> DEFINE n == queued_items + 1
<1>1. /\ n \in Ids /\ queued_items' = n /\ len' = [len EXCEPT ![n] = l] /\ UNCHANGED trim_done
      /\ ready_for_splicing_count' = IF l > 4 THEN ready_for_splicing_count + 1
                                     ELSE ready_for_splicing_count
  BY QueueAssumption DEF Save, TypeOK, Ids
<1>2. Items' = Items \union {n} /\ n \notin Items
  BY <1>1 DEF Items, TypeOK
<1>3. n \notin trim_done /\ n \notin Long
  BY <1>2 DEF Shape, Long
<1>4. Long' = IF l > 4 THEN Long \union {n} ELSE Long
  <2>1. \A q \in Items : len'[q] = len[q]
    BY <1>1, <1>2, ItemsIds DEF TypeOK
  <2>2. len'[n] = l
    BY <1>1 DEF TypeOK
  <2> QED BY <1>2, <2>1, <2>2, SMTT(30) DEF Long
<1>5. IsFiniteSet(Long) /\ IsFiniteSet(Long \ trim_done)
  BY IdsFinite, ItemsIds, SMTT(30) DEF Long
<1>6. CASE l > 4
  <2>1. Cardinality(Long') = Cardinality(Long) + 1
    BY <1>3, <1>4, <1>5, <1>6, FS_AddElement, ZenonT(30)
  <2>2. Long' \ trim_done' = (Long \ trim_done) \union {n}
    BY <1>1, <1>3, <1>4, <1>6
  <2>3. Cardinality(Long' \ trim_done') = Cardinality(Long \ trim_done) + 1
    BY <1>3, <1>5, <2>2, FS_AddElement, ZenonT(30)
  <2>4. Cardinality(Long) \in Nat /\ Cardinality(Long \ trim_done) \in Nat
    BY <1>5, FS_CardinalityType
  <2> QED BY <1>1, <1>6, <2>1, <2>3, <2>4 DEF ReadyBounds, TypeOK
<1>7. CASE ~(l > 4)
  BY <1>1, <1>4, <1>7 DEF ReadyBounds, TypeOK
<1> QED BY <1>6, <1>7, SMTT(30)

LEMMA ReadyTrim ==
  ASSUME TypeOK, Shape, ReadyBounds, NEW l \in Lens, trim_case(l)
  PROVE  ReadyBounds' /\ ready_for_splicing_count' \in Nat
<1>1. /\ queue_cur \in Items /\ queue_cur \notin trim_done
      /\ UNCHANGED queued_items
      /\ len' = [len EXCEPT ![queue_cur] = l] /\ trim_done' = trim_done \union {queue_cur}
      /\ ready_for_splicing_count' = IF l <= 4 /\ len[queue_cur] > 4
                                     THEN ready_for_splicing_count - 1
                                     ELSE ready_for_splicing_count
  BY DEF trim_case, Resize, Trims, Shape, Busy
<1>2. Items' = Items /\ queue_cur \in Ids
  BY <1>1, ItemsIds, SMTT(30) DEF Items
<1>3. Long' = IF l > 4 THEN Long \union {queue_cur} ELSE Long \ {queue_cur}
  BY <1>1, <1>2, ItemsIds DEF Long, TypeOK
<1>4. queue_cur \in Long <=> len[queue_cur] > 4
  BY <1>1 DEF Long
<1>5. Long' \ trim_done' = (Long \ trim_done) \ {queue_cur}
  BY <1>1, <1>3
<1>6. IsFiniteSet(Long) /\ IsFiniteSet(Long \ trim_done)
  BY IdsFinite, ItemsIds DEF Long
<1>7. Cardinality(Long) \in Nat /\ Cardinality(Long \ trim_done) \in Nat
  BY <1>6, FS_CardinalityType
<1>8. Cardinality(Long') = IF l > 4
                           THEN IF queue_cur \in Long THEN Cardinality(Long) ELSE Cardinality(Long) + 1
                           ELSE IF queue_cur \in Long THEN Cardinality(Long) - 1 ELSE Cardinality(Long)
  BY <1>3, <1>6, FS_AddElement, FS_RemoveElement, ZenonT(30)
<1>9. Cardinality(Long' \ trim_done') =
        IF queue_cur \in Long THEN Cardinality(Long \ trim_done) - 1 ELSE Cardinality(Long \ trim_done)
  BY <1>1, <1>5, <1>6, FS_RemoveElement, ZenonT(30)
<1>10. l \in Nat
  BY QueueAssumption
<1>11. IsFiniteSet(Long' \ trim_done')
  BY <1>5, <1>6, FS_RemoveElement
<1>12. Cardinality(Long' \ trim_done') \in Nat
  BY <1>11, FS_CardinalityType
<1> QED BY <1>1, <1>4, <1>7, <1>8, <1>9, <1>10, <1>12, SMTT(30) DEF ReadyBounds, TypeOK

LEMMA ReadyStep ==
  TypeOK /\ Shape /\ ReadyBounds /\ [Next]_vars => ReadyBounds' /\ ready_for_splicing_count' \in Nat
<1> SUFFICES ASSUME TypeOK, Shape, ReadyBounds, [Next]_vars
             PROVE  ReadyBounds' /\ ready_for_splicing_count' \in Nat
  OBVIOUS
<1> USE DEF entryVars, countVars
<1>1. ASSUME UNCHANGED <<queued_items, len, trim_done, ready_for_splicing_count>>
      PROVE  ReadyBounds' /\ ready_for_splicing_count' \in Nat
  BY <1>1, SMTT(30) DEF ReadyBounds, Long, Items, TypeOK
<1>2. CASE Finished \/ Fatal \/ Skip \/ Begin \/ MutationsEnd \/ Leave
  BY <1>1, <1>2 DEF Finished, Fatal, Skip, Begin, MutationsEnd, Leave, vars
<1>3. CASE ScoreByte \/ Scored \/ Dedup \/ CullNothing \/ CullStart \/ CullByte \/ CullEnd
  BY <1>1, <1>3 DEF ScoreByte, Scored, Dedup, CullNothing, CullStart, CullByte, CullEnd
<1>4. ASSUME NEW q \in Ids, Enter(q) \/ Select(q)
      PROVE  ReadyBounds' /\ ready_for_splicing_count' \in Nat
  BY <1>1, <1>4 DEF Enter, Select
<1>5. ASSUME NEW first \in Traces, NEW last \in Traces, NEW all \in Traces, NEW us \in Times,
             CalibrateGood(first, last, all, us)
      PROVE  ReadyBounds' /\ ready_for_splicing_count' \in Nat
  BY <1>1, <1>5 DEF CalibrateGood
<1>6. ASSUME NEW good \in SUBSET Bytes,
             SeedTimesOut(good) \/ SeedCrashes(good) \/ CalibrateFails(good)
      PROVE  ReadyBounds' /\ ready_for_splicing_count' \in Nat
  BY <1>1, <1>6 DEF SeedTimesOut, SeedCrashes, SeedFails, CalibrateFails, Failed
<1>7. CASE TrimNothing
  <2>1. /\ UNCHANGED <<queued_items, len, ready_for_splicing_count>>
        /\ trim_done' = trim_done \union {queue_cur}
    BY <1>7 DEF TrimNothing
  <2>2. Long' = Long
    BY <2>1 DEF Long, Items
  <2>3. IsFiniteSet(Long \ trim_done)
    BY IdsFinite, ItemsIds DEF Long
  <2>4. Long' \ trim_done' \subseteq Long \ trim_done
    BY <2>1, <2>2
  <2>5. /\ Cardinality(Long' \ trim_done') <= Cardinality(Long \ trim_done)
        /\ Cardinality(Long' \ trim_done') \in Nat /\ Cardinality(Long \ trim_done) \in Nat
    BY <2>3, <2>4, FS_Subset, FS_CardinalityType
  <2> QED BY <2>1, <2>2, <2>5 DEF ReadyBounds, TypeOK
<1>8. CASE UNCHANGED vars
  BY <1>1, <1>8 DEF vars
<1> QED BY <1>2, <1>3, <1>4, <1>5, <1>6, <1>7, <1>8, ReadySave, ReadyTrim DEF Next, Step
=============================================================================
