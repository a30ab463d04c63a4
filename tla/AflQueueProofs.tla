--------------------------- MODULE AflQueueProofs ---------------------------
(***************************************************************************)
(* The bookkeeping of the queue is exact, the favored entries cover the    *)
(* bitmap, splicing finds its partner and the selection leaves no entry    *)
(* out: for any number of seeds and entries, any bitmap, any test cases.   *)
(***************************************************************************)
EXTENDS QueueCountsProofs

(* The alias table.                                                        *)
LEMMA TableStep == TypeOK /\ Shape /\ TableInv /\ [Next]_vars => TableInv'
<1> SUFFICES ASSUME TypeOK, Shape, TableInv, [Next]_vars
             PROVE  TableInv'
  BY SMTT(30)
<1> USE DEF TableInv, Items, Goto, countVars, pickVars
<1>1. CASE Finished \/ Fatal \/ Skip \/ TrimNothing \/ Begin \/ MutationsEnd \/ Leave
  BY <1>1 DEF Finished, Fatal, Skip, TrimNothing, Begin, MutationsEnd, Leave, vars
<1>2. CASE ScoreByte \/ Scored \/ Dedup
  <2>1. CASE ScoreByte
    BY <2>1 DEF ScoreByte
  <2>2. CASE Scored
    <3>1. pc' # "fuzz_one"
      BY <2>2 DEF Scored, NextSeed, TypeOK
    <3> QED BY <2>2, <3>1 DEF Scored
  <2>3. CASE Dedup
    BY <2>3 DEF Dedup
  <2> QED BY <1>2, <2>1, <2>2, <2>3
<1>3. CASE CullNothing \/ CullStart \/ CullByte \/ CullEnd
  BY <1>3 DEF CullNothing, CullStart, CullByte, CullEnd
<1>4. ASSUME NEW q \in Ids, Enter(q)
      PROVE  TableInv'
  BY <1>4 DEF Enter
<1>5. ASSUME NEW q \in Ids, Select(q)
      PROVE  TableInv'
  <2>1. create_alias_table = Items \/ create_alias_table = Items \ disabled
    BY DEF create_alias_table, Enabled
  <2>2. Rebuild \/ prev_queued_items = queued_items
    BY DEF Rebuild, Shape, TypeOK
  <2> QED BY <1>5, <2>1, <2>2, ZenonT(30) DEF Select
<1>6. ASSUME NEW l \in Lens, trim_case(l)
      PROVE  TableInv'
  BY <1>6 DEF trim_case
<1>7. ASSUME NEW trace \in Traces, NEW l \in Lens, Save(trace, l)
      PROVE  TableInv'
  BY <1>7 DEF Save, Shape, TypeOK
<1>8. ASSUME NEW first \in Traces, NEW last \in Traces, NEW all \in Traces, NEW us \in Times,
             CalibrateGood(first, last, all, us)
      PROVE  TableInv'
  BY <1>8, SMTT(30) DEF CalibrateGood
<1>9. ASSUME NEW good \in SUBSET Bytes,
             SeedTimesOut(good) \/ SeedCrashes(good) \/ CalibrateFails(good)
      PROVE  TableInv'
  BY <1>9 DEF SeedTimesOut, SeedCrashes, SeedFails, CalibrateFails, Failed, NextSeed
<1>10. CASE UNCHANGED vars
  BY <1>10 DEF vars
<1> QED BY <1>1, <1>2, <1>3, <1>4, <1>5, <1>6, <1>7, <1>8, <1>9, <1>10 DEF Next, Step

(* The favored entries: while a step changes neither them nor the winners, *)
(* and does not enter cull_queue, they cover what they covered.            *)
coverage == <<top_rated, tc_ref, trace_mini, favored, score_changed>>

LEMMA CoverStep ==
  TypeOK /\ Shape /\ RefsExact /\ FavoredCover /\ CullInv /\ [Next]_vars => FavoredCover' /\ CullInv'
<1> SUFFICES ASSUME TypeOK, Shape, RefsExact, FavoredCover, CullInv, [Next]_vars
             PROVE  FavoredCover' /\ CullInv'
  OBVIOUS
<1> USE DEF rateVars, favVars, coverage, Goto
<1>1. ASSUME UNCHANGED coverage, pc # "cull", pc' # "cull"
      PROVE  FavoredCover' /\ CullInv'
  BY <1>1 DEF FavoredCover, CullInv
<1>2. CASE Finished \/ Fatal \/ Skip \/ TrimNothing \/ Begin \/ MutationsEnd
  BY <1>1, <1>2 DEF Finished, Fatal, Skip, TrimNothing, Begin, MutationsEnd, vars
<1>3. CASE Leave
  BY <1>1, <1>3 DEF Leave
<1>4. CASE Scored
  <2>1. pc # "cull" /\ pc' # "cull"
    BY <1>4 DEF Scored, NextSeed, TypeOK
  <2> QED BY <1>1, <1>4, <2>1 DEF Scored
<1>5. CASE Dedup \/ CullNothing
  BY <1>1, <1>5 DEF Dedup, CullNothing
<1>6. ASSUME NEW q \in Ids, Enter(q) \/ Select(q)
      PROVE  FavoredCover' /\ CullInv'
  BY <1>1, <1>6, SMTT(30) DEF Enter, Select
<1>7. ASSUME NEW l \in Lens, trim_case(l) \/ \E trace \in Traces : Save(trace, l)
      PROVE  FavoredCover' /\ CullInv'
  BY <1>1, <1>7 DEF trim_case, Save
<1>8. ASSUME NEW first \in Traces, NEW last \in Traces, NEW all \in Traces, NEW us \in Times,
             CalibrateGood(first, last, all, us)
      PROVE  FavoredCover' /\ CullInv'
  BY <1>1, <1>8, SMTT(30) DEF CalibrateGood
<1>9. ASSUME NEW good \in SUBSET Bytes,
             SeedTimesOut(good) \/ SeedCrashes(good) \/ CalibrateFails(good)
      PROVE  FavoredCover' /\ CullInv'
  BY <1>1, <1>9 DEF SeedTimesOut, SeedCrashes, SeedFails, CalibrateFails, Failed, NextSeed
<1>10. CASE ScoreByte
  <2>1. pc = "score" /\ pc' = "score"
    BY <1>10, SMTT(30) DEF ScoreByte
  <2>2. CASE byte \in trace_bits /\ Wins
    <3>1. score_changed' = 1
      BY <1>10, <2>2 DEF ScoreByte, WinsByte
    <3>2. score_changed' # 0 /\ pc' # "cull"
      BY <2>1, <3>1, SMTT(30)
    <3>3. FavoredCover'
      BY <3>2, ZenonT(30) DEF FavoredCover
    <3>4. CullInv'
      BY <3>2, ZenonT(30) DEF CullInv
    <3> QED BY <3>3, <3>4, SMTT(30)
  <2>3. CASE ~(byte \in trace_bits /\ Wins)
    BY <1>1, <1>10, <2>1, <2>3, SMTT(30) DEF ScoreByte
  <2> QED BY <2>2, <2>3
<1>11. CASE CullStart
  <2>1. /\ pc' = "cull" /\ score_changed' = 0 /\ favored' = {} /\ temp_v' = Bytes /\ byte' = 1
    BY <1>11 DEF CullStart
  <2> QED BY <2>1 DEF FavoredCover, CullInv, Bytes
<1>12. CASE CullByte
  <2>1. /\ pc = "cull" /\ pc' = "cull" /\ byte \in Bytes /\ byte' = byte + 1
        /\ UNCHANGED <<top_rated, tc_ref, trace_mini, score_changed>>
    BY <1>12, SMTT(30) DEF CullByte, TypeOK, Bytes
  <2>2. CASE top_rated[byte] # NoEntry /\ byte \in temp_v
    <3> DEFINE w == top_rated[byte]
    <3>1. temp_v' = temp_v \ trace_mini[w] /\ favored' = favored \union {w}
      BY <1>12, <2>2 DEF CullByte, Favors
    <3>2. w \in Ids
      BY <2>1, <2>2, SMTT(30) DEF TypeOK
    <3>3. tc_ref[w] > 0
      <4>1. byte \in {b \in Bytes : top_rated[b] = w}
        BY <2>1, SMTT(30)
      <4>2. IsFiniteSet({b \in Bytes : top_rated[b] = w})
        BY BytesFinite
      <4>3. Cardinality({b \in Bytes : top_rated[b] = w}) \in Nat
        BY BytesFinite
      <4>4. Cardinality({b \in Bytes : top_rated[b] = w}) # 0
        BY <4>1, <4>2, FS_EmptySet
      <4> QED BY <3>2, <4>3, <4>4 DEF RefsExact
    <3>4. \A b \in Bytes \ temp_v' : \E q \in favored' : b \in trace_mini'[q]
      BY <2>1, <3>1 DEF CullInv
    <3>5. \A q \in favored' : tc_ref'[q] > 0
      BY <2>1, <3>1, <3>3 DEF CullInv
    <3>6. \A b \in Bytes : b < byte' /\ top_rated'[b] # NoEntry => Covered(b)'
      <4> SUFFICES ASSUME NEW b \in Bytes, b < byte', top_rated'[b] # NoEntry
                   PROVE  Covered(b)'
        OBVIOUS
      <4>1. b < byte \/ b = byte
        BY <2>1 DEF Bytes
      <4>2. CASE b = byte
        BY <2>1, <3>1, <4>2 DEF Covered
      <4>3. CASE b < byte
        BY <2>1, <3>1, <4>3, SMTT(30) DEF Covered, CullInv
      <4> QED BY <4>1, <4>2, <4>3
    <3> QED BY <2>1, <3>4, <3>5, <3>6 DEF CullInv, FavoredCover
  <2>3. CASE ~(top_rated[byte] # NoEntry /\ byte \in temp_v)
    <3>1. UNCHANGED <<favored, temp_v>>
      BY <1>12, <2>3 DEF CullByte
    <3>2. \A b \in Bytes : b < byte' /\ top_rated'[b] # NoEntry => Covered(b)'
      <4> SUFFICES ASSUME NEW b \in Bytes, b < byte', top_rated'[b] # NoEntry
                   PROVE  Covered(b)'
        OBVIOUS
      <4>1. b < byte \/ b = byte
        BY <2>1, SMTT(30) DEF Bytes
      <4>2. CASE b = byte
        BY <2>1, <2>3, <3>1, <4>2, SMTT(30) DEF Covered, CullInv
      <4>3. CASE b < byte
        BY <2>1, <3>1, <4>3, SMTT(30) DEF Covered, CullInv
      <4> QED BY <4>1, <4>2, <4>3
    <3> QED BY <2>1, <3>1, <3>2 DEF CullInv, FavoredCover
  <2> QED BY <2>2, <2>3
<1>13. CASE CullEnd
  <2>1. pc = "cull" /\ pc' = "select" /\ UNCHANGED coverage /\ \A b \in Bytes : b < byte
    BY <1>13, QueueAssumption, SMTT(30) DEF CullEnd, Bytes, TypeOK
  <2> QED BY <2>1, SMTT(30) DEF CullInv, FavoredCover, Covered
<1>14. CASE UNCHANGED vars
  <2>1. UNCHANGED <<coverage, pc, byte, temp_v>>
    BY <1>14, SMTT(30) DEF vars, callVars
  <2>2. FavoredCover'
    BY <2>1, SMTT(30) DEF FavoredCover
  <2>3. CullInv'
    BY <2>1, SMTT(30) DEF CullInv, Covered
  <2> QED BY <2>2, <2>3
<1> QED
  BY <1>2, <1>3, <1>4, <1>5, <1>6, <1>7, <1>8, <1>9, <1>10, <1>11, <1>12, <1>13, <1>14
  DEF Next, Step
-----------------------------------------------------------------------------
(* The parts of TypeOK that the other lemmas do not give.                  *)
EntryTypes ==
  /\ queued_items \in 0 .. MaxItems
  /\ len \in [Ids -> Nat] /\ exec_us \in [Ids -> Nat] /\ bitmap_size \in [Ids -> Nat]
  /\ exec_cksum \in [Ids -> SUBSET Bytes]
  /\ cal_failed \in [Ids -> Nat]
  /\ fuzzed_before \subseteq Ids
  /\ top_rated \in [Bytes -> Ids \union {NoEntry}]
  /\ score_changed \in 0 .. 1 /\ reinit_table \in 0 .. 1
  /\ seen \subseteq Bytes
  /\ prev_queued_items \in 0 .. MaxItems
  /\ queue_cur \in Ids \union {NoEntry}

CallTypes ==
  /\ pc \in {"calibrate", "score", "dedup", "loop", "cull", "select", "fuzz_one",
             "trim", "mutate", "abandon", "finish", "fatal"}
  /\ caller \in {"dry_run", "fuzz_one", "save", "trim"}
  /\ subj \in Ids
  /\ res \in {"ok", "nobits"}
  /\ trace_bits \subseteq Bytes /\ temp_v \subseteq Bytes
  /\ byte \in 1 .. MapSize + 1

LEMMA EntryTypesStep == TypeOK /\ Shape /\ [Next]_vars => EntryTypes'
<1> SUFFICES ASSUME TypeOK, Shape, [Next]_vars
             PROVE  EntryTypes'
  BY SMTT(30)
<1> USE QueueAssumption DEF EntryTypes, TypeOK,
        entryVars, rateVars, countVars, fuzzedVars, pickVars
<1>1. CASE Finished \/ Fatal \/ Skip \/ TrimNothing \/ Begin \/ MutationsEnd
  BY <1>1 DEF Finished, Fatal, Skip, TrimNothing, Begin, MutationsEnd, vars
<1>2. CASE Leave
  <2>1. queue_cur \in Ids
    BY <1>2, ItemsIds DEF Leave, Shape, Busy
  <2> QED BY <1>2, <2>1, SMTT(30) DEF Leave
<1>3. CASE Scored \/ Dedup \/ CullNothing \/ CullStart \/ CullByte \/ CullEnd
  BY <1>3, SMTT(30) DEF Scored, Dedup, CullNothing, CullStart, CullByte, CullEnd
<1>4. CASE ScoreByte
  BY <1>4, SMTT(30) DEF ScoreByte, WinsByte
<1>5. ASSUME NEW q \in Ids, Enter(q) \/ Select(q)
      PROVE  EntryTypes'
  BY <1>5, SMTT(30) DEF Enter, Select
<1>6. ASSUME NEW l \in Lens, trim_case(l)
      PROVE  EntryTypes'
  BY <1>6, ZenonT(30) DEF trim_case, Resize
<1>7. ASSUME NEW trace \in Traces, NEW l \in Lens, Save(trace, l)
      PROVE  EntryTypes'
  <2>1. l \in Nat
    BY SMTT(30)
  <2>2. len' \in [Ids -> Nat]
    BY <1>7, <2>1, ZenonT(30) DEF Save
  <2>3. queued_items' \in 0 .. MaxItems
    BY <1>7 DEF Save
  <2>4. seen' \subseteq Bytes
    BY <1>7, SMTT(30) DEF Save, Traces
  <2> QED BY <1>7, <2>2, <2>3, <2>4 DEF Save
<1>8. ASSUME NEW first \in Traces, NEW last \in Traces, NEW all \in Traces, NEW us \in Times,
             CalibrateGood(first, last, all, us)
      PROVE  EntryTypes'
  <2>1. Cardinality(last) \in Nat
    BY BytesFinite, SMTT(30) DEF Traces
  <2> QED BY <1>8, <2>1, SMTT(30) DEF CalibrateGood, Traces
<1>9. ASSUME NEW good \in SUBSET Bytes,
             SeedTimesOut(good) \/ SeedCrashes(good) \/ CalibrateFails(good)
      PROVE  EntryTypes'
  <2>1. ASSUME NEW chances \in Nat, Failed(good, chances), UNCHANGED queued_items,
               UNCHANGED fuzzed_before
        PROVE  EntryTypes'
    <3>1. cal_failed' \in [Ids -> Nat] /\ seen' \subseteq Bytes
      BY <2>1, SMTT(30) DEF Failed
    <3> QED BY <2>1, <3>1, SMTT(30) DEF Failed
  <2>2. cal_failed[subj] + 1 \in Nat /\ CalChances \in Nat
    BY SMTT(30)
  <2>3. \E chances \in Nat : Failed(good, chances)
    BY <1>9, <2>2, SMTT(30) DEF SeedTimesOut, SeedCrashes, SeedFails, CalibrateFails
  <2>4. UNCHANGED queued_items /\ UNCHANGED fuzzed_before
    BY <1>9, SMTT(30) DEF SeedTimesOut, SeedCrashes, SeedFails, CalibrateFails
  <2> QED BY <2>1, <2>3, <2>4, SMTT(30)
<1>10. CASE UNCHANGED vars
  BY <1>10, SMTT(30) DEF vars
<1> QED BY <1>1, <1>2, <1>3, <1>4, <1>5, <1>6, <1>7, <1>8, <1>9, <1>10, SMTT(30) DEF Next, Step

LEMMA CallTypesStep == TypeOK /\ Shape /\ Shape' /\ [Next]_vars => CallTypes'
<1> SUFFICES ASSUME TypeOK, Shape, [Next]_vars, Shape'
             PROVE  CallTypes'
  BY SMTT(30)
<1>0. subj' \in Ids
  BY EntryTypesStep, QueueAssumption, SMTT(30) DEF EntryTypes, Shape, Items, Ids
<1> USE <1>0, QueueAssumption DEF CallTypes, TypeOK, callVars, Goto
<1>1. CASE Finished \/ Fatal \/ Skip \/ TrimNothing \/ Begin \/ MutationsEnd \/ Leave
  BY <1>1 DEF Finished, Fatal, Skip, TrimNothing, Begin, MutationsEnd, Leave, vars
<1>2. CASE Scored
  BY <1>2, SMTT(30) DEF Scored, NextSeed
<1>3. CASE Dedup \/ CullNothing \/ CullStart \/ CullEnd
  BY <1>3, SMTT(30) DEF Dedup, CullNothing, CullStart, CullEnd
<1>4. CASE CullByte
  <2>1. temp_v' \subseteq Bytes
    BY <1>4, SMTT(30) DEF CullByte, Favors
  <2> QED BY <1>4, <2>1, SMTT(30) DEF CullByte
<1>5. CASE ScoreByte
  BY <1>5, SMTT(30) DEF ScoreByte
<1>6. ASSUME NEW q \in Ids, Enter(q) \/ Select(q)
      PROVE  CallTypes'
  BY <1>6, SMTT(30) DEF Enter, Select
<1>7. ASSUME NEW l \in Lens, trim_case(l)
      PROVE  CallTypes'
  <2>1. queue_cur \in Ids
    BY <1>7, ItemsIds, SMTT(30) DEF trim_case, Shape, Busy
  <2> QED BY <1>7, <2>1, SMTT(30) DEF trim_case
<1>8. ASSUME NEW trace \in Traces, NEW l \in Lens, Save(trace, l)
      PROVE  CallTypes'
  BY <1>8, SMTT(30) DEF Save
<1>9. ASSUME NEW first \in Traces, NEW last \in Traces, NEW all \in Traces, NEW us \in Times,
             CalibrateGood(first, last, all, us)
      PROVE  CallTypes'
  <2>1. /\ pc' = "score" /\ byte' = 1 /\ trace_bits' = last
        /\ res' \in {"ok", "nobits"}
        /\ caller' = caller /\ temp_v' = temp_v
    BY <1>9, SMTT(30) DEF CalibrateGood
  <2>2. last \subseteq Bytes /\ 1 \in 1 .. MapSize + 1
    BY SMTT(30) DEF Traces
  <2> QED BY <2>1, <2>2, SMTT(30)
<1>10. ASSUME NEW good \in SUBSET Bytes,
              SeedTimesOut(good) \/ SeedCrashes(good) \/ CalibrateFails(good)
       PROVE  CallTypes'
  BY <1>10, SMTT(30) DEF SeedTimesOut, SeedCrashes, SeedFails, CalibrateFails, Failed, NextSeed
<1>11. CASE UNCHANGED vars
  BY <1>11 DEF vars
<1> QED BY <1>1, <1>2, <1>3, <1>4, <1>5, <1>6, <1>7, <1>8, <1>9, <1>10, <1>11, SMTT(30) DEF Next, Step

LEMMA InvStep == Inv /\ [Next]_vars => Inv'
<1> SUFFICES ASSUME Inv, [Next]_vars
             PROVE  Inv'
  OBVIOUS
<1>1. Shape' /\ CountersExact' /\ ReadyBounds' /\ TableInv' /\ FavoredCover' /\ CullInv'
  BY ShapeStep, CountersStep, ReadyStep, TableStep, CoverStep DEF Inv
<1>2. RefsExact' /\ tc_ref' \in [Ids -> Nat] /\ trace_mini' \in [Ids -> SUBSET Bytes]
  BY RefsStep DEF Inv
<1>3. EntryTypes' /\ CallTypes' /\ ready_for_splicing_count' \in Nat
  BY <1>1, EntryTypesStep, CallTypesStep, ReadyStep DEF Inv
<1>4. Items' \subseteq Ids
  BY <1>3, QueueAssumption DEF EntryTypes, Items, Ids
<1>5. /\ trim_done' \subseteq Ids /\ was_fuzzed' \subseteq Ids /\ disabled' \subseteq Ids
      /\ favored' \subseteq Ids /\ table' \subseteq Ids
  BY <1>1, <1>4 DEF Shape
<1>6. /\ active_items' \in Nat /\ pending_not_fuzzed' \in Nat
      /\ queued_favored' \in Nat /\ pending_favored' \in Nat
  <2>1. /\ Items' \ disabled' \subseteq Ids /\ Items' \ was_fuzzed' \subseteq Ids
        /\ favored' \subseteq Ids /\ favored' \ was_fuzzed' \subseteq Ids
    BY <1>4, <1>5, SMTT(30)
  <2> QED BY <1>1, <2>1, IdsFinite DEF CountersExact
<1>7. TypeOK'
  BY <1>2, <1>3, <1>5, <1>6 DEF TypeOK, EntryTypes, CallTypes
<1> QED BY <1>1, <1>2, <1>7 DEF Inv

LEMMA InvInit == Init => Inv
<1> SUFFICES ASSUME Init
             PROVE  Inv
  OBVIOUS
<1>1. Cardinality({q \in Ids : len[q] > 4}) \in Nat
  BY IdsFinite
<1>2. len \in [Ids -> Nat] /\ \A q \in Ids : len[q] = 0 <=> q > SeedCount
  <2>1. len \in [Ids -> Lens \union {0}] /\ \A q \in Ids : len[q] = 0 <=> q > SeedCount
    BY DEF Init
  <2>2. Lens \union {0} \subseteq Nat
    BY QueueAssumption, SMTT(30)
  <2> QED BY <2>1, <2>2
<1>3. Items = 1 .. SeedCount /\ Items \subseteq Ids /\ SeedCount \in Nat
  BY QueueAssumption, SMTT(30) DEF Init, Items, Ids
<1>4. TypeOK
  BY <1>1, <1>2, QueueAssumption, SMTT(30) DEF Init, TypeOK, Ids, Bytes, NoEntry
<1>5. Shape
  BY <1>3, QueueAssumption DEF Init, Shape, Busy, Dry, Items, NoEntry
<1>6. RefsExact
  <2> SUFFICES ASSUME NEW q \in Ids
               PROVE  tc_ref[q] = Cardinality({b \in Bytes : top_rated[b] = q}) /\ tc_ref[q] = 0
    BY DEF Init, RefsExact
  <2>1. {b \in Bytes : top_rated[b] = q} = {}
    BY DEF Init, NoEntry, Ids
  <2> QED BY <2>1, FS_EmptySet DEF Init
<1>7. CountersExact
  <2>1. Cardinality(Items) = SeedCount
    BY <1>3, FS_Interval, QueueAssumption
  <2>2. Items \ {} = Items /\ {} \ {} = {} /\ Cardinality({}) = 0
    BY FS_EmptySet
  <2> QED BY <2>1, <2>2 DEF Init, CountersExact
<1>8. ReadyBounds
  <2>1. Long = {q \in Ids : len[q] > 4}
    BY <1>2, <1>3, QueueAssumption DEF Long, Ids
  <2>2. Long \ {} = Long
    OBVIOUS
  <2> QED BY <1>1, <2>1, <2>2 DEF Init, ReadyBounds
<1>9. FavoredCover /\ CullInv /\ TableInv
  BY QueueAssumption DEF Init, FavoredCover, CullInv, TableInv
<1> QED BY <1>4, <1>5, <1>6, <1>7, <1>8, <1>9 DEF Inv

LEMMA InvHolds == Spec => []Inv
BY InvInit, InvStep, PTL DEF Spec

(* update_bitmap_score and the rest of the queue keep their types; none of *)
(* the counters is decremented below zero.                                 *)
THEOREM QueueTyped == Spec => []TypeOK
<1>1. Inv => TypeOK
  BY DEF Inv
<1> QED BY <1>1, InvHolds, PTL

(* tc_ref counts the bytes an entry won, and trace_mini is there as long   *)
(* as it won one, after every step of update_bitmap_score.                 *)
THEOREM ReferencesExact == Spec => []RefsExact
<1>1. Inv => RefsExact
  BY DEF Inv
<1> QED BY <1>1, InvHolds, PTL

(* The four counters of the queue are the numbers they stand for.          *)
THEOREM CountsExact == Spec => []CountersExact
<1>1. Inv => CountersExact
  BY DEF Inv
<1> QED BY <1>1, InvHolds, PTL

(* After cull_queue the favored entries cover all bytes that have a        *)
(* winner.                                                                 *)
THEOREM FavoredsCover == Spec => []FavoredCover
<1>1. Inv => FavoredCover
  BY DEF Inv
<1> QED BY <1>1, InvHolds, PTL

(* The splicing loop of the custom mutator stage finds a partner.          *)
THEOREM SpliceEnds == Spec => []SplicePartner
<1>1. Inv => SplicePartner
  <2> SUFFICES ASSUME Inv, pc = "mutate", ready_for_splicing_count > 1
               PROVE  \E q \in Items \ {queue_cur} : len[q] >= 4
    BY DEF SplicePartner
  <2>1. IsFiniteSet(Long) /\ Cardinality(Long) \in Nat
    BY IdsFinite, ItemsIds, SMTT(30) DEF Long, Inv
  <2>2. ready_for_splicing_count \in Nat /\ \A q \in Items : len[q] \in Nat
    BY ItemsIds DEF Inv, TypeOK
  <2>3. Cardinality(Long) > 1
    BY <2>1, <2>2 DEF Inv, ReadyBounds
  <2>4. Long \ {queue_cur} # {}
    <3> SUFFICES ASSUME Long \ {queue_cur} = {}
                 PROVE  FALSE
      OBVIOUS
    <3>1. Cardinality(Long \ {queue_cur}) = 0
      BY FS_EmptySet
    <3>2. Cardinality(Long \ {queue_cur}) =
            IF queue_cur \in Long THEN Cardinality(Long) - 1 ELSE Cardinality(Long)
      BY <2>1, FS_RemoveElement
    <3> QED BY <2>1, <2>3, <3>1, <3>2
  <2> QED BY <2>2, <2>4 DEF Long
<1> QED BY <1>1, InvHolds, PTL

(* The alias table leaves no enabled entry out.                            *)
THEOREM SelectionComplete == Spec => []TableComplete
<1>1. Inv => TableComplete
  BY DEF Inv, TableInv, TableComplete
<1> QED BY <1>1, InvHolds, PTL
=============================================================================
