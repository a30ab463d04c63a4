------------------------ MODULE TestcaseCacheProofs ------------------------
(***************************************************************************)
(* The cache is exact, never runs out of victims or slots, and implements  *)
(* the store: for any number of entries, any test cases and any limits     *)
(* that satisfy CacheAssumption.                                           *)
(***************************************************************************)
EXTENDS TestcaseCache, FiniteSetTheorems, TLAPS

(* A cached buffer holds what the file holds.                              *)
Fresh == \A q \in Cached : testcase_buf[q] = file[q]

(* There is room for one more than is ever cached, below the limit, and    *)
(* the learned limit still allows two entries at limits that did.          *)
Limits ==
  /\ Roomy => max_cache_entries >= 3
  /\ cache_count < max_cache_entries
  /\ smallest_free <= max_cache_count /\ max_cache_count <= max_cache_entries
  /\ \A i \in Slots : i >= max_cache_count => q_testcase_cache[i] = NoBuf

(* fuzz_one has the buffer of the current entry.                           *)
Holding ==
  \/ pc \in {"trim", "mutate", "store"}
  \/ pc \in {"get", "search"} /\ want # queue_cur

CallInv ==
  /\ queue_cur \in Queued
  /\ pc \in {"get", "search", "store"} => want \in Queued \ Cached
  /\ pc = "get" => q_testcase_cache[tid] = NoBuf
  /\ pc \in {"search", "store"} =>
        /\ ~Full(len(want))
        /\ \E i \in tid .. max_cache_entries - 1 : q_testcase_cache[i] = NoBuf
  /\ Holding => queue_cur \in Cached
  /\ target # NoBuf => target \in Cached /\ pc \in {"mutate", "store"}

Inv == TypeOK /\ CacheExact /\ Fresh /\ Limits /\ CallInv
-----------------------------------------------------------------------------
LEMMA EntriesFinite == \A S : S \subseteq Entries => IsFiniteSet(S) /\ Cardinality(S) \in Nat
BY CacheAssumption, FS_Subset, FS_CardinalityType

(* The bytes of one entry.                                                 *)
Strip(q, n) == {q} \X (1 .. n)

LEMMA StripCard ==
  ASSUME NEW q, NEW n \in Nat
  PROVE  IsFiniteSet(Strip(q, n)) /\ Cardinality(Strip(q, n)) = n
<1>1. IsFiniteSet({q}) /\ Cardinality({q}) = 1
  BY FS_Singleton, ZenonT(30)
<1>2. IsFiniteSet(1 .. n) /\ Cardinality(1 .. n) = n
  BY FS_Interval
<1>3. /\ IsFiniteSet({q} \X (1 .. n))
      /\ Cardinality({q} \X (1 .. n)) = Cardinality({q}) * Cardinality(1 .. n)
  BY <1>1, <1>2, FS_Product, ZenonT(30)
<1> QED BY <1>1, <1>2, <1>3 DEF Strip

(* The bytes of the entries of C, which have the lengths L.                *)
Pairs(C, L) == {b \in Entries \X (1 .. MaxLen) : b[1] \in C /\ b[2] <= L[b[1]]}

LEMMA PairsFinite == \A C, L : IsFiniteSet(Pairs(C, L)) /\ Cardinality(Pairs(C, L)) \in Nat
<1>1. IsFiniteSet(1 .. MaxLen)
  BY FS_Interval, CacheAssumption
<1>2. IsFiniteSet(Entries \X (1 .. MaxLen))
  BY <1>1, CacheAssumption, FS_Product
<1>3. \A C, L : Pairs(C, L) \subseteq Entries \X (1 .. MaxLen)
  BY DEF Pairs
<1> QED BY <1>2, <1>3, FS_Subset, FS_CardinalityType

(* One more entry adds its length.                                         *)
LEMMA PairsAdd ==
  ASSUME NEW C \in SUBSET Entries, NEW q \in Entries, q \notin C, NEW L, NEW M,
         M[q] \in 1 .. MaxLen, \A p \in C : M[p] = L[p]
  PROVE  Cardinality(Pairs(C \union {q}, M)) = Cardinality(Pairs(C, L)) + M[q]
<1> DEFINE new == Strip(q, M[q])
<1>1. M[q] \in Nat
  OBVIOUS
<1>2. Pairs(C \union {q}, M) = Pairs(C, L) \union new
  <2>1. ASSUME NEW p \in Entries, NEW n \in 1 .. MaxLen
        PROVE  <<p, n>> \in Pairs(C \union {q}, M) <=> <<p, n>> \in Pairs(C, L) \union new
    <3>1. <<p, n>> \in Pairs(C \union {q}, M) <=> p \in C \union {q} /\ n <= M[p]
      BY DEF Pairs
    <3>2. <<p, n>> \in Pairs(C, L) <=> p \in C /\ n <= L[p]
      BY DEF Pairs
    <3>3. <<p, n>> \in new <=> p = q /\ n <= M[q]
      BY <1>1 DEF Strip
    <3> QED BY <3>1, <3>2, <3>3
  <2>2. Pairs(C \union {q}, M) \subseteq Entries \X (1 .. MaxLen)
    BY DEF Pairs
  <2>3. Pairs(C, L) \union new \subseteq Entries \X (1 .. MaxLen)
    BY CacheAssumption DEF Pairs, Strip
  <2>4. ASSUME NEW b \in Entries \X (1 .. MaxLen)
        PROVE  b \in Pairs(C \union {q}, M) <=> b \in Pairs(C, L) \union new
    <3>1. PICK p \in Entries, n \in 1 .. MaxLen : b = <<p, n>>
      OBVIOUS
    <3> QED BY <2>1, <3>1
  <2> HIDE DEF new
  <2> QED BY <2>2, <2>3, <2>4, ZenonT(30)
<1>3. Pairs(C, L) \cap new = {}
  BY DEF Pairs, Strip
<1>4. IsFiniteSet(new) /\ Cardinality(new) = M[q]
  BY <1>1, StripCard
<1>5. IsFiniteSet(Pairs(C, L)) /\ Cardinality(Pairs(C, L)) \in Nat
  BY PairsFinite
<1>6. Cardinality(Pairs(C, L) \union new) =
        Cardinality(Pairs(C, L)) + Cardinality(new) - Cardinality(Pairs(C, L) \cap new)
  BY <1>4, <1>5, FS_Union
<1>7. Cardinality(Pairs(C, L) \cap new) = 0
  BY <1>3, FS_EmptySet
<1> HIDE DEF new
<1>8. Cardinality(Pairs(C, L) \union new) = Cardinality(Pairs(C, L)) + M[q]
  BY <1>1, <1>4, <1>5, <1>6, <1>7
<1> QED BY <1>2, <1>8

lens == [q \in Entries |-> len(q)]

LEMMA CachedPairs == CachedBytes = Pairs(Cached, lens) /\ Cached \subseteq Entries
BY DEF CachedBytes, Pairs, lens, Cached

LEMMA CachedBytesFinite == IsFiniteSet(CachedBytes) /\ Cardinality(CachedBytes) \in Nat
BY CachedPairs, PairsFinite

LEMMA Lengths ==
  ASSUME TypeOK, NEW q \in Queued
  PROVE  len(q) \in 1 .. MaxLen /\ len(q) \in Nat
BY CacheAssumption DEF TypeOK, Queued, len, BufOrNone

LEMMA CachedQueued == TypeOK /\ Fresh => Cached \subseteq Queued
BY DEF Fresh, Cached, Queued, TypeOK

(* More bytes than one test case can have belong to more than one entry.   *)
LEMMA OtherCached ==
  ASSUME TypeOK, Fresh, CacheExact, cache_size > MaxLen, NEW x
  PROVE  \E q \in Cached : q # x
<1> SUFFICES ASSUME \A q \in Cached : q = x
             PROVE  FALSE
  OBVIOUS
<1>1. MaxLen \in Nat
  BY CacheAssumption
<1>2. CachedBytes \subseteq Strip(x, MaxLen)
  BY DEF CachedBytes, Strip
<1>3. IsFiniteSet(Strip(x, MaxLen)) /\ Cardinality(Strip(x, MaxLen)) = MaxLen
  BY <1>1, StripCard
<1>4. Cardinality(CachedBytes) <= MaxLen
  BY <1>2, <1>3, FS_Subset
<1> QED BY <1>1, <1>4, CachedBytesFinite DEF CacheExact

LEMMA TwoCached ==
  ASSUME TypeOK, Fresh, CacheExact, cache_size > MaxLen
  PROVE  cache_count >= 2
<1>1. PICK p \in Cached : p # NoBuf
  BY OtherCached
<1>2. PICK q \in Cached : q # p
  BY OtherCached
<1>3. IsFiniteSet(Cached) /\ Cardinality(Cached) \in Nat
  BY EntriesFinite DEF Cached
<1>4. Cardinality({p}) = 1 /\ IsFiniteSet({p})
  BY FS_Singleton, ZenonT(30)
<1>5. Cardinality({p} \union {q}) = 2
  BY <1>2, <1>4, FS_AddElement
<1>6. {p} \union {q} \subseteq Cached
  BY <1>1, <1>2
<1>7. Cardinality({p} \union {q}) <= Cardinality(Cached)
  BY <1>3, <1>6, FS_Subset
<1> QED BY <1>3, <1>5, <1>7 DEF CacheExact

(* A full cache holds an entry that is not the current one.                *)
LEMMA VictimExists ==
  ASSUME Inv, pc = "get", Full(len(want)), ~Cornered
  PROVE  \E i \in Slots : Victim(i)
<1>1. ASSUME Roomy
      PROVE  \E q \in Cached : q # queue_cur
  <2>1. CASE FullBySize(len(want))
    <3>1. len(want) \in 1 .. MaxLen
      BY Lengths DEF Inv, CallInv
    <3>2. cache_size > MaxLen
      BY <1>1, <2>1, <3>1, CacheAssumption DEF FullBySize, Inv, TypeOK, Roomy
    <3> QED BY <3>2, OtherCached DEF Inv
  <2>2. CASE cache_count >= max_cache_entries - 1
    <3> SUFFICES ASSUME \A q \in Cached : q = queue_cur
                 PROVE  FALSE
      OBVIOUS
    <3>1. Cached \subseteq {queue_cur}
      OBVIOUS
    <3>2. Cardinality(Cached) <= 1
      <4>1. IsFiniteSet({queue_cur}) /\ Cardinality({queue_cur}) = 1
        BY FS_Singleton, ZenonT(30)
      <4> QED BY <3>1, <4>1, FS_Subset
    <3>3. Cardinality(Cached) \in Nat
      BY EntriesFinite DEF Cached
    <3> QED BY <1>1, <2>2, <3>2, <3>3 DEF Inv, CacheExact, TypeOK, Limits
  <2> QED BY <2>1, <2>2 DEF Full
<1>2. PICK q \in Cached : q # queue_cur
  BY <1>1 DEF Cornered
<1>3. PICK i \in Slots : q_testcase_cache[i] = q
  BY DEF Inv, CacheExact
<1>4. q # NoBuf
  BY CacheAssumption DEF Cached
<1>5. i < max_cache_count
  BY <1>3, <1>4, CacheAssumption DEF Inv, Limits, Slots, TypeOK
<1> QED BY <1>2, <1>3, <1>4, <1>5 DEF Victim

(* While not all entries below the limit are in use, one below the limit   *)
(* and not below the smallest free one is free.                            *)
LEMMA SlotFree ==
  ASSUME TypeOK, CacheExact, cache_count < max_cache_entries
  PROVE  \E i \in smallest_free .. max_cache_entries - 1 : q_testcase_cache[i] = NoBuf
<1> DEFINE S == 0 .. max_cache_entries - 1
<1>1. S \subseteq Slots /\ max_cache_entries \in Nat /\ smallest_free \in Nat
  BY CacheAssumption DEF Slots, TypeOK
<1>2. \E i \in S : q_testcase_cache[i] = NoBuf
  <2> SUFFICES ASSUME \A i \in S : q_testcase_cache[i] # NoBuf
               PROVE  FALSE
    OBVIOUS
  <2> DEFINE f == [i \in S |-> q_testcase_cache[i]]
  <2>1. f \in [S -> Cached]
    BY <1>1 DEF CacheExact
  <2>2. IsFiniteSet(Cached) /\ Cardinality(Cached) \in Nat
    BY EntriesFinite DEF Cached
  <2>3. IsFiniteSet(S) /\ Cardinality(S) = max_cache_entries
    BY <1>1, FS_Interval
  <2>4. Cardinality(Cached) < Cardinality(S)
    BY <2>3 DEF CacheExact
  <2>5. \E i, j \in S : i # j /\ f[i] = f[j]
    <3> HIDE DEF f, S
    <3> QED BY <2>1, <2>2, <2>3, <2>4, FS_PigeonHole
  <2> QED BY <1>1, <2>5 DEF CacheExact
<1>3. PICK i \in S : q_testcase_cache[i] = NoBuf
  BY <1>2
<1>4. i >= smallest_free
  BY <1>1, <1>3 DEF CacheExact
<1> QED BY <1>1, <1>3, <1>4
-----------------------------------------------------------------------------
(* The three ways in which the cache changes.                              *)

LEMMA RegisterStep ==
  ASSUME Inv, pc \in {"search", "store"}, q_testcase_cache[tid] = NoBuf,
         Register(want, file[want], tid), UNCHANGED <<file, limitVars>>
  PROVE  /\ CacheExact' /\ Limits' /\ Fresh'
         /\ Cached' = Cached \union {want}
         /\ testcase_buf' \in [Entries -> BufOrNone]
         /\ q_testcase_cache' \in [Slots -> EntryOrNone]
         /\ cache_size' \in Nat /\ cache_count' \in Nat
         /\ max_cache_count' \in 0 .. MaxEntries /\ smallest_free' \in 0 .. MaxEntries
<1> USE DEF Inv
<1>1. /\ want \in Entries /\ want \in Queued /\ want \notin Cached /\ file[want] \in Contents
      /\ tid \in Slots /\ ~Full(len(want))
  BY DEF CallInv, TypeOK, Queued, BufOrNone
<1>2. tid < max_cache_entries
  BY CacheAssumption DEF CallInv, TypeOK, Slots
<1>3. /\ testcase_buf' = [testcase_buf EXCEPT ![want] = file[want]]
      /\ q_testcase_cache' = [q_testcase_cache EXCEPT ![tid] = want]
      /\ cache_size' = cache_size + len(want) /\ cache_count' = cache_count + 1
      /\ max_cache_count' = IF tid >= max_cache_count THEN tid + 1 ELSE max_cache_count
      /\ smallest_free' = IF tid < max_cache_count /\ tid = smallest_free THEN tid + 1 ELSE smallest_free
  BY DEF Register, len
<1>4. Cached' = Cached \union {want} /\ Fresh'
  BY <1>1, <1>3, CacheAssumption DEF Cached, Fresh, TypeOK
<1>5. testcase_buf' \in [Entries -> BufOrNone] /\ q_testcase_cache' \in [Slots -> EntryOrNone]
  BY <1>1, <1>3 DEF TypeOK, EntryOrNone, BufOrNone
<1>6. len(want) \in Nat /\ len(want) \in 1 .. MaxLen
  BY <1>1, Lengths
<1>7. cache_count' = Cardinality(Cached')
  <2>1. IsFiniteSet(Cached)
    BY EntriesFinite DEF Cached
  <2> QED BY <1>1, <1>3, <1>4, <2>1, FS_AddElement, ZenonT(30) DEF CacheExact
<1>8. cache_size' = Cardinality(CachedBytes')
  <2>1. CachedBytes' = Pairs(Cached \union {want}, lens')
    BY <1>4, CachedPairs DEF CachedBytes, Pairs, lens, Cached
  <2>2. lens' = lens /\ lens[want] = len(want)
    BY <1>1 DEF lens, len
  <2>3. Cardinality(Pairs(Cached \union {want}, lens)) = Cardinality(Pairs(Cached, lens)) + lens[want]
    BY <1>1, <1>6, <2>2, PairsAdd, CachedPairs
  <2> QED BY <1>3, <2>1, <2>2, <2>3, CachedPairs DEF CacheExact
<1>9. \A i \in Slots : q_testcase_cache'[i] = IF i = tid THEN want ELSE q_testcase_cache[i]
  BY <1>1, <1>3 DEF TypeOK
<1>10. \A i \in Slots : q_testcase_cache'[i] # NoBuf => q_testcase_cache'[i] \in Cached'
  BY <1>4, <1>9 DEF CacheExact
<1>11. \A q \in Cached' : \E i \in Slots : q_testcase_cache'[i] = q
  <2>1. q_testcase_cache'[tid] = want
    BY <1>1, <1>9
  <2>2. ASSUME NEW q \in Cached
        PROVE  \E i \in Slots : q_testcase_cache'[i] = q
    <3>1. PICK i \in Slots : q_testcase_cache[i] = q
      BY DEF CacheExact
    <3>2. i # tid
      BY <3>1, CacheAssumption DEF Cached
    <3> QED BY <1>9, <3>1, <3>2
  <2> QED BY <1>1, <1>4, <2>1, <2>2
<1>12. \A i, j \in Slots :
          q_testcase_cache'[i] = q_testcase_cache'[j] /\ q_testcase_cache'[i] # NoBuf => i = j
  BY <1>1, <1>9 DEF CacheExact
<1>13. \A i \in Slots : i < smallest_free' => q_testcase_cache'[i] # NoBuf
  <2>1. want # NoBuf
    BY <1>1, CacheAssumption
  <2>2. ASSUME NEW i \in Slots, i < smallest_free'
        PROVE  i < smallest_free \/ i = tid
    BY <1>1, <1>3, <2>2 DEF Slots, TypeOK
  <2> QED BY <1>9, <2>1, <2>2 DEF CacheExact
<1>14. CacheExact'
  BY <1>7, <1>8, <1>10, <1>11, <1>12, <1>13 DEF CacheExact
<1>15. cache_count' < max_cache_entries'
  BY <1>1, <1>3 DEF Full, TypeOK, limitVars
<1>16. smallest_free' <= max_cache_count' /\ max_cache_count' <= max_cache_entries'
  BY <1>1, <1>2, <1>3 DEF Limits, limitVars, TypeOK, Slots
<1>17. \A i \in Slots : i >= max_cache_count' => q_testcase_cache'[i] = NoBuf
  BY <1>1, <1>3, <1>9 DEF Limits, TypeOK, Slots
<1>18. max_cache_count' \in 0 .. MaxEntries /\ smallest_free' \in 0 .. MaxEntries
  BY <1>1, <1>2, <1>3, CacheAssumption DEF TypeOK, Slots, Limits
<1>19. Limits'
  <2>1. Roomy => max_cache_entries' >= 3
    BY DEF Limits, limitVars
  <2> QED BY <1>15, <1>16, <1>17, <2>1, ZenonT(30) DEF Limits
<1>20. cache_size' \in Nat /\ cache_count' \in Nat
  BY <1>3, <1>6 DEF TypeOK
<1> QED BY <1>4, <1>5, <1>14, <1>18, <1>19, <1>20

LEMMA EvictStep ==
  ASSUME Inv, NEW s \in Slots, Evict(s)
  PROVE  /\ CacheExact' /\ Limits' /\ Fresh'
         /\ Cached' = Cached \ {q_testcase_cache[s]} /\ q_testcase_cache[s] # queue_cur
         /\ q_testcase_cache'[s] = NoBuf
         /\ testcase_buf' \in [Entries -> BufOrNone]
         /\ q_testcase_cache' \in [Slots -> EntryOrNone]
         /\ cache_size' \in Nat /\ cache_count' \in Nat
         /\ max_cache_entries' \in 1 .. MaxEntries /\ learned' \in 0 .. 1
         /\ smallest_free' \in 0 .. MaxEntries
<1> USE DEF Inv
<1> DEFINE v == q_testcase_cache[s]
<1>1. v \in Cached /\ v \in Entries /\ v # queue_cur /\ v # NoBuf /\ s < max_cache_count
  BY DEF Evict, Victim, CacheExact, Cached
<1>2. /\ testcase_buf' = [testcase_buf EXCEPT ![v] = NoBuf]
      /\ q_testcase_cache' = [q_testcase_cache EXCEPT ![s] = NoBuf]
      /\ cache_size' = cache_size - len(v) /\ cache_count' = cache_count - 1
      /\ smallest_free' = IF s < smallest_free THEN s ELSE smallest_free
      /\ UNCHANGED <<file, max_cache_count>>
  BY DEF Evict
<1>3. Cached' = Cached \ {v} /\ Fresh'
  BY <1>1, <1>2 DEF Cached, Fresh, TypeOK
<1>4. testcase_buf' \in [Entries -> BufOrNone] /\ q_testcase_cache' \in [Slots -> EntryOrNone]
  BY <1>1, <1>2 DEF TypeOK, EntryOrNone, BufOrNone
<1>5. len(v) \in Nat /\ len(v) \in 1 .. MaxLen
  BY <1>1, CachedQueued, Lengths
<1>6. cache_count' = Cardinality(Cached')
  <2>1. IsFiniteSet(Cached)
    BY EntriesFinite DEF Cached
  <2> QED BY <1>1, <1>2, <1>3, <2>1, FS_RemoveElement, ZenonT(30) DEF CacheExact
<1>7. cache_size' = Cardinality(CachedBytes')
  <2>1. CachedBytes' = Pairs(Cached \ {v}, lens')
    BY <1>3, CachedPairs DEF CachedBytes, Pairs, lens, Cached
  <2>2. lens' = lens /\ lens[v] = len(v)
    BY <1>1, <1>2 DEF lens, len
  <2>3. Cached = (Cached \ {v}) \union {v} /\ Cached \ {v} \subseteq Entries
    BY <1>1, CachedPairs
  <2>4. Cardinality(Pairs(Cached, lens)) = Cardinality(Pairs(Cached \ {v}, lens)) + lens[v]
    <3>1. Cached \ {v} \in SUBSET Entries /\ v \in Entries /\ v \notin Cached \ {v}
          /\ lens[v] \in 1 .. MaxLen
      BY <1>1, <1>5, <2>2, <2>3
    <3> HIDE DEF v
    <3>2. Cardinality(Pairs((Cached \ {v}) \union {v}, lens)) =
            Cardinality(Pairs(Cached \ {v}, lens)) + lens[v]
      BY <3>1, PairsAdd
    <3> QED BY <2>3, <3>2
  <2>5. Cardinality(Pairs(Cached \ {v}, lens)) \in Nat
    BY PairsFinite
  <2> QED BY <1>2, <1>5, <2>1, <2>2, <2>4, <2>5, CachedPairs DEF CacheExact
<1>8. IsFiniteSet(CachedBytes') /\ Cardinality(CachedBytes') \in Nat /\ Cardinality(Cached') \in Nat
  <2>1. Cached' \subseteq Entries
    BY <1>1, <1>3 DEF Cached
  <2>2. CachedBytes' \subseteq CachedBytes
    BY <1>1, <1>2, <1>3 DEF CachedBytes, len
  <2> QED BY <2>1, <2>2, EntriesFinite, CachedBytesFinite, FS_Subset, FS_CardinalityType
<1>9. \A i \in Slots : q_testcase_cache'[i] = IF i = s THEN NoBuf ELSE q_testcase_cache[i]
  BY <1>2 DEF TypeOK
<1>10. \A i \in Slots : q_testcase_cache'[i] # NoBuf => q_testcase_cache'[i] \in Cached'
  BY <1>1, <1>3, <1>9 DEF CacheExact
<1>11. \A q \in Cached' : \E i \in Slots : q_testcase_cache'[i] = q
  BY <1>3, <1>9 DEF CacheExact
<1>12. \A i, j \in Slots :
          q_testcase_cache'[i] = q_testcase_cache'[j] /\ q_testcase_cache'[i] # NoBuf => i = j
  BY <1>9 DEF CacheExact
<1>13. \A i \in Slots : i < smallest_free' => q_testcase_cache'[i] # NoBuf
  <2>1. ASSUME NEW i \in Slots, i < smallest_free'
        PROVE  i < smallest_free /\ i # s
    BY <1>2, <2>1 DEF Slots, TypeOK
  <2> QED BY <1>9, <2>1 DEF CacheExact
<1>14. CacheExact'
  BY <1>6, <1>7, <1>10, <1>11, <1>12, <1>13 DEF CacheExact
<1>15. /\ max_cache_entries' \in 1 .. MaxEntries /\ learned' \in 0 .. 1
       /\ Roomy => max_cache_entries' >= 3
       /\ cache_count' < max_cache_entries' /\ max_cache_count <= max_cache_entries'
  <2>1. CASE UNCHANGED limitVars
    BY <1>2, <2>1 DEF limitVars, TypeOK, Limits
  <2>2. CASE ~UNCHANGED limitVars
    <3>1. /\ FullBySize(len(want)) /\ cache_count < max_cache_entries
          /\ max_cache_count < max_cache_entries
          /\ max_cache_entries' = IF max_cache_count > cache_count THEN max_cache_count + 1
                                  ELSE cache_count + 1
          /\ learned' = 1
      BY <2>2 DEF Evict, Learn
    <3>2. len(want) \in 1 .. MaxLen
      BY Lengths DEF Evict, CallInv
    <3>3. Roomy => cache_size > MaxLen
      BY <3>1, <3>2, CacheAssumption DEF FullBySize, TypeOK, Roomy
    <3>4. Roomy => cache_count >= 2
      BY <3>3, TwoCached
    <3> QED BY <1>2, <3>1, <3>4, CacheAssumption DEF TypeOK
  <2> QED BY <2>1, <2>2
<1>16. smallest_free' <= max_cache_count' /\ smallest_free' \in 0 .. MaxEntries
  BY <1>1, <1>2 DEF Limits, TypeOK, Slots
<1>17. \A i \in Slots : i >= max_cache_count' => q_testcase_cache'[i] = NoBuf
  BY <1>2, <1>9 DEF Limits
<1> QED BY <1>1, <1>2, <1>3, <1>4, <1>6, <1>7, <1>8, <1>9, <1>14, <1>15, <1>16, <1>17 DEF Limits

LEMMA TrimStep ==
  ASSUME Inv, NEW c \in Contents, trim_case(c)
  PROVE  /\ CacheExact' /\ Limits' /\ Fresh' /\ Cached' = Cached
         /\ testcase_buf' \in [Entries -> BufOrNone] /\ file' \in [Entries -> BufOrNone]
         /\ cache_size' \in Nat
<1> USE DEF Inv
<1>1. /\ queue_cur \in Cached /\ queue_cur \in Entries /\ queue_cur \in Queued /\ c # NoBuf
  BY CacheAssumption DEF trim_case, CallInv, Holding, Cached
<1>2. /\ testcase_buf' = [testcase_buf EXCEPT ![queue_cur] = c]
      /\ file' = [file EXCEPT ![queue_cur] = c]
      /\ cache_size' = cache_size + Length[c] - len(queue_cur)
      /\ UNCHANGED <<q_testcase_cache, cache_count, max_cache_count, smallest_free,
                     max_cache_entries, learned>>
  BY DEF trim_case, queue_testcase_retake, limitVars
<1>3. Cached' = Cached /\ Fresh'
  BY <1>1, <1>2 DEF Cached, Fresh, TypeOK
<1>4. testcase_buf' \in [Entries -> BufOrNone] /\ file' \in [Entries -> BufOrNone]
  BY <1>2 DEF TypeOK, BufOrNone
<1>5. len(queue_cur) \in Nat /\ Length[c] \in Nat /\ Length[c] \in 1 .. MaxLen
      /\ len(queue_cur) \in 1 .. MaxLen
  BY <1>1, Lengths, CacheAssumption
<1> DEFINE Others == Cached \ {queue_cur}
<1>6. /\ lens[queue_cur] = len(queue_cur) /\ lens'[queue_cur] = Length[c]
      /\ \A p \in Others : lens'[p] = lens[p]
  BY <1>1, <1>2, CachedPairs DEF lens, len, TypeOK
<1>7. Cached = Others \union {queue_cur} /\ Others \in SUBSET Entries /\ queue_cur \notin Others
  BY <1>1, CachedPairs
<1>8. Cardinality(Pairs(Cached, lens)) = Cardinality(Pairs(Others, lens)) + len(queue_cur)
  BY <1>1, <1>5, <1>6, <1>7, PairsAdd
<1>9. Cardinality(Pairs(Cached, lens')) = Cardinality(Pairs(Others, lens)) + Length[c]
  BY <1>1, <1>5, <1>6, <1>7, PairsAdd
<1>10. CachedBytes' = Pairs(Cached, lens')
  BY <1>3, CachedPairs DEF CachedBytes, Pairs, lens, Cached
<1>11. Cardinality(Pairs(Others, lens)) \in Nat
  BY PairsFinite
<1>12. cache_size' = Cardinality(CachedBytes') /\ cache_size' \in Nat
  BY <1>2, <1>5, <1>8, <1>9, <1>10, <1>11, CachedPairs DEF CacheExact
<1>13. CacheExact'
  BY <1>2, <1>3, <1>12 DEF CacheExact
<1>14. Limits'
  BY <1>2 DEF Limits
<1> QED BY <1>3, <1>4, <1>12, <1>13, <1>14
-----------------------------------------------------------------------------
LEMMA InvInit == Init => Inv
<1> SUFFICES ASSUME Init PROVE Inv
  OBVIOUS
<1>1. TypeOK
  BY CacheAssumption DEF Init, TypeOK, Queued, Slots, EntryOrNone, BufOrNone
<1>2. Cached = {} /\ CachedBytes = {}
  BY DEF Init, Cached, CachedBytes
<1>3. \A i \in Slots : q_testcase_cache[i] = NoBuf
  BY DEF Init
<1>4. CacheExact
  BY <1>2, <1>3, FS_EmptySet DEF CacheExact, Init, Slots
<1>5. Fresh /\ CallInv
  BY <1>2, <1>3, CacheAssumption DEF Fresh, CallInv, Holding, Init
<1>6. Limits
  BY <1>3, CacheAssumption DEF Limits, Init, Roomy
<1> QED BY <1>1, <1>4, <1>5, <1>6 DEF Inv

LEMMA CacheSame ==
  ASSUME Inv, UNCHANGED <<testcase_buf, tableVars, limitVars>>,
         \A q \in Cached : file'[q] = file[q]
  PROVE  CacheExact' /\ Fresh' /\ Limits' /\ Cached' = Cached
<1>1. Cached' = Cached
  BY DEF Cached
<1>2. CachedBytes' = CachedBytes
  BY <1>1 DEF CachedBytes, len
<1>3. CacheExact'
  BY <1>1, <1>2 DEF Inv, CacheExact, tableVars
<1>4. Fresh' /\ Limits'
  BY <1>1 DEF Inv, Fresh, Limits, tableVars, limitVars
<1> QED BY <1>1, <1>3, <1>4

LEMMA InvStep == Inv /\ [Next]_vars => Inv'
<1> SUFFICES ASSUME Inv, [Next]_vars PROVE Inv'
  OBVIOUS
<1> USE DEF Inv
<1>1. CASE \E q \in Queued : Choose(q) \/ Splice(q)
  <2>1. PICK q \in Queued : Choose(q) \/ Splice(q)
    BY <1>1
  <2>2. /\ UNCHANGED <<file, testcase_buf, tableVars, limitVars>> /\ Get(q)
        /\ queue_cur' = q \/ (queue_cur' = queue_cur /\ pc = "mutate" /\ q # queue_cur)
    BY <2>1 DEF Choose, Splice
  <2>3. CacheExact' /\ Fresh' /\ Limits' /\ Cached' = Cached
    BY <2>2, CacheSame
  <2>4. Queued' = Queued /\ Queued \subseteq Entries /\ q \in Queued /\ queue_cur' \in Queued
    BY <2>1, <2>2 DEF Queued, CallInv
  <2>5. CASE q \in Cached
    <3>1. /\ UNCHANGED <<want, tid>>
          /\ \/ q = queue_cur' /\ pc' = "trim" /\ target' = NoBuf
             \/ q # queue_cur' /\ pc' = "mutate" /\ target' = q
      BY <2>2, <2>5 DEF Get, Got
    <3>2. TypeOK'
      BY <2>2, <2>4, <3>1, SMTT(30) DEF TypeOK, tableVars, limitVars, EntryOrNone
    <3>3. CallInv'
      BY <2>2, <2>3, <2>4, <2>5, <3>1 DEF CallInv, Holding
    <3> QED BY <2>3, <3>2, <3>3
  <2>6. CASE q \notin Cached
    <3>1. pc' = "get" /\ want' = q /\ tid' = max_cache_count /\ target' = NoBuf
      BY <2>2, <2>6 DEF Get
    <3>2. TypeOK'
      BY <2>2, <2>4, <3>1, CacheAssumption DEF TypeOK, tableVars, limitVars, EntryOrNone, Slots
    <3>3. q_testcase_cache'[tid'] = NoBuf
      BY <2>2, <3>1, SMTT(30) DEF Limits, TypeOK, Slots, tableVars
    <3>4. CallInv'
      BY <2>2, <2>3, <2>4, <2>6, <3>1, <3>3 DEF CallInv, Holding
    <3> QED BY <2>3, <3>2, <3>4
  <2> QED BY <2>5, <2>6
<1>2. CASE \E i \in Slots : Evict(i)
  <2>1. PICK i \in Slots : Evict(i)
    BY <1>2
  <2>2. /\ CacheExact' /\ Limits' /\ Fresh'
        /\ Cached' = Cached \ {q_testcase_cache[i]} /\ q_testcase_cache[i] # queue_cur
        /\ q_testcase_cache'[i] = NoBuf
        /\ testcase_buf' \in [Entries -> BufOrNone]
        /\ q_testcase_cache' \in [Slots -> EntryOrNone]
        /\ cache_size' \in Nat /\ cache_count' \in Nat
        /\ max_cache_entries' \in 1 .. MaxEntries /\ learned' \in 0 .. 1
        /\ smallest_free' \in 0 .. MaxEntries
    BY <2>1, EvictStep
  <2>3. pc = "get" /\ tid' = i /\ UNCHANGED <<file, max_cache_count, queue_cur, target, pc, want>>
    BY <2>1 DEF Evict
  <2>4. TypeOK'
    BY <2>2, <2>3, SMTT(30) DEF TypeOK
  <2>5. CallInv'
    BY <2>2, <2>3 DEF CallInv, Holding, Queued
  <2> QED BY <2>2, <2>4, <2>5
<1>3. CASE Room
  <2>1. /\ pc = "get" /\ pc' = "search" /\ ~Full(len(want))
        /\ tid' = IF tid >= max_cache_entries THEN smallest_free ELSE tid
        /\ UNCHANGED <<file, testcase_buf, tableVars, limitVars, queue_cur, target, want>>
    BY <1>3 DEF Room
  <2>2. CacheExact' /\ Fresh' /\ Limits' /\ Cached' = Cached
    BY <2>1, CacheSame
  <2>3. TypeOK'
    BY <2>1, CacheAssumption DEF TypeOK, tableVars, limitVars, Slots
  <2>4. \E i \in tid' .. max_cache_entries - 1 : q_testcase_cache[i] = NoBuf
    <3>1. CASE tid >= max_cache_entries
      BY <2>1, <3>1, SlotFree DEF Limits
    <3>2. CASE ~(tid >= max_cache_entries)
      <4>1. tid' = tid /\ tid \in tid .. max_cache_entries - 1 /\ q_testcase_cache[tid] = NoBuf
        BY <2>1, <3>2 DEF CallInv, TypeOK, Slots
      <4> QED BY <4>1
    <3> QED BY <3>1, <3>2
  <2>5. (~Full(len(want)))'
    BY <2>1 DEF Full, FullBySize, len, tableVars, limitVars
  <2>6. CallInv'
    BY <2>1, <2>2, <2>4, <2>5 DEF CallInv, Holding, Queued, tableVars, limitVars
  <2> QED BY <2>2, <2>3, <2>6
<1>4. CASE Search
  <2>1. /\ pc \in {"search", "store"} /\ q_testcase_cache[tid] # NoBuf /\ tid' = tid + 1
        /\ UNCHANGED <<file, testcase_buf, tableVars, limitVars, queue_cur, target, pc, want>>
    BY <1>4 DEF Search
  <2>2. CacheExact' /\ Fresh' /\ Limits' /\ Cached' = Cached
    BY <2>1, CacheSame
  <2>3. PICK i \in tid .. max_cache_entries - 1 : q_testcase_cache[i] = NoBuf
    BY <2>1 DEF CallInv
  <2>4. i \in tid' .. max_cache_entries - 1 /\ tid' \in Slots
    BY <2>1, <2>3, CacheAssumption DEF TypeOK, Slots
  <2>5. TypeOK'
    BY <2>1, <2>4 DEF TypeOK, tableVars, limitVars
  <2>6. (~Full(len(want)))'
    BY <2>1 DEF CallInv, Full, FullBySize, len, tableVars, limitVars
  <2>7. CallInv'
    BY <2>1, <2>2, <2>3, <2>4, <2>6 DEF CallInv, Holding, Queued, tableVars, limitVars
  <2> QED BY <2>2, <2>5, <2>7
<1>5. CASE Found
  <2>1. /\ pc \in {"search", "store"} /\ q_testcase_cache[tid] = NoBuf
        /\ Register(want, file[want], tid) /\ UNCHANGED <<file, limitVars, want, tid, queue_cur>>
        /\ \/ pc = "store" /\ pc' = "mutate" /\ target' = target
           \/ pc = "search" /\ want = queue_cur /\ pc' = "trim" /\ target' = NoBuf
           \/ pc = "search" /\ want # queue_cur /\ pc' = "mutate" /\ target' = want
    BY <1>5 DEF Found, Got
  <2>2. /\ CacheExact' /\ Limits' /\ Fresh'
        /\ Cached' = Cached \union {want}
        /\ testcase_buf' \in [Entries -> BufOrNone]
        /\ q_testcase_cache' \in [Slots -> EntryOrNone]
        /\ cache_size' \in Nat /\ cache_count' \in Nat
        /\ max_cache_count' \in 0 .. MaxEntries /\ smallest_free' \in 0 .. MaxEntries
    BY <2>1, RegisterStep
  <2>3. TypeOK'
    BY <2>1, <2>2, SMTT(30) DEF TypeOK, limitVars, EntryOrNone
  <2>4. CallInv'
    BY <2>1, <2>2 DEF CallInv, Holding, Queued
  <2> QED BY <2>2, <2>3, <2>4
<1>6. CASE NoTrim
  <2>1. /\ pc = "trim" /\ pc' = "mutate"
        /\ UNCHANGED <<file, testcase_buf, tableVars, limitVars, queue_cur, target, want, tid>>
    BY <1>6 DEF NoTrim
  <2>2. CacheExact' /\ Fresh' /\ Limits' /\ Cached' = Cached
    BY <2>1, CacheSame
  <2>3. TypeOK'
    BY <2>1 DEF TypeOK, tableVars, limitVars
  <2>4. CallInv'
    BY <2>1, <2>2 DEF CallInv, Holding, Queued
  <2> QED BY <2>2, <2>3, <2>4
<1>7. CASE \E c \in Contents : trim_case(c)
  <2>1. PICK c \in Contents : trim_case(c)
    BY <1>7
  <2>2. /\ CacheExact' /\ Limits' /\ Fresh' /\ Cached' = Cached
        /\ testcase_buf' \in [Entries -> BufOrNone] /\ file' \in [Entries -> BufOrNone]
        /\ cache_size' \in Nat
    BY <2>1, TrimStep
  <2>3. /\ pc = "trim" /\ pc' = "mutate" /\ file' = [file EXCEPT ![queue_cur] = c]
        /\ UNCHANGED <<q_testcase_cache, cache_count, max_cache_count, smallest_free,
                       limitVars, queue_cur, target, want, tid>>
    BY <2>1 DEF trim_case
  <2>4. TypeOK'
    BY <2>2, <2>3 DEF TypeOK, limitVars
  <2>5. queue_cur \in Queued'
    BY <2>3, CacheAssumption DEF Queued, TypeOK
  <2>6. CallInv'
    BY <2>2, <2>3, <2>5 DEF CallInv, Holding
  <2> QED BY <2>2, <2>4, <2>6
<1>8. CASE \E c \in Contents, q \in Entries : queue_testcase_store_mem(q, c)
  <2>1. PICK c \in Contents, q \in Entries : queue_testcase_store_mem(q, c)
    BY <1>8
  <2>2. /\ pc = "mutate" /\ q \notin Queued /\ file' = [file EXCEPT ![q] = c]
        /\ UNCHANGED <<testcase_buf, tableVars, limitVars, queue_cur, target>>
        /\ \/ UNCHANGED <<pc, want, tid>>
           \/ /\ ~Full(Length[c]) /\ pc' = "store" /\ want' = q
              /\ tid' = IF max_cache_count >= max_cache_entries THEN smallest_free
                        ELSE max_cache_count
    BY <2>1 DEF queue_testcase_store_mem
  <2>3. q \notin Cached /\ \A p \in Cached : file'[p] = file[p]
    BY <2>2, CachedQueued DEF TypeOK, Cached
  <2>4. CacheExact' /\ Fresh' /\ Limits' /\ Cached' = Cached
    BY <2>2, <2>3, CacheSame
  <2>5. TypeOK'
    BY <2>2, CacheAssumption DEF TypeOK, tableVars, limitVars, Slots, BufOrNone
  <2>6. queue_cur' \in Queued' /\ q \in Queued'
    BY <2>2, CacheAssumption, SMTT(30) DEF Queued, TypeOK, CallInv
  <2>7. CASE UNCHANGED <<pc, want, tid>>
    BY <2>2, <2>4, <2>5, <2>6, <2>7 DEF CallInv, Holding
  <2>8. CASE /\ ~Full(Length[c]) /\ pc' = "store" /\ want' = q
             /\ tid' = IF max_cache_count >= max_cache_entries THEN smallest_free
                       ELSE max_cache_count
    <3>1. (~Full(len(want)))'
      BY <2>2, <2>8 DEF Full, FullBySize, len, tableVars, limitVars, TypeOK
    <3>2. \E i \in tid' .. max_cache_entries - 1 : q_testcase_cache[i] = NoBuf
      <4>1. CASE max_cache_count >= max_cache_entries
        BY <2>8, <4>1, SlotFree DEF Limits
      <4>2. CASE ~(max_cache_count >= max_cache_entries)
        <5>1. /\ tid' = max_cache_count /\ max_cache_count \in Slots
              /\ max_cache_count \in max_cache_count .. max_cache_entries - 1
          BY <2>8, <4>2, CacheAssumption DEF TypeOK, Slots
        <5>2. q_testcase_cache[max_cache_count] = NoBuf
          BY <5>1 DEF Limits, Slots
        <5> QED BY <5>1, <5>2
      <4> QED BY <4>1, <4>2
    <3>3. CallInv'
      BY <2>2, <2>3, <2>4, <2>6, <2>8, <3>1, <3>2 DEF CallInv, Holding, tableVars, limitVars
    <3> QED BY <2>4, <2>5, <3>3
  <2> QED BY <2>2, <2>7, <2>8
<1>9. CASE UNCHANGED vars
  <2>1. UNCHANGED <<file, testcase_buf, tableVars, limitVars, queue_cur, target, pc, want, tid>>
    BY <1>9 DEF vars
  <2>2. CacheExact' /\ Fresh' /\ Limits' /\ Cached' = Cached
    BY <2>1, CacheSame
  <2>3. TypeOK'
    BY <2>1 DEF TypeOK, tableVars, limitVars
  <2>4. CallInv'
    BY <2>1, <2>2 DEF CallInv, Holding, Queued, Full, FullBySize, len, tableVars, limitVars
  <2> QED BY <2>2, <2>3, <2>4
<1> QED BY <1>1, <1>2, <1>3, <1>4, <1>5, <1>6, <1>7, <1>8, <1>9 DEF Next

LEMMA InvHolds == Spec => []Inv
BY InvInit, InvStep, PTL DEF Spec

(* The state of the cache has its type: no count leaves its bounds and     *)
(* every slot that is looked at is one of the table.                       *)
THEOREM CacheTyped == Spec => []TypeOK
<1>1. Inv => TypeOK
  BY DEF Inv
<1> QED BY <1>1, InvHolds, PTL

(* The table, the buffers and the counts of queue_testcase_get,            *)
(* queue_testcase_store_mem and queue_testcase_retake agree.               *)
THEOREM CacheIsExact == Spec => []CacheExact
<1>1. Inv => CacheExact
  BY DEF Inv
<1> QED BY <1>1, InvHolds, PTL

(* The loop of queue_testcase_get finds a victim at all limits that leave  *)
(* room for two entries of MAX_FILE and at the others unless no entry but  *)
(* the current one is cached; the searches for a slot find one inside the  *)
(* table at all limits.                                                    *)
THEOREM GetsEnd == Spec => []GetEnds
<1>1. Inv => GetEnds
  BY VictimExists DEF GetEnds, Inv, CallInv
<1> QED BY <1>1, InvHolds, PTL
-----------------------------------------------------------------------------
(* The buffers that TestcaseStore is instantiated with.                    *)
in_buf ==
  IF pc = "idle" \/ (pc \in {"get", "search"} /\ want = queue_cur) THEN NoBuf
  ELSE testcase_buf[queue_cur]

new_buf == IF target = NoBuf THEN NoBuf ELSE testcase_buf[target]

(* A buffer in use holds what is in the file of its entry.                 *)
InUse ==
  /\ Holding => in_buf = file[queue_cur] /\ in_buf # NoBuf
  /\ ~Holding => in_buf = NoBuf
  /\ target # NoBuf => new_buf = file[target]
  /\ target = NoBuf => new_buf = NoBuf

LEMMA BuffersInUse == Inv => InUse
BY DEF Inv, TypeOK, InUse, Holding, in_buf, new_buf, CallInv, Fresh, Cached

LEMMA StoreInit == Init => Store!Init
BY DEF Init, Queued, BufOrNone, Store!Init

LEMMA StoreStep == Inv /\ InUse /\ InUse' /\ [Next]_vars => [Store!Next]_(Store!vars)
<1> SUFFICES ASSUME Inv, InUse, InUse', [Next]_vars,
                    ~UNCHANGED <<file, queue_cur, in_buf, new_buf>>
             PROVE  Store!Next
  BY DEF Store!vars, in_buf, new_buf
<1> USE DEF InUse
<1>1. ASSUME NEW q \in Queued, Choose(q)
      PROVE  Store!Next
  <2>1. queue_cur' = q /\ target' = NoBuf /\ UNCHANGED file
    BY <1>1 DEF Choose, Get, Got
  <2>2. CASE Holding'
    <3>1. Store!Open(q)
      BY <2>1, <2>2, SMTT(30) DEF Store!Open, in_buf, new_buf
    <3> QED BY <3>1 DEF Store!Next, Queued, Store!Queued
  <2>3. CASE ~Holding'
    <3>1. Store!Close(q)
      BY <2>1, <2>3 DEF Store!Close, in_buf, new_buf
    <3> QED BY <3>1, SMTT(30) DEF Store!Next, Queued, Store!Queued
  <2> QED BY <2>2, <2>3
<1>2. ASSUME NEW q \in Queued, Splice(q)
      PROVE  Store!Next
  <2>1. /\ pc = "mutate" /\ UNCHANGED <<file, queue_cur>>
        /\ \/ pc' = "mutate" /\ target' = q
           \/ pc' = "get" /\ want' = q /\ target' = NoBuf
        /\ q # queue_cur
    BY <1>2 DEF Splice, Get, Got
  <2>2. Holding /\ Holding' /\ in_buf' = in_buf
    BY <2>1 DEF Holding
  <2>3. CASE target' = q
    <3>1. q # NoBuf
      BY CacheAssumption DEF Queued
    <3>2. Store!Splice(q)
      BY <2>1, <2>2, <2>3, <3>1, SMTT(30) DEF Store!Splice, in_buf, new_buf
    <3> QED BY <3>2 DEF Store!Next, Queued, Store!Queued
  <2>4. CASE target' = NoBuf
    <3>1. Store!Drop
      BY <2>1, <2>2, <2>4 DEF Store!Drop, in_buf, new_buf
    <3> QED BY <3>1 DEF Store!Next
  <2> QED BY <2>1, <2>3, <2>4
<1>3. ASSUME Found
      PROVE  Store!Next
  <2>1. /\ UNCHANGED <<file, want, queue_cur>>
        /\ \/ pc = "store" /\ pc' = "mutate" /\ target' = target
           \/ pc = "search" /\ want = queue_cur /\ pc' = "trim" /\ target' = NoBuf
           \/ pc = "search" /\ want # queue_cur /\ pc' = "mutate" /\ target' = want
    BY <1>3 DEF Found, Got
  <2>2. CASE pc = "store"
    BY <2>1, <2>2, SMTT(30) DEF Holding
  <2>3. CASE pc = "search" /\ want = queue_cur
    <3>1. Holding' /\ target' = NoBuf
      BY <2>1, <2>3 DEF Holding
    <3>2. Store!Open(queue_cur)
      BY <2>1, <3>1, SMTT(30) DEF Store!Open, in_buf, new_buf
    <3> QED BY <3>2 DEF Store!Next, Queued, Store!Queued, Inv, CallInv
  <2>4. CASE pc = "search" /\ want # queue_cur
    <3>1. Holding /\ Holding' /\ target' = want
      BY <2>1, <2>4 DEF Holding
    <3>2. want \in Queued /\ want # NoBuf
      BY <2>4, CacheAssumption DEF Inv, CallInv, Queued
    <3>3. Store!Splice(want)
      BY <2>1, <3>1, <3>2, SMTT(30) DEF Store!Splice, in_buf, new_buf
    <3> QED BY <3>2, <3>3 DEF Store!Next, Queued, Store!Queued
  <2> QED BY <2>1, <2>2, <2>3, <2>4
<1>4. ASSUME NEW c \in Contents, trim_case(c)
      PROVE  Store!Next
  <2>1. /\ pc = "trim" /\ pc' = "mutate" /\ file' = [file EXCEPT ![queue_cur] = c]
        /\ UNCHANGED <<queue_cur, target>>
    BY <1>4 DEF trim_case
  <2>2. Holding /\ Holding' /\ target = NoBuf
    BY <2>1 DEF Holding, Inv, CallInv
  <2>3. in_buf' = c
    BY <2>1, <2>2, SMTT(30) DEF Inv, TypeOK
  <2>4. Store!Trim(c)
    BY <2>1, <2>2, <2>3, SMTT(30) DEF Store!Trim, in_buf, new_buf
  <2> QED BY <2>4 DEF Store!Next
<1>5. ASSUME NEW c \in Contents, NEW q \in Entries, queue_testcase_store_mem(q, c)
      PROVE  Store!Next
  <2>1. /\ pc = "mutate" /\ pc' \in {"mutate", "store"} /\ q \notin Queued
        /\ file' = [file EXCEPT ![q] = c]
        /\ UNCHANGED <<testcase_buf, queue_cur, target>>
    BY <1>5, SMTT(30) DEF queue_testcase_store_mem
  <2>2. Holding /\ in_buf' = in_buf /\ new_buf' = new_buf
    BY <2>1, SMTT(30) DEF Holding, in_buf, new_buf
  <2>3. Store!Save(q, c)
    BY <2>1, <2>2, SMTT(30) DEF Store!Save, in_buf, new_buf, Queued
  <2> QED BY <2>3 DEF Store!Next
<1>6. ASSUME Room \/ Search \/ NoTrim \/ \E i \in Slots : Evict(i)
      PROVE  FALSE
  <2>1. UNCHANGED <<file, queue_cur, target, want>>
        /\ (pc' = pc \/ (pc = "get" /\ pc' = "search") \/ (pc = "trim" /\ pc' = "mutate"))
    BY <1>6 DEF Room, Search, NoTrim, Evict
  <2>2. Holding' <=> Holding
    BY <2>1 DEF Holding
  <2> QED BY <2>1, <2>2, SMTT(30)
<1>7. ASSUME UNCHANGED vars
      PROVE  FALSE
  BY <1>7 DEF vars, in_buf, new_buf
<1> QED BY <1>1, <1>2, <1>3, <1>4, <1>5, <1>6, <1>7 DEF Next

(* The cache implements the store: what queue_testcase_get returned stays  *)
(* allocated, and equal to the file, for as long as fuzz_one uses it.      *)
THEOREM CacheImplementsStore == Spec => ImplementsStore
<1>1. Inv => InUse
  BY BuffersInUse
<1> QED BY <1>1, StoreInit, StoreStep, InvHolds, PTL DEF Spec, ImplementsStore, Store!Spec
=============================================================================
