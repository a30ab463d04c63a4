---------------------------- MODULE TestcaseCache ----------------------------
(***************************************************************************)
(* The test case cache of afl-fuzz: buffers of queue entries, kept up to a *)
(* size and a number of entries, and evicted at random.  A buffer is       *)
(* freed under an entry that fuzz_one may hold a pointer to, it must       *)
(* follow the file when the entry is trimmed, and the table of cached      *)
(* entries is searched without a bound.                                    *)
(*                                                                         *)
(* A test case is an element of Contents of which only the length matters. *)
(* q->len always is the length of the entry's file.                        *)
(***************************************************************************)
EXTENDS Naturals, FiniteSets

CONSTANTS Entries, Contents, NoBuf,
          Length,      \* of each test case
          MaxLen,      \* MAX_FILE
          MaxSize,     \* AFL_TESTCACHE_SIZE
          MaxEntries   \* AFL_TESTCACHE_ENTRIES

(* afl-fuzz refuses a cache smaller than 2 * MAX_FILE.  It accepts one of  *)
(* no entries, which has no table: this is left out.                       *)
ASSUME CacheAssumption ==
  /\ IsFiniteSet(Entries)
  /\ NoBuf \notin Contents /\ NoBuf \notin Entries
  /\ MaxLen \in Nat
  /\ Length \in [Contents -> 1 .. MaxLen]
  /\ MaxSize \in Nat /\ MaxSize >= 2 * MaxLen
  /\ MaxEntries \in Nat /\ MaxEntries > 0

VARIABLES file,                \* NoBuf for an entry not in the queue yet
          testcase_buf,        \* NoBuf if not cached
          q_testcase_cache,    \* slots, NoBuf if free
          cache_size, cache_count,
          max_cache_entries, max_cache_count, smallest_free,
          learned,             \* 1 once do_once is set
          queue_cur,
          target,              \* the entry spliced with
          pc,
          want, tid            \* q and tid of queue_testcase_get

tableVars == <<q_testcase_cache, cache_size, cache_count, max_cache_count, smallest_free>>
limitVars == <<max_cache_entries, learned>>
vars == <<file, testcase_buf, tableVars, limitVars, queue_cur, target, pc, want, tid>>

Slots == 0 .. MaxEntries
EntryOrNone == Entries \union {NoBuf}
BufOrNone == Contents \union {NoBuf}

Queued == {q \in Entries : file[q] # NoBuf}
Cached == {q \in Entries : testcase_buf[q] # NoBuf}
len(q) == Length[file[q]]

TypeOK ==
  /\ file \in [Entries -> BufOrNone]
  /\ testcase_buf \in [Entries -> BufOrNone]
  /\ q_testcase_cache \in [Slots -> EntryOrNone]
  /\ cache_size \in Nat /\ cache_count \in Nat
  /\ max_cache_entries \in 1 .. MaxEntries
  /\ max_cache_count \in 0 .. MaxEntries
  /\ smallest_free \in 0 .. MaxEntries
  /\ learned \in 0 .. 1
  /\ queue_cur \in Entries
  /\ target \in EntryOrNone
  /\ pc \in {"idle", "get", "search", "store", "trim", "mutate"}
  /\ want \in Entries
  /\ tid \in Slots

Init ==
  /\ file \in [Entries -> BufOrNone]
  /\ Queued # {}
  /\ testcase_buf = [q \in Entries |-> NoBuf]
  /\ q_testcase_cache = [i \in Slots |-> NoBuf]
  /\ cache_size = 0 /\ cache_count = 0
  /\ max_cache_entries = MaxEntries /\ max_cache_count = 0 /\ smallest_free = 0
  /\ learned = 0
  /\ queue_cur \in Queued
  /\ target = NoBuf
  /\ pc = "idle"
  /\ want = queue_cur
  /\ tid = 0
-----------------------------------------------------------------------------
FullBySize(l) == cache_size + l >= MaxSize

Full(l) == FullBySize(l) \/ cache_count >= max_cache_entries - 1

(* q is cached with content c in slot i.                                   *)
Register(q, c, i) ==
  /\ testcase_buf' = [testcase_buf EXCEPT ![q] = c]
  /\ q_testcase_cache' = [q_testcase_cache EXCEPT ![i] = q]
  /\ cache_size' = cache_size + Length[c]
  /\ cache_count' = cache_count + 1
  /\ max_cache_count' = IF i >= max_cache_count THEN i + 1 ELSE max_cache_count
  /\ smallest_free' = IF i < max_cache_count /\ i = smallest_free THEN i + 1 ELSE smallest_free

(* Where fuzz_one goes on with the buffer of q.                            *)
Got(q) ==
  IF q = queue_cur' THEN pc' = "trim" /\ target' = NoBuf
  ELSE pc' = "mutate" /\ target' = q

(* queue_testcase_get: the buffer, if q is cached.                         *)
Get(q) ==
  IF q \in Cached
  THEN Got(q) /\ UNCHANGED <<want, tid>>
  ELSE pc' = "get" /\ want' = q /\ tid' = max_cache_count /\ target' = NoBuf

(* fuzz_one takes up the entry that was chosen.                            *)
Choose(q) ==
  /\ pc \in {"idle", "trim", "mutate"}
  /\ queue_cur' = q
  /\ Get(q)
  /\ UNCHANGED <<file, testcase_buf, tableVars, limitVars>>

(* The custom stage splices the current entry with another one.            *)
Splice(q) ==
  /\ pc = "mutate"
  /\ q # queue_cur
  /\ UNCHANGED queue_cur
  /\ Get(q)
  /\ UNCHANGED <<file, testcase_buf, tableVars, limitVars>>

(* Mutant: the limit that is learned has no room for the slot in use.      *)
LearnTight ==
  IF FullBySize(len(want)) /\ cache_count < max_cache_entries
     /\ max_cache_count < max_cache_entries /\ learned = 0
  THEN max_cache_entries' = cache_count /\ learned' = 1
  ELSE UNCHANGED limitVars

(* "Once the cache is filled by size - that is the max."                   *)
Learn ==
  IF FullBySize(len(want)) /\ cache_count < max_cache_entries
     /\ max_cache_count < max_cache_entries /\ learned = 0
  THEN /\ max_cache_entries' = IF max_cache_count > cache_count THEN max_cache_count + 1
                               ELSE cache_count + 1
       /\ learned' = 1
  ELSE UNCHANGED limitVars

(* Mutant: the current entry may be evicted.                               *)
VictimAny(i) == i < max_cache_count /\ q_testcase_cache[i] # NoBuf

Victim(i) ==
  /\ i < max_cache_count
  /\ q_testcase_cache[i] # NoBuf
  /\ q_testcase_cache[i] # queue_cur

(* One round of the loop that evicts, at a random slot i.                  *)
Evict(i) ==
  /\ pc = "get"
  /\ Full(len(want))
  /\ Learn
  /\ Victim(i)
  /\ testcase_buf' = [testcase_buf EXCEPT ![q_testcase_cache[i]] = NoBuf]
  /\ cache_size' = cache_size - len(q_testcase_cache[i])
  /\ q_testcase_cache' = [q_testcase_cache EXCEPT ![i] = NoBuf]
  /\ cache_count' = cache_count - 1
  /\ smallest_free' = IF i < smallest_free THEN i ELSE smallest_free
  /\ tid' = i
  /\ UNCHANGED <<file, max_cache_count, queue_cur, target, pc, want>>

(* There is room: the search for a slot starts at the last one evicted or  *)
(* behind all others, or at the smallest one that is free.                 *)
Room ==
  /\ pc = "get"
  /\ ~Full(len(want))
  /\ tid' = IF tid >= max_cache_entries THEN smallest_free ELSE tid
  /\ pc' = "search"
  /\ UNCHANGED <<file, testcase_buf, tableVars, limitVars, queue_cur, target, want>>

(* save_if_interesting: a new entry, cached if there is room.              *)
queue_testcase_store_mem(q, c) ==
  /\ pc = "mutate"
  /\ q \notin Queued
  /\ file' = [file EXCEPT ![q] = c]
  /\ IF Full(Length[c]) THEN UNCHANGED <<pc, want, tid>>
     ELSE /\ pc' = "store" /\ want' = q
          /\ tid' = IF max_cache_count >= max_cache_entries THEN smallest_free
                    ELSE max_cache_count
  /\ UNCHANGED <<testcase_buf, tableVars, limitVars, queue_cur, target>>

Search ==
  /\ pc \in {"search", "store"}
  /\ q_testcase_cache[tid] # NoBuf
  /\ tid' = tid + 1
  /\ UNCHANGED <<file, testcase_buf, tableVars, limitVars, queue_cur, target, pc, want>>

(* The test case is read from its file, or copied from the mutated buffer. *)
Found ==
  /\ pc \in {"search", "store"}
  /\ q_testcase_cache[tid] = NoBuf
  /\ Register(want, file[want], tid)
  /\ UNCHANGED queue_cur
  /\ IF pc = "store" THEN pc' = "mutate" /\ UNCHANGED target ELSE Got(want)
  /\ UNCHANGED <<file, limitVars, want, tid>>

(* Mutant: the size of the cache is not adjusted.                          *)
RetakeKeepsSize(c) ==
  /\ UNCHANGED cache_size
  /\ testcase_buf' = [testcase_buf EXCEPT ![queue_cur] = c]

(* The buffer of the current entry, which is cached, is read again.        *)
queue_testcase_retake(c) ==
  /\ cache_size' = cache_size + Length[c] - len(queue_cur)
  /\ testcase_buf' = [testcase_buf EXCEPT ![queue_cur] = c]

(* trim_case with the mutator's trimmer: the file is rewritten with c, not *)
(* always a shorter one.                                                   *)
trim_case(c) ==
  /\ pc = "trim"
  /\ file' = [file EXCEPT ![queue_cur] = c]
  /\ queue_testcase_retake(c)
  /\ pc' = "mutate"
  /\ UNCHANGED <<q_testcase_cache, cache_count, max_cache_count, smallest_free,
                 limitVars, queue_cur, target, want, tid>>

NoTrim ==
  /\ pc = "trim"
  /\ pc' = "mutate"
  /\ UNCHANGED <<file, testcase_buf, tableVars, limitVars, queue_cur, target, want, tid>>

Next ==
  \/ Room \/ Search \/ Found
  \/ NoTrim
  \/ \E q \in Queued : Choose(q) \/ Splice(q)
  \/ \E i \in Slots : Evict(i)
  \/ \E c \in Contents : trim_case(c) \/ \E q \in Entries : queue_testcase_store_mem(q, c)

Spec == Init /\ [][Next]_vars
-----------------------------------------------------------------------------
(* The bytes that are cached, one by one.                                  *)
CachedBytes == {b \in Entries \X (1 .. MaxLen) : b[1] \in Cached /\ b[2] <= len(b[1])}

(* The table, the buffers and the counts agree: each cached entry is in    *)
(* one slot and no other entry is in any, size and number are those of the *)
(* cached entries, although they were trimmed in the cache, and all slots  *)
(* below the smallest free one are taken.                                  *)
CacheExact ==
  /\ \A i \in Slots : q_testcase_cache[i] # NoBuf => q_testcase_cache[i] \in Cached
  /\ \A q \in Cached : \E i \in Slots : q_testcase_cache[i] = q
  /\ \A i, j \in Slots :
        q_testcase_cache[i] = q_testcase_cache[j] /\ q_testcase_cache[i] # NoBuf => i = j
  /\ cache_count = Cardinality(Cached)
  /\ cache_size = Cardinality(CachedBytes)
  /\ \A i \in Slots : i < smallest_free => q_testcase_cache[i] # NoBuf

(* A cache of exactly 2 * MAX_FILE, or of less than three entries, is full *)
(* with one entry in it, which the loop that evicts must leave alone when  *)
(* it is the current one: at these limits the loop may never end.          *)
Roomy == MaxSize > 2 * MaxLen /\ MaxEntries > 2

Cornered == ~Roomy /\ Cached \subseteq {queue_cur}

(* The loop that evicts finds a victim unless it is cornered, and the      *)
(* search for a slot finds a free one inside the table: also after the     *)
(* limit was learned, and entries became longer in the cache.              *)
GetEnds ==
  /\ pc = "get" /\ Full(len(want)) => (\E i \in Slots : Victim(i)) \/ Cornered
  /\ pc \in {"search", "store"} =>
        \E i \in tid .. max_cache_entries - 1 : q_testcase_cache[i] = NoBuf

(* What fuzz_one sees through in_buf and new_buf: the buffers themselves.  *)
Store == INSTANCE TestcaseStore
           WITH cur <- queue_cur,
                in_buf <- IF pc = "idle" \/ (pc \in {"get", "search"} /\ want = queue_cur) THEN NoBuf
                          ELSE testcase_buf[queue_cur],
                new_buf <- IF target = NoBuf THEN NoBuf ELSE testcase_buf[target]

(* The cache implements the store: no buffer in use is freed, or differs   *)
(* from the file of its entry.                                             *)
ImplementsStore == Store!Spec
=============================================================================
