---------------------------- MODULE TestcaseStore ----------------------------
(***************************************************************************)
(* What fuzz_one relies on when it asks for test cases: the buffer of the  *)
(* current entry, and that of the entry it splices with, hold what is in   *)
(* the entry's file for as long as they are in use.                        *)
(***************************************************************************)
CONSTANTS Entries, Contents, NoBuf

VARIABLES file,        \* NoBuf for an entry that is not in the queue yet
          cur, in_buf, \* current entry and its buffer
          new_buf      \* buffer of the entry spliced with

vars == <<file, cur, in_buf, new_buf>>

Queued == {q \in Entries : file[q] # NoBuf}

Init ==
  /\ file \in [Entries -> Contents \union {NoBuf}]
  /\ in_buf = NoBuf /\ new_buf = NoBuf
  /\ cur \in Entries

Open(q) ==
  /\ cur' = q /\ in_buf' = file[q] /\ new_buf' = NoBuf
  /\ UNCHANGED file

Close(q) ==
  /\ cur' = q /\ in_buf' = NoBuf /\ new_buf' = NoBuf
  /\ UNCHANGED file

Trim(c) ==
  /\ in_buf # NoBuf /\ new_buf = NoBuf
  /\ file' = [file EXCEPT ![cur] = c]
  /\ in_buf' = c
  /\ UNCHANGED <<cur, new_buf>>

Splice(q) ==
  /\ in_buf # NoBuf
  /\ new_buf' = file[q]
  /\ UNCHANGED <<file, cur, in_buf>>

Drop ==
  /\ new_buf' = NoBuf
  /\ UNCHANGED <<file, cur, in_buf>>

Save(q, c) ==
  /\ in_buf # NoBuf
  /\ file[q] = NoBuf
  /\ file' = [file EXCEPT ![q] = c]
  /\ UNCHANGED <<cur, in_buf, new_buf>>

Next ==
  \/ Drop
  \/ \E q \in Queued : Open(q) \/ Close(q) \/ Splice(q)
  \/ \E c \in Contents : Trim(c) \/ \E q \in Entries : Save(q, c)

Spec == Init /\ [][Next]_vars
=============================================================================
