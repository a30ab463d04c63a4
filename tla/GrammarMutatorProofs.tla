------------------------ MODULE GrammarMutatorProofs ------------------------
(***************************************************************************)
(* That queue/ and trees/ agree, that the mutator works on the entry       *)
(* afl-fuzz picked, that an in-place resume loses nothing, and that the    *)
(* calls afl_custom_fuzz_count announces are what the stages need: for any *)
(* grammar, any trees and any number of kills.                             *)
(***************************************************************************)
EXTENDS GrammarMutator, FiniteSetTheorems, TLAPS

(* The output directory is not used for other seeds.                       *)
OneInput == \A f, g \in InputDirs : f = g

LEMMA LoadedTree ==
  ASSUME StoreTypes, NEW n \in Names, NEW x \in Texts
  PROVE  /\ Loaded(n, x) \in TreeOrNone
         /\ (trees[n] # NoTree => Out[trees[n]] = x) /\ Loaded(n, x) # NoTree
               => Out[Loaded(n, x)] = x
BY TreeAssumption DEF StoreTypes, Loaded, TreeOrNone

LEMMA SourceText ==
  ASSUME StoreTypes, ToImport, pc \in {"import", "resume"}, NEW n \in todo
  PROVE  n \in Names /\ Source[n] \in Texts
BY DEF StoreTypes, ToImport, Source, Files, TextOrNone

LEMMA SeedTexts ==
  ASSUME NEW f \in InputDirs
  PROVE  /\ SeedFolder(f) \in [Names -> TextOrNone]
         /\ Files(SeedFolder(f)) = Seeds /\ Seeds \subseteq Names
<1>1. \A n \in Seeds : f[n] \in Texts /\ f[n] # NoText
  BY TreeAssumption
<1> QED BY <1>1 DEF SeedFolder, Files, TextOrNone, Names

LEMMA FreshName ==
  ASSUME StoreTypes, NEW n \in Fresh
  PROVE  /\ n \in Names /\ n \in Found /\ n \notin Entries
         /\ queue[n] = NoText /\ resume[n] = NoText /\ trees[n] = NoTree
BY DEF Fresh, Entries, Files, Names

(* A mutated tree has a text.                                              *)
LEMMA MutatedText ==
  ASSUME StoreTypes, mutated_tree # NoTree
  PROVE  mutated_tree \in Trees /\ Out[mutated_tree] \in Texts
BY TreeAssumption DEF StoreTypes, TreeOrNone

(* The ways in which queue/ changes in a kill.                             *)
LEMMA KillCases ==
  ASSUME StoreTypes, Kill
  PROVE  \/ UNCHANGED queue
         \/ /\ pc = "fuzz" /\ mutated_tree # NoTree
            /\ \E n \in Fresh : queue' = [queue EXCEPT ![n] = Out[mutated_tree]]
         \/ \E n \in todo : queue' = [queue EXCEPT ![n] = Source[n]]
BY DEF Kill, Link

TodoInv ==
  /\ ToImport
  /\ pc \notin {"import", "resume"} => todo = {}

LEMMA StoresStep == StoreTypes /\ TodoInv /\ [Next]_vars => StoreTypes' /\ TodoInv'
<1> SUFFICES ASSUME StoreTypes, TodoInv, [Next]_vars
             PROVE  StoreTypes' /\ TodoInv'
  OBVIOUS
<1> USE DEF TodoInv
<1>1. ASSUME NEW n \in Names, Import(n)
      PROVE  StoreTypes' /\ TodoInv'
  <2>1. /\ pc \in {"import", "resume"} /\ n \in todo /\ todo' = todo \ {n}
        /\ queue' = [queue EXCEPT ![n] = Source[n]]
        /\ tree_cur' = Loaded(n, Source[n]) /\ trees' = [trees EXCEPT ![n] = Loaded(n, Source[n])]
        /\ saved' = saved \union {n}
        /\ pc' = IF todo # {n} THEN pc ELSE IF pc = "resume" THEN "remove" ELSE "pick"
        /\ UNCHANGED <<input, resume, cur, mutated_tree, kills, torn>>
    BY <1>1 DEF Import, Link, afl_custom_queue_get
  <2>2. Source[n] \in Texts /\ Loaded(n, Source[n]) \in TreeOrNone
    BY <2>1, SourceText, LoadedTree
  <2>3. StoreTypes'
    BY <2>1, <2>2 DEF StoreTypes, TextOrNone
  <2>4. TodoInv'
    BY <2>1 DEF ToImport, Source, Files
  <2> QED BY <2>3, <2>4
<1>2. ASSUME NEW n \in Names, nuke_resume_dir(n)
      PROVE  StoreTypes' /\ TodoInv'
  BY <1>2 DEF nuke_resume_dir, history, StoreTypes, TextOrNone, ToImport
<1>3. ASSUME NEW n \in Names, Pick(n)
      PROVE  StoreTypes' /\ TodoInv'
  <2>1. queue[n] \in Texts
    BY <1>3 DEF Pick, Entries, Files, StoreTypes, TextOrNone
  <2>2. Loaded(n, queue[n]) \in TreeOrNone
    BY <2>1, LoadedTree
  <2>3. pc' \in {"pick", "count"} /\ pc \in {"pick", "fuzz"} /\ UNCHANGED todo
    BY <1>3 DEF Pick
  <2>4. StoreTypes'
    BY <1>3, <2>2, <2>3 DEF Pick, afl_custom_queue_get, history, StoreTypes
  <2> QED BY <2>3, <2>4 DEF ToImport
<1>4. ASSUME NEW n \in Names, afl_custom_queue_new_entry(n)
      PROVE  StoreTypes' /\ TodoInv'
  <2>1. mutated_tree \in Trees /\ Out[mutated_tree] \in Texts
    BY <1>4, MutatedText DEF afl_custom_queue_new_entry
  <2> QED BY <1>4, <2>1 DEF afl_custom_queue_new_entry, StoreTypes, TreeOrNone, TextOrNone, ToImport
<1>5. CASE afl_custom_fuzz_count
  BY <1>5 DEF afl_custom_fuzz_count, folders, history, StoreTypes, ToImport
<1>6. ASSUME NEW t \in Trees, afl_custom_fuzz(t)
      PROVE  StoreTypes' /\ TodoInv'
  BY <1>6 DEF afl_custom_fuzz, folders, history, StoreTypes, TreeOrNone, ToImport
<1>7. CASE Kill
  <2>1. kills' \in 0 .. MaxKills /\ torn' \in 0 .. 1
    BY <1>7, StepsAssumption DEF Kill, StoreTypes
  <2>2. queue' \in [Names -> TextOrNone]
    <3>1. CASE UNCHANGED queue
      BY <3>1 DEF StoreTypes
    <3>2. ASSUME mutated_tree # NoTree, NEW n \in Fresh,
                 queue' = [queue EXCEPT ![n] = Out[mutated_tree]]
          PROVE  queue' \in [Names -> TextOrNone]
      BY <3>2, MutatedText, ZenonT(30) DEF StoreTypes, TextOrNone
    <3>3. ASSUME NEW n \in todo, queue' = [queue EXCEPT ![n] = Source[n]]
          PROVE  queue' \in [Names -> TextOrNone]
      BY <3>3, SourceText DEF StoreTypes, TextOrNone
    <3> QED BY <1>7, <3>1, <3>2, <3>3, KillCases, SMTT(30)
  <2>3. pc' = "dead" /\ todo' = {} /\ tree_cur' = NoTree /\ mutated_tree' = NoTree
        /\ UNCHANGED <<input, resume, trees, cur, saved>>
    BY <1>7 DEF Kill, afl_custom_init
  <2> QED BY <2>1, <2>2, <2>3 DEF StoreTypes, TreeOrNone, ToImport
<1>8. CASE ResumeInPlace
  <2>1. OldQueue \in [Names -> TextOrNone] /\ Files(OldQueue) \subseteq Names
    BY DEF OldQueue, StoreTypes, Files
  <2>2. Nothing \in [Names -> TextOrNone]
    BY DEF Nothing, TextOrNone
  <2>3. StoreTypes'
    BY <1>8, <2>1, <2>2 DEF ResumeInPlace, history, StoreTypes
  <2>4. pc' = "resume" /\ resume' = OldQueue /\ todo' = Files(OldQueue)
    BY <1>8 DEF ResumeInPlace
  <2> QED BY <2>3, <2>4 DEF ToImport, Source, Files
<1>9. CASE StartOver
  <2>1. PICK f \in InputDirs : input' = SeedFolder(f)
    BY <1>9 DEF StartOver
  <2>2. Nothing \in [Names -> TextOrNone] /\ torn' \in 0 .. 1
    BY <1>9 DEF Nothing, TextOrNone, StartOver
  <2>3. pc' = "import" /\ todo' = Seeds
    BY <1>9 DEF StartOver
  <2>4. StoreTypes'
    BY <1>9, <2>1, <2>2, <2>3, SeedTexts, SMTT(30) DEF StartOver, StoreTypes
  <2>5. Files(input') = Seeds
    BY <2>1, SeedTexts
  <2>6. TodoInv'
    BY <2>3, <2>5 DEF ToImport, Source, Files
  <2> QED BY <2>4, <2>6
<1>10. CASE UNCHANGED vars
  BY <1>10 DEF vars, folders, history, StoreTypes, ToImport, Source, Files
<1> QED BY <1>1, <1>2, <1>3, <1>4, <1>5, <1>6, <1>7, <1>8, <1>9, <1>10, SMTT(30) DEF Next

(* The folders and the mutator's trees have their types, and afl-fuzz      *)
(* imports files that are in the folder it reads, in every state.          *)
THEOREM StoresTyped == Spec => [](StoreTypes /\ TodoInv)
<1>1. Init => StoreTypes /\ TodoInv
  <2> SUFFICES ASSUME Init
               PROVE  StoreTypes /\ TodoInv
    OBVIOUS
  <2>1. PICK f \in InputDirs : input = SeedFolder(f)
    BY DEF Init
  <2>2. input \in [Names -> TextOrNone] /\ Files(input) = Seeds /\ Seeds \subseteq Names
    BY <2>1, SeedTexts
  <2>3. Nothing \in [Names -> TextOrNone]
    BY DEF Nothing, TextOrNone
  <2>4. StoreTypes
    BY <2>2, <2>3, StepsAssumption DEF Init, StoreTypes, TreeOrNone
  <2> QED BY <2>2, <2>4 DEF Init, TodoInv, ToImport, Source
<1> QED BY <1>1, StoresStep, PTL DEF Spec
-----------------------------------------------------------------------------
InputInv == \E f \in InputDirs : input = SeedFolder(f)

Agree == InputInv /\ SameText /\ FuzzesPicked

(* The text of a name does not change when one file or tree is written.    *)
LEMMA SameTextStep ==
  ASSUME StoreTypes, SameText, NEW n \in Names, NEW x \in Texts, TextIs(n, x)',
         UNCHANGED input, resume' \in [Names -> TextOrNone],
         \A m \in Names \ {n} : queue'[m] = queue[m] /\ resume'[m] = resume[m] /\ trees'[m] = trees[m]
  PROVE  SameText'
<1>1. ASSUME NEW m \in Names \ {n}
      PROVE  \E y \in Texts : TextIs(m, y)'
  <2>1. PICK y \in Texts : TextIs(m, y)
    BY DEF SameText
  <2>2. TextIs(m, y)'
    BY <2>1 DEF TextIs
  <2> QED BY <2>2
<1> QED BY <1>1 DEF SameText

LEMMA SameTextKept ==
  ASSUME SameText, UNCHANGED folders
  PROVE  SameText'
BY DEF SameText, TextIs, folders

LEMMA AgreeStep ==
  ASSUME OneInput, StoreTypes, TodoInv, Agree, [Next]_vars
  PROVE  Agree'
<1> USE DEF Agree
<1>1. ASSUME NEW n \in Names, Import(n)
      PROVE  Agree'
  <2>1. /\ pc \in {"import", "resume"} /\ n \in todo
        /\ queue' = [queue EXCEPT ![n] = Source[n]]
        /\ trees' = [trees EXCEPT ![n] = Loaded(n, Source[n])]
        /\ pc' \notin {"count", "fuzz"}
        /\ UNCHANGED <<input, resume>>
    BY <1>1 DEF Import, Link, afl_custom_queue_get
  <2>2. PICK x \in Texts : TextIs(n, x)
    BY DEF SameText
  <2>3. Source[n] = x
    BY <2>1, <2>2, SourceText, TreeAssumption, SMTT(30) DEF TextIs, Source, TodoInv
  <2>4. Loaded(n, x) # NoTree => Out[Loaded(n, x)] = x
    BY <2>2, LoadedTree DEF TextIs
  <2>5. TextIs(n, x)'
    BY <2>1, <2>2, <2>3, <2>4, SMTT(30) DEF TextIs, StoreTypes
  <2>6. SameText'
    BY <2>1, <2>5, SameTextStep DEF StoreTypes
  <2> QED BY <2>1, <2>6 DEF InputInv, FuzzesPicked
<1>2. ASSUME NEW n \in Names, nuke_resume_dir(n)
      PROVE  Agree'
  <2>1. /\ resume' = [resume EXCEPT ![n] = NoText] /\ UNCHANGED <<input, queue, trees>>
        /\ pc' \notin {"count", "fuzz"}
    BY <1>2 DEF nuke_resume_dir
  <2>2. PICK x \in Texts : TextIs(n, x)
    BY DEF SameText
  <2>3. TextIs(n, x)'
    BY <2>1, <2>2 DEF TextIs, StoreTypes
  <2>4. resume' \in [Names -> TextOrNone]
    BY <2>1 DEF StoreTypes, TextOrNone
  <2>5. SameText'
    BY <2>1, <2>3, <2>4, SameTextStep, SMTT(30) DEF StoreTypes
  <2> QED BY <2>1, <2>5 DEF InputInv, FuzzesPicked
<1>3. ASSUME NEW n \in Names, Pick(n)
      PROVE  Agree'
  <2>1. /\ queue[n] \in Texts /\ UNCHANGED <<input, queue, resume>> /\ cur' = n
        /\ tree_cur' = Loaded(n, queue[n]) /\ trees' = [trees EXCEPT ![n] = Loaded(n, queue[n])]
        /\ pc' \in IF tree_cur' = NoTree THEN {"pick"} ELSE {"pick", "count"}
    BY <1>3 DEF Pick, afl_custom_queue_get, Entries, Files, StoreTypes, TextOrNone
  <2>2. PICK x \in Texts : TextIs(n, x)
    BY DEF SameText
  <2>3. queue[n] = x
    BY <2>1, <2>2, TreeAssumption, SMTT(30) DEF TextIs
  <2>4. Loaded(n, x) # NoTree => Out[Loaded(n, x)] = x
    BY <2>2, LoadedTree DEF TextIs
  <2>5. TextIs(n, x)'
    BY <2>1, <2>2, <2>3, <2>4, SMTT(30) DEF TextIs, StoreTypes
  <2>6. SameText'
    BY <2>1, <2>5, SameTextStep, SMTT(30) DEF StoreTypes
  <2>7. FuzzesPicked'
    BY <2>1, <2>3, <2>4, SMTT(30) DEF FuzzesPicked
  <2> QED BY <2>1, <2>6, <2>7 DEF InputInv
<1>4. ASSUME NEW n \in Fresh, mutated_tree # NoTree, UNCHANGED <<input, resume>>,
             queue' = [queue EXCEPT ![n] = Out[mutated_tree]],
             trees' = trees \/ trees' = [trees EXCEPT ![n] = mutated_tree]
      PROVE  SameText' /\ InputInv' /\ n \in Names /\ n \notin Entries
  <2>1. /\ n \in Names /\ n \in Found /\ n \notin Entries
        /\ queue[n] = NoText /\ resume[n] = NoText /\ trees[n] = NoTree
    BY FreshName
  <2>2. PICK x \in Texts : x = Out[mutated_tree]
    BY <1>4, MutatedText, SMTT(30)
  <2>3. input[n] = NoText
    BY <2>1, TreeAssumption DEF InputInv, SeedFolder, Names
  <2>4. TextIs(n, x)'
    BY <1>4, <2>1, <2>2, <2>3, SMTT(30) DEF TextIs, StoreTypes
  <2>5. \A m \in Names \ {n} : queue'[m] = queue[m] /\ resume'[m] = resume[m] /\ trees'[m] = trees[m]
    BY <1>4 DEF StoreTypes
  <2>6. SameText'
    BY <1>4, <2>1, <2>4, <2>5, SameTextStep, SMTT(30) DEF StoreTypes
  <2> QED BY <1>4, <2>1, <2>6 DEF InputInv
<1>5. ASSUME NEW n \in Names, afl_custom_queue_new_entry(n)
      PROVE  Agree'
  <2>1. /\ n \in Fresh /\ mutated_tree # NoTree /\ UNCHANGED <<input, resume, cur, tree_cur, pc>>
        /\ queue' = [queue EXCEPT ![n] = Out[mutated_tree]]
        /\ trees' = [trees EXCEPT ![n] = mutated_tree] /\ pc = "fuzz"
    BY <1>5 DEF afl_custom_queue_new_entry
  <2>2. SameText' /\ InputInv' /\ n \notin Entries
    BY <1>4, <2>1, ZenonT(30)
  <2>3. cur # n
    <3>1. tree_cur \in Trees /\ Out[tree_cur] = queue[cur]
      BY <2>1 DEF FuzzesPicked, StoreTypes, TreeOrNone
    <3> QED BY <2>2, <3>1, TreeAssumption DEF Entries, Files, StoreTypes
  <2>4. queue'[cur] = queue[cur]
    BY <2>1, <2>3 DEF StoreTypes
  <2> QED BY <2>1, <2>2, <2>4 DEF FuzzesPicked
<1>6. CASE afl_custom_fuzz_count
  BY <1>6, SameTextKept DEF afl_custom_fuzz_count, folders, InputInv, FuzzesPicked
<1>7. ASSUME NEW t \in Trees, afl_custom_fuzz(t)
      PROVE  Agree'
  BY <1>7, SameTextKept DEF afl_custom_fuzz, folders, InputInv, FuzzesPicked
<1>8. CASE Kill
  <2>1. UNCHANGED <<input, resume, trees>> /\ pc' = "dead"
    BY <1>8 DEF Kill
  <2>2. CASE UNCHANGED queue
    BY <2>1, <2>2, SameTextKept DEF folders, InputInv, FuzzesPicked
  <2>3. ASSUME mutated_tree # NoTree, NEW n \in Fresh,
               queue' = [queue EXCEPT ![n] = Out[mutated_tree]]
        PROVE  Agree'
    BY <1>4, <2>1, <2>3, ZenonT(30) DEF FuzzesPicked
  <2>4. ASSUME NEW n \in todo, queue' = [queue EXCEPT ![n] = Source[n]]
        PROVE  Agree'
    <3>1. n \in Names /\ Source[n] \in Texts
      BY SourceText DEF TodoInv
    <3>2. PICK x \in Texts : TextIs(n, x)
      BY <3>1 DEF SameText
    <3>3. TextIs(n, x)'
      BY <2>1, <2>4, <3>1, <3>2, SMTT(30) DEF TextIs, Source, StoreTypes
    <3>4. SameText'
      BY <2>1, <2>4, <3>1, <3>3, SameTextStep, SMTT(30) DEF StoreTypes
    <3> QED BY <2>1, <3>4 DEF InputInv, FuzzesPicked
  <2> QED BY <1>8, <2>2, <2>3, <2>4, KillCases, SMTT(30)
<1>9. CASE ResumeInPlace
  <2>1. /\ resume' \in {queue, resume} /\ queue' = Nothing /\ UNCHANGED <<input, trees>>
        /\ pc' = "resume"
    BY <1>9 DEF ResumeInPlace, OldQueue
  <2>2. SameText'
    BY <2>1 DEF SameText, TextIs, Nothing
  <2> QED BY <2>1, <2>2 DEF InputInv, FuzzesPicked
<1>10. CASE StartOver
  <2>1. PICK f \in InputDirs : input' = SeedFolder(f)
    BY <1>10 DEF StartOver
  <2>2. PICK g \in InputDirs : input = SeedFolder(g)
    BY DEF InputInv
  <2>3. input' = input
    BY <2>1, <2>2 DEF OneInput
  <2>4. queue' = Nothing /\ UNCHANGED <<resume, trees>> /\ pc' = "import"
    BY <1>10 DEF StartOver
  <2>5. SameText'
    BY <2>3, <2>4 DEF SameText, TextIs, Nothing
  <2> QED BY <2>1, <2>4, <2>5, SMTT(30) DEF InputInv, FuzzesPicked
<1>11. CASE UNCHANGED vars
  BY <1>11, SameTextKept DEF vars, folders, InputInv, FuzzesPicked
<1> QED BY <1>1, <1>2, <1>3, <1>5, <1>6, <1>7, <1>8, <1>9, <1>10, <1>11, SMTT(30) DEF Next

LEMMA AgreeHolds ==
  ASSUME OneInput
  PROVE  Spec => []Agree
<1>1. Init => Agree
  <2> SUFFICES ASSUME Init
               PROVE  Agree
    OBVIOUS
  <2>1. PICK f \in InputDirs : input = SeedFolder(f)
    BY DEF Init
  <2>2. Seeds # {} /\ Seeds \subseteq Names /\ input \in [Names -> TextOrNone]
    BY <2>1, SeedTexts, TreeAssumption, SMTT(30)
  <2>3. \E x : x \in Texts
    BY <2>2, TreeAssumption, SMTT(30)
  <2>4. SameText
    BY <2>2, <2>3 DEF Init, SameText, TextIs, Nothing, TextOrNone
  <2> QED BY <2>1, <2>4 DEF Init, Agree, InputInv, FuzzesPicked
<1>2. StoreTypes /\ TodoInv /\ Agree /\ [Next]_vars => Agree'
  BY AgreeStep
<1> QED BY <1>1, <1>2, StoresTyped, PTL DEF Spec

(* queue/ and trees/ agree, wherever afl-fuzz is killed and however it     *)
(* goes on, as long as the output directory sees one set of seeds.         *)
THEOREM StoresAgree ==
  ASSUME OneInput
  PROVE  Spec => []TreesMatch
<1>1. StoreTypes /\ Agree => TreesMatch
  BY TreeAssumption DEF Agree, SameText, TextIs, TreesMatch, Entries, Files
<1> QED BY <1>1, AgreeHolds, StoresTyped, PTL

(* The mutator fuzzes the entry that afl-fuzz picked, under the same       *)
(* assumption.                                                             *)
THEOREM PickedIsFuzzed ==
  ASSUME OneInput
  PROVE  Spec => []FuzzesPicked
<1>1. Agree => FuzzesPicked
  BY SMTT(30) DEF Agree
<1> QED BY <1>1, AgreeHolds, PTL
-----------------------------------------------------------------------------
(* What makes an in-place resume safe: while it imports, _resume/ is       *)
(* complete and queue/ holds what was imported; when it is over, or there  *)
(* was none, _resume/ is empty.                                            *)
Complete ==
  torn = 0 =>
     /\ pc = "resume" => /\ saved \subseteq Files(resume)
                         /\ Files(resume) \ todo \subseteq Entries
     /\ pc = "dead" => saved \subseteq Files(OldQueue)
     /\ pc \in {"import", "pick", "count", "fuzz"} => Files(resume) = {}
     /\ pc \in {"import", "remove", "pick", "count", "fuzz"} => saved \subseteq Entries

LEMMA CompleteStep ==
  ASSUME StoreTypes, TodoInv, Complete, [Next]_vars
  PROVE  Complete'
<1> USE DEF Complete, Entries
<1>1. ASSUME NEW n \in Names, Import(n)
      PROVE  Complete'
  <2>1. /\ pc \in {"import", "resume"} /\ n \in todo /\ todo' = todo \ {n}
        /\ queue' = [queue EXCEPT ![n] = Source[n]]
        /\ saved' = saved \union {n} /\ UNCHANGED <<resume, torn>>
        /\ pc' = IF todo # {n} THEN pc ELSE IF pc = "resume" THEN "remove" ELSE "pick"
    BY <1>1, SMTT(30) DEF Import, Link
  <2>2. Source[n] # NoText
    BY <2>1, SourceText, TreeAssumption, SMTT(30) DEF TodoInv
  <2>3. Files(queue') = Entries \union {n} /\ Files(resume') = Files(resume)
    BY <2>1, <2>2 DEF Files, StoreTypes
  <2>4. pc = "resume" => n \in Files(resume)
    BY <2>1 DEF TodoInv, ToImport, Source
  <2>5. CASE pc = "resume"
    BY <2>1, <2>3, <2>4, <2>5, ZenonT(30)
  <2>6. CASE pc = "import"
    BY <2>1, <2>3, <2>6, ZenonT(30)
  <2> QED BY <2>1, <2>5, <2>6, ZenonT(30)
<1>2. ASSUME NEW n \in Names, nuke_resume_dir(n)
      PROVE  Complete'
  <2>1. /\ pc = "remove" /\ resume' = [resume EXCEPT ![n] = NoText]
        /\ pc' = IF Files(resume) = {n} THEN "pick" ELSE "remove"
        /\ UNCHANGED <<queue, saved, torn>>
    BY <1>2 DEF nuke_resume_dir, history
  <2>2. Files(resume') = Files(resume) \ {n} /\ Files(queue') = Entries
    BY <2>1 DEF Files, StoreTypes
  <2> QED BY <2>1, <2>2, ZenonT(30)
<1>3. ASSUME NEW n \in Names, Pick(n)
      PROVE  Complete'
  BY <1>3 DEF Pick, history, Files
<1>4. ASSUME NEW n \in Names, afl_custom_queue_new_entry(n)
      PROVE  Complete'
  <2>1. /\ pc = "fuzz" /\ saved' = saved \union {n} /\ UNCHANGED <<resume, torn, pc>>
        /\ mutated_tree # NoTree
        /\ queue' = [queue EXCEPT ![n] = Out[mutated_tree]]
    BY <1>4 DEF afl_custom_queue_new_entry
  <2>2. Out[mutated_tree] # NoText
    BY <2>1, MutatedText, TreeAssumption, SMTT(30)
  <2>3. Files(queue') = Entries \union {n} /\ Files(resume') = Files(resume)
    BY <2>1, <2>2 DEF Files, StoreTypes
  <2> QED BY <2>1, <2>3, ZenonT(30)
<1>5. CASE afl_custom_fuzz_count
  BY <1>5, SMTT(30) DEF afl_custom_fuzz_count, folders, history, Files
<1>6. ASSUME NEW t \in Trees, afl_custom_fuzz(t)
      PROVE  Complete'
  BY <1>6, SMTT(30) DEF afl_custom_fuzz, folders, history, Files
<1>7. CASE Kill
  <2>1. /\ UNCHANGED <<resume, saved>> /\ pc' = "dead" /\ pc # "dead"
        /\ torn' = IF pc = "remove" /\ Files(resume) # Entries THEN 1 ELSE torn
    BY <1>7 DEF Kill
  <2>2. Entries \subseteq Files(queue')
    <3>1. CASE UNCHANGED queue
      BY <3>1, SMTT(30) DEF Files
    <3>2. ASSUME mutated_tree # NoTree, NEW n \in Fresh,
                 queue' = [queue EXCEPT ![n] = Out[mutated_tree]]
          PROVE  Entries \subseteq Files(queue')
      BY <3>2, MutatedText, TreeAssumption DEF Files, StoreTypes
    <3>3. ASSUME NEW n \in todo, queue' = [queue EXCEPT ![n] = Source[n]]
          PROVE  Entries \subseteq Files(queue')
      <4>1. Source[n] # NoText
        BY SourceText, TreeAssumption DEF TodoInv
      <4> QED BY <3>3, <4>1, SMTT(30) DEF Files, StoreTypes
    <3> QED BY <1>7, <3>1, <3>2, <3>3, KillCases, SMTT(30)
  <2>3. torn' = 0 => saved \subseteq Files(OldQueue')
    <3> SUFFICES ASSUME torn' = 0
                 PROVE  saved \subseteq Files(OldQueue')
      OBVIOUS
    <3>1. torn = 0
      BY <2>1
    <3>2. CASE pc = "resume"
      BY <2>1, <2>2, <3>1, <3>2, SMTT(30) DEF OldQueue, Files
    <3>3. CASE pc = "remove"
      <4>1. Files(resume) = Entries
        BY <2>1, <3>3
      <4> QED BY <2>1, <2>2, <3>1, <3>3, <4>1, SMTT(30) DEF OldQueue, Files
    <3>4. CASE pc \in {"import", "pick", "count", "fuzz"}
      BY <2>1, <2>2, <3>1, <3>4, SMTT(30) DEF OldQueue, Files
    <3> QED BY <2>1, <3>2, <3>3, <3>4, SMTT(30) DEF StoreTypes
  <2> QED BY <2>1, <2>3 DEF Files
<1>8. CASE ResumeInPlace
  <2>1. /\ pc = "dead" /\ pc' = "resume" /\ resume' = OldQueue /\ todo' = Files(OldQueue)
        /\ UNCHANGED <<saved, torn>>
    BY <1>8 DEF ResumeInPlace, history
  <2>2. Files(resume') = Files(OldQueue)
    BY <2>1
  <2> QED BY <2>1, <2>2 DEF Files
<1>9. CASE StartOver
  BY <1>9 DEF StartOver, Files
<1>10. CASE UNCHANGED vars
  BY <1>10 DEF vars, folders, history, Files, OldQueue
<1> QED BY <1>1, <1>2, <1>3, <1>4, <1>5, <1>6, <1>7, <1>8, <1>9, <1>10, SMTT(30) DEF Next

(* An in-place resume loses no entry, however often it is killed, unless   *)
(* that happens while _resume/ is removed: handle_existing_out_dir,        *)
(* pivot_inputs and nuke_resume_dir, for any queue.                        *)
THEOREM ResumeKeepsAll == Spec => []NothingLost
<1>1. Init => Complete
  BY DEF Init, Complete, Files, Nothing
<1>2. StoreTypes /\ TodoInv /\ Complete /\ [Next]_vars => Complete'
  BY CompleteStep
<1>3. StoreTypes /\ Complete => NothingLost
  BY DEF StoreTypes, Complete, NothingLost, OldQueue, Files
<1> QED BY <1>1, <1>2, <1>3, StoresTyped, PTL DEF Spec
-----------------------------------------------------------------------------
(* The order of the rule mutations, and their number.                      *)

(* Induction, as the existence of least elements.                          *)
LEMMA LeastNumber ==
  ASSUME NEW T \in SUBSET Nat, T # {}
  PROVE  \E x \in T : \A y \in T : x <= y
<1>1. PICK x \in T : \A y \in T : ~(<<y, x>> \in OpToRel(<, Nat))
  BY NatLessThanWellFounded, WFMin, Zenon
<1>2. \A y \in T : <<y, x>> \in OpToRel(<, Nat) <=> y < x
  BY DEF OpToRel
<1>3. \A y \in T : ~(y < x)
  BY <1>1, <1>2, Zenon
<1> QED
  BY <1>3

LEMMA LeastSubset ==
  ASSUME NEW S, IsFiniteSet(S), NEW T \in SUBSET (SUBSET S), T # {}
  PROVE  \E s \in T : \A u \in T : u \subseteq s => u = s
<1>1. IsWellFoundedOn(StrictSubsetOrdering(S), SUBSET S)
  BY FS_StrictSubsetOrderingWellFounded, FS_FiniteSubsetsOfFinite
<1>2. PICK s \in T : \A u \in T : ~(<<u, s>> \in StrictSubsetOrdering(S))
  BY <1>1, WFMin, Zenon
<1>3. ASSUME NEW u \in T, u \subseteq s, u # s
      PROVE  <<u, s>> \in StrictSubsetOrdering(S)
  BY <1>3 DEF StrictSubsetOrdering
<1>4. ASSUME NEW u \in T, u \subseteq s
      PROVE  u = s
  BY <1>2, <1>3, <1>4, Zenon
<1> QED
  BY <1>4

LEMMA NodeTypes ==
  ASSUME NEW t \in Trees
  PROVE  /\ Len(Nodes[t]) \in Nat /\ DOMAIN Nodes[t] = 1 .. Len(Nodes[t])
         /\ \A i \in DOMAIN Nodes[t] :
               /\ i \in Nat /\ i >= 1
               /\ Nodes[t][i].rules \in Nat /\ Nodes[t][i].rules >= 1
               /\ Nodes[t][i].rule \in 0 .. Nodes[t][i].rules - 1
<1>1. Nodes[t] \in Seq(Node)
  BY TreeAssumption
<1>2. \A i \in DOMAIN Nodes[t] : Nodes[t][i] \in Node
  BY <1>1
<1>3. \A i \in DOMAIN Nodes[t] : Nodes[t][i].rule < Nodes[t][i].rules
  BY TreeAssumption
<1> QED
  BY <1>1, <1>2, <1>3 DEF Node

LEMMA NodesFinite ==
  ASSUME NEW t \in Trees
  PROVE  IsFiniteSet(DOMAIN Nodes[t])
<1>1. 1 \in Int /\ Len(Nodes[t]) \in Int
  BY NodeTypes
<1>2. IsFiniteSet(1 .. Len(Nodes[t]))
  BY <1>1, FS_Interval, Zenon
<1> QED
  BY <1>2, NodeTypes

(* The alternatives of one node, and of some nodes.                        *)
At(t, i) == {<<i, r>> : r \in (0 .. Nodes[t][i].rules - 1) \ {Nodes[t][i].rule}}

Of(t, s) == UNION {At(t, i) : i \in s}

LEMMA AtCount ==
  ASSUME NEW t \in Trees, NEW i \in DOMAIN Nodes[t]
  PROVE  IsFiniteSet(At(t, i)) /\ Cardinality(At(t, i)) = Nodes[t][i].rules - 1
<1> DEFINE R == (0 .. Nodes[t][i].rules - 1) \ {Nodes[t][i].rule}
           f == [r \in R |-> <<i, r>>]
<1>0. Nodes[t][i].rules \in Nat /\ Nodes[t][i].rules >= 1 /\ Nodes[t][i].rule \in 0 .. Nodes[t][i].rules - 1
  BY NodeTypes
<1>1. IsFiniteSet(0 .. Nodes[t][i].rules - 1) /\ Cardinality(0 .. Nodes[t][i].rules - 1) = Nodes[t][i].rules
  <2>1. 0 \in Int /\ Nodes[t][i].rules - 1 \in Int /\ ~(0 > Nodes[t][i].rules - 1)
    BY <1>0
  <2>2. /\ IsFiniteSet(0 .. Nodes[t][i].rules - 1)
        /\ Cardinality(0 .. Nodes[t][i].rules - 1) = Nodes[t][i].rules - 1 - 0 + 1
    BY <2>1, FS_Interval, Zenon
  <2> QED
    BY <1>0, <2>2
<1>2. IsFiniteSet(R) /\ Cardinality(R) = Nodes[t][i].rules - 1
  <2>1. IsFiniteSet(R) /\ Cardinality(R) = Cardinality(0 .. Nodes[t][i].rules - 1) - 1
    BY <1>0, <1>1, FS_RemoveElement, Zenon
  <2> QED
    BY <1>1, <2>1
<1>3. f \in Surjection(R, At(t, i)) /\ f \in Injection(R, At(t, i))
  BY SMTT(30) DEF Surjection, Injection, IsInjective, At
<1> HIDE DEF R, f
<1> QED
  BY <1>2, <1>3, FS_Surjection, SMTT(30)

(* One more node has as many more alternatives as it has other rules.      *)
LEMMA OneMoreNode ==
  ASSUME NEW t \in Trees, NEW s \in SUBSET (DOMAIN Nodes[t]), NEW x \in s, IsFiniteSet(Of(t, s \ {x}))
  PROVE  /\ IsFiniteSet(Of(t, s))
         /\ Cardinality(Of(t, s)) = Cardinality(Of(t, s \ {x})) + Nodes[t][x].rules - 1
<1>1. Of(t, s) = Of(t, s \ {x}) \union At(t, x)
  BY DEF Of
<1>2. Of(t, s \ {x}) \cap At(t, x) = {}
  BY DEF Of, At
<1>3. Cardinality(Of(t, s \ {x}) \cap At(t, x)) = 0
  BY <1>2, FS_EmptySet, ZenonT(30)
<1>4. IsFiniteSet(At(t, x)) /\ Cardinality(At(t, x)) = Nodes[t][x].rules - 1
  BY AtCount
<1>5. Cardinality(Of(t, s \ {x})) \in Nat
  BY FS_CardinalityType
<1>6. Nodes[t][x].rules \in Nat
  BY NodeTypes
<1>7. /\ IsFiniteSet(Of(t, s \ {x}) \union At(t, x))
      /\ Cardinality(Of(t, s \ {x}) \union At(t, x))
           = Cardinality(Of(t, s \ {x})) + Cardinality(At(t, x)) - Cardinality(Of(t, s \ {x}) \cap At(t, x))
  BY <1>4, FS_Union, ZenonT(30)
<1> QED
  BY <1>1, <1>3, <1>4, <1>5, <1>6, <1>7, SMTT(30)

LEMMA AlternativesFinite ==
  ASSUME NEW t \in Trees, NEW s \in SUBSET (DOMAIN Nodes[t])
  PROVE  IsFiniteSet(Of(t, s))
<1> DEFINE T == {u \in SUBSET (DOMAIN Nodes[t]) : ~IsFiniteSet(Of(t, u))}
<1> SUFFICES ASSUME T # {}
             PROVE  FALSE
  OBVIOUS
<1>1. IsFiniteSet(DOMAIN Nodes[t])
  BY NodesFinite
<1>2. PICK u \in T : \A v \in T : v \subseteq u => v = u
  <2>1. T \in SUBSET (SUBSET (DOMAIN Nodes[t]))
    OBVIOUS
  <2> HIDE DEF T
  <2> QED
    BY <1>1, <2>1, LeastSubset, SMTT(30)
<1>3. CASE u = {}
  <2>1. Of(t, u) = {}
    BY <1>3, SMTT(30) DEF Of
  <2> QED
    BY <2>1, FS_EmptySet
<1>4. ASSUME NEW x \in u
      PROVE  FALSE
  <2>1. u \ {x} \notin T
    BY <1>2, <1>4
  <2>2. IsFiniteSet(Of(t, u \ {x}))
    BY <2>1
  <2> QED
    BY <1>4, <2>2, OneMoreNode
<1> QED
  BY <1>3, <1>4

(* What the fold of rules_mutation_count computes for a set of nodes.      *)
Counts(g, t) ==
  g = [s \in SUBSET (DOMAIN Nodes[t]) |->
         IF s = {} THEN 0
         ELSE LET x == CHOOSE y \in s : TRUE IN g[s \ {x}] + Nodes[t][x].rules - 1]

(* rules_mutation_count announces as many rule mutations as there are      *)
(* alternative rules in the tree, whatever the tree.                       *)
THEOREM RulesCounted ==
  ASSUME NEW t \in Trees
  PROVE  IsFiniteSet(Alternatives(t)) /\ rules_mutation_count(t) = Cardinality(Alternatives(t))
<1> DEFINE D == DOMAIN Nodes[t]
           g == CHOOSE h : Counts(h, t)
           k == [s \in SUBSET D |-> Cardinality(Of(t, s))]
<1>1. rules_mutation_count(t) = g[D]
  BY Zenon DEF rules_mutation_count, FoldSeq, FoldFunction, FoldFunctionOnSet, MapThenFoldSet, Counts
<1>2. \A s \in SUBSET D : s # {} =>
         k[s] = LET x == CHOOSE y \in s : TRUE IN k[s \ {x}] + Nodes[t][x].rules - 1
  <2> SUFFICES ASSUME NEW s \in SUBSET D, s # {}
               PROVE  k[s] = LET x == CHOOSE y \in s : TRUE IN k[s \ {x}] + Nodes[t][x].rules - 1
    BY ZenonT(30)
  <2> DEFINE x == CHOOSE y \in s : TRUE
  <2>1. x \in s /\ s \ {x} \in SUBSET D
    OBVIOUS
  <2>2. IsFiniteSet(Of(t, s \ {x}))
    BY <2>1, AlternativesFinite
  <2>3. Cardinality(Of(t, s)) = Cardinality(Of(t, s \ {x})) + Nodes[t][x].rules - 1
    BY <2>1, <2>2, OneMoreNode, ZenonT(30)
  <2> QED
    BY <2>1, <2>3
<1>3. k[{}] = 0
  <2>1. Of(t, {}) = {}
    BY DEF Of
  <2> QED
    BY <2>1, FS_EmptySet
<1>4. Counts(k, t)
  <2> DEFINE F == [s \in SUBSET D |->
                     IF s = {} THEN 0
                     ELSE LET x == CHOOSE y \in s : TRUE IN k[s \ {x}] + Nodes[t][x].rules - 1]
  <2>1. \A s \in SUBSET D : k[s] = F[s]
    <3> HIDE DEF k
    <3> QED BY <1>2, <1>3, ZenonT(30)
  <2>2. k = F
    BY <2>1, ZenonT(30)
  <2> QED
    BY <2>2, ZenonT(30) DEF Counts
<1>5. Counts(g, t)
  BY <1>4, Zenon
<1> HIDE DEF g
<1>6. /\ g[{}] = 0
      /\ \A s \in SUBSET D : s # {} =>
            g[s] = LET x == CHOOSE y \in s : TRUE IN g[s \ {x}] + Nodes[t][x].rules - 1
  BY <1>5 DEF Counts
<1>7. \A s \in SUBSET D : g[s] = k[s]
  <2> HIDE DEF k
  <2> DEFINE T == {s \in SUBSET D : g[s] # k[s]}
  <2> SUFFICES ASSUME T # {}
               PROVE  FALSE
    OBVIOUS
  <2>1. IsFiniteSet(D)
    BY NodesFinite
  <2>2. PICK s \in T : \A u \in T : u \subseteq s => u = s
    <3>1. T \in SUBSET (SUBSET D)
      OBVIOUS
    <3> HIDE DEF T
    <3> QED
      BY <2>1, <3>1, LeastSubset, SMTT(30)
  <2>3. s # {}
    BY <1>3, <1>6, ZenonT(30)
  <2> DEFINE x == CHOOSE y \in s : TRUE
  <2>4. x \in s /\ s \ {x} \in SUBSET D
    BY <2>3
  <2>5. g[s \ {x}] = k[s \ {x}]
    BY <2>2, <2>4, SMTT(30)
  <2> QED
    BY <1>2, <1>6, <2>3, <2>5, SMTT(30)
<1>8. Of(t, D) = Alternatives(t)
  BY DEF Of, At, Alternatives
<1>9. IsFiniteSet(Of(t, D))
  BY AlternativesFinite
<1> QED
  BY <1>1, <1>7, <1>8, <1>9, ZenonT(30)

LEMMA AlternativeTypes ==
  ASSUME NEW t \in Trees
  PROVE  \A p \in Alternatives(t) : p \in Nat \X Nat /\ p[1] >= 1
<1> SUFFICES ASSUME NEW i \in DOMAIN Nodes[t], NEW r \in 0 .. Nodes[t][i].rules - 1
             PROVE  <<i, r>> \in Nat \X Nat /\ i >= 1
  BY DEF Alternatives
<1> QED
  BY NodeTypes

(* The loop over nodes and rules stops at the first alternative that is    *)
(* left.                                                                   *)
LEMMA NextIsLeast ==
  ASSUME NEW t \in Trees, NEW c \in Nat \X Nat
  PROVE  /\ NextRule(t, c) \in Nat \X Nat
         /\ \A p \in Alternatives(t) : Before(c, p) =>
               /\ NextRule(t, c) \in Alternatives(t) /\ Before(c, NextRule(t, c))
               /\ Before(NextRule(t, c), p)
<1> DEFINE rest == {p \in Alternatives(t) : Before(c, p)}
<1>1. CASE rest = {}
  BY <1>1, SMTT(30) DEF NextRule
<1>2. CASE rest # {}
  <2>1. \A p \in rest : p \in Nat \X Nat
    BY AlternativeTypes
  <2> HIDE DEF rest
  <2> DEFINE N1 == {p[1] : p \in rest}
  <2>2. PICK a \in N1 : \A y \in N1 : a <= y
    <3>1. N1 \in SUBSET Nat /\ N1 # {}
      BY <1>2, <2>1
    <3> QED
      BY <3>1, LeastNumber, ZenonT(30)
  <2> DEFINE N2 == {p[2] : p \in {q \in rest : q[1] = a}}
  <2>3. PICK b \in N2 : \A y \in N2 : b <= y
    <3>1. N2 \in SUBSET Nat /\ N2 # {}
      BY <2>1, <2>2
    <3> QED
      BY <3>1, LeastNumber, ZenonT(30)
  <2>4. PICK p \in rest : p[1] = a /\ p[2] = b
    BY <2>3, SMTT(30)
  <2>5. \A q \in rest : Before(p, q)
    <3> SUFFICES ASSUME NEW q \in rest
                 PROVE  Before(p, q)
      OBVIOUS
    <3>1. a <= q[1] /\ (q[1] = a => b <= q[2])
      BY <2>2, <2>3
    <3>2. a \in Nat /\ q[1] \in Nat /\ q[2] \in Nat
      BY <2>1, <2>4
    <3> QED
      BY <2>4, <3>1, <3>2, SMTT(30) DEF Before
  <2>6. NextRule(t, c) = CHOOSE q \in rest : \A z \in rest : Before(q, z)
    BY <1>2, Zenon DEF NextRule, rest
  <2>7. NextRule(t, c) \in rest /\ \A z \in rest : Before(NextRule(t, c), z)
    BY <2>5, <2>6, Zenon
  <2> QED
    BY <2>1, <2>7 DEF rest
<1> QED
  BY <1>1, <1>2, SMTT(30)
-----------------------------------------------------------------------------
(* The stages.                                                             *)

Stages == StageTypes /\ InStage /\ (pc \in {"count", "fuzz"} => tree_cur \in Trees)

(* The end of afl_custom_fuzz goes to the next step of the stage or, when  *)
(* there is none, to the next stage that has steps.                        *)
LEMMA AfterStepIs ==
  ASSUME StageTypes, stage[1] \in 0 .. 3, stage[2] < totals[stage[1]]
  PROVE  \/ stage[2] + 1 < totals[stage[1]] /\ AfterStep(stage) = <<stage[1], stage[2] + 1>>
         \/ /\ stage[2] + 1 = totals[stage[1]]
            /\ \E s \in 1 .. 4 : /\ s > stage[1] /\ AfterStep(stage) = <<s, 0>>
                                 /\ \A u \in 0 .. 3 : stage[1] < u /\ u < s => totals[u] = 0
                                 /\ s < 4 => totals[s] > 0
<1> DEFINE a == stage[1]  b == stage[2]
<1>1. a \in 0 .. 3 /\ b \in Nat /\ \A s \in 0 .. 3 : totals[s] \in Nat
  BY DEF StageTypes
<1>2. AfterStep(stage) = Advance(Advance(Advance(Advance(<<a, b + 1>>, 0), 1), 2), 3)
  BY DEF AfterStep
<1>3. b < totals[a]
  OBVIOUS
<1> HIDE DEF a, b
<1>4. CASE b + 1 < totals[a]
  <2>1. \A s \in 0 .. 3 : Advance(<<a, b + 1>>, s) = <<a, b + 1>>
    BY <1>1, <1>4 DEF Advance
  <2>2. AfterStep(stage) = <<a, b + 1>>
    BY <1>2, <2>1, SMTT(30)
  <2> QED
    BY <1>4, <2>2 DEF a, b
<1>5. CASE b + 1 = totals[a]
  <2>1. \A s \in 0 .. 3 : Advance(<<a, b + 1>>, s) = IF s = a THEN <<a + 1, 0>> ELSE <<a, b + 1>>
    BY <1>1, <1>5 DEF Advance
  <2>2. \A s \in 0 .. 3 : \A c \in 0 .. 4 :
           Advance(<<c, 0>>, s) = IF s = c /\ totals[s] = 0 THEN <<c + 1, 0>> ELSE <<c, 0>>
    BY <1>1 DEF Advance
  <2>3. CASE a = 0
    <3>1. AfterStep(stage) = Advance(Advance(Advance(<<1, 0>>, 1), 2), 3)
      BY <1>2, <2>1, <2>3, SMTT(30)
    <3> QED
      BY <1>1, <1>5, <2>2, <2>3, <3>1, SMTT(30) DEF a, b
  <2>4. CASE a = 1
    <3>1. AfterStep(stage) = Advance(Advance(<<2, 0>>, 2), 3)
      BY <1>2, <2>1, <2>4, SMTT(30)
    <3> QED
      BY <1>1, <1>5, <2>2, <2>4, <3>1, SMTT(30) DEF a, b
  <2>5. CASE a = 2
    <3>1. AfterStep(stage) = Advance(<<3, 0>>, 3)
      BY <1>2, <2>1, <2>5, SMTT(30)
    <3> QED
      BY <1>1, <1>5, <2>2, <2>5, <3>1, SMTT(30) DEF a, b
  <2>6. CASE a = 3
    <3>1. AfterStep(stage) = <<4, 0>>
      BY <1>2, <2>1, <2>6, SMTT(30)
    <3> QED
      BY <1>1, <1>5, <2>6, <3>1, SMTT(30) DEF a, b
  <2> QED
    BY <1>1, <2>3, <2>4, <2>5, <2>6, SMTT(30)
<1> QED
  BY <1>1, <1>3, <1>4, <1>5, SMTT(30)

(* There is a stage left for every call that was announced.                *)
LEMMA StageLeft ==
  ASSUME StageTypes, InStage, pc = "fuzz"
  PROVE  /\ calls[1] < calls[2] => stage[1] \in 0 .. 3 /\ stage[2] < totals[stage[1]]
         /\ calls[1] = calls[2] => stage[1] = 4
<1>1. /\ stage[1] \in 0 .. 4 /\ stage[2] \in Nat
      /\ totals[0] \in Nat /\ totals[1] \in Nat /\ totals[2] \in Nat /\ totals[3] \in Nat
  BY DEF StageTypes
<1>2. /\ calls[1] = Progress(0) + Progress(1) + Progress(2) + Progress(3)
      /\ calls[2] = totals[0] + totals[1] + totals[2] + totals[3]
      /\ IF stage[1] < 4 THEN stage[2] < totals[stage[1]] ELSE stage[2] = 0
  BY DEF InStage
<1> QED
  BY <1>1, <1>2 DEF Progress

LEMMA BeforeNext ==
  ASSUME NEW c \in Nat \X Nat, NEW p \in Nat \X Nat
  PROVE  Before(<<c[1], c[2] + 1>>, p) <=> Before(c, p) /\ p # c
<1>1. c = <<c[1], c[2]>> /\ p = <<p[1], p[2]>> /\ c[1] \in Nat /\ c[2] \in Nat /\ p[1] \in Nat /\ p[2] \in Nat
  OBVIOUS
<1>2. p = c <=> p[1] = c[1] /\ p[2] = c[2]
  BY <1>1
<1> QED
  BY <1>1, <1>2 DEF Before

LEMMA BeforeOrder ==
  ASSUME NEW c \in Nat \X Nat, NEW p \in Nat \X Nat, NEW q \in Nat \X Nat
  PROVE  /\ Before(c, c)
         /\ Before(c, p) /\ Before(p, q) => Before(c, q)
BY DEF Before

LEMMA AppendedSet ==
  ASSUME NEW S, NEW s \in Seq(S), NEW x \in S
  PROVE  /\ ToSet(Append(s, x)) = ToSet(s) \union {x}
         /\ Len(Append(s, x)) = Len(s) + 1
         /\ Append(s, x) \in Seq(S)
<1>1. /\ Append(s, x) \in Seq(S) /\ Len(Append(s, x)) = Len(s) + 1
      /\ \A i \in 1 .. Len(s) : Append(s, x)[i] = s[i]
      /\ Append(s, x)[Len(s) + 1] = x
      /\ Len(s) \in Nat /\ DOMAIN s = 1 .. Len(s) /\ DOMAIN Append(s, x) = 1 .. Len(s) + 1
  OBVIOUS
<1>2. 1 .. Len(s) + 1 = (1 .. Len(s)) \union {Len(s) + 1}
  BY <1>1
<1> QED
  BY <1>1, <1>2 DEF ToSet

(* One rule mutation: the cursor's alternative joins those that were       *)
(* tried, and the cursor moves to the first of those to come.              *)
LEMMA CursorMoves ==
  ASSUME NEW t \in Trees, NEW c \in Alternatives(t), NEW seen,
         seen = {p \in Alternatives(t) : ~Before(c, p)}
  PROVE  /\ IsFiniteSet(seen) /\ Cardinality(seen \union {c}) = Cardinality(seen) + 1
         /\ Cardinality(seen) + 1 = Cardinality(Alternatives(t)) => seen \union {c} = Alternatives(t)
         /\ Cardinality(seen) + 1 < Cardinality(Alternatives(t)) =>
               /\ NextRule(t, <<c[1], c[2] + 1>>) \in Alternatives(t)
               /\ seen \union {c} =
                    {p \in Alternatives(t) : ~Before(NextRule(t, <<c[1], c[2] + 1>>), p)}
<1> DEFINE n == NextRule(t, <<c[1], c[2] + 1>>)
<1>1. IsFiniteSet(Alternatives(t)) /\ seen \subseteq Alternatives(t)
  BY RulesCounted
<1>2. IsFiniteSet(seen)
  BY <1>1, FS_Subset
<1>3. c \in Nat \X Nat /\ <<c[1], c[2] + 1>> \in Nat \X Nat /\ c \notin seen
  BY AlternativeTypes, BeforeOrder
<1>4. Cardinality(seen \union {c}) = Cardinality(seen) + 1
  BY <1>2, <1>3, FS_AddElement, ZenonT(30)
<1>5. seen \union {c} \subseteq Alternatives(t)
  BY <1>1
<1>6. ASSUME Cardinality(seen) + 1 = Cardinality(Alternatives(t))
      PROVE  seen \union {c} = Alternatives(t)
  BY <1>1, <1>4, <1>5, <1>6, FS_Subset, SMTT(30)
<1>7. ASSUME Cardinality(seen) + 1 < Cardinality(Alternatives(t))
      PROVE  /\ n \in Alternatives(t)
             /\ seen \union {c} = {p \in Alternatives(t) : ~Before(n, p)}
  <2>1. Cardinality(seen) \in Nat
    BY <1>2, FS_CardinalityType
  <2>2. seen \union {c} # Alternatives(t)
    <3>1. Cardinality(seen \union {c}) # Cardinality(Alternatives(t))
      BY <1>4, <1>7, <2>1, SMTT(30)
    <3> QED
      BY <3>1, Zenon
  <2>3. PICK p \in Alternatives(t) : p \notin seen \union {c}
    BY <1>5, <2>2
  <2>4. \A q \in Alternatives(t) : Before(<<c[1], c[2] + 1>>, q) <=> q \notin seen \union {c}
    BY <1>3, AlternativeTypes, BeforeNext, SMTT(30)
  <2>5. n \in Alternatives(t) /\ Before(<<c[1], c[2] + 1>>, n)
    BY <1>3, <2>3, <2>4, NextIsLeast, SMTT(30)
  <2>6. \A q \in Alternatives(t) : Before(<<c[1], c[2] + 1>>, q) => Before(n, q)
    BY <1>3, NextIsLeast
  <2>7. \A q \in Alternatives(t) : Before(n, q) => Before(<<c[1], c[2] + 1>>, q)
    BY <1>3, <2>5, AlternativeTypes, BeforeOrder, SMTT(30)
  <2> HIDE DEF n
  <2> QED
    BY <1>5, <2>4, <2>5, <2>6, <2>7, SMTT(30)
<1> QED
  BY <1>2, <1>4, <1>6, <1>7, SMTT(30)

(* A step that neither fuzzes nor starts to keeps the stages.              *)
LEMMA StagesKept ==
  ASSUME Stages, UNCHANGED stageVars,
         pc' # "fuzz" \/ (pc = "fuzz" /\ tree_cur' = tree_cur),
         pc' \in {"count", "fuzz"} => tree_cur' \in Trees
  PROVE  Stages'
<1>1. StageTypes'
  BY DEF Stages, StageTypes, stageVars
<1>2. InStage'
  BY ZenonT(30) DEF Stages, InStage, Progress, stageVars
<1> QED
  BY <1>1, <1>2 DEF Stages

(* afl_custom_fuzz_count starts the stages.                                *)
LEMMA StagesStart ==
  ASSUME Stages, afl_custom_fuzz_count
  PROVE  Stages'
<1> DEFINE rules == rules_mutation_count(tree_cur)
           recursive == IF tree_cur \in Recursion THEN RecursiveSteps ELSE 0
<1>1. tree_cur \in Trees /\ pc' = "fuzz" /\ tree_cur' = tree_cur
  BY DEF Stages, afl_custom_fuzz_count
<1>2. /\ IsFiniteSet(Alternatives(tree_cur)) /\ rules = Cardinality(Alternatives(tree_cur))
      /\ rules \in Nat
  BY <1>1, RulesCounted, FS_CardinalityType
<1>3. /\ totals' = [s \in 0 .. 3 |-> CASE s = 0 -> rules [] s = 1 -> RandomSteps
                                       [] s = 2 -> recursive [] s = 3 -> SplicingSteps]
      /\ IF rules > 0
         THEN stage' = <<0, 0>> /\ cursor' = NextRule(tree_cur, <<1, 0>>)
         ELSE stage' = <<1, 0>> /\ cursor' = cursor
      /\ calls' = <<0, rules + RandomSteps + recursive + SplicingSteps>>
      /\ tried' = <<>> /\ used' = [s \in 1 .. 3 |-> 0]
  BY DEF afl_custom_fuzz_count, Zeros
<1>4. RandomSteps \in Nat /\ RandomSteps > 0 /\ recursive \in Nat /\ SplicingSteps \in Nat
  BY StepsAssumption
<1> HIDE DEF rules, recursive
<1>5. /\ totals' \in [0 .. 3 -> Nat]
      /\ totals'[0] = rules /\ totals'[1] = RandomSteps /\ totals'[2] = recursive
      /\ totals'[3] = SplicingSteps
  BY <1>2, <1>3, <1>4
<1>6. <<1, 0>> \in Nat \X Nat
  OBVIOUS
<1>7. cursor' \in Nat \X Nat
  BY <1>1, <1>3, <1>6, NextIsLeast, SMTT(30) DEF Stages, StageTypes
<1>8. StageTypes'
  BY <1>2, <1>3, <1>4, <1>5, <1>7, SMTT(30) DEF StageTypes
<1>9. \A s \in 0 .. 3 : Progress(s)' = 0
  BY <1>2, <1>3, <1>5 DEF Progress
<1>10. ToSet(tried') = {} /\ Len(tried') = 0 /\ Cardinality({}) = 0
  BY <1>3, FS_EmptySet, SMTT(30) DEF ToSet
<1>11. /\ (totals[0] = Cardinality(Alternatives(tree_cur)) /\ totals[1] > 0)'
       /\ (calls = <<Progress(0) + Progress(1) + Progress(2) + Progress(3),
                     totals[0] + totals[1] + totals[2] + totals[3]>>)'
       /\ (\A s \in 1 .. 3 : used[s] = Progress(s))'
       /\ (Len(tried) = Progress(0) /\ Cardinality(ToSet(tried)) = Len(tried))'
  <2>1. (totals[0] = Cardinality(Alternatives(tree_cur)) /\ totals[1] > 0)'
    BY <1>1, <1>2, <1>4, <1>5, SMTT(30)
  <2>2. (calls = <<Progress(0) + Progress(1) + Progress(2) + Progress(3),
                   totals[0] + totals[1] + totals[2] + totals[3]>>)'
    BY <1>2, <1>3, <1>4, <1>5, <1>9, SMTT(30)
  <2>3. (\A s \in 1 .. 3 : used[s] = Progress(s))'
    BY <1>3, <1>9
  <2>4. (Len(tried) = Progress(0) /\ Cardinality(ToSet(tried)) = Len(tried))'
    BY <1>9, <1>10, SMTT(30)
  <2> QED
    BY <2>1, <2>2, <2>3, <2>4, SMTT(30)
<1>12. CASE rules > 0
  <2>1. \A p \in Alternatives(tree_cur) : Before(<<1, 0>>, p)
    BY <1>1, AlternativeTypes DEF Before
  <2>2. Alternatives(tree_cur) # {}
    BY <1>2, <1>12, FS_EmptySet, SMTT(30)
  <2>3. cursor' \in Alternatives(tree_cur) /\ \A p \in Alternatives(tree_cur) : Before(cursor', p)
    BY <1>1, <1>3, <1>6, <1>12, <2>1, <2>2, NextIsLeast, SMTT(30)
  <2>4. stage' = <<0, 0>>
    BY <1>3, <1>12
  <2>5. ToSet(tried') = {p \in Alternatives(tree_cur) : ~Before(cursor', p)}
    BY <1>10, <2>3
  <2>6. (IF stage[1] < 4 THEN stage[2] < totals[stage[1]] ELSE stage[2] = 0)'
    BY <1>5, <1>12, <2>4, SMTT(30)
  <2>7. (IF stage[1] = 0
         THEN /\ cursor \in Alternatives(tree_cur)
              /\ ToSet(tried) = {p \in Alternatives(tree_cur) : ~Before(cursor, p)}
         ELSE ToSet(tried) = Alternatives(tree_cur))'
    BY <1>1, <2>3, <2>4, <2>5, SMTT(30)
  <2> QED
    BY <1>1, <1>8, <1>11, <2>6, <2>7, SMTT(30) DEF Stages, InStage
<1>13. CASE ~(rules > 0)
  <2>1. Alternatives(tree_cur) = {} /\ rules = 0
    BY <1>2, <1>13, FS_EmptySet, SMTT(30)
  <2>2. stage' = <<1, 0>>
    BY <1>3, <1>13
  <2>3. (IF stage[1] < 4 THEN stage[2] < totals[stage[1]] ELSE stage[2] = 0)'
    BY <1>4, <1>5, <2>2, SMTT(30)
  <2>4. (IF stage[1] = 0
         THEN /\ cursor \in Alternatives(tree_cur)
              /\ ToSet(tried) = {p \in Alternatives(tree_cur) : ~Before(cursor, p)}
         ELSE ToSet(tried) = Alternatives(tree_cur))'
    BY <1>1, <1>10, <2>1, <2>2, SMTT(30)
  <2> QED
    BY <1>1, <1>8, <1>11, <2>3, <2>4, SMTT(30) DEF Stages, InStage
<1> QED
  BY <1>12, <1>13

(* One call of afl_custom_fuzz.                                            *)
LEMMA StagesGoOn ==
  ASSUME Stages, NEW t \in Trees, afl_custom_fuzz(t)
  PROVE  Stages'
<1> DEFINE a == stage[1]  b == stage[2]
<1>1. /\ pc = "fuzz" /\ calls[1] < calls[2] /\ calls' = <<calls[1] + 1, calls[2]>>
      /\ stage' = AfterStep(stage) /\ UNCHANGED <<pc, tree_cur, totals>>
  BY DEF afl_custom_fuzz
<1>2. tree_cur \in Trees
  BY <1>1 DEF Stages
<1>3. /\ a \in 0 .. 3 /\ b < totals[a] /\ b \in Nat
      /\ totals[0] \in Nat /\ totals[1] \in Nat /\ totals[2] \in Nat /\ totals[3] \in Nat
  BY <1>1, StageLeft, SMTT(30) DEF Stages, StageTypes
<1>4. \/ b + 1 < totals[a] /\ stage' = <<a, b + 1>>
      \/ /\ b + 1 = totals[a]
         /\ \E s \in 1 .. 4 : /\ s > a /\ stage' = <<s, 0>>
                              /\ \A u \in 0 .. 3 : a < u /\ u < s => totals[u] = 0
                              /\ s < 4 => totals[s] > 0
  BY <1>1, <1>3, AfterStepIs, SMTT(30) DEF Stages
<1>5. \A s \in 0 .. 3 : Progress(s)' = IF s = a THEN b + 1 ELSE Progress(s)
  <2>1. CASE b + 1 < totals[a] /\ stage' = <<a, b + 1>>
    BY <1>1, <1>3, <2>1, SMTT(30) DEF Progress
  <2>2. ASSUME NEW z \in 1 .. 4, b + 1 = totals[a], z > a, stage' = <<z, 0>>,
               \A u \in 0 .. 3 : a < u /\ u < z => totals[u] = 0
        PROVE  \A s \in 0 .. 3 : Progress(s)' = IF s = a THEN b + 1 ELSE Progress(s)
    BY <1>1, <1>3, <2>2, SMTT(30) DEF Progress
  <2> QED
    BY <1>4, <2>1, <2>2, SMTT(30)
<1>6. Progress(a) = b
  BY <1>3 DEF Progress
<1>7. /\ stage' \in (0 .. 4) \X Nat
      /\ IF stage'[1] < 4 THEN stage'[2] < totals[stage'[1]] ELSE stage'[2] = 0
  BY <1>3, <1>4, SMTT(30)
<1>8. (calls = <<Progress(0) + Progress(1) + Progress(2) + Progress(3),
                 totals[0] + totals[1] + totals[2] + totals[3]>>)'
  <2>1. /\ calls[1] = Progress(0) + Progress(1) + Progress(2) + Progress(3)
        /\ calls[2] = totals[0] + totals[1] + totals[2] + totals[3]
    BY <1>1 DEF Stages, InStage
  <2>2. \A s \in 0 .. 3 : Progress(s) \in Nat
    BY <1>3 DEF Progress
  <2>3. Progress(0)' + Progress(1)' + Progress(2)' + Progress(3)'
          = Progress(0) + Progress(1) + Progress(2) + Progress(3) + 1
    BY <1>3, <1>5, <1>6, <2>2, SMTT(30)
  <2> QED
    BY <1>1, <2>1, <2>3, SMTT(30)
<1>9. calls' \in Nat \X Nat /\ totals' \in [0 .. 3 -> Nat]
  BY <1>1, SMTT(30) DEF Stages, StageTypes
<1>10. (totals[0] = Cardinality(Alternatives(tree_cur)) /\ totals[1] > 0)'
  BY <1>1 DEF Stages, InStage
<1>11. /\ \A s \in 1 .. 3 : used[s] = Progress(s)
       /\ Len(tried) = Progress(0) /\ Cardinality(ToSet(tried)) = Len(tried)
       /\ used \in [1 .. 3 -> Nat] /\ tried \in Seq(Nat \X Nat) /\ cursor \in Nat \X Nat
  BY <1>1, SMTT(30) DEF Stages, InStage, StageTypes
<1>12. CASE a = 0
  <2>1. /\ tried' = Append(tried, cursor) /\ used' = used
        /\ cursor' = IF stage'[1] = 0 THEN NextRule(tree_cur, <<cursor[1], cursor[2] + 1>>) ELSE cursor
    BY <1>12, SMTT(30) DEF afl_custom_fuzz
  <2>2. /\ cursor \in Alternatives(tree_cur)
        /\ ToSet(tried) = {p \in Alternatives(tree_cur) : ~Before(cursor, p)}
    BY <1>1, <1>12 DEF Stages, InStage
  <2>3. /\ ToSet(tried') = ToSet(tried) \union {cursor}
        /\ Len(tried') = Len(tried) + 1 /\ tried' \in Seq(Nat \X Nat)
    <3>1. tried \in Seq(Nat \X Nat) /\ cursor \in Nat \X Nat
      BY <1>11
    <3>2. /\ ToSet(Append(tried, cursor)) = ToSet(tried) \union {cursor}
          /\ Len(Append(tried, cursor)) = Len(tried) + 1
          /\ Append(tried, cursor) \in Seq(Nat \X Nat)
      BY <3>1, AppendedSet, SMTT(30)
    <3> QED
      BY <2>1, <3>2, Zenon
  <2>4. Cardinality(ToSet(tried)) = b /\ Len(tried) = b
    BY <1>6, <1>11, <1>12, SMTT(30)
  <2> DEFINE seen == ToSet(tried)
             n == NextRule(tree_cur, <<cursor[1], cursor[2] + 1>>)
  <2>5. /\ Cardinality(seen \union {cursor}) = Cardinality(seen) + 1
        /\ Cardinality(seen) + 1 = Cardinality(Alternatives(tree_cur))
              => seen \union {cursor} = Alternatives(tree_cur)
        /\ Cardinality(seen) + 1 < Cardinality(Alternatives(tree_cur))
              => /\ n \in Alternatives(tree_cur)
                 /\ seen \union {cursor} = {p \in Alternatives(tree_cur) : ~Before(n, p)}
    <3> HIDE DEF seen
    <3>1. seen = {p \in Alternatives(tree_cur) : ~Before(cursor, p)}
      BY <2>2, Zenon DEF seen
    <3> QED
      BY <1>2, <2>2, <3>1, CursorMoves, SMTT(30)
  <2>6. Cardinality(ToSet(tried')) = Cardinality(ToSet(tried)) + 1
    BY <2>3, <2>5, Zenon
  <2>7. totals[0] = Cardinality(Alternatives(tree_cur))
    BY <1>1 DEF Stages, InStage
  <2>8. <<cursor[1], cursor[2] + 1>> \in Nat \X Nat
    BY <1>11
  <2>9. cursor' \in Nat \X Nat
    BY <1>2, <1>11, <2>1, <2>8, NextIsLeast, SMTT(30)
  <2>10. (IF stage[1] = 0
         THEN /\ cursor \in Alternatives(tree_cur)
              /\ ToSet(tried) = {p \in Alternatives(tree_cur) : ~Before(cursor, p)}
         ELSE ToSet(tried) = Alternatives(tree_cur))'
    <3>1. CASE b + 1 < totals[a] /\ stage' = <<a, b + 1>>
      <4>1. stage'[1] = 0 /\ Cardinality(ToSet(tried)) + 1 < Cardinality(Alternatives(tree_cur))
        BY <1>12, <2>4, <2>7, <3>1, SMTT(30)
      <4>2. cursor' = NextRule(tree_cur, <<cursor[1], cursor[2] + 1>>)
        BY <2>1, <4>1
      <4>3. /\ cursor' \in Alternatives(tree_cur)
            /\ ToSet(tried') = {p \in Alternatives(tree_cur) : ~Before(cursor', p)}
        BY <2>3, <2>5, <4>1, <4>2, Zenon
      <4> QED
        BY <1>1, <4>1, <4>3, SMTT(30)
    <3>2. CASE b + 1 = totals[a] /\ stage'[1] > 0 /\ stage'[1] \in Nat
      <4>1. Cardinality(ToSet(tried)) + 1 = Cardinality(Alternatives(tree_cur))
        BY <1>12, <2>4, <2>7, <3>2, SMTT(30)
      <4>2. ToSet(tried') = Alternatives(tree_cur)
        BY <2>3, <2>5, <4>1, Zenon
      <4> QED
        BY <1>1, <3>2, <4>2, SMTT(30)
    <3> QED
      BY <1>4, <1>12, <3>1, <3>2, SMTT(30)
  <2>11. (\A s \in 1 .. 3 : used[s] = Progress(s))'
    BY <1>5, <1>11, <1>12, <2>1, SMTT(30)
  <2>12. (Len(tried) = Progress(0) /\ Cardinality(ToSet(tried)) = Len(tried))'
    BY <1>5, <1>12, <2>3, <2>4, <2>6, SMTT(30)
  <2>13. StageTypes'
    BY <1>7, <1>9, <1>11, <2>1, <2>3, <2>9, SMTT(30) DEF StageTypes
  <2> QED
    BY <1>1, <1>2, <1>7, <1>8, <1>10, <2>10, <2>11, <2>12, <2>13, SMTT(30) DEF Stages, InStage
<1>13. CASE a > 0
  <2>1. used' = [used EXCEPT ![a] = @ + 1] /\ UNCHANGED <<tried, cursor>>
    BY <1>3, <1>13, SMTT(30) DEF afl_custom_fuzz
  <2>2. stage'[1] > 0 /\ stage'[1] \in Nat
    BY <1>3, <1>4, <1>13, SMTT(30)
  <2>3. ToSet(tried) = Alternatives(tree_cur)
    BY <1>1, <1>13, SMTT(30) DEF Stages, InStage
  <2>4. (\A s \in 1 .. 3 : used[s] = Progress(s))'
    BY <1>3, <1>5, <1>6, <1>11, <1>13, <2>1, SMTT(30)
  <2>5. (Len(tried) = Progress(0) /\ Cardinality(ToSet(tried)) = Len(tried))'
    BY <1>5, <1>11, <1>13, <2>1, SMTT(30)
  <2>6. (IF stage[1] = 0
         THEN /\ cursor \in Alternatives(tree_cur)
              /\ ToSet(tried) = {p \in Alternatives(tree_cur) : ~Before(cursor, p)}
         ELSE ToSet(tried) = Alternatives(tree_cur))'
    BY <1>1, <2>1, <2>2, <2>3, SMTT(30)
  <2>7. used' \in [1 .. 3 -> Nat]
    BY <1>3, <1>11, <1>13, <2>1, SMTT(30)
  <2>8. StageTypes'
    BY <1>7, <1>9, <1>11, <2>1, <2>7, ZenonT(30) DEF StageTypes
  <2> QED
    BY <1>1, <1>2, <1>7, <1>8, <1>10, <2>4, <2>5, <2>6, <2>8, SMTT(30) DEF Stages, InStage
<1> QED
  BY <1>3, <1>12, <1>13, SMTT(30)

LEMMA StagesStep ==
  ASSUME StoreTypes, StoreTypes', Stages, [Next]_vars
  PROVE  Stages'
<1>1. ASSUME NEW n \in Names, Import(n) \/ nuke_resume_dir(n)
      PROVE  Stages'
  BY <1>1, StagesKept, SMTT(30) DEF Import, nuke_resume_dir
<1>2. ASSUME NEW n \in Names, Pick(n)
      PROVE  Stages'
  <2>1. pc' \in {"pick", "count"} /\ (pc' = "count" => tree_cur' # NoTree) /\ UNCHANGED stageVars
    BY <1>2 DEF Pick
  <2> QED
    BY <2>1, StagesKept DEF StoreTypes, TreeOrNone
<1>3. ASSUME NEW n \in Names, afl_custom_queue_new_entry(n)
      PROVE  Stages'
  BY <1>3, StagesKept DEF afl_custom_queue_new_entry, Stages
<1>4. CASE afl_custom_fuzz_count
  BY <1>4, StagesStart
<1>5. ASSUME NEW t \in Trees, afl_custom_fuzz(t)
      PROVE  Stages'
  BY <1>5, StagesGoOn, SMTT(30)
<1>6. CASE Kill
  <2>1. /\ stage' = <<0, 0>> /\ totals' = [s \in 0 .. 3 |-> 0] /\ cursor' = <<0, 0>>
        /\ calls' = <<0, 0>> /\ tried' = <<>> /\ used' = [s \in 1 .. 3 |-> 0]
        /\ pc' = "dead"
    BY <1>6 DEF Kill, afl_custom_init, Zeros
  <2>2. StageTypes'
    BY <2>1 DEF StageTypes
  <2> QED
    BY <2>1, <2>2 DEF Stages, InStage
<1>7. CASE ResumeInPlace \/ StartOver
  BY <1>7, StagesKept DEF ResumeInPlace, StartOver
<1>8. CASE UNCHANGED vars
  BY <1>8, StagesKept DEF vars, Stages
<1> QED
  BY <1>1, <1>2, <1>3, <1>4, <1>5, <1>6, <1>7, <1>8, SMTT(30) DEF Next

LEMMA StagesHold == Spec => [](StoreTypes /\ Stages)
<1>1. Init => Stages
  BY DEF Init, Zeros, Stages, StageTypes, InStage
<1>2. StoreTypes /\ StoreTypes' /\ Stages /\ [Next]_vars => Stages'
  BY StagesStep
<1> QED
  BY <1>1, <1>2, StoresTyped, PTL DEF Spec

(* Folders, trees, stages and counters have their types in every state.    *)
THEOREM MutatorTyped == Spec => []TypeOK
<1>1. StoreTypes /\ Stages => TypeOK
  BY DEF Stages, TypeOK
<1> QED
  BY <1>1, StagesHold, PTL

(* No call that afl_custom_fuzz_count announced ends in "mutation error",  *)
(* and rules_mutation always gets a node and another rule for it.          *)
THEOREM CallsSucceed == Spec => []NoMutationError
<1>1. Stages => NoMutationError
  BY StageLeft DEF Stages, InStage, NoMutationError
<1> QED
  BY <1>1, StagesHold, PTL

(* The announced calls try every alternative rule of every node once and   *)
(* give every other mutation its steps, for every grammar and every tree.  *)
THEOREM StagesDone == Spec => []StagesComplete
<1>1. ASSUME Stages
      PROVE  StagesComplete
  <2> SUFFICES ASSUME pc = "fuzz", calls[1] = calls[2]
               PROVE  /\ ToSet(tried) = Alternatives(tree_cur)
                      /\ Len(tried) = Cardinality(Alternatives(tree_cur))
                      /\ \A s \in 1 .. 3 : used[s] = totals[s]
    BY ZenonT(30) DEF StagesComplete
  <2>1. stage[1] = 4
    BY <1>1, StageLeft, SMTT(30) DEF Stages
  <2>2. /\ ToSet(tried) = Alternatives(tree_cur)
        /\ Cardinality(ToSet(tried)) = Len(tried)
        /\ \A s \in 1 .. 3 : used[s] = Progress(s)
    BY <1>1, <2>1 DEF Stages, InStage
  <2>3. \A s \in 1 .. 3 : Progress(s) = totals[s]
    BY <2>1 DEF Progress
  <2> QED
    BY <2>2, <2>3, ZenonT(30)
<1> QED
  BY <1>1, StagesHold, PTL
=============================================================================
