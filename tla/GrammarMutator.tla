--------------------------- MODULE GrammarMutator ---------------------------
(***************************************************************************)
(* The grammar mutator, Grammar-Mutator/src/grammar_mutator.c, as afl-fuzz *)
(* uses it: a session imports the entries of the queue, hands the mutator  *)
(* one entry after the other to fuzz, and tells it of the entries it adds. *)
(* The mutator works on the tree of an entry, which it keeps in the folder *)
(* trees/ under the name of the entry: queue/ and trees/ have to agree,    *)
(* also when afl-fuzz is killed and a later session uses the same folders. *)
(* A session that resumes another moves queue/ to _resume/, imports from   *)
(* there and removes it file by file, and may be killed on the way.        *)
(*                                                                         *)
(* A tree is an abstract value with the list of its non-terminal nodes;    *)
(* what a mutation makes of it is left open.  afl-fuzz runs with           *)
(* AFL_CUSTOM_MUTATOR_ONLY and AFL_DISABLE_TRIM (scripts/fuzz.sh).         *)
(***************************************************************************)
EXTENDS Naturals, Sequences, FiniteSets, SequencesExt

CONSTANTS Seeds,      \* names of the seeds
          Found,      \* names of the entries afl-fuzz adds; they hold the time
                      \* and the number of executions, and none is given twice
          Trees, NoTree,
          Texts, NoText,
          Nodes,      \* the non-terminal nodes of a tree, in preorder
          Recursion,  \* the trees with a recursion edge
          Out,        \* the text of a tree, cut at max_size
          Parse,      \* the tree of a text, NoTree when it does not parse
          InputDirs,  \* the contents the seeds may have
          RandomSteps, RecursiveSteps, SplicingSteps,
          MaxKills    \* bound on the kills of afl-fuzz

(* An entry is known by the part of its file's name that stays: what       *)
(* follows ",orig:" when a session gave it a new number, else the name.    *)
Names == Seeds \union Found

(* A node has a number of alternative rules, and was made by one of them.  *)
Node == [rules : Nat \ {0}, rule : Nat]

ASSUME TreeAssumption ==
  /\ NoTree \notin Trees
  /\ NoText \notin Texts
  /\ Nodes \in [Trees -> Seq(Node)]
  /\ \A t \in Trees : \A i \in DOMAIN Nodes[t] : Nodes[t][i].rule < Nodes[t][i].rules
  /\ Recursion \subseteq Trees
  /\ Out \in [Trees -> Texts]
  /\ Parse \in [Texts -> Trees \union {NoTree}]
  /\ \A x \in Texts : Parse[x] # NoTree => Out[Parse[x]] = x
  /\ InputDirs \subseteq [Seeds -> Texts]
  /\ Seeds # {} /\ Seeds \cap Found = {}

ASSUME StepsAssumption ==
  /\ RandomSteps \in Nat \ {0}
  /\ RecursiveSteps \in Nat
  /\ SplicingSteps \in Nat
  /\ MaxKills \in Nat

VARIABLES input,    \* the folder given by -i: the text under each name
          queue,    \* folder queue/
          resume,   \* folder _resume/
          trees,    \* folder trees/: the tree under each name, NoTree when
                    \* there is no file or none that can be read
          pc,       \* where afl-fuzz is
          todo,     \* entries that are still to be imported
          cur,      \* queue_cur
          tree_cur, mutated_tree,
          stage,    \* cur_fuzzing_stage (0 rules, 1 random, 2 recursive,
                    \* 3 splicing mutation) and cur_fuzzing_step
          totals,   \* total_rules_mutation_steps, ...
          cursor,   \* cur_rules_mutation_node and cur_rules_mutation_rule_id
          calls,    \* stage_cur and stage_max of afl-fuzz
          tried,    \* history: what rules_mutation was called with
          used,     \* history: the number of calls of the other mutations
          kills,
          saved,    \* history: the entries that sessions are to resume
          torn      \* history: 1 once _resume/ was left although it did not
                    \* hold what queue/ held

folders == <<input, queue, resume, trees>>
stageVars == <<stage, totals, cursor, calls, tried, used>>
history == <<saved, torn>>
vars == <<folders, pc, todo, cur, tree_cur, mutated_tree, stageVars, kills, history>>

TreeOrNone == Trees \union {NoTree}
TextOrNone == Texts \union {NoText}

StoreTypes ==
  /\ input \in [Names -> TextOrNone]
  /\ queue \in [Names -> TextOrNone]
  /\ resume \in [Names -> TextOrNone]
  /\ trees \in [Names -> TreeOrNone]
  /\ pc \in {"import", "resume", "remove", "pick", "count", "fuzz", "dead"}
  /\ todo \subseteq Names
  /\ cur \in Names
  /\ tree_cur \in TreeOrNone /\ mutated_tree \in TreeOrNone
  /\ kills \in 0 .. MaxKills
  /\ saved \subseteq Names /\ torn \in 0 .. 1

StageTypes ==
  /\ stage \in (0 .. 4) \X Nat
  /\ totals \in [0 .. 3 -> Nat]
  /\ cursor \in Nat \X Nat
  /\ calls \in Nat \X Nat
  /\ tried \in Seq(Nat \X Nat)
  /\ used \in [1 .. 3 -> Nat]

TypeOK == StoreTypes /\ StageTypes

Files(folder) == {n \in Names : folder[n] # NoText}

Entries == Files(queue)

Nothing == [n \in Names |-> NoText]

SeedFolder(f) == [n \in Names |-> IF n \in Seeds THEN f[n] ELSE NoText]

(* calloc: no tree, and every counter zero.                                *)
Zeros(S) == [s \in S |-> 0]

(* The first session, in an empty output directory.                        *)
Init ==
  /\ \E f \in InputDirs : input = SeedFolder(f)
  /\ queue = Nothing /\ resume = Nothing
  /\ trees = [n \in Names |-> NoTree]
  /\ pc = "import"
  /\ todo = Seeds
  /\ cur \in Seeds
  /\ tree_cur = NoTree /\ mutated_tree = NoTree
  /\ stage = <<0, 0>> /\ totals = Zeros(0 .. 3) /\ cursor = <<0, 0>>
  /\ calls = <<0, 0>> /\ tried = <<>> /\ used = Zeros(1 .. 3)
  /\ kills = 0
  /\ saved = {} /\ torn = 0
-----------------------------------------------------------------------------
(* Queue entries.                                                          *)

(* The tree of an entry: from its file in trees/, else by parsing it.      *)
Loaded(n, text) == IF trees[n] # NoTree THEN trees[n] ELSE Parse[text]

(* What was parsed is written to trees/.                                   *)
afl_custom_queue_get(n, text) ==
  /\ tree_cur' = Loaded(n, text)
  /\ trees' = [trees EXCEPT ![n] = Loaded(n, text)]

(* The folder that read_testcases read.                                    *)
Source == IF pc = "resume" THEN resume ELSE input

(* link_or_copy: into queue/, under the next number.                       *)
Link(n) == queue' = [queue EXCEPT ![n] = Source[n]]

(* pivot_inputs: each entry is linked into queue/ and announced;           *)
(* afl_custom_queue_new_entry without a mother entry fetches the tree.     *)
Import(n) ==
  /\ pc \in {"import", "resume"}
  /\ n \in todo
  /\ Link(n)
  /\ afl_custom_queue_get(n, Source[n])
  /\ todo' = todo \ {n}
  /\ saved' = saved \union {n}
  /\ pc' = IF todo # {n} THEN pc ELSE IF pc = "resume" THEN "remove" ELSE "pick"
  /\ UNCHANGED <<input, resume, cur, mutated_tree, stageVars, kills, torn>>

(* Once all are imported _resume/ is removed, in the order of the folder.  *)
nuke_resume_dir(n) ==
  /\ pc = "remove"
  /\ n \in Files(resume)
  /\ resume' = [resume EXCEPT ![n] = NoText]
  /\ pc' = IF Files(resume) = {n} THEN "pick" ELSE "remove"
  /\ UNCHANGED <<input, queue, trees, todo, cur, tree_cur, mutated_tree, stageVars, kills, history>>

(* fuzz_one takes an entry; it leaves one that does not parse, and may     *)
(* also leave any other.  The stage of the entry before is over, or was    *)
(* abandoned.                                                              *)
Pick(n) ==
  /\ pc \in {"pick", "fuzz"}
  /\ n \in Entries
  /\ cur' = n
  /\ afl_custom_queue_get(n, queue[n])
  /\ pc' \in IF tree_cur' = NoTree THEN {"pick"} ELSE {"pick", "count"}
  /\ UNCHANGED <<input, queue, resume, todo, mutated_tree, stageVars, kills, history>>

(* The names that no file has: they hold the time and the number of        *)
(* executions.                                                             *)
Fresh == {n \in Found \ (Entries \union Files(resume)) : trees[n] = NoTree}

(* Mutant: the tree the mutation started from is written.                  *)
afl_custom_queue_new_entryOld(n) ==
  /\ pc = "fuzz"
  /\ calls[1] > 0
  /\ mutated_tree # NoTree
  /\ n \in Fresh
  /\ queue' = [queue EXCEPT ![n] = Out[mutated_tree]]
  /\ trees' = [trees EXCEPT ![n] = tree_cur]
  /\ mutated_tree' = NoTree
  /\ saved' = saved \union {n}
  /\ UNCHANGED <<input, resume, pc, todo, cur, tree_cur, stageVars, kills, torn>>

(* Mutant: the new entry's tree is fetched, as for an import.              *)
afl_custom_queue_new_entryFetches(n) ==
  /\ pc = "fuzz"
  /\ calls[1] > 0
  /\ mutated_tree # NoTree
  /\ n \in Fresh
  /\ queue' = [queue EXCEPT ![n] = Out[mutated_tree]]
  /\ trees' = [trees EXCEPT ![n] = mutated_tree]
  /\ tree_cur' = mutated_tree
  /\ mutated_tree' = NoTree
  /\ saved' = saved \union {n}
  /\ UNCHANGED <<input, resume, pc, todo, cur, stageVars, kills, torn>>

(* The text that was run is interesting: afl-fuzz has written it to the    *)
(* queue, and the mutator writes its tree.                                 *)
afl_custom_queue_new_entry(n) ==
  /\ pc = "fuzz"
  /\ calls[1] > 0
  /\ mutated_tree # NoTree
  /\ n \in Fresh
  /\ queue' = [queue EXCEPT ![n] = Out[mutated_tree]]
  /\ trees' = [trees EXCEPT ![n] = mutated_tree]
  /\ mutated_tree' = NoTree
  /\ saved' = saved \union {n}
  /\ UNCHANGED <<input, resume, pc, todo, cur, tree_cur, stageVars, kills, torn>>
-----------------------------------------------------------------------------
(* The stages of fuzzing one entry.                                        *)

(* Every node with every rule it was not made by.                          *)
Alternatives(t) ==
  UNION {{<<i, r>> : r \in (0 .. Nodes[t][i].rules - 1) \ {Nodes[t][i].rule}} :
         i \in DOMAIN Nodes[t]}

rules_mutation_count(t) == FoldSeq(LAMBDA node, sum : sum + node.rules - 1, 0, Nodes[t])

Before(p, q) == p[1] < q[1] \/ (p[1] = q[1] /\ p[2] <= q[2])

(* Mutant: the rule the node was made by is not skipped.                   *)
NextRuleNoSkip(t, c) ==
  IF c[2] < Nodes[t][c[1]].rules THEN c ELSE <<c[1] + 1, 0>>

(* The loop that moves the cursor on from c, over the rules nodes were     *)
(* made by, and to the next node of the list when the rules end, defined   *)
(* by where it stops: at the first alternative from c on.  With no node    *)
(* left it would run into a null pointer: <<0, 0>>.                        *)
NextRule(t, c) ==
  LET rest == {p \in Alternatives(t) : Before(c, p)}
  IN  IF rest = {} THEN <<0, 0>>
      ELSE CHOOSE p \in rest : \A q \in rest : Before(p, q)

afl_custom_fuzz_count ==
  /\ pc = "count"
  /\ LET rules == rules_mutation_count(tree_cur)
         recursive == IF tree_cur \in Recursion THEN RecursiveSteps ELSE 0
     IN  /\ totals' = [s \in 0 .. 3 |-> CASE s = 0 -> rules [] s = 1 -> RandomSteps
                                          [] s = 2 -> recursive [] s = 3 -> SplicingSteps]
         /\ IF rules > 0
            THEN stage' = <<0, 0>> /\ cursor' = NextRule(tree_cur, <<1, 0>>)
            ELSE stage' = <<1, 0>> /\ UNCHANGED cursor
         /\ calls' = <<0, rules + RandomSteps + recursive + SplicingSteps>>
  /\ tried' = <<>> /\ used' = Zeros(1 .. 3)
  /\ pc' = "fuzz"
  /\ UNCHANGED <<folders, todo, cur, tree_cur, mutated_tree, kills, history>>

(* Mutant: a stage is left one step late.                                  *)
AdvanceLate(p, s) == IF p[1] = s /\ p[2] > totals[s] THEN <<s + 1, 0>> ELSE p

(* Mutant: the number of the stage is not looked at.                       *)
AdvanceAlways(p, s) == IF p[2] >= totals[s] THEN <<p[1] + 1, 0>> ELSE p

(* Leave stage s for the next one when its steps are done.                 *)
Advance(p, s) == IF p[1] = s /\ p[2] >= totals[s] THEN <<s + 1, 0>> ELSE p

(* The end of afl_custom_fuzz: one step more, and the checks in order.     *)
AfterStep(p) ==
  Advance(Advance(Advance(Advance(<<p[1], p[2] + 1>>, 0), 1), 2), 3)

(* One call for each iteration of custom_mutator_stage; the tree of a call *)
(* that was not interesting is dropped by the next one.                    *)
afl_custom_fuzz(t) ==
  /\ pc = "fuzz"
  /\ calls[1] < calls[2]
  /\ calls' = <<calls[1] + 1, calls[2]>>
  /\ mutated_tree' = t
  /\ stage' = AfterStep(stage)
  /\ IF stage[1] = 0
     THEN /\ tried' = Append(tried, cursor)
          /\ cursor' = IF stage'[1] = 0
                       THEN NextRule(tree_cur, <<cursor[1], cursor[2] + 1>>)
                       ELSE cursor
          /\ UNCHANGED used
     ELSE /\ used' = [used EXCEPT ![stage[1]] = @ + 1]
          /\ UNCHANGED <<tried, cursor>>
  /\ UNCHANGED <<folders, pc, todo, cur, tree_cur, totals, kills, history>>
-----------------------------------------------------------------------------
(* A process that ended leaves the state of a mutator that starts:         *)
(* afl_custom_init allocates it anew.                                      *)
afl_custom_init ==
  /\ todo' = {} /\ tree_cur' = NoTree /\ mutated_tree' = NoTree
  /\ stage' = <<0, 0>> /\ totals' = Zeros(0 .. 3) /\ cursor' = <<0, 0>>
  /\ calls' = <<0, 0>> /\ tried' = <<>> /\ used' = Zeros(1 .. 3)

(* afl-fuzz is killed, at any point, or between the writing of a test case *)
(* and the writing of its tree.                                            *)
Kill ==
  /\ pc # "dead"
  /\ kills < MaxKills
  /\ \/ UNCHANGED queue
     \/ /\ pc = "fuzz" /\ calls[1] > 0 /\ mutated_tree # NoTree
        /\ \E n \in Fresh : queue' = [queue EXCEPT ![n] = Out[mutated_tree]]
     \/ \E n \in todo : Link(n)
  /\ kills' = kills + 1
  /\ pc' = "dead"
  /\ torn' = IF pc = "remove" /\ Files(resume) # Entries THEN 1 ELSE torn
  /\ afl_custom_init
  /\ UNCHANGED <<input, resume, trees, cur, saved>>

(* Mutant: a queue/ that is there is preferred.                            *)
OldQueueNew == IF Entries # {} THEN queue ELSE resume

(* "If _resume/ already exists, the current queue/ may be incomplete due   *)
(* to an earlier abort, so we want to use the old _resume/ dir instead".   *)
OldQueue == IF Files(resume) = {} THEN queue ELSE resume

(* A session that resumes the one before: handle_existing_out_dir moves    *)
(* queue/ to _resume/, unless there is one, and clears queue/.             *)
ResumeInPlace ==
  /\ pc = "dead"
  /\ Files(OldQueue) # {}
  /\ resume' = OldQueue
  /\ queue' = Nothing
  /\ todo' = Files(OldQueue)
  /\ pc' = "resume"
  /\ UNCHANGED <<input, trees, cur, tree_cur, mutated_tree, stageVars, kills, history>>

(* A session that starts over from seeds: handle_existing_out_dir clears   *)
(* queue/, but neither _resume/ nor trees/.  It refuses to after a session *)
(* of more than OUTPUT_GRACE minutes; sessions that are modelled may all   *)
(* be shorter.                                                             *)
StartOver ==
  /\ pc = "dead"
  /\ \E f \in InputDirs : input' = SeedFolder(f)
  /\ queue' = Nothing
  /\ todo' = Seeds
  /\ pc' = "import"
  /\ saved' = {}
  /\ torn' = IF Files(resume) = {} THEN 0 ELSE 1
  /\ UNCHANGED <<resume, trees, cur, tree_cur, mutated_tree, stageVars, kills>>

Next ==
  \/ \E n \in Names : \/ Import(n) \/ nuke_resume_dir(n) \/ Pick(n)
                      \/ afl_custom_queue_new_entry(n)
  \/ afl_custom_fuzz_count
  \/ \E t \in Trees : afl_custom_fuzz(t)
  \/ Kill
  \/ ResumeInPlace \/ StartOver

Spec == Init /\ [][Next]_vars
-----------------------------------------------------------------------------
(* What trees/ holds under the name of a queue entry is a tree of that     *)
(* entry's text, whenever afl-fuzz was killed.                             *)
TreesMatch == \A n \in Entries : trees[n] # NoTree => Out[trees[n]] = queue[n]

(* "Read the corresponding serialized tree from file": while afl-fuzz      *)
(* fuzzes an entry the mutator's current tree is a tree of that entry,     *)
(* although entries are added in between.                                  *)
FuzzesPicked ==
  pc \in {"count", "fuzz"} => tree_cur # NoTree /\ Out[tree_cur] = queue[cur]

(* No entry is lost by an in-place resume that is killed, however often:   *)
(* it is in queue/, or will be imported from _resume/.  Unless afl-fuzz    *)
(* was killed while it removed _resume/, or started over without removing  *)
(* it: then the next resume prefers a folder that does not hold the queue. *)
NothingLost ==
  torn = 0 => saved \subseteq (IF pc \in {"resume", "dead"} THEN Files(OldQueue) ELSE Entries)

(* No call ends in "mutation error": there is a stage left for every call  *)
(* that afl_custom_fuzz_count announced, and rules_mutation gets a node of *)
(* the tree and a rule other than the one the node was made by.            *)
NoMutationError ==
  pc = "fuzz" /\ calls[1] < calls[2] =>
     /\ stage[1] \in 0 .. 3
     /\ stage[1] = 0 => cursor \in Alternatives(tree_cur)

(* After the announced number of calls every alternative rule of every     *)
(* node was tried, once, and every other mutation had all its steps.       *)
StagesComplete ==
  pc = "fuzz" /\ calls[1] = calls[2] =>
     /\ ToSet(tried) = Alternatives(tree_cur)
     /\ Len(tried) = Cardinality(Alternatives(tree_cur))
     /\ \A s \in 1 .. 3 : used[s] = totals[s]
-----------------------------------------------------------------------------
(* The invariants behind those: what is to be imported is there, and every *)
(* file and every tree of a name hold the same text.                       *)
ToImport == pc \in {"import", "resume"} => todo \subseteq Files(Source)

TextIs(n, x) ==
  /\ input[n] \in {x, NoText} /\ queue[n] \in {x, NoText} /\ resume[n] \in {x, NoText}
  /\ trees[n] # NoTree => Out[trees[n]] = x

SameText == \A n \in Names : \E x \in Texts : TextIs(n, x)

(* The steps of a stage that are done.                                     *)
Progress(s) == IF s < stage[1] THEN totals[s] ELSE IF s = stage[1] THEN stage[2] ELSE 0

(* afl-fuzz's count of its calls agrees with the mutator's stages, and the *)
(* cursor splits the alternatives into those tried and those to come.      *)
InStage ==
  pc = "fuzz" =>
     /\ totals[0] = Cardinality(Alternatives(tree_cur)) /\ totals[1] > 0
     /\ calls = <<Progress(0) + Progress(1) + Progress(2) + Progress(3),
                  totals[0] + totals[1] + totals[2] + totals[3]>>
     /\ IF stage[1] < 4 THEN stage[2] < totals[stage[1]] ELSE stage[2] = 0
     /\ \A s \in 1 .. 3 : used[s] = Progress(s)
     /\ Len(tried) = Progress(0) /\ Cardinality(ToSet(tried)) = Len(tried)
     /\ IF stage[1] = 0
        THEN /\ cursor \in Alternatives(tree_cur)
             /\ ToSet(tried) = {p \in Alternatives(tree_cur) : ~Before(cursor, p)}
        ELSE ToSet(tried) = Alternatives(tree_cur)
=============================================================================
