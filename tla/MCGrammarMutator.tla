-------------------------- MODULE MCGrammarMutator --------------------------
(***************************************************************************)
(* An instance of GrammarMutator: a tree with several alternatives, one    *)
(* with none, and one whose text is cut and so does not parse.             *)
(***************************************************************************)
EXTENDS GrammarMutator

CONSTANTS s1, s2, f1, f2

MCTrees == {"join", "scan", "huge"}

MCTexts == {"join", "scan", "cut", "junk"}

MCNodes ==
  [t \in MCTrees |->
     CASE t = "join" -> <<[rules |-> 2, rule |-> 1], [rules |-> 1, rule |-> 0],
                          [rules |-> 3, rule |-> 1]>>
       [] t = "scan" -> <<[rules |-> 1, rule |-> 0]>>
       [] t = "huge" -> <<[rules |-> 1, rule |-> 0], [rules |-> 2, rule |-> 0]>>]

MCOut == [t \in MCTrees |-> IF t = "huge" THEN "cut" ELSE t]

MCParse == [x \in MCTexts |-> IF x \in {"join", "scan"} THEN x ELSE "none"]

(* One input directory, and one with other plans under the same names.     *)
OneInput == {s1 :> "join" @@ s2 :> "junk"}

TwoInputs == OneInput \union {s1 :> "scan" @@ s2 :> "join"}

Alike == Permutations({f1, f2})
=============================================================================
