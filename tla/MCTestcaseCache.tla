--------------------------- MODULE MCTestcaseCache ---------------------------
(* Instances of TestcaseCache for model checking.                          *)
EXTENDS TestcaseCache, TLC

(* Two test cases of the same length, so that a stale buffer shows, and a  *)
(* shorter one.                                                            *)
MCContents == {"short", "long", "other"}

MCLength == [c \in MCContents |-> IF c = "short" THEN 1 ELSE 2]

Symmetry == Permutations(Entries)
=============================================================================
