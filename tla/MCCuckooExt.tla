---------------------------- MODULE MCCuckooExt ----------------------------
(***************************************************************************)
(* Instances of CuckooExt: the texts sessions may send and their calls.    *)
(***************************************************************************)
EXTENDS CuckooExt

CONSTANTS b1, b2

NoCall == [fn |-> "none", arg |-> "one", site |-> "run"]

(* Every function, called by the planner and by the executor.              *)
InjectTexts == {"one", "query", "const", "serialize", "print", "table"}

InjectCalls ==
  [t \in InjectTexts |->
     CASE t = "const"     -> [fn |-> "const", arg |-> "one", site |-> "plan"]
       [] t = "serialize" -> [fn |-> "serialize", arg |-> "query", site |-> "plan"]
       [] t = "print"     -> [fn |-> "execute", arg |-> "p1", site |-> "plan"]
       [] t = "table"     -> [fn |-> "execute", arg |-> "p2", site |-> "run"]
       [] OTHER           -> NoCall]

(* A call has a query id of its own, or that of another text.              *)
InjectId ==
  [t \in InjectTexts |->
     CASE t \in {"query", "print"} -> 1 [] t = "serialize" -> 2 [] t \in {"const", "table"} -> 3
       [] OTHER -> 0]

(* Two texts that ask for each other's plan while they run, and a text     *)
(* with the query id of one of them that executes a plan.                  *)
CacheTexts == {"one", "first", "second", "table"}

CacheCalls ==
  [t \in CacheTexts |->
     CASE t = "first"  -> [fn |-> "serialize", arg |-> "second", site |-> "run"]
       [] t = "second" -> [fn |-> "serialize", arg |-> "first", site |-> "run"]
       [] t = "table"  -> [fn |-> "execute", arg |-> "p1", site |-> "run"]
       [] OTHER        -> NoCall]

(* Every session turns the cache on; one does and one does not.            *)
AllCache == [b \in Backends |-> {"on"}]

OneCaches == [b \in Backends |-> IF b = b1 THEN {"on", "off"} ELSE {}]

CacheId ==
  [t \in CacheTexts |-> CASE t \in {"first", "table"} -> 1 [] t = "second" -> 2 [] OTHER -> 0]
=============================================================================
