----------------------------- MODULE RunOracle -----------------------------
(***************************************************************************)
(* What the fuzzing loop promises afl-fuzz: executions happen one at a     *)
(* time and each gets at most one verdict; an execution that took the      *)
(* server down is judged a crash or, when it was late, a timeout; any      *)
(* other one is judged uneventful or a timeout.                            *)
(***************************************************************************)
EXTENDS Naturals

CONSTANT MaxRuns

VARIABLES run,      \* number of executions started
          crashed,  \* the executions that took the server down
          verdict   \* the verdicts given

oracleVars == <<run, crashed, verdict>>

Open == run > 0 /\ verdict[run] = "none"

OracleInit ==
  /\ run = 0
  /\ crashed = {}
  /\ verdict = [r \in 1 .. MaxRuns |-> "none"]

Start ==
  /\ ~Open
  /\ run < MaxRuns
  /\ run' = run + 1
  /\ UNCHANGED <<crashed, verdict>>

Crash ==
  /\ Open
  /\ run \notin crashed
  /\ crashed' = crashed \union {run}
  /\ UNCHANGED <<run, verdict>>

Judge ==
  /\ Open
  /\ \E v \in {"tmout", IF run \in crashed THEN "crash" ELSE "ok"} :
        verdict' = [verdict EXCEPT ![run] = v]
  /\ UNCHANGED <<run, crashed>>

OracleNext == Start \/ Crash \/ Judge

OracleSpec == OracleInit /\ [][OracleNext]_oracleVars
=============================================================================
