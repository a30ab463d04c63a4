------------------------------ MODULE DbDriver ------------------------------
(***************************************************************************)
(* The fuzzing driver, src/db_driver.cc, with the client it drives,        *)
(* src/postgresql/client_postgresql.cc.  One action per step after which   *)
(* another process can see, or change, what the driver works with.         *)
(***************************************************************************)
EXTENDS PgServer

CONSTANT MayDie   \* the driver may be killed (memory limit of afl-fuzz -m)

ASSUME DbDriverSwitch == MayDie \in BOOLEAN

VARIABLES drun,     \* history: the run whose request the driver took
          case,     \* the test case in buf, 0 if the read returned nothing
          outcome,  \* ExecutionStatus of the test case
          leaked    \* connection objects (PGconn) that were never freed

driverVars == <<driver, drun, case, outcome, leaked>>

ExecutionStatus ==
  {"kConnectFailed", "kExecuteError", "kServerCrash", "kNormal", "kTimeout",
   "kSyntaxError", "kSemanticError"}

DriverTypeOK ==
  /\ driver \in Booting \union {"wait", "input", "ack", "translate", "execute",
                                "query", "recover", "report", "dead"}
  /\ drun \in 0 .. MaxRuns
  /\ case \in 0 .. MaxRuns
  /\ outcome \in ExecutionStatus
  /\ leaked \in Nat

DriverInit ==
  /\ driver = "boot"
  /\ drun = 0
  /\ case = 0
  /\ outcome = "kNormal"
  /\ leaked = 0

(* PQping and PQconnectdb succeed.                                         *)
Reachable == server = "up"

(* What the driver's own steps leave alone in the server.                  *)
serverRest == <<server, child, crashes, crashed>>
-----------------------------------------------------------------------------
(* main up to the loop.                                                    *)

(* __afl_map_shm: attach the map and mark it, or report the error and      *)
(* exit.  The size that afl-fuzz exports is the largest one allowed, so    *)
(* that FS_ERROR_MAP_SIZE is never reported.                               *)
DriverMapShm ==
  /\ driver = "boot"
  /\ \/ driver' = "check" /\ bitmap' = "marked" /\ UNCHANGED st
     \/ driver' = "dead" /\ Send(ShmatError, "driver", 0) /\ UNCHANGED bitmap
  /\ UNCHANGED <<ctl, input, runtime, serverVars, drun, case, outcome, leaked>>

(* The server is launched unless it answers a ping.                        *)
DriverStartServer ==
  /\ driver = "check"
  /\ IF Reachable
     THEN driver' = "prepare" /\ UNCHANGED runtime
     ELSE driver' = "sleep" /\ runtime' = "launched"
  /\ UNCHANGED <<chanVars, serverVars, drun, case, outcome, leaked>>

(* Mutant: no sleep.                                                       *)
DriverWakeAtOnce ==
  /\ driver = "sleep"
  /\ driver' = "prepare"
  /\ UNCHANGED <<chanVars, runtime, serverVars, drun, case, outcome, leaked>>

(* sleep(5) outlasts the launch of the server up to its constructor.       *)
DriverWake ==
  /\ driver = "sleep"
  /\ runtime # "launched"
  /\ driver' = "prepare"
  /\ UNCHANGED <<chanVars, runtime, serverVars, drun, case, outcome, leaked>>

(* prepare_env, then __afl_start_forkserver phones home.                   *)
DriverStartForkserver ==
  /\ driver = "prepare"
  /\ IF AflGone
     THEN driver' = "dead" /\ UNCHANGED st
     ELSE driver' = "wait" /\ Send(DriverGreeting, "driver", 0)
  /\ UNCHANGED <<ctl, input, bitmap, runtime, serverVars, drun, case, outcome, leaked>>
-----------------------------------------------------------------------------
(* __afl_next_testcase.                                                    *)

DriverTakeRequest ==
  /\ driver = "wait"
  /\ ctl # <<>>
  /\ drun' = Head(ctl)
  /\ ctl' = Tail(ctl)
  /\ driver' = "input"
  /\ UNCHANGED <<st, input, bitmap, runtime, serverVars, case, outcome, leaked>>

(* End of file instead of a request: the loop ends in assert(false).       *)
DriverHangup ==
  /\ driver = "wait"
  /\ ctl = <<>>
  /\ AflGone
  /\ driver' = "dead"
  /\ UNCHANGED <<chanVars, runtime, serverVars, drun, case, outcome, leaked>>

(* read(0, buf, max_len): the file offset is shared with afl-fuzz, a       *)
(* second read without a rewrite in between returns no bytes.              *)
DriverReadInput ==
  /\ driver = "input"
  /\ case' = IF input.bytes = "read" THEN 0 ELSE input.case
  /\ input' = [input EXCEPT !.bytes = "read"]
  /\ driver' = "ack"
  /\ UNCHANGED <<ctl, st, bitmap, runtime, serverVars, drun, outcome, leaked>>

(* Report that the target is starting; an empty test case ends the loop.   *)
DriverAck ==
  /\ driver = "ack"
  /\ IF AflGone
     THEN driver' = "dead" /\ UNCHANGED st
     ELSE /\ Send(DoneWord, "driver", drun)
          /\ driver' = IF case = 0 THEN "dead" ELSE "translate"
  /\ UNCHANGED <<ctl, input, bitmap, runtime, serverVars, drun, case, outcome, leaked>>
-----------------------------------------------------------------------------
(* The body of the loop.                                                   *)

(* Mutants: a failed translation leaves the outcome of the previous test   *)
(* case in place, or goes back to the loop without a report.               *)
DriverTranslateStale ==
  /\ driver = "translate"
  /\ \/ driver' = "execute" /\ Reachable
     \/ driver' = "report"
  /\ UNCHANGED <<chanVars, runtime, serverVars, drun, case, outcome, leaked>>

DriverTranslateContinue ==
  /\ driver = "translate"
  /\ \/ driver' = "execute" /\ Reachable /\ UNCHANGED outcome
     \/ driver' = "wait" /\ outcome' = "kSyntaxError"
  /\ UNCHANGED <<chanVars, runtime, serverVars, drun, case, leaked>>

(* operator2PlannedStmt: the Haskell translator reads table data from the  *)
(* server; any failure yields NULL and the loop continues.                 *)
DriverTranslate ==
  /\ driver = "translate"
  /\ \/ driver' = "execute" /\ Reachable /\ UNCHANGED outcome
     \/ driver' = "report" /\ outcome' = "kSyntaxError"
  /\ UNCHANGED <<chanVars, runtime, serverVars, drun, case, leaked>>

(* execute: connect.  A failed connection counts as a server crash.        *)
DriverConnect ==
  /\ driver = "execute"
  /\ IF Reachable
     THEN /\ conn' = [state |-> "open", case |-> case]
          /\ driver' = "query"
          /\ UNCHANGED <<outcome, bitmap>>
     ELSE /\ outcome' = "kServerCrash"
          /\ driver' = "recover"
          /\ bitmap' = "marked"
          /\ UNCHANGED conn
  /\ UNCHANGED <<ctl, st, input, runtime, serverRest, drun, case, leaked>>

(* Mutants: the connection stays open, or is closed twice.                 *)
DriverQueryLeak ==
  /\ driver = "query"
  /\ conn.state = "open"
  /\ outcome' \in {"kNormal", "kExecuteError"}
  /\ conn' = NoConn
  /\ leaked' = leaked + 1
  /\ bitmap' = "marked"
  /\ driver' = "report"
  /\ UNCHANGED <<ctl, st, input, runtime, serverRest, drun, case>>

DriverQueryClosedTwice ==
  /\ driver = "query"
  /\ conn.state = "open"
  /\ outcome' \in {"kNormal", "kExecuteError"}
  /\ conn' = NoConn
  /\ leaked' = leaked - 1
  /\ bitmap' = "marked"
  /\ driver' = "report"
  /\ UNCHANGED <<ctl, st, input, runtime, serverRest, drun, case>>

(* execute: the query returned, the connection is closed.                  *)
DriverQueryDone ==
  /\ driver = "query"
  /\ conn.state = "open"
  /\ outcome' \in {"kNormal", "kExecuteError"}
  /\ conn' = NoConn
  /\ bitmap' = "marked"
  /\ driver' = "report"
  /\ UNCHANGED <<ctl, st, input, runtime, serverRest, drun, case, leaked>>

(* Mutant: the map is marked only when the query returned.                 *)
DriverQueryLostUnmarked ==
  /\ driver = "query"
  /\ conn.state = "lost"
  /\ outcome' = "kServerCrash"
  /\ leaked' = leaked + 1
  /\ conn' = NoConn
  /\ driver' = "recover"
  /\ UNCHANGED <<chanVars, runtime, serverRest, drun, case>>

(* execute: the connection broke.  libpq has closed the socket; this path  *)
(* returns without PQfinish, which would free the PGconn.                  *)
DriverQueryLost ==
  /\ driver = "query"
  /\ conn.state = "lost"
  /\ outcome' = "kServerCrash"
  /\ leaked' = leaked + 1
  /\ conn' = NoConn
  /\ bitmap' = "marked"
  /\ driver' = "recover"
  /\ UNCHANGED <<ctl, st, input, runtime, serverRest, drun, case>>

(* Mutant: no wait for the server.                                         *)
DriverRecoverNoWait ==
  /\ driver = "recover"
  /\ driver' = "report"
  /\ UNCHANGED <<chanVars, runtime, serverVars, drun, case, outcome, leaked>>

(* Wait for the server, then prepare_env.                                  *)
DriverRecover ==
  /\ driver = "recover"
  /\ Reachable
  /\ driver' = "report"
  /\ UNCHANGED <<chanVars, runtime, serverVars, drun, case, outcome, leaked>>

(* Mutant: the outcome is not passed on.                                   *)
DriverEndTestcaseDone ==
  /\ driver = "report"
  /\ IF AflGone
     THEN driver' = "dead" /\ UNCHANGED st
     ELSE driver' = "wait" /\ Send(DoneWord, "driver", drun)
  /\ UNCHANGED <<ctl, input, bitmap, runtime, serverVars, drun, case, outcome, leaked>>

(* __afl_end_testcase.                                                     *)
DriverEndTestcase ==
  /\ driver = "report"
  /\ IF AflGone
     THEN driver' = "dead" /\ UNCHANGED st
     ELSE /\ driver' = "wait"
          /\ Send(IF outcome = "kServerCrash" THEN CrashWord ELSE DoneWord,
                  "driver", drun)
  /\ UNCHANGED <<ctl, input, bitmap, runtime, serverVars, drun, case, outcome, leaked>>

(* The driver is killed; the kernel closes its connection.                 *)
DriverDie ==
  /\ MayDie
  /\ driver # "dead"
  /\ driver' = "dead"
  /\ conn' = NoConn
  /\ UNCHANGED <<chanVars, runtime, serverRest, drun, case, outcome, leaked>>

(* The driver waits for the translator, or for the execution of a plan:    *)
(* nothing in the code bounds either (no statement_timeout is set).        *)
Busy == driver = "translate" \/ (driver = "query" /\ conn.state = "open")

DriverStep ==
  \/ DriverMapShm
  \/ DriverStartServer
  \/ DriverWake
  \/ DriverStartForkserver
  \/ DriverTakeRequest
  \/ DriverHangup
  \/ DriverReadInput
  \/ DriverAck
  \/ DriverTranslate
  \/ DriverConnect
  \/ DriverQueryDone
  \/ DriverQueryLost
  \/ DriverRecover
  \/ DriverEndTestcase
=============================================================================
