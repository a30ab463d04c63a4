------------------------------- MODULE AflRun -------------------------------
(***************************************************************************)
(* afl-fuzz's side of the fork-server protocol: the greeting at the end of *)
(* afl_fsrv_start, afl_fsrv_write_to_testcase and afl_fsrv_run_target of   *)
(* AFLplusplus/src/afl-forkserver.c.                                       *)
(***************************************************************************)
EXTENDS PgServer

VARIABLES run,       \* number of executions started
          childPid,  \* fsrv->child_pid
          verdict,   \* result of each execution
          source     \* history: the word each verdict was computed from

aflVars == <<afl, run, childPid, verdict, source>>

NoWord == [w |-> 0, from |-> "driver", run |-> 0]

AflTypeOK ==
  /\ afl \in {"hello", "idle", "request", "pid", "status", "late", "stopped", "fatal", "killed"}
  /\ run \in 0 .. MaxRuns
  /\ childPid \in Int
  /\ verdict \in [Runs -> {"none", "ok", "crash", "tmout"}]
  /\ source \in [Runs -> Word]

AflInit ==
  /\ afl = "hello"
  /\ run = 0
  /\ childPid = -1
  /\ verdict = [r \in Runs |-> "none"]
  /\ source = [r \in Runs |-> NoWord]

aflBook == <<run, verdict, source>>

(* What only the driver and the server change.                             *)
peerVars == <<driver, runtime, server, child, conn>>

Proceed(next) == afl' = next /\ UNCHANGED peerVars

(***************************************************************************)
(* FATAL ends in exit(1) and so in at_exit, which signals the driver's     *)
(* process group: the driver, the runtime and a server the driver started. *)
(***************************************************************************)
Abort ==
  /\ afl' = "fatal"
  /\ driver' = "dead"
  /\ conn' = NoConn
  /\ runtime' = "none"
  /\ child' = "none"
  /\ server' = IF runtime = "none" THEN server ELSE "down"
-----------------------------------------------------------------------------
(* The first word decides whether the fork server is up: all the bits of   *)
(* FS_OPT_ERROR set is an error report.                                    *)
IsErrorReport(w) ==
  /\ w < 0
  /\ (w + 2147483647 + 1) \div 134217728 = 15
  /\ w % 256 \in {143, 159, 175, 191, 207, 223, 239, 255}

AflHello ==
  /\ afl = "hello"
  /\ st # <<>>
  /\ st' = Tail(st)
  /\ IF IsErrorReport(Head(st).w) THEN Abort ELSE Proceed("idle")
  /\ UNCHANGED <<ctl, input, bitmap, crashes, crashed, childPid, aflBook>>

(* No greeting: the driver died.  (init_tmout, ten times the time limit of *)
(* ten minutes, outlasts the boot of a driver that is alive.)              *)
AflHelloFailed ==
  /\ afl = "hello"
  /\ st = <<>>
  /\ driver = "dead"
  /\ Abort
  /\ UNCHANGED <<chanVars, crashes, crashed, childPid, aflBook>>

(* afl_fsrv_write_to_testcase: rewind, write, truncate, rewind.            *)
AflWriteTestcase ==
  /\ afl = "idle"
  /\ run < MaxRuns
  /\ run' = run + 1
  /\ input' = [case |-> run + 1, bytes |-> "unread"]
  /\ Proceed("request")
  /\ UNCHANGED <<ctl, st, bitmap, crashes, crashed, childPid, verdict, source>>
-----------------------------------------------------------------------------
(* afl_fsrv_run_target.                                                    *)

(* Clear the map and send the request.                                     *)
AflRequest ==
  /\ afl = "request"
  /\ bitmap' = "clear"
  /\ IF PeersGone
     THEN Abort /\ UNCHANGED ctl
     ELSE Proceed("pid") /\ ctl' = Append(ctl, run)
  /\ UNCHANGED <<st, input, crashes, crashed, childPid, aflBook>>

(* Mutant: an id above the largest process id is refused.                  *)
AflReadPidInRange ==
  /\ afl = "pid"
  /\ st # <<>>
  /\ childPid' = Head(st).w
  /\ st' = Tail(st)
  /\ IF Head(st).w \notin 1 .. 4194304 THEN Abort ELSE Proceed("status")
  /\ UNCHANGED <<ctl, input, bitmap, crashes, crashed, aflBook>>

(* The next word is taken as the child's process id.                       *)
AflReadPid ==
  /\ afl = "pid"
  /\ st # <<>>
  /\ childPid' = Head(st).w
  /\ st' = Tail(st)
  /\ IF Head(st).w <= 0 THEN Abort ELSE Proceed("status")
  /\ UNCHANGED <<ctl, input, bitmap, crashes, crashed, aflBook>>

(* End of file where a word was expected.                                  *)
AflEof ==
  /\ afl \in {"pid", "status", "late"}
  /\ st = <<>>
  /\ PeersGone
  /\ Abort
  /\ UNCHANGED <<chanVars, crashes, crashed, childPid, aflBook>>

(* Mutant: the late answer is not waited for.                              *)
AflTimeoutGivesUp ==
  /\ afl = "status"
  /\ st = <<>>
  /\ driver \notin Booting
  /\ childPid' = -1
  /\ verdict' = [verdict EXCEPT ![run] = "tmout"]
  /\ source' = [source EXCEPT ![run] = [NoWord EXCEPT !.run = run]]
  /\ Proceed("idle")
  /\ UNCHANGED <<chanVars, crashes, crashed, run>>

(* The time limit expires: kill the child and wait on, without a limit.    *)
(* Only the runtime's child exists under the id that was read; 0xffffff is *)
(* above the largest process id.  The limit (-t 600000) outlasts the boot  *)
(* of the driver (sleep(5) and a connection attempt).                      *)
AflTimeout ==
  /\ afl = "status"
  /\ st = <<>>
  /\ driver \notin Booting
  /\ afl' = "late"
  /\ childPid' = -1
  /\ IF childPid = ServerPid /\ child = "alive"
     THEN PostmasterGone("signaled")
     ELSE UNCHANGED <<server, child, conn, crashed>>
  /\ UNCHANGED <<chanVars, driver, runtime, crashes, aflBook>>

(* The timeout is looked at before the status is.                          *)
Verdict(w, late) ==
  IF late THEN "tmout" ELSE IF WIFSIGNALED(w) THEN "crash" ELSE "ok"

(* The next word is taken as the child's wait status.                      *)
AflReadStatus ==
  /\ afl \in {"status", "late"}
  /\ st # <<>>
  /\ verdict' = [verdict EXCEPT ![run] = Verdict(Head(st).w, afl = "late")]
  /\ source' = [source EXCEPT ![run] = Head(st)]
  /\ st' = Tail(st)
  /\ childPid' = IF WIFSTOPPED(Head(st).w) THEN childPid ELSE -1
  /\ Proceed("idle")
  /\ UNCHANGED <<ctl, input, bitmap, crashes, crashed, run>>

(* The user stops the session: afl_fsrv_kill ends the child whose id is    *)
(* known and the driver.  The driver is reaped, so at_exit finds no group. *)
AflStop ==
  /\ afl \in {"idle", "pid", "status", "late"}
  /\ afl' = "stopped"
  /\ driver' = "dead"
  /\ conn' = NoConn
  /\ IF childPid = ServerPid /\ child = "alive"
     THEN server' = "down" /\ child' = "signaled"
     ELSE UNCHANGED <<server, child>>
  /\ UNCHANGED <<chanVars, runtime, crashes, crashed, childPid, aflBook>>

(* afl-fuzz is killed: its pipe ends close and nobody is told.             *)
AflKilled ==
  /\ ~AflGone
  /\ Proceed("killed")
  /\ UNCHANGED <<chanVars, crashes, crashed, childPid, aflBook>>

AflStep ==
  \/ AflHello
  \/ AflHelloFailed
  \/ AflWriteTestcase
  \/ AflRequest
  \/ AflReadPid
  \/ AflEof
  \/ AflReadStatus
=============================================================================
