------------------------------ MODULE FuzzLoop ------------------------------
(***************************************************************************)
(* afl-fuzz, the driver and the server together.                           *)
(***************************************************************************)
EXTENDS AflRun, DbDriver

CONSTANT InitServer   \* states the server may be in when the driver is started

ASSUME InitServerAssumption == InitServer \subseteq {"down", "up", "recovering"}

vars == <<chanVars, aflVars, driverVars, runtime, serverVars>>

TypeOK ==
  /\ ctl \in Seq(Runs)
  /\ st \in Seq(Word)
  /\ input \in [case : 0 .. MaxRuns, bytes : {"unread", "read"}]
  /\ bitmap \in {"clear", "marked"}
  /\ AflTypeOK
  /\ DriverTypeOK
  /\ ServerTypeOK

Init ==
  /\ ctl = <<>>
  /\ st = <<>>
  /\ input = [case |-> 0, bytes |-> "read"]
  /\ bitmap = "clear"
  /\ AflInit
  /\ DriverInit
  /\ \E state \in InitServer : ServerInit(state)

driverOwn == <<drun, case, outcome, leaked>>

AflAction == (AflStep \/ AflTimeout \/ AflStop \/ AflKilled) /\ UNCHANGED driverOwn

DriverAction == (DriverStep \/ DriverDie) /\ UNCHANGED aflVars

ServerAction == ServerNext /\ UNCHANGED <<aflVars, driverVars>>

(* The session is over; a server that is up simply stays up.               *)
Finished == AflGone /\ driver = "dead" /\ UNCHANGED vars

Next == AflAction \/ DriverAction \/ ServerAction \/ Finished

Spec == Init /\ [][Next]_vars

(***************************************************************************)
(* Every process keeps running as long as it can take a step of its own,   *)
(* and a postmaster that starts or recovers gets ready.  Nothing is        *)
(* assumed of timeouts, of failures, of the user, or of what the driver    *)
(* calls: a translation or a plan may take for ever.                       *)
(***************************************************************************)
Fairness ==
  /\ WF_vars(AflStep /\ UNCHANGED driverOwn)
  /\ WF_vars(~Busy /\ DriverStep /\ UNCHANGED aflVars)
  /\ WF_vars((ServerReady \/ RuntimeStep) /\ UNCHANGED <<aflVars, driverVars>>)

FairSpec == Spec /\ Fairness
-----------------------------------------------------------------------------
(* Verdicts.                                                               *)

(***************************************************************************)
(* The word a verdict is computed from is the one the driver sent at the   *)
(* end of that very run (__afl_end_testcase), although the pipe carries    *)
(* bare words and a late answer may arrive after the time limit.  The only *)
(* exception is the first run when the driver had to launch the server:    *)
(* the runtime in the server answers its request and the driver's greeting *)
(* is taken for the status, an uneventful one.                             *)
(***************************************************************************)
VerdictFromOwnRun ==
  \A r \in Runs : verdict[r] # "none" =>
     /\ source[r].from = "driver"
     /\ \/ source[r].run = r
        \/ /\ runtime # "none" \/ AflGone
           /\ r = 1
           /\ source[r].w = DriverGreeting
           /\ verdict[r] = "ok"

(* The driver executes the test case afl-fuzz is waiting for, never the    *)
(* previous content of the shared test case file and never a later one.    *)
ExecutesRequestedCase ==
  driver \in {"translate", "execute", "query", "recover", "report"}
    => case = drun /\ (~AflGone => drun = run)

(* A crash verdict names a run whose own execution took the server down:   *)
(* the driver waits for the server before it ends the test case, so that   *)
(* the next one does not find it unreachable.                              *)
CrashAttribution ==
  \A r \in Runs : verdict[r] = "crash" => r \in crashed

(* An execution that took the server down is never judged uneventful.      *)
NoMissedCrash ==
  \A r \in crashed : verdict[r] # "ok"

(* One failure of the server yields at most one crash verdict, also when   *)
(* backends crash while no test case executes.                             *)
NoPhantomCrashes ==
  Cardinality({r \in Runs : verdict[r] = "crash"}) <= crashes

(* No test case is spent on a server that is down or recovers: the driver  *)
(* took the whole recovery into the run that caused it.  (Not when it      *)
(* launched the server: the first test cases meet one that still starts.)  *)
CaseMeetsServer ==
  driver \in {"wait", "input", "ack", "translate", "execute"} => Reachable

(* A run that reached the server leaves a mark in the coverage map that    *)
(* afl-fuzz has not cleared when it looks at the result.                   *)
ExecutionIsMarked ==
  /\ driver = "recover" \/ (driver = "report" /\ outcome # "kSyntaxError")
  /\ ~AflGone
  => bitmap = "marked"

(* Connection objects are lost only through failures of the server, one    *)
(* per failure (the path of execute that returns without PQfinish).        *)
LeaksAreFailures ==
  leaked + (IF conn.state = "lost" THEN 1 ELSE 0) <= crashes

(* afl-fuzz gives up only after the driver is gone or, when the server was *)
(* launched, because the driver's greeting came before the first request.  *)
AbortIsLoss ==
  afl' = "fatal" /\ afl # "fatal" =>
     \/ driver = "dead"
     \/ runtime # "none" /\ run = 1 /\ Head(st).w = DriverGreeting

AbortsOnlyOnLoss == [][AbortIsLoss]_vars

(* The promise the loop makes, refined by the protocol.                    *)
Oracle == INSTANCE RunOracle
            WITH run <- run, crashed <- crashed, verdict <- verdict, MaxRuns <- MaxRuns

ImplementsOracle == Oracle!OracleSpec

(* Every translation and every execution of a plan comes to an end.        *)
CasesEnd == []<>~Busy

(* If they do, every request is answered with a verdict or afl-fuzz is     *)
(* gone, although the driver waits for the server, and afl-fuzz for the    *)
(* driver, without a limit.                                                *)
RunsAreJudged ==
  CasesEnd =>
    \A r \in Runs : run = r /\ afl = "pid" ~> verdict[r] # "none" \/ AflGone
-----------------------------------------------------------------------------
(***************************************************************************)
(* The invariants behind the verdicts.  They hold when the server was up   *)
(* before the driver (InitServer = {"up"}), whatever fails afterwards, and *)
(* when the driver launches it, as long as postmaster and driver stay      *)
(* alive.                                                                  *)
(***************************************************************************)

Working == {"translate", "execute", "query", "recover", "report"}

(* The driver's greeting or error report, and its two words for a run.     *)
ErrorWord == [w |-> ShmatError, from |-> "driver", run |-> 0]

HelloWord == [w |-> DriverGreeting, from |-> "driver", run |-> 0]

Ack(r) == [w |-> DoneWord, from |-> "driver", run |-> r]

Final(r) == [w : {DoneWord, CrashWord}, from : {"driver"}, run : {r}]

(* The words of the runtime: its greeting and the process id of its child. *)
RuntimeHello == [w |-> RuntimeGreeting(ServerMapSize), from |-> "runtime", run |-> 0]

PidWord == [w |-> ServerPid, from |-> "runtime", run |-> 0]

(* A driver that is executing has a connection, one that boots found the   *)
(* server up or down, and one that found it up launches none.              *)
Attached ==
  /\ conn.state # "none" => driver = "query"
  /\ driver \in Booting => leaked = 0
  /\ driver \in {"boot", "check"} =>
       runtime = "none" /\ child = "none" /\ server \in {"up", "down"} /\ crashed = {}
  /\ InitServer = {"up"} => runtime = "none" /\ (driver \in Booting => server = "up")

(* The test case travels with its request.                                 *)
CaseFlow ==
  /\ ctl # <<>> => ctl = <<run>> /\ driver \notin {"input", "ack"} \union Working
  /\ ctl # <<>> \/ afl = "request" =>
       input = [case |-> run, bytes |-> "unread"] /\ run > 0
  /\ driver = "input" => input = [case |-> drun, bytes |-> "unread"]
  /\ driver \in {"ack"} \union Working => case = drun
  /\ driver \in {"input", "ack"} \union Working => drun = run /\ run > 0

(* The states of the two sides and the content of the pipes between them,  *)
(* once the runtime in a launched server only waits for its child.         *)
InStep ==
  /\ runtime = "none" \/ (runtime = "waiting" /\ child = "alive" /\ afl # "hello")
  /\ afl = "hello" => /\ run = 0 /\ ctl = <<>>
                      /\ driver \in {"boot", "check", "prepare", "wait", "dead"}
                      /\ driver \in Booting => st = <<>>
                      /\ driver = "wait" => st = <<HelloWord>>
                      /\ driver = "dead" => st \in {<<>>, <<HelloWord>>, <<ErrorWord>>}
  /\ afl \in {"idle", "request"} => ctl = <<>> /\ st = <<>> /\ driver \in {"wait", "dead"}
  /\ afl = "pid" =>
       \/ ctl = <<run>> /\ st = <<>> /\ driver \in {"wait", "dead"}
       \/ ctl = <<>> /\ st = <<>> /\ driver \in {"input", "ack", "dead"}
       \/ ctl = <<>> /\ st = <<Ack(run)>> /\ driver \in Working \union {"dead"}
       \/ /\ ctl = <<>>
          /\ \E f \in Final(run) : st = <<Ack(run), f>>
          /\ driver \in {"wait", "dead"}
  /\ afl \in {"status", "late"} =>
       /\ ctl = <<>>
       /\ \/ st = <<>> /\ driver \in Working \union {"dead"}
          \/ (\E f \in Final(run) : st = <<f>>) /\ driver \in {"wait", "dead"}
  /\ afl = "status" => childPid = DoneWord
  /\ driver \in {"input", "ack"} \union Working => afl \in {"pid", "status", "late"}

(* The greeting of a driver that launched the server, behind another word. *)
Followed(word) == IF driver = "wait" THEN <<word, HelloWord>> ELSE <<word>>

(* A launched server: its runtime greets for the driver, answers the first *)
(* request with the process id of the server proper, and the driver's      *)
(* greeting is left to end the first run.                                  *)
Launching ==
  /\ driver \in {"sleep", "prepare", "wait"}
  /\ crashed = {}
  /\ run = IF afl \in {"hello", "idle"} THEN 0 ELSE 1
  /\ runtime \in {"launched", "reading"} => child = "none" /\ server = "down"
  /\ runtime \in {"forked", "waiting"} => child = "alive"
  /\ \/ runtime = "launched" /\ driver = "sleep" /\ afl = "hello" /\ ctl = <<>> /\ st = <<>>
     \/ runtime = "reading" /\ afl = "hello" /\ ctl = <<>> /\ st = Followed(RuntimeHello)
     \/ /\ runtime = "reading" /\ afl \in {"idle", "request"} /\ ctl = <<>>
        /\ st = IF driver = "wait" THEN <<HelloWord>> ELSE <<>>
     \/ runtime = "reading" /\ afl = "pid" /\ ctl = <<run>> /\ st = <<>> /\ driver # "wait"
     \/ runtime = "forked" /\ afl = "pid" /\ ctl = <<>> /\ st = <<>> /\ driver # "wait"
     \/ runtime = "waiting" /\ afl = "pid" /\ ctl = <<>> /\ st = Followed(PidWord)
     \/ /\ runtime = "waiting" /\ afl = "status" /\ ctl = <<>>
        /\ st = IF driver = "wait" THEN <<HelloWord>> ELSE <<>>

(* The driver's greeting came first: it is read as a failed fork.          *)
Doomed ==
  /\ afl = "pid" /\ run = 1
  /\ runtime # "none"
  /\ st # <<>> /\ Head(st) = HelloWord

Phase == AflGone \/ InStep \/ Launching \/ Doomed

(* afl-fuzz and the driver stay in step: between them the pipes never hold *)
(* more than the words of the run in progress, each where its reader       *)
(* expects it, and the test case file holds that run's test case.          *)
Lockstep == Attached /\ CaseFlow /\ Phase

(* The last word of the run is on its way to afl-fuzz.                     *)
Sent(w) ==
  \E f \in Final(run) :
     /\ f.w = w
     /\ (afl = "pid" /\ st = <<Ack(run), f>>) \/ (afl \in {"status", "late"} /\ st = <<f>>)

(* A failure that took a test case with it is known to the driver, and the *)
(* word it sends tells.                                                    *)
CrashKnown ==
  /\ conn.state # "none" => conn.case = drun
  /\ driver = "query" => conn.state # "none" /\ (drun \in crashed => conn.state = "lost")
  /\ driver = "recover" => outcome = "kServerCrash"
  /\ driver = "report" /\ drun \in crashed => outcome = "kServerCrash"
  /\ driver \in {"input", "ack", "translate", "execute"} => drun \notin crashed
  /\ ctl # <<>> \/ afl = "request" => run \notin crashed
  /\ Sent(DoneWord) => run \notin crashed
  /\ \A r \in crashed : r <= run

(* The driver found the server gone and has yet to be heard.               *)
Pending ==
  \/ driver = "recover"
  \/ driver = "report" /\ outcome = "kServerCrash"
  \/ Sent(CrashWord)

(* The runs that failures of the server are charged to.                    *)
Charged == {r \in Runs : verdict[r] = "crash"} \union (IF Pending THEN {run} ELSE {})

(* The driver is about to find the server gone.                            *)
Surprise == conn.state = "lost" \/ (driver = "execute" /\ server # "up")

(* Every charge is backed by a failure of its own, and so is the one to    *)
(* come: the driver starts on a test case with the server up, and takes    *)
(* the whole of a recovery into the run that met it.                       *)
CrashAccount ==
  /\ conn.state = "open" => server = "up"
  /\ Cardinality(Charged) + (IF Surprise THEN 1 ELSE 0) <= crashes

(* When backends crash under test cases only, the driver finds the server  *)
(* gone only through the test case it executes.                            *)
CrashOwn ==
  /\ Pending => run \in crashed
  /\ conn.state = "lost" => drun \in crashed
  /\ driver = "execute" => server = "up"
  /\ InitServer = {"up"} /\ driver \notin {"query", "recover", "dead"} => server = "up"

(* A run has no verdict before its last word was read, then it has one.    *)
VerdictFlow ==
  /\ afl = "hello" => run = 0
  /\ afl = "idle" => run = 0 \/ verdict[run] # "none"
  /\ \A r \in Runs : r > run => verdict[r] = "none"
  /\ \/ afl \in {"request", "pid", "status", "late"}
     \/ driver \in {"input", "ack"} \union Working
     \/ ctl # <<>>
     => verdict[run] = "none"

(* Verdicts agree with the executions.                                     *)
Attribution ==
  CrashKnown /\ CrashAccount /\ CrashOwn /\ VerdictFlow /\ CrashAttribution /\ NoMissedCrash
-----------------------------------------------------------------------------
(* Statements of the sources that do not hold in every configuration.      *)

(* "In case that the driver is stopped and restarted, we should not start  *)
(* another server": a server is launched only when there is none.          *)
SingleServer ==
  [][runtime = "none" /\ runtime' = "launched" => server = "down"]_vars

(* "If there was no response from forkserver after timeout seconds, we     *)
(* kill the child.  The forkserver should inform us afterwards": afl-fuzz  *)
(* does not wait for good for a run that it has timed out.                 *)
InformedAfterKill == afl = "late" ~> afl # "late"
=============================================================================
