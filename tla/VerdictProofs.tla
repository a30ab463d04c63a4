---------------------------- MODULE VerdictProofs ----------------------------
(***************************************************************************)
(* The verdicts of the fuzzing loop are those of the runs they are given   *)
(* to, no crash goes unnoticed and no failure is counted twice, for every  *)
(* number of runs and failures.  When backends crash only while a test     *)
(* case executes, crashes are also attributed to the runs that caused      *)
(* them, and the loop implements the oracle of RunOracle.                  *)
(***************************************************************************)
EXTENDS FuzzLoopProofs, FiniteSetTheorems

(* Verdicts are given where a status is read, and nowhere else.            *)
LEMMA VerdictsFromStatus ==
  ASSUME Next
  PROVE  (AflAction /\ AflReadStatus) \/ UNCHANGED <<verdict, source>>
BY DEF Next, Finished, vars, aflVars, aflBook, AflAction, AflStep, AflHello, AflHelloFailed, AflWriteTestcase, AflRequest, AflReadPid,
       AflEof, AflTimeout, AflStop, AflKilled,
       DriverAction, ServerAction

(* What the status is read from: the last word of the run, or the driver's *)
(* greeting in the first run of a launched server.                         *)
LEMMA StatusIsRead ==
  ASSUME TypeInv, Lockstep, AflReadStatus
  PROVE  \/ InStep /\ \E f \in Final(run) : st = <<f>> /\ Head(st) = f
         \/ Launching /\ runtime = "waiting" /\ run = 1 /\ driver = "wait" /\ Head(st) = HelloWord /\ afl = "status"
<1>1. afl \in {"status", "late"} /\ st # <<>>
  BY DEF AflReadStatus
<1>2. CASE InStep
  <2>1. PICK f \in Final(run) : st = <<f>>
    BY <1>1, <1>2 DEF InStep
  <2> QED
    BY <1>2, <2>1, ShortSequences
<1>3. CASE Launching
  BY <1>1, <1>3, ShortSequences DEF Launching
<1> QED
  BY <1>1, <1>2, <1>3 DEF Lockstep, Phase, AflGone, Doomed

(* What afl-fuzz makes of the words of a driver.                           *)
LEMMA WordVerdicts ==
  /\ Verdict(CrashWord, FALSE) = "crash"
  /\ Verdict(DoneWord, FALSE) = "ok"
  /\ Verdict(DriverGreeting, FALSE) = "ok"
  /\ \A w : Verdict(w, TRUE) = "tmout"
<1>1. PICK q \in Int : DriverGreeting = 128 * q + 127
  BY SMT DEF DriverGreeting, Greeting
<1>2. \A w \in Int : w = 128 * q + 127 => w % 128 = 127
  BY <1>1, SMT
<1>5. DriverGreeting % 128 = 127
  BY <1>1, <1>2, WordsAreIntegers
<1> QED
  BY <1>5, SMT DEF Verdict, WIFSIGNALED, CrashWord, DoneWord

(* A launched server keeps its runtime until afl-fuzz is gone.             *)
LEMMA RuntimeStays ==
  ASSUME Lockstep, Next, runtime # "none" \/ AflGone
  PROVE  runtime' # "none" \/ AflGone'
<1>1. CASE AflAction
  BY <1>1, AflLeavesPeers
<1>2. CASE DriverAction
  BY <1>2 DEF DriverAction, DriverStep, DriverMapShm, DriverStartServer, DriverWake,
              DriverStartForkserver, DriverTakeRequest, DriverHangup, DriverReadInput, DriverAck,
              DriverTranslate, DriverConnect, DriverQueryDone, DriverQueryLost, DriverRecover,
              DriverEndTestcase, DriverDie, aflVars, AflGone
<1>3. CASE ServerAction
  BY <1>3 DEF ServerAction, ServerNext, ServerReady, BackendCrash, PostmasterExit, RuntimeStep,
              RuntimeGreet, RuntimeFork, RuntimeHangup, RuntimeReportPid, RuntimeReportExit,
              aflVars, AflGone
<1> QED
  BY <1>1, <1>2, <1>3 DEF Next, Finished, AflGone, vars, aflVars

(* Every verdict comes from the word the driver sent at the end of that    *)
(* very run: never from an earlier run's late answer, a greeting or a      *)
(* process id.  Only the first run on a server that the driver launched is *)
(* ended by the driver's greeting, and is taken to be uneventful.          *)
THEOREM VerdictsAreOwn ==
  ASSUME Orderly
  PROVE  Spec => []VerdictFromOwnRun
<1>1. Init => VerdictFromOwnRun
  BY DEF Init, AflInit, VerdictFromOwnRun
<1>2. ASSUME TypeInv, Lockstep, VerdictFromOwnRun, [Next]_vars
      PROVE  VerdictFromOwnRun'
  <2>1. CASE AflAction /\ AflReadStatus
    <3>0. run \in Runs
      BY <1>2, <2>1 DEF AflReadStatus, TypeInv, TypeSupport
    <3>1. /\ source' = [source EXCEPT ![run] = Head(st)]
          /\ verdict' = [verdict EXCEPT ![run] = Verdict(Head(st).w, afl = "late")]
          /\ runtime' = runtime /\ afl' = "idle"
      BY <2>1 DEF AflReadStatus, Proceed, peerVars
    <3>2. \A r \in Runs : r # run => verdict'[r] = verdict[r] /\ source'[r] = source[r]
      BY <1>2, <3>1 DEF TypeInv, TypeOK, AflTypeOK
    <3>3. source'[run] = Head(st) /\ verdict'[run] = Verdict(Head(st).w, afl = "late")
      BY <1>2, <3>0, <3>1 DEF TypeInv, TypeOK, AflTypeOK
    <3>4. ~AflGone
      BY <2>1 DEF AflReadStatus, AflGone
    <3>5. CASE \E f \in Final(run) : Head(st) = f
      BY <1>2, <3>1, <3>2, <3>3, <3>4, <3>5, SMTT(30) DEF VerdictFromOwnRun, Final
    <3>6. CASE runtime = "waiting" /\ run = 1 /\ Head(st) = HelloWord /\ afl = "status"
      <4>0. (afl = "late") = FALSE /\ Head(st).w = DriverGreeting
        BY <3>6 DEF HelloWord
      <4>1. verdict'[run] = "ok"
        BY <3>3, <4>0, WordVerdicts, ZenonT(30)
      <4> QED
        BY <1>2, <3>1, <3>2, <3>3, <3>4, <3>6, <4>1 DEF VerdictFromOwnRun, HelloWord
    <3> QED
      BY <1>2, <2>1, <3>5, <3>6, StatusIsRead, SMTT(30)
  <2>2. CASE UNCHANGED <<verdict, source>>
    <3>1. runtime # "none" \/ AflGone => (runtime # "none" \/ AflGone)'
      BY <1>2, RuntimeStays DEF vars, aflVars, AflGone
    <3> QED
      BY <1>2, <2>2, <3>1 DEF VerdictFromOwnRun
  <2> QED
    BY <1>2, <2>1, <2>2, VerdictsFromStatus DEF vars, aflVars
<1> QED
  BY <1>1, <1>2, LockstepHolds, PTL DEF Spec

(* The driver works on the test case of the run afl-fuzz is waiting for.   *)
THEOREM RequestedCaseExecuted ==
  ASSUME Orderly
  PROVE  Spec => []ExecutesRequestedCase
<1>1. Lockstep => ExecutesRequestedCase
  BY DEF Lockstep, CaseFlow, ExecutesRequestedCase, Working
<1> QED
  BY <1>1, LockstepHolds, PTL

(* afl-fuzz aborts the session only after the driver is gone, or when it   *)
(* reads the greeting of a driver that launched the server as a failed     *)
(* fork; no other word of a live driver is read as one, or as an error.    *)
THEOREM AbortsAreLosses ==
  ASSUME Orderly
  PROVE  Spec => AbortsOnlyOnLoss
<1>1. TypeInv /\ Lockstep /\ [Next]_vars => [AbortIsLoss]_vars
  <2> SUFFICES ASSUME TypeInv, Lockstep, Next, afl' = "fatal", afl # "fatal", driver # "dead"
               PROVE  runtime # "none" /\ run = 1 /\ Head(st).w = DriverGreeting
    BY DEF AbortIsLoss
  <2>1. CASE AflHello
    <3>1. Head(st) \in {HelloWord, RuntimeHello}
      <4>1. CASE InStep
        BY <2>1, <4>1, ShortSequences DEF AflHello, InStep, Booting
      <4>2. CASE Launching
        BY <2>1, <4>2, ShortSequences DEF AflHello, Launching, Followed
      <4> QED
        BY <2>1, <4>1, <4>2 DEF AflHello, Lockstep, Phase, AflGone, Doomed
    <3> QED
      BY <2>1, <3>1, WordsDiffer DEF AflHello, HelloWord, RuntimeHello, Proceed
  <2>2. CASE AflReadPid
    <3>1. CASE InStep
      <4>1. Head(st) = Ack(run)
        BY <2>2, <3>1, ShortSequences DEF AflReadPid, InStep
      <4> QED
        BY <2>2, <4>1, WordsDiffer, WordsAreIntegers DEF AflReadPid, Ack, Proceed
    <3>2. CASE Launching
      <4>1. Head(st) = PidWord
        BY <2>2, <3>2, ShortSequences DEF AflReadPid, Launching, Followed
      <4> QED
        BY <2>2, <4>1, WordsDiffer, Constants DEF AflReadPid, PidWord, Proceed
    <3>3. CASE Doomed
      BY <3>3 DEF Doomed, HelloWord
    <3> QED
      BY <2>2, <3>1, <3>2, <3>3 DEF AflReadPid, Lockstep, Phase, AflGone
  <2> QED
    BY <2>1, <2>2
       DEF Next, vars, aflVars, AflAction, AflStep, AflHelloFailed, AflWriteTestcase, AflRequest,
           AflEof, AflReadStatus, AflTimeout, AflStop, AflKilled, Proceed, PeersGone, DriverAction,
           ServerAction, Finished
<1> QED
  BY <1>1, LockstepHolds, PTL DEF Spec, AbortsOnlyOnLoss

(* A run that reached the server has left its mark in the coverage map when *)
(* afl-fuzz looks at the result: afl-fuzz clears the map only before it     *)
(* sends a request, and then the driver is waiting.                         *)
THEOREM ExecutionsAreMarked ==
  ASSUME Orderly
  PROVE  Spec => []ExecutionIsMarked
<1> USE DEF ExecutionIsMarked
<1>1. Init => ExecutionIsMarked
  BY DEF Init, DriverInit
<1>2. ASSUME TypeInv, Lockstep, ExecutionIsMarked, [Next]_vars
      PROVE  ExecutionIsMarked'
  <2>1. CASE UNCHANGED vars
    BY <1>2, <2>1 DEF vars, chanVars, aflVars, driverVars, AflGone
  <2>2. CASE AflAction /\ AflRequest
    <3>1. driver \notin {"recover", "report"}
      BY <1>2, <2>2 DEF AflRequest, Lockstep, Phase, AflGone, InStep, Launching, Doomed
    <3> QED
      BY <1>2, <2>2, <3>1, AflLeavesPeers, SMTT(30)
  <2>3. CASE AflAction /\ ~AflRequest
    <3>1. bitmap' = bitmap
      BY <2>3, SMTT(30) DEF AflAction, AflStep, AflHello, AflHelloFailed, AflWriteTestcase, AflReadPid,
                  AflReadStatus, AflEof, AflTimeout, AflStop, AflKilled, chanVars
    <3> QED
      BY <1>2, <2>3, <3>1, AflLeavesPeers, SMTT(30)
  <2>4. CASE DriverAction
    BY <1>2, <2>4
       DEF DriverAction, DriverStep, DriverMapShm, DriverStartServer, DriverWake,
           DriverStartForkserver, DriverTakeRequest, DriverHangup, DriverReadInput, DriverAck,
           DriverTranslate, DriverConnect, DriverQueryDone, DriverQueryLost, DriverRecover,
           DriverEndTestcase, DriverDie, aflVars, chanVars, AflGone
  <2>5. CASE ServerAction
    <3>1. UNCHANGED <<bitmap, aflVars, driverVars>>
      BY <2>5 DEF ServerAction, ServerNext, ServerReady, BackendCrash, PostmasterExit, RuntimeStep,
                  RuntimeGreet, RuntimeFork, RuntimeHangup, RuntimeReportPid, RuntimeReportExit,
                  RuntimeVars, chanVars
    <3> QED
      BY <1>2, <3>1 DEF aflVars, driverVars, AflGone
  <2> QED
    BY <1>2, <2>1, <2>2, <2>3, <2>4, <2>5 DEF Next, Finished
<1> QED
  BY <1>1, <1>2, LockstepHolds, PTL DEF Spec

(* What a step of the server does to the connection: nothing, or it breaks *)
(* with a failure, which costs an open connection its test case.           *)
LEMMA ServerFailure ==
  ASSUME ServerAction
  PROVE  /\ UNCHANGED <<aflVars, driverVars>>
         /\ \/ UNCHANGED <<conn, crashes, crashed>> /\ (server = "up" => server' = "up")
            \/ crashes' = crashes + 1 /\ BreakConnection /\ server' # "up" /\ UNCHANGED <<chanVars, runtime>>
BY DEF ServerAction, ServerNext, ServerReady, BackendCrash, PostmasterExit, RuntimeStep,
       RuntimeGreet, RuntimeFork, RuntimeHangup, RuntimeReportPid, RuntimeReportExit,
       PostmasterGone, RuntimeVars

(* The driver loses connections for good only through failures of the      *)
(* server, and no more than one for each.                                  *)
THEOREM LeaksAreBounded ==
  ASSUME Orderly
  PROVE  Spec => []LeaksAreFailures
<1> USE DEF LeaksAreFailures
<1>1. Init => LeaksAreFailures
  BY DEF Init, DriverInit, ServerInit, NoConn
<1>2. ASSUME TypeInv, Lockstep, LeaksAreFailures, [Next]_vars
      PROVE  LeaksAreFailures'
  <2>1. leaked \in Nat /\ crashes \in Nat
    BY <1>2, Constants DEF TypeInv, TypeOK, DriverTypeOK, ServerTypeOK
  <2>2. CASE UNCHANGED vars
    BY <1>2, <2>2 DEF vars, driverVars, serverVars
  <2>3. CASE AflAction
    <3>1. leaked' = leaked /\ crashes' = crashes /\ conn' \in {conn, NoConn}
      BY <1>2, <2>3, AflLeavesPeers
    <3> QED
      BY <1>2, <2>1, <3>1, SMTT(30) DEF NoConn
  <2>4. CASE DriverAction
    <3>1. CASE DriverQueryLost
      BY <1>2, <2>1, <3>1 DEF DriverQueryLost, NoConn, serverRest
    <3>2. CASE ~DriverQueryLost
      <4>1. leaked' = leaked /\ crashes' = crashes
        BY <2>4, <3>2, SMTT(30)
           DEF DriverAction, DriverStep, DriverMapShm, DriverStartServer, DriverWake,
               DriverStartForkserver, DriverTakeRequest, DriverHangup, DriverReadInput, DriverAck,
               DriverTranslate, DriverConnect, DriverQueryDone, DriverRecover, DriverEndTestcase,
               DriverDie, serverVars, serverRest
      <4>2. conn' = conn \/ conn'.state # "lost"
        BY <2>4, <3>2
           DEF DriverAction, DriverStep, DriverMapShm, DriverStartServer, DriverWake,
               DriverStartForkserver, DriverTakeRequest, DriverHangup, DriverReadInput, DriverAck,
               DriverTranslate, DriverConnect, DriverQueryDone, DriverRecover, DriverEndTestcase,
               DriverDie, serverVars, NoConn
      <4> QED
        BY <1>2, <2>1, <4>1, <4>2, SMTT(30)
    <3> QED
      BY <3>1, <3>2
  <2>5. CASE ServerAction
    BY <1>2, <2>1, <2>5, ServerFailure, SMTT(30) DEF BreakConnection, driverVars
  <2> QED
    BY <1>2, <2>2, <2>3, <2>4, <2>5 DEF Next, Finished
<1> QED
  BY <1>1, <1>2, LockstepHolds, PTL DEF Spec
-----------------------------------------------------------------------------
(* The types the arguments below use.                                      *)
LEMMA LoopTypes ==
  ASSUME TypeInv
  PROVE  /\ run \in Int
         /\ run <= MaxRuns
         /\ crashed \subseteq Runs
         /\ \A r \in Runs : r \in Int
         /\ verdict \in [Runs -> {"none", "ok", "crash", "tmout"}]
         /\ conn \in [state : {"none", "open", "lost"}, case : 0 .. MaxRuns]
         /\ crashes \in Nat
         /\ leaked \in Nat
         /\ afl \in {"request", "pid", "status", "late"} => run \in Runs
BY Constants DEF TypeInv, TypeOK, TypeSupport, AflTypeOK, DriverTypeOK, ServerTypeOK, Runs

(* No word of a launch is taken for the last word of a run.                *)
LEMMA WordsApart ==
  ASSUME NEW r, NEW f \in Final(r)
  PROVE  /\ <<f>> # <<>>
         /\ <<f>> # <<HelloWord>>
         /\ <<Ack(r), f>> # <<>>
         /\ <<Ack(r), f>> # <<Ack(r)>>
         /\ <<Ack(r), f>> # <<HelloWord>>
         /\ <<Ack(r), f>> # <<PidWord>>
         /\ <<Ack(r), f>> # <<PidWord, HelloWord>>
         /\ Head(<<Ack(r), f>>) # HelloWord
         /\ Head(<<f>>) # HelloWord
<1>1. HelloWord # f /\ HelloWord # Ack(r) /\ PidWord # Ack(r)
  BY WordsDiffer, WordsAreIntegers DEF Final, Ack, HelloWord, PidWord
<1> QED
  BY <1>1, ShortSequences

(* While the driver works there is no request and no last word.            *)
LEMMA DriverBusy ==
  ASSUME Lockstep, driver \in {"input", "ack"} \union Working
  PROVE  /\ ctl = <<>> /\ afl \notin {"idle", "request"} /\ drun = run /\ run > 0
         /\ \A w : ~Sent(w)
<1>1. ctl = <<>> /\ drun = run /\ run > 0
  BY DEF Lockstep, CaseFlow
<1>2. CASE AflGone
  BY <1>1, <1>2 DEF AflGone, Sent
<1>3. CASE InStep
  BY <1>1, <1>3, WordsApart DEF InStep, Sent, Working
<1>4. CASE Doomed
  BY <1>1, <1>4, WordsApart DEF Doomed, Sent
<1> QED
  BY <1>2, <1>3, <1>4 DEF Lockstep, Phase, Launching, Working

(* The last word of a run is there because it was there, or because the    *)
(* driver has just ended the test case.                                    *)
LEMMA SentStep ==
  ASSUME Orderly, TypeInv, Lockstep, Next, NEW w, Sent(w)'
  PROVE  /\ run' = run
         /\ \/ Sent(w)
            \/ /\ DriverAction /\ DriverEndTestcase
               /\ w = IF outcome = "kServerCrash" THEN CrashWord ELSE DoneWord
<1>1. PICK f \in Final(run') :
         /\ f.w = w
         /\ (afl' = "pid" /\ st' = <<Ack(run'), f>>) \/ (afl' \in {"status", "late"} /\ st' = <<f>>)
  BY DEF Sent, Final, Ack
<1>2. ~AflGone' /\ ~Launching' /\ ~Doomed'
  BY <1>1, WordsApart, SMTT(30) DEF AflGone, Launching, Doomed, Followed
<1>3. CASE AflAction
  <2>1. InStep
    BY <1>1, <1>2, <1>3, AflLeavesPeers, LaunchingAfl, DoomedAfl, SMTT(30) DEF Lockstep, Phase
  <2>2. CASE AflReadPid
    <3>1. run' = run /\ st' = Tail(st) /\ afl' = "status" /\ afl = "pid"
      BY <1>1, <2>2 DEF AflReadPid, aflBook, Proceed, Abort
    <3>2. PICK g \in Final(run) : st = <<Ack(run), g>>
      BY <1>1, <2>1, <2>2, <3>1, ShortSequences, WordsApart, ZenonT(30) DEF AflReadPid, InStep
    <3>3. f = g
      BY <1>1, <3>1, <3>2, ShortSequences
    <3> QED
      BY <1>1, <3>1, <3>2, <3>3 DEF Sent
  <2>3. CASE AflRequest \/ AflTimeout
    <3>1. st' = <<>>
      BY <1>3, <2>1, <2>3, TimeoutIsHarmless DEF AflRequest, AflTimeout, InStep
    <3> QED
      BY <1>1, <3>1, WordsApart
  <2> QED
    BY <1>1, <1>3, <2>2, <2>3, SMTT(30)
       DEF AflAction, AflStep, AflHello, AflHelloFailed, AflWriteTestcase, AflEof, AflReadStatus, AflStop,
           AflKilled, Proceed, Abort
<1>4. CASE DriverAction
  <2>0. UNCHANGED <<afl, run>>
    BY <1>4 DEF DriverAction, aflVars
  <2>1. InStep
    BY <1>2, <1>4, <2>0, LaunchingDriver, DoomedDriver DEF Lockstep, Phase, AflGone
  <2>2. CASE st' = st
    BY <1>1, <2>0, <2>2 DEF Sent
  <2>3. CASE DriverMapShm \/ DriverStartForkserver
    BY <1>1, <2>0, <2>1, <2>3 DEF DriverMapShm, DriverStartForkserver, InStep, Working
  <2>4. CASE DriverAck
    <3>1. afl = "pid" /\ st' \in {<<>>, <<Ack(run)>>}
      BY <1>2, <2>0, <2>1, <2>4, ShortSequences, SMTT(30)
         DEF DriverAck, InStep, Send, Ack, AflGone, Lockstep, CaseFlow, Working
    <3> QED
      BY <1>1, <2>0, <3>1, WordsApart, SMTT(30)
  <2>5. CASE DriverEndTestcase
    <3> DEFINE g == [w |-> IF outcome = "kServerCrash" THEN CrashWord ELSE DoneWord,
                     from |-> "driver", run |-> drun]
    <3>1. st' = Append(st, g)
      BY <1>2, <2>0, <2>5 DEF DriverEndTestcase, Send, AflGone
    <3>2. \/ afl = "pid" /\ st = <<Ack(run)>>
          \/ afl \in {"status", "late"} /\ st = <<>>
      BY <2>1, <2>5 DEF DriverEndTestcase, InStep, Working
    <3>3. g.w = IF outcome = "kServerCrash" THEN CrashWord ELSE DoneWord
      OBVIOUS
    <3> HIDE DEF g
    <3>4. f = g
      <4>1. CASE afl = "pid" /\ st = <<Ack(run)>>
        BY <1>1, <2>0, <3>1, <4>1, AppendToOne
      <4>2. CASE afl \in {"status", "late"} /\ st = <<>>
        BY <1>1, <2>0, <3>1, <4>2, ShortSequences
      <4> QED
        BY <3>2, <4>1, <4>2
    <3> QED
      BY <1>1, <1>4, <2>0, <2>5, <3>3, <3>4
  <2> QED
    BY <1>4, <2>2, <2>3, <2>4, <2>5, ZenonT(30)
       DEF DriverAction, DriverStep, DriverStartServer, DriverWake, DriverTakeRequest,
           DriverHangup, DriverReadInput, DriverTranslate, DriverConnect, DriverQueryDone,
           DriverQueryLost, DriverRecover, DriverDie, chanVars
<1>5. CASE ServerAction
  <2>1. InStep
    BY <1>2, <1>5, LaunchingServer, DoomedServer, SMTT(30) DEF Lockstep, Phase, AflGone, ServerAction, aflVars
  <2>2. UNCHANGED <<afl, run, st>>
    BY <1>5, <2>1 DEF InStep, aflVars, chanVars, ServerAction, ServerNext, ServerReady, BackendCrash, PostmasterExit,
                      RuntimeStep, RuntimeGreet, RuntimeFork, RuntimeHangup, RuntimeReportPid,
                      RuntimeReportExit
  <2> QED
    BY <1>1, <2>2 DEF Sent
<1>6. CASE Finished
  BY <1>2, <1>6 DEF Finished, AflGone, vars, aflVars
<1> QED
  BY <1>3, <1>4, <1>5, <1>6 DEF Next

(* The verdict of a run is that of its last word.                          *)
LEMMA StatusGivesVerdict ==
  ASSUME TypeInv, Lockstep, AflReadStatus
  PROVE  \E v \in {"ok", "crash", "tmout"} :
            /\ verdict' = [verdict EXCEPT ![run] = v]
            /\ v = "crash" => Sent(CrashWord)
            /\ v = "ok" => Sent(DoneWord) \/ crashed = {}
<1> DEFINE v == Verdict(Head(st).w, afl = "late")
<1>1. verdict' = [verdict EXCEPT ![run] = v]
  BY ZenonT(30) DEF AflReadStatus
<1>2. CASE afl = "late"
  <2>1. v = "tmout"
    BY <1>2, WordVerdicts, Zenon
  <2> QED
    BY <1>1, <2>1, ZenonT(30)
<1>3. CASE afl # "late"
  <2>0. (afl = "late") = FALSE /\ afl = "status"
    BY <1>3 DEF AflReadStatus
  <2>1. CASE \E f \in Final(run) : st = <<f>> /\ Head(st) = f
    <3>1. PICK f \in Final(run) : st = <<f>> /\ Head(st) = f
      BY <2>1
    <3>2. f.w \in {DoneWord, CrashWord} /\ Sent(f.w)
      BY <2>0, <3>1 DEF Final, Sent
    <3>3. CASE f.w = CrashWord
      <4>1. v = "crash"
        BY <2>0, <3>1, <3>3, WordVerdicts, ZenonT(30)
      <4> QED
        BY <1>1, <3>2, <3>3, <4>1, ZenonT(30)
    <3>4. CASE f.w = DoneWord
      <4>1. v = "ok"
        BY <2>0, <3>1, <3>4, WordVerdicts, ZenonT(30)
      <4> QED
        BY <1>1, <3>2, <3>4, <4>1, ZenonT(30)
    <3> QED
      BY <3>2, <3>3, <3>4
  <2>2. CASE Launching /\ Head(st) = HelloWord
    <3>1. Head(st).w = DriverGreeting /\ crashed = {}
      BY <2>2 DEF HelloWord, Launching
    <3>2. v = "ok"
      BY <2>0, <3>1, WordVerdicts, ZenonT(30)
    <3> QED
      BY <1>1, <3>1, <3>2, ZenonT(30)
  <2> QED
    BY <2>1, <2>2, StatusIsRead
<1> QED
  BY <1>2, <1>3

(* A run has no verdict before its last word was read, then it has one.    *)
LEMMA VerdictStep ==
  ASSUME TypeInv, Lockstep, VerdictFlow, Next
  PROVE  VerdictFlow'
<1>1. CASE AflAction /\ AflReadStatus
  <2>1. PICK v \in {"ok", "crash", "tmout"} : verdict' = [verdict EXCEPT ![run] = v]
    BY <1>1, StatusGivesVerdict
  <2>2. /\ verdict'[run] # "none"
        /\ \A r \in Runs : r # run => verdict'[r] = verdict[r]
        /\ run \in Runs
    BY <1>1, <2>1, LoopTypes DEF AflReadStatus
  <2>3. afl' = "idle" /\ run' = run /\ driver' = driver /\ ctl' = ctl
    BY <1>1, SMTT(30) DEF AflReadStatus, Proceed, peerVars
  <2>4. driver \in {"wait", "dead"} /\ ctl = <<>>
    BY <1>1, StatusIsRead DEF AflReadStatus, InStep, Launching
  <2> QED
    BY <2>2, <2>3, <2>4, LoopTypes DEF VerdictFlow, Working
<1>2. CASE AflAction /\ AflWriteTestcase
  <2>1. run' = run + 1 /\ verdict' = verdict /\ run' \in Runs
    BY <1>2, LoopTypes, Constants DEF AflWriteTestcase, TypeInv, TypeOK, AflTypeOK, Runs
  <2>2. verdict[run'] = "none"
    BY <2>1, LoopTypes DEF VerdictFlow
  <2>3. afl' = "request"
    BY <1>2 DEF AflWriteTestcase, Proceed
  <2> QED
    BY <2>1, <2>2, <2>3, LoopTypes DEF VerdictFlow
<1>3. CASE AflAction /\ ~AflReadStatus /\ ~AflWriteTestcase
  <2>1. UNCHANGED <<run, verdict>>
    BY <1>3 DEF AflAction, AflStep, AflHello, AflHelloFailed, AflRequest, AflReadPid, AflEof,
                AflTimeout, AflStop, AflKilled, aflBook
  <2>2. driver' = driver \/ driver' = "dead"
    BY <1>3, AflLeavesPeers, SMTT(30)
  <2>3. ctl' = ctl \/ afl = "request"
    BY <1>3 DEF AflAction, AflStep, AflHello, AflHelloFailed, AflRequest, AflReadPid, AflEof,
                AflTimeout, AflStop, AflKilled, chanVars
  <2>4. /\ afl' # "hello"
        /\ afl' = "idle" => afl = "hello"
        /\ afl' \in {"request", "pid", "status", "late"} => afl \in {"request", "pid", "status", "late"}
    BY <1>3, ZenonT(30) DEF AflAction, AflStep, AflHello, AflHelloFailed, AflRequest, AflReadPid, AflEof,
                AflTimeout, AflStop, AflKilled, Proceed, Abort, AflGone
  <2> QED
    BY <2>1, <2>2, <2>3, <2>4, SMTT(30) DEF VerdictFlow, Working
<1>4. CASE DriverAction
  <2>1. UNCHANGED <<afl, run, verdict>>
    BY <1>4 DEF DriverAction, aflVars
  <2>2. driver' \in {"input", "ack"} \union Working
           => driver \in {"input", "ack"} \union Working \/ ctl # <<>>
    BY <1>4 DEF DriverAction, DriverStep, DriverMapShm, DriverStartServer, DriverWake,
                DriverStartForkserver, DriverTakeRequest, DriverHangup, DriverReadInput, DriverAck,
                DriverTranslate, DriverConnect, DriverQueryDone, DriverQueryLost, DriverRecover,
                DriverEndTestcase, DriverDie, Working
  <2>3. ctl' # <<>> => ctl # <<>>
    <3>1. CASE DriverTakeRequest
      BY <3>1 DEF DriverTakeRequest
    <3>2. CASE ~DriverTakeRequest
      BY <1>4, <3>2, SMTT(30)
         DEF DriverAction, DriverStep, DriverMapShm, DriverStartServer, DriverWake,
             DriverStartForkserver, DriverHangup, DriverReadInput, DriverAck, DriverTranslate,
             DriverConnect, DriverQueryDone, DriverQueryLost, DriverRecover, DriverEndTestcase,
             DriverDie, chanVars
    <3> QED
      BY <3>1, <3>2
  <2> QED
    BY <2>1, <2>2, <2>3 DEF VerdictFlow
<1>5. CASE ServerAction
  <2>1. UNCHANGED <<afl, run, verdict, driver>>
    BY <1>5 DEF ServerAction, aflVars, driverVars
  <2>2. ctl' # <<>> => ctl # <<>>
    <3>1. CASE RuntimeFork
      BY <3>1 DEF RuntimeFork
    <3>2. CASE ~RuntimeFork
      BY <1>5, <3>2 DEF ServerAction, ServerNext, ServerReady, BackendCrash, PostmasterExit,
                        RuntimeStep, RuntimeGreet, RuntimeHangup, RuntimeReportPid,
                        RuntimeReportExit, chanVars
    <3> QED
      BY <3>1, <3>2
  <2> QED
    BY <2>1, <2>2 DEF VerdictFlow
<1>6. CASE Finished
  BY <1>6 DEF Finished, vars, aflVars, driverVars, chanVars, VerdictFlow
<1> QED
  BY <1>1, <1>2, <1>3, <1>4, <1>5, <1>6, SMTT(30) DEF Next

(* A run is out of the driver's hands when the next one is written.        *)
LEMMA CrashKnownAfl ==
  ASSUME Orderly, TypeInv, Lockstep, CrashKnown, AflAction
  PROVE  CrashKnown'
<1>1. /\ UNCHANGED <<drun, outcome, crashed>>
      /\ UNCHANGED <<driver, conn>> \/ (driver' = "dead" /\ conn' = NoConn)
  BY AflLeavesPeers
<1>2. Sent(DoneWord)' => run' = run /\ Sent(DoneWord)
  <2>1. afl' # afl
    BY DEF AflAction, AflStep, AflHello, AflHelloFailed, AflWriteTestcase, AflRequest, AflReadPid,
           AflReadStatus, AflEof, AflTimeout, AflStop, AflKilled, Proceed, Abort, AflGone
  <2>2. ~DriverAction
    BY <2>1 DEF DriverAction, aflVars
  <2> QED
    BY <2>2, SentStep, SMTT(30) DEF Next
<1>3. CASE AflWriteTestcase
  <2>1. run' = run + 1 /\ UNCHANGED <<ctl, driver, conn>>
    BY <1>3 DEF AflWriteTestcase, Proceed, peerVars
  <2> QED
    BY <1>1, <1>2, <2>1, LoopTypes DEF CrashKnown
<1>4. CASE ~AflWriteTestcase
  <2>1. run' = run /\ afl' # "request" /\ (ctl' = ctl \/ afl = "request")
    BY <1>4 DEF AflAction, AflStep, AflHello, AflHelloFailed, AflRequest, AflReadPid,
                AflReadStatus, AflEof, AflTimeout, AflStop, AflKilled, aflBook, chanVars, Proceed,
                Abort
  <2> QED
    BY <1>1, <1>2, <2>1, SMTT(30) DEF CrashKnown, NoConn
<1> QED
  BY <1>3, <1>4

(* The driver learns from its connection what became of the test case.     *)
LEMMA CrashKnownDriver ==
  ASSUME Orderly, TypeInv, Lockstep, CrashKnown, DriverAction
  PROVE  CrashKnown'
<1>0. UNCHANGED <<afl, run>>
  BY DEF DriverAction, aflVars
<1>1. crashed' = crashed
  BY DEF DriverAction, DriverStep, DriverMapShm, DriverStartServer, DriverWake,
         DriverStartForkserver, DriverTakeRequest, DriverHangup, DriverReadInput, DriverAck,
         DriverTranslate, DriverConnect, DriverQueryDone, DriverQueryLost, DriverRecover,
         DriverEndTestcase, DriverDie, serverVars, serverRest
<1>2. Sent(DoneWord)' => run \notin crashed
  <2>1. Sent(DoneWord) => run \notin crashed
    BY DEF CrashKnown
  <2>2. DriverEndTestcase /\ outcome # "kServerCrash" => run \notin crashed
    BY DriverBusy DEF DriverEndTestcase, CrashKnown, Working
  <2> QED
    BY <2>1, <2>2, SentStep, WordsDiffer DEF Next
<1>3. CASE DriverTakeRequest
  <2>1. drun' = run /\ ctl' = <<>> /\ run \notin crashed /\ driver' = "input" /\ driver # "query"
    BY <1>3, ShortSequences, ZenonT(30) DEF DriverTakeRequest, Lockstep, CaseFlow, CrashKnown
  <2>2. conn'.state = "none" /\ afl # "request"
    BY <1>3, <2>1, SMTT(30) DEF DriverTakeRequest, serverVars, Lockstep, Attached, CaseFlow, Phase, AflGone, InStep,
                Launching, Doomed
  <2> QED
    BY <1>0, <1>1, <1>2, <2>1, <2>2 DEF CrashKnown
<1>4. CASE DriverConnect
  <2>1. driver = "execute" /\ case = drun /\ drun \notin crashed /\ UNCHANGED <<ctl, drun>>
    BY <1>4 DEF DriverConnect, Lockstep, CaseFlow, Working, CrashKnown
  <2>2. \/ conn' = [state |-> "open", case |-> drun] /\ driver' = "query"
        \/ conn'.state = "none" /\ driver' = "recover" /\ outcome' = "kServerCrash"
    BY <1>4, <2>1, SMTT(30) DEF DriverConnect, Lockstep, Attached
  <2> QED
    BY <1>0, <1>1, <1>2, <2>1, <2>2, SMTT(30) DEF CrashKnown
<1>5. CASE DriverQueryDone \/ DriverQueryLost \/ DriverDie
  BY <1>0, <1>1, <1>2, <1>5, SMTT(30) DEF DriverQueryDone, DriverQueryLost, DriverDie, CrashKnown, NoConn, chanVars
<1>6. CASE DriverRecover \/ DriverTranslate \/ DriverEndTestcase
  BY <1>0, <1>1, <1>2, <1>6, SMTT(30)
     DEF DriverRecover, DriverTranslate, DriverEndTestcase, CrashKnown, chanVars, serverVars
<1>7. CASE \/ DriverMapShm \/ DriverStartServer \/ DriverWake \/ DriverStartForkserver
           \/ DriverHangup \/ DriverReadInput \/ DriverAck
  <2>1. /\ UNCHANGED <<ctl, drun, outcome, conn>>
        /\ driver' \in {"check", "sleep", "prepare", "wait", "dead"}
           \/ (driver = "input" /\ driver' = "ack") \/ (driver = "ack" /\ driver' = "translate")
    BY <1>7 DEF DriverMapShm, DriverStartServer, DriverWake, DriverStartForkserver, DriverHangup,
                DriverReadInput, DriverAck, chanVars, serverVars
  <2> QED
    BY <1>0, <1>1, <1>2, <2>1 DEF CrashKnown
<1> QED
  BY <1>3, <1>4, <1>5, <1>6, <1>7, Zenon DEF DriverAction, DriverStep

(* A failure that costs a test case breaks its connection.                 *)
LEMMA CrashIsOwn ==
  ASSUME TypeInv, Lockstep, CrashKnown, BreakConnection, conn.state = "open"
  PROVE  /\ driver = "query" /\ drun = run /\ run > 0 /\ run \notin crashed
         /\ conn'.state = "lost" /\ conn'.case = drun
         /\ crashed' = crashed \union {run}
<1>1. driver = "query" /\ conn.case = drun /\ drun = run /\ run > 0 /\ run \notin crashed
  BY DEF Lockstep, Attached, CaseFlow, Working, CrashKnown
<1> QED
  BY <1>1, LoopTypes, SMTT(30) DEF BreakConnection

LEMMA CrashKnownServer ==
  ASSUME Orderly, TypeInv, Lockstep, CrashKnown, ServerAction
  PROVE  CrashKnown'
<1>0. UNCHANGED <<afl, run, driver, drun, outcome>>
  BY DEF ServerAction, aflVars, driverVars
<1>1. ctl' # <<>> => ctl # <<>>
  <2>1. CASE RuntimeFork
    BY <2>1 DEF RuntimeFork
  <2>2. CASE ~RuntimeFork
    BY <2>2 DEF ServerAction, ServerNext, ServerReady, BackendCrash, PostmasterExit, RuntimeStep,
                RuntimeGreet, RuntimeHangup, RuntimeReportPid, RuntimeReportExit, chanVars
  <2> QED
    BY <2>1, <2>2
<1>2. Sent(DoneWord)' => Sent(DoneWord)
  <2>1. DriverAction /\ DriverEndTestcase => FALSE
    BY <1>0 DEF DriverEndTestcase
  <2> QED
    BY <2>1, SentStep DEF Next
<1>3. CASE UNCHANGED <<conn, crashed>>
  BY <1>0, <1>1, <1>2, <1>3, SMTT(30) DEF CrashKnown
<1>4. CASE BreakConnection /\ conn.state = "open"
  <2>1. driver \in {"input", "ack"} \union Working
    BY <1>4, CrashIsOwn DEF Working
  <2> QED
    BY <1>0, <1>1, <1>2, <1>4, <2>1, CrashIsOwn, DriverBusy, LoopTypes, SMTT(30) DEF CrashKnown
<1> QED
  BY <1>3, <1>4, ServerFailure DEF BreakConnection

(* What a failure took with it is never judged uneventful.                 *)
Noticed == CrashKnown /\ VerdictFlow /\ NoMissedCrash

LEMMA NoticedStep ==
  ASSUME Orderly, TypeInv, Lockstep, Noticed, [Next]_vars
  PROVE  Noticed'
<1> USE DEF Noticed
<1>1. CASE UNCHANGED vars
  BY <1>1 DEF vars, chanVars, aflVars, driverVars, serverVars, CrashKnown, Sent, Final, Ack, VerdictFlow,
              NoMissedCrash
<1>2. CASE Next
  <2>1. VerdictFlow'
    BY <1>2, VerdictStep
  <2>2. CrashKnown'
    <3>1. CASE Finished
      BY <1>1, <3>1 DEF Finished
    <3> QED
      BY <1>2, <3>1, CrashKnownAfl, CrashKnownDriver, CrashKnownServer DEF Next
  <2>3. NoMissedCrash'
    <3>1. CASE AflAction /\ AflReadStatus
      <4>1. PICK v \in {"ok", "crash", "tmout"} :
               /\ verdict' = [verdict EXCEPT ![run] = v]
               /\ v = "ok" => Sent(DoneWord) \/ crashed = {}
        BY <3>1, StatusGivesVerdict
      <4>2. crashed' = crashed /\ (v = "ok" => run \notin crashed)
        BY <3>1, <4>1 DEF AflReadStatus, CrashKnown
      <4> QED
        BY <4>1, <4>2, LoopTypes DEF NoMissedCrash
    <3>2. CASE UNCHANGED verdict
      <4>1. CASE crashed' \subseteq crashed
        BY <3>2, <4>1 DEF NoMissedCrash
      <4>2. CASE BreakConnection /\ conn.state = "open"
        <5>1. verdict[run] = "none" /\ crashed' = crashed \union {run}
          BY <4>2, CrashIsOwn DEF VerdictFlow, Working
        <5> QED
          BY <3>2, <5>1 DEF NoMissedCrash
      <4>3. AflAction => crashed' = crashed
        BY AflLeavesPeers
      <4>4. DriverAction => crashed' = crashed
        BY DEF DriverAction, DriverStep, DriverMapShm, DriverStartServer, DriverWake,
               DriverStartForkserver, DriverTakeRequest, DriverHangup, DriverReadInput, DriverAck,
               DriverTranslate, DriverConnect, DriverQueryDone, DriverQueryLost, DriverRecover,
               DriverEndTestcase, DriverDie, serverVars, serverRest
      <4> QED
        BY <1>2, <4>1, <4>2, <4>3, <4>4, ServerFailure, SMTT(30) DEF Next, Finished, vars, serverVars, BreakConnection
    <3> QED
      BY <1>2, <3>1, <3>2, VerdictsFromStatus, SMTT(30)
  <2> QED
    BY <2>1, <2>2, <2>3
<1> QED
  BY <1>1, <1>2, SMTT(30)

LEMMA NoticedHolds ==
  ASSUME Orderly
  PROVE  Spec => [](TypeInv /\ Lockstep /\ Noticed)
<1>1. Init => Noticed
  BY Constants, WordsApart
     DEF Init, AflInit, DriverInit, ServerInit, Noticed, CrashKnown, VerdictFlow, NoMissedCrash, NoConn,
         Working, Sent, Runs
<1>2. TypeInv /\ Lockstep /\ Noticed /\ [Next]_vars => Noticed'
  BY NoticedStep
<1> QED
  BY <1>1, <1>2, LockstepHolds, PTL DEF Spec

(* An execution that took the server down is never judged uneventful, also *)
(* when backends crash or the postmaster exits while no test case runs.    *)
THEOREM CrashesNoticed ==
  ASSUME Orderly
  PROVE  Spec => []NoMissedCrash
<1>1. Noticed => NoMissedCrash
  BY DEF Noticed
<1> QED
  BY <1>1, NoticedHolds, PTL

(* A charge becomes pending only when the driver finds the server gone.    *)
LEMMA PendingStep ==
  ASSUME Orderly, TypeInv, Lockstep, Next, Pending'
  PROVE  /\ run' = run
         /\ \/ Pending
            \/ DriverAction /\ (DriverQueryLost \/ (DriverConnect /\ ~Reachable))
<1>1. CASE Sent(CrashWord)'
  <2>1. CASE DriverAction /\ DriverEndTestcase /\ CrashWord = (IF outcome = "kServerCrash" THEN CrashWord ELSE DoneWord)
    BY <2>1, WordsDiffer DEF DriverEndTestcase, DriverAction, aflVars, Pending
  <2> QED
    BY <1>1, <2>1, SentStep DEF Pending
<1>2. CASE driver' = "recover" \/ (driver' = "report" /\ outcome' = "kServerCrash")
  <2>1. CASE AflAction
    <3>1. UNCHANGED <<driver, outcome>>
      BY <1>2, <2>1, AflLeavesPeers
    <3>2. afl # "idle"
      BY <1>2, <3>1, DriverBusy, SMTT(30) DEF Working
    <3>3. run' = run
      BY <2>1, <3>2 DEF AflAction, AflStep, AflHello, AflHelloFailed, AflWriteTestcase, AflRequest,
                  AflReadPid, AflReadStatus, AflEof, AflTimeout, AflStop, AflKilled, aflBook
    <3> QED
      BY <1>2, <3>1, <3>3 DEF Pending
  <2>2. CASE DriverAction
    <3>1. run' = run
      BY <2>2 DEF DriverAction, aflVars
    <3>2. CASE DriverConnect
      BY <1>2, <2>2, <3>1, <3>2, SMTT(30) DEF DriverConnect
    <3>3. CASE ~DriverConnect /\ ~DriverQueryLost
      BY <1>2, <2>2, <3>1, <3>3, SMTT(30)
         DEF Pending, DriverAction, DriverStep, DriverMapShm, DriverStartServer, DriverWake,
             DriverStartForkserver, DriverTakeRequest, DriverHangup, DriverReadInput, DriverAck,
             DriverTranslate, DriverQueryDone, DriverRecover, DriverEndTestcase, DriverDie
    <3> QED
      BY <2>2, <3>1, <3>2, <3>3
  <2>3. CASE ServerAction \/ Finished
    BY <1>2, <2>3 DEF ServerAction, Finished, vars, aflVars, driverVars, Pending
  <2> QED
    BY <2>1, <2>2, <2>3 DEF Next
<1> QED
  BY <1>1, <1>2 DEF Pending

(* A verdict settles a charge, and no step charges anyone but the current  *)
(* run.                                                                    *)
LEMMA ChargedStep ==
  ASSUME Orderly, TypeInv, Lockstep, Next
  PROVE  \/ Charged' \subseteq Charged
         \/ /\ Charged' \subseteq Charged \union {run}
            /\ DriverAction /\ (DriverQueryLost \/ (DriverConnect /\ ~Reachable))
<1>1. {r \in Runs : verdict'[r] = "crash"} \subseteq Charged
  <2>1. CASE AflAction /\ AflReadStatus
    <3>1. PICK v \in {"ok", "crash", "tmout"} :
             verdict' = [verdict EXCEPT ![run] = v] /\ (v = "crash" => Sent(CrashWord))
      BY <2>1, StatusGivesVerdict
    <3> QED
      BY <3>1, LoopTypes DEF Charged, Pending
  <2> QED
    BY <2>1, VerdictsFromStatus DEF Charged
<1>2. CASE Pending'
  BY <1>1, <1>2, PendingStep DEF Charged
<1>3. CASE ~Pending'
  BY <1>1, <1>3 DEF Charged
<1> QED
  BY <1>2, <1>3

(* The charges are finite in number, and fewer runs are fewer charges.     *)
LEMMA ChargesCounted ==
  ASSUME TypeInv
  PROVE  /\ IsFiniteSet(Charged)
         /\ Cardinality(Charged) \in Nat
         /\ Charged' \subseteq Charged => Cardinality(Charged') <= Cardinality(Charged)
         /\ Charged' \subseteq Charged \union {run} => Cardinality(Charged') <= Cardinality(Charged) + 1
<1>1. IsFiniteSet({r \in Runs : verdict[r] = "crash"})
  <2>1. IsFiniteSet(Runs)
    BY FS_Interval, Constants DEF Runs
  <2> QED
    BY <2>1, FS_Subset
<1>2. IsFiniteSet(Charged)
  BY <1>1, FS_EmptySet, FS_Singleton, FS_Union, ZenonT(30) DEF Charged
<1>3. Cardinality(Charged) \in Nat
  BY <1>2, FS_CardinalityType
<1>4. Charged' \subseteq Charged => Cardinality(Charged') <= Cardinality(Charged)
  BY <1>2, FS_Subset
<1>5. IsFiniteSet(Charged \union {run}) /\ Cardinality(Charged \union {run}) <= Cardinality(Charged) + 1
  BY <1>2, <1>3, FS_AddElement
<1>6. ASSUME Charged' \subseteq Charged \union {run}
      PROVE  Cardinality(Charged') <= Cardinality(Charged) + 1
  <2>1. IsFiniteSet(Charged') /\ Cardinality(Charged') <= Cardinality(Charged \union {run})
    BY <1>5, <1>6, FS_Subset
  <2>2. Cardinality(Charged') \in Nat /\ Cardinality(Charged \union {run}) \in Nat
    BY <1>5, <2>1, FS_CardinalityType
  <2> QED
    BY <1>3, <1>5, <2>1, <2>2, SMTT(30)
<1> QED
  BY <1>2, <1>3, <1>4, <1>6

LEMMA AccountStep ==
  ASSUME Orderly, TypeInv, Lockstep, CrashAccount, [Next]_vars
  PROVE  CrashAccount'
<1>0. CASE UNCHANGED vars
  BY <1>0 DEF vars, chanVars, aflVars, driverVars, serverVars, CrashAccount, Charged, Pending, Sent, Final,
              Ack, Surprise
<1>1. CASE Next
  <2>2. (conn.state = "open" => server = "up")'
    <3>1. CASE AflAction
      BY <3>1, AflLeavesPeers DEF CrashAccount, NoConn
    <3>2. CASE DriverAction
      <4>1. conn' \in {conn, NoConn} \/ server = "up"
        BY <3>2, SMTT(30) DEF Reachable, serverVars, DriverAction, DriverStep, DriverMapShm, DriverStartServer, DriverWake,
                    DriverStartForkserver, DriverTakeRequest, DriverHangup, DriverReadInput,
                    DriverAck, DriverTranslate, DriverConnect, DriverQueryDone, DriverQueryLost,
                    DriverRecover, DriverEndTestcase, DriverDie
      <4>2. server' = server
        BY <3>2 DEF serverVars, serverRest, DriverAction, DriverStep, DriverMapShm, DriverStartServer, DriverWake,
                    DriverStartForkserver, DriverTakeRequest, DriverHangup, DriverReadInput,
                    DriverAck, DriverTranslate, DriverConnect, DriverQueryDone, DriverQueryLost,
                    DriverRecover, DriverEndTestcase, DriverDie
      <4> QED
        BY <4>1, <4>2, SMTT(30) DEF CrashAccount, NoConn
    <3>3. CASE ServerAction
      BY <3>3, ServerFailure, LoopTypes DEF CrashAccount, BreakConnection
    <3> QED
      BY <1>1, <3>1, <3>2, <3>3, SMTT(30) DEF Next, Finished, vars, serverVars, CrashAccount
  <2>3. (Cardinality(Charged) + (IF Surprise THEN 1 ELSE 0) <= crashes)'
    <3>1. /\ crashes \in Nat
          /\ Cardinality(Charged) + (IF Surprise THEN 1 ELSE 0) <= crashes
          /\ Cardinality(Charged) \in Nat
      BY LoopTypes, ChargesCounted DEF CrashAccount
    <3>2. CASE Charged' \subseteq Charged /\ crashes' = crashes /\ (Surprise' => Surprise)
      <4>1. Cardinality(Charged') <= Cardinality(Charged) /\ Cardinality(Charged') \in Nat
        BY <3>2, ChargesCounted, FS_Subset, FS_CardinalityType, SMTT(30)
      <4> QED
        BY <3>1, <3>2, <4>1
    <3>3. CASE Charged' \subseteq Charged /\ crashes' = crashes + 1
      <4>1. Cardinality(Charged') <= Cardinality(Charged) /\ Cardinality(Charged') \in Nat
        BY <3>3, ChargesCounted, FS_Subset, FS_CardinalityType
      <4> QED
        BY <3>1, <3>3, <4>1
    <3>4. CASE Charged' \subseteq Charged \union {run} /\ crashes' = crashes /\ Surprise /\ ~Surprise'
      <4>1. Cardinality(Charged') <= Cardinality(Charged) + 1
        BY <3>4, ChargesCounted
      <4>2. Cardinality(Charged') \in Nat
        BY <3>4, ChargesCounted, FS_AddElement, FS_Subset, FS_CardinalityType, ZenonT(30)
      <4> QED
        BY <3>1, <3>4, <4>1, <4>2, SMTT(30)
    <3>5. CASE AflAction
      <4>1. crashes' = crashes /\ (Surprise' => Surprise)
        BY <3>5, AflLeavesPeers DEF Surprise, NoConn
      <4>2. ~DriverAction
        <5>1. afl' # afl
          BY <3>5 DEF AflAction, AflStep, AflHello, AflHelloFailed, AflWriteTestcase, AflRequest,
                      AflReadPid, AflReadStatus, AflEof, AflTimeout, AflStop, AflKilled, Proceed,
                      Abort, AflGone
        <5> QED
          BY <5>1, SMTT(30) DEF DriverAction, aflVars
      <4> QED
        BY <1>1, <3>2, <4>1, <4>2, ChargedStep, SMTT(30)
    <3>6. CASE DriverAction
      <4>1. crashes' = crashes /\ server' = server
        BY <3>6 DEF serverVars, serverRest, DriverAction, DriverStep, DriverMapShm, DriverStartServer, DriverWake,
                    DriverStartForkserver, DriverTakeRequest, DriverHangup, DriverReadInput,
                    DriverAck, DriverTranslate, DriverConnect, DriverQueryDone, DriverQueryLost,
                    DriverRecover, DriverEndTestcase, DriverDie
      <4>2. CASE DriverQueryLost
        <5>1. Surprise /\ ~Surprise'
          BY <4>2 DEF DriverQueryLost, Surprise, NoConn
        <5>2. Charged' \subseteq Charged \union {run}
          BY <1>1, ChargedStep
        <5> QED
          BY <3>4, <4>1, <5>1, <5>2, SMTT(30)
      <4>3. CASE DriverConnect /\ ~Reachable
        <5>1. Surprise
          BY <4>3 DEF DriverConnect, Reachable, Surprise, CrashAccount
        <5>2. ~Surprise'
          BY <4>3 DEF DriverConnect, Surprise, Lockstep, Attached
        <5>3. Charged' \subseteq Charged \union {run}
          BY <1>1, ChargedStep
        <5> QED
          BY <3>4, <4>1, <5>1, <5>2, <5>3, SMTT(30)
      <4>4. CASE ~DriverQueryLost /\ ~(DriverConnect /\ ~Reachable)
        <5>1. Charged' \subseteq Charged
          BY <1>1, <4>4, ChargedStep, SMTT(30)
        <5>2. conn' = conn \/ conn'.state # "lost"
          BY <3>6, <4>4, SMTT(30) DEF NoConn, serverVars, DriverAction, DriverStep, DriverMapShm, DriverStartServer, DriverWake,
                      DriverStartForkserver, DriverTakeRequest, DriverHangup, DriverReadInput,
                      DriverAck, DriverTranslate, DriverConnect, DriverQueryDone, DriverRecover,
                      DriverEndTestcase, DriverDie
        <5>3. driver' = "execute" => server = "up"
          BY <3>6, <4>4, SMTT(30) DEF Reachable, DriverAction, DriverStep, DriverMapShm, DriverStartServer, DriverWake,
                      DriverStartForkserver, DriverTakeRequest, DriverHangup, DriverReadInput,
                      DriverAck, DriverTranslate, DriverConnect, DriverQueryDone, DriverRecover,
                      DriverEndTestcase, DriverDie
        <5> QED
          BY <3>2, <4>1, <5>1, <5>2, <5>3 DEF Surprise
      <4> QED
        BY <4>2, <4>3, <4>4, SMTT(30)
    <3>7. CASE ServerAction
      <4>1. driver' = driver /\ UNCHANGED aflVars
        BY <3>7 DEF ServerAction, aflVars, driverVars
      <4>2. Charged' \subseteq Charged
        BY <1>1, <4>1, ChargedStep DEF DriverQueryLost, DriverConnect
      <4>3. CASE UNCHANGED <<conn, crashes>> /\ (server = "up" => server' = "up")
        BY <3>2, <4>1, <4>2, <4>3, SMTT(30) DEF Surprise
      <4> QED
        BY <3>3, <3>7, <4>2, <4>3, ServerFailure, SMTT(30)
    <3>8. CASE Finished
      BY <1>0, <3>8 DEF Finished, CrashAccount
    <3> QED
      BY <1>1, <3>5, <3>6, <3>7, <3>8, SMTT(30) DEF Next
  <2> QED
    BY <2>2, <2>3, SMTT(30) DEF CrashAccount
<1> QED
  BY <1>0, <1>1, SMTT(30)

LEMMA AccountHolds ==
  ASSUME Orderly
  PROVE  Spec => [](TypeInv /\ Lockstep /\ Noticed /\ CrashAccount)
<1>1. ASSUME Init
      PROVE  CrashAccount
  <2>1. ~Surprise /\ ~Pending /\ crashes = 0
    BY <1>1, WordsApart DEF Init, AflInit, DriverInit, ServerInit, Surprise, Pending, Sent, NoConn
  <2>2. Charged = {}
    BY <1>1, <2>1 DEF Init, AflInit, Charged
  <2>3. Cardinality(Charged) = 0
    BY <2>2, FS_EmptySet
  <2>4. conn.state # "open"
    BY <1>1 DEF Init, ServerInit, NoConn
  <2> QED
    BY <2>1, <2>3, <2>4, SMTT(30) DEF CrashAccount
<1>2. TypeInv /\ Lockstep /\ CrashAccount /\ [Next]_vars => CrashAccount'
  BY AccountStep
<1> QED
  BY <1>1, <1>2, NoticedHolds, PTL DEF Spec

(* A failure of the server costs at most one run a crash verdict, whenever *)
(* it happens: what the driver finds gone was taken by a failure that no   *)
(* other run was charged with.                                             *)
THEOREM FailuresCountedOnce ==
  ASSUME Orderly
  PROVE  Spec => []NoPhantomCrashes
<1>1. ASSUME TypeInv, CrashAccount
      PROVE  NoPhantomCrashes
  <2> DEFINE judged == {r \in Runs : verdict[r] = "crash"}
  <2>1. judged \subseteq Charged
    BY DEF Charged
  <2>2. IsFiniteSet(Charged) /\ Cardinality(Charged) \in Nat
    BY <1>1, ChargesCounted
  <2>3. Cardinality(judged) <= Cardinality(Charged) /\ Cardinality(judged) \in Nat
    BY <2>1, <2>2, FS_Subset, FS_CardinalityType, SMTT(30)
  <2>4. Cardinality(Charged) <= crashes /\ crashes \in Nat
    BY <1>1, <2>2, LoopTypes DEF CrashAccount
  <2> HIDE DEF judged
  <2>5. Cardinality(judged) <= crashes
    BY <2>2, <2>3, <2>4, SMTT(30)
  <2> QED
    BY <2>5 DEF judged, NoPhantomCrashes
<1> QED
  BY <1>1, AccountHolds, PTL

-----------------------------------------------------------------------------
(* Backends crash only while a test case executes, the postmaster stays.   *)
Quiet == Orderly /\ ~MayCrashIdle /\ ~MayPanic

LEMMA QuietServer ==
  ASSUME Quiet, ServerAction
  PROVE  \/ UNCHANGED <<conn, crashes, crashed>> /\ (server = "up" => server' = "up")
         \/ BackendCrash /\ conn.state = "open"
BY DEF Quiet, ServerAction, ServerNext, ServerReady, BackendCrash, PostmasterExit, RuntimeStep,
       RuntimeGreet, RuntimeFork, RuntimeHangup, RuntimeReportPid, RuntimeReportExit, RuntimeVars

(* The driver finds the server gone only through its own test case.        *)
LEMMA CrashOwnStep ==
  ASSUME Quiet, TypeInv, Lockstep, CrashKnown, CrashAccount, CrashOwn, Next
  PROVE  CrashOwn'
<1>0. Orderly
  BY DEF Quiet
<1>1. crashed \subseteq crashed'
  <2>1. AflAction => crashed' = crashed
    BY AflLeavesPeers, SMTT(30)
  <2>2. DriverAction => crashed' = crashed
    BY DEF serverVars, serverRest, DriverAction, DriverStep, DriverMapShm, DriverStartServer, DriverWake,
           DriverStartForkserver, DriverTakeRequest, DriverHangup, DriverReadInput, DriverAck,
           DriverTranslate, DriverConnect, DriverQueryDone, DriverQueryLost, DriverRecover,
           DriverEndTestcase, DriverDie
  <2> QED
    BY <2>1, <2>2, ServerFailure DEF Next, Finished, vars, serverVars, BreakConnection
<1>2. (Pending => run \in crashed)'
  <2> SUFFICES ASSUME Pending'
               PROVE  run \in crashed'
    BY <1>0, PendingStep, SMTT(30)
  <2>1. CASE DriverAction /\ DriverQueryLost
    BY <1>1, <2>1, SMTT(30) DEF DriverQueryLost, CrashOwn, Lockstep, CaseFlow, Working
  <2>2. CASE DriverConnect /\ ~Reachable
    BY <2>2 DEF DriverConnect, Reachable, CrashOwn, CrashAccount
  <2> QED
    BY <1>0, <1>1, <2>1, <2>2, PendingStep DEF CrashOwn
<1>3. CASE AflAction
  <2>1. (conn.state = "lost" => drun \in crashed)'
    BY <1>1, <1>3, AflLeavesPeers, SMTT(30) DEF CrashOwn, NoConn
  <2>2. /\ (driver = "execute" => server = "up")'
        /\ (InitServer = {"up"} /\ driver \notin {"query", "recover", "dead"} => server = "up")'
    BY <1>3, AflLeavesPeers, SMTT(30) DEF CrashOwn
  <2> QED
    BY <1>2, <2>1, <2>2, SMTT(30) DEF CrashOwn
<1>4. CASE DriverAction
  <2>0. server' = server
    BY <1>4 DEF serverVars, serverRest, DriverAction, DriverStep, DriverMapShm, DriverStartServer, DriverWake,
                DriverStartForkserver, DriverTakeRequest, DriverHangup, DriverReadInput, DriverAck,
                DriverTranslate, DriverConnect, DriverQueryDone, DriverQueryLost, DriverRecover,
                DriverEndTestcase, DriverDie
  <2>1. (conn.state = "lost" => drun \in crashed)'
    <3>1. conn' = conn \/ conn'.state # "lost"
      BY <1>4, SMTT(30) DEF NoConn, serverVars, DriverAction, DriverStep, DriverMapShm, DriverStartServer, DriverWake,
                  DriverStartForkserver, DriverTakeRequest, DriverHangup, DriverReadInput,
                  DriverAck, DriverTranslate, DriverConnect, DriverQueryDone, DriverQueryLost,
                  DriverRecover, DriverEndTestcase, DriverDie
    <3>2. conn.state # "none" => drun' = drun
      BY <1>4, SMTT(30) DEF Lockstep, Attached, DriverAction, DriverStep, DriverMapShm, DriverStartServer, DriverWake,
                  DriverStartForkserver, DriverTakeRequest, DriverHangup, DriverReadInput,
                  DriverAck, DriverTranslate, DriverConnect, DriverQueryDone, DriverQueryLost,
                  DriverRecover, DriverEndTestcase, DriverDie
    <3> QED
      BY <1>1, <3>1, <3>2, SMTT(30) DEF CrashOwn
  <2>2. (driver = "execute" => server = "up")'
    BY <1>4, <2>0, SMTT(30) DEF Reachable, DriverAction, DriverStep, DriverMapShm, DriverStartServer, DriverWake,
                DriverStartForkserver, DriverTakeRequest, DriverHangup, DriverReadInput, DriverAck,
                DriverTranslate, DriverConnect, DriverQueryDone, DriverQueryLost, DriverRecover,
                DriverEndTestcase, DriverDie
  <2>3. (InitServer = {"up"} /\ driver \notin {"query", "recover", "dead"} => server = "up")'
    BY <1>4, <2>0, SMTT(30) DEF CrashOwn, CrashAccount, Reachable, DriverAction, DriverStep, DriverMapShm, DriverStartServer, DriverWake,
                DriverStartForkserver, DriverTakeRequest, DriverHangup, DriverReadInput, DriverAck,
                DriverTranslate, DriverConnect, DriverQueryDone, DriverQueryLost, DriverRecover,
                DriverEndTestcase, DriverDie
  <2> QED
    BY <1>2, <2>1, <2>2, <2>3, SMTT(30) DEF CrashOwn
<1>5. CASE ServerAction
  <2>1. driver' = driver /\ drun' = drun
    BY <1>5 DEF ServerAction, driverVars
  <2>2. CASE UNCHANGED <<conn, crashed>> /\ (server = "up" => server' = "up")
    BY <1>2, <2>1, <2>2, SMTT(30) DEF CrashOwn
  <2>3. CASE BackendCrash /\ conn.state = "open"
    <3>1. driver = "query" /\ drun \in crashed'
      BY <2>3, CrashIsOwn DEF BackendCrash
    <3> QED
      BY <1>2, <2>1, <3>1, SMTT(30) DEF CrashOwn
  <2> QED
    BY <1>5, <2>2, <2>3, QuietServer
<1>6. CASE Finished
  BY <1>2, <1>6 DEF Finished, vars, driverVars, serverVars, CrashOwn
<1> QED
  BY <1>3, <1>4, <1>5, <1>6 DEF Next

(* The invariant behind the attribution.                                   *)
Inv == TypeInv /\ Lockstep /\ Attribution

(* A verdict says what the execution did, or that it was late.             *)
LEMMA VerdictIsTrue ==
  ASSUME Inv, AflReadStatus
  PROVE  \E v \in {"tmout", IF run \in crashed THEN "crash" ELSE "ok"} :
            verdict' = [verdict EXCEPT ![run] = v]
<1>1. PICK v \in {"ok", "crash", "tmout"} :
         /\ verdict' = [verdict EXCEPT ![run] = v]
         /\ v = "crash" => Sent(CrashWord)
         /\ v = "ok" => Sent(DoneWord) \/ crashed = {}
  BY StatusGivesVerdict DEF Inv
<1>2. v = "crash" => run \in crashed
  BY <1>1 DEF Inv, Attribution, CrashOwn, Pending
<1>3. v = "ok" => run \notin crashed
  BY <1>1 DEF Inv, Attribution, CrashKnown
<1> QED
  BY <1>1, <1>2, <1>3, ZenonT(30)

LEMMA AttributionStep ==
  ASSUME Quiet, Inv, [Next]_vars
  PROVE  Inv'
<1> USE DEF Inv
<1>0. Orderly
  BY DEF Quiet
<1>1. CASE UNCHANGED vars
  <2>1. TypeInv' /\ Lockstep'
    BY <1>0, TypeStep, LockstepStep
  <2>2. Noticed' /\ CrashAccount'
    BY <1>0, NoticedStep, AccountStep, SMTT(30) DEF Attribution, Noticed
  <2>3. CrashOwn' /\ CrashAttribution'
    BY <1>1 DEF vars, chanVars, aflVars, driverVars, serverVars, Attribution, CrashOwn, CrashAttribution,
                Pending, Sent, Final, Ack
  <2> QED
    BY <2>1, <2>2, <2>3 DEF Attribution, Noticed
<1>2. CASE Next
  <2>1. TypeInv' /\ Lockstep'
    BY <1>0, TypeStep, LockstepStep
  <2>2. Noticed' /\ CrashAccount'
    BY <1>0, NoticedStep, AccountStep DEF Attribution, Noticed
  <2>3. CrashOwn'
    BY <1>2, CrashOwnStep DEF Attribution
  <2>4. CrashAttribution'
    <3>1. crashed \subseteq crashed'
      <4>1. AflAction => crashed' = crashed
        BY AflLeavesPeers, SMTT(30)
      <4>2. DriverAction => crashed' = crashed
        BY DEF serverVars, serverRest, DriverAction, DriverStep, DriverMapShm, DriverStartServer, DriverWake,
               DriverStartForkserver, DriverTakeRequest, DriverHangup, DriverReadInput, DriverAck,
               DriverTranslate, DriverConnect, DriverQueryDone, DriverQueryLost, DriverRecover,
               DriverEndTestcase, DriverDie
      <4> QED
        BY <1>2, <4>1, <4>2, ServerFailure, SMTT(30) DEF Next, Finished, vars, serverVars, BreakConnection
    <3>2. CASE AflAction /\ AflReadStatus
      <4>1. PICK v \in {"tmout", IF run \in crashed THEN "crash" ELSE "ok"} :
               verdict' = [verdict EXCEPT ![run] = v]
        BY <3>2, VerdictIsTrue
      <4> QED
        BY <3>1, <4>1, LoopTypes DEF Attribution, CrashAttribution
    <3> QED
      BY <1>2, <3>1, <3>2, VerdictsFromStatus DEF Attribution, CrashAttribution
  <2> QED
    BY <2>1, <2>2, <2>3, <2>4 DEF Attribution, Noticed
<1> QED
  BY <1>1, <1>2

LEMMA InvHolds ==
  ASSUME Quiet
  PROVE  Spec => []Inv
<1>0. Orderly
  BY SMTT(30) DEF Quiet
<1>1. ASSUME Init
      PROVE  CrashOwn /\ CrashAttribution
  BY <1>1, WordsApart
     DEF Init, AflInit, DriverInit, ServerInit, CrashOwn, CrashAttribution, Pending, Sent, NoConn
<1>2. Inv /\ [Next]_vars => Inv'
  BY AttributionStep
<1>3. Spec => [](TypeInv /\ Lockstep /\ Noticed /\ CrashAccount)
  BY <1>0, AccountHolds
<1>4. TypeInv /\ Lockstep /\ Noticed /\ CrashAccount /\ CrashOwn /\ CrashAttribution => Inv
  BY DEF Inv, Attribution, Noticed
<1> QED
  BY <1>1, <1>2, <1>3, <1>4, PTL DEF Spec

(* A crash verdict names a run whose own execution took the server down,   *)
(* for every number of runs and failures.                                  *)
THEOREM CrashesAttributed ==
  ASSUME Quiet
  PROVE  Spec => []CrashAttribution
<1>1. Inv => CrashAttribution
  BY DEF Inv, Attribution
<1> QED
  BY <1>1, InvHolds, PTL

(* What the driver knows of a run, the word it sends and the verdict       *)
(* afl-fuzz computes agree at every moment with what the execution did to  *)
(* the server.                                                             *)
THEOREM AttributionHolds ==
  ASSUME Quiet
  PROVE  Spec => []Attribution
<1>1. Inv => Attribution
  BY DEF Inv
<1> QED
  BY <1>1, InvHolds, PTL

(* No test case is spent on a server that is down, when the server was up  *)
(* before the driver.                                                      *)
THEOREM CasesMeetServer ==
  ASSUME Quiet, InitServer = {"up"}
  PROVE  Spec => []CaseMeetsServer
<1>1. Inv => CaseMeetsServer
  BY DEF Inv, Attribution, CrashOwn, CrashAccount, CaseMeetsServer, Reachable
<1> QED
  BY <1>1, InvHolds, PTL

(* Every step of the loop is a step of the oracle, or none: a test case is *)
(* started, its execution takes the server down, it is judged.             *)
LEMMA OracleStep ==
  ASSUME Quiet, Inv, [Next]_vars
  PROVE  [Oracle!OracleNext]_<<run, crashed, verdict>>
<1> USE DEF Inv, Attribution
<1>1. CASE AflAction /\ AflWriteTestcase
  <2>1. ~Oracle!Open
    BY <1>1, SMTT(30) DEF AflWriteTestcase, VerdictFlow, Oracle!Open
  <2> QED
    BY <1>1, <2>1, SMTT(30) DEF AflWriteTestcase, Oracle!OracleNext, Oracle!Start
<1>2. CASE AflAction /\ AflReadStatus
  <2>1. run \in Runs /\ verdict[run] = "none"
    BY <1>2, LoopTypes DEF AflReadStatus, VerdictFlow
  <2>2. Oracle!Open
    BY <2>1, LoopTypes DEF Oracle!Open, Runs
  <2> QED
    BY <1>2, <2>2, VerdictIsTrue, SMTT(30) DEF AflReadStatus, Oracle!OracleNext, Oracle!Judge
<1>3. CASE ServerAction /\ BackendCrash /\ conn.state = "open"
  <2>1. /\ run > 0 /\ run \notin crashed /\ driver = "query"
        /\ crashed' = crashed \union {run} /\ UNCHANGED <<run, verdict>>
    BY <1>3, CrashIsOwn DEF BackendCrash, ServerAction, aflVars
  <2>2. verdict[run] = "none"
    BY <2>1, SMTT(30) DEF VerdictFlow, Working
  <2> QED
    BY <2>1, <2>2 DEF Oracle!OracleNext, Oracle!Crash, Oracle!Open
<1>4. AflAction => AflWriteTestcase \/ AflReadStatus \/ UNCHANGED <<run, crashed, verdict>>
  <2>1. AflAction /\ AflTimeout => UNCHANGED <<run, crashed, verdict>>
    BY TimeoutIsHarmless, SMTT(30)
  <2> QED
    BY <2>1, ZenonT(30) DEF AflAction, AflStep, AflHello, AflHelloFailed, AflRequest, AflReadPid, AflEof, AflStop,
                AflKilled, aflBook
<1>5. DriverAction => UNCHANGED <<run, crashed, verdict>>
  BY DEF aflVars, serverVars, serverRest, DriverAction, DriverStep, DriverMapShm, DriverStartServer, DriverWake,
         DriverStartForkserver, DriverTakeRequest, DriverHangup, DriverReadInput, DriverAck,
         DriverTranslate, DriverConnect, DriverQueryDone, DriverQueryLost, DriverRecover,
         DriverEndTestcase, DriverDie
<1>6. ServerAction => (BackendCrash /\ conn.state = "open") \/ UNCHANGED <<run, crashed, verdict>>
  BY QuietServer DEF ServerAction, aflVars
<1> QED
  BY <1>1, <1>2, <1>3, <1>4, <1>5, <1>6, SMTT(30) DEF Next, Finished, vars, aflVars, serverVars

(* The loop of afl-fuzz, driver and server implements the oracle, whether  *)
(* the server was up before the driver or is launched by it.               *)
THEOREM LoopImplementsOracle ==
  ASSUME Quiet
  PROVE  Spec => ImplementsOracle
<1>1. Init => Oracle!OracleInit
  BY DEF Init, AflInit, ServerInit, Oracle!OracleInit, Runs
<1>2. Inv /\ [Next]_vars => [Oracle!OracleNext]_<<run, crashed, verdict>>
  BY OracleStep
<1> QED
  BY <1>1, <1>2, InvHolds, PTL DEF Spec, ImplementsOracle, Oracle!OracleSpec, Oracle!oracleVars
=============================================================================
