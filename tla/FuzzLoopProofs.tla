--------------------------- MODULE FuzzLoopProofs ---------------------------
(***************************************************************************)
(* Proofs about the fuzzing loop, for every value of the constants: its    *)
(* types, and that afl-fuzz and the driver stay in step, both when the     *)
(* server was up before the driver and when the driver launches it.        *)
(***************************************************************************)
EXTENDS FuzzLoop, SequenceTheorems, TLAPS

(***************************************************************************)
(* Why the types are kept: a test case that is executed is one of the      *)
(* runs, so is the one put down to a failure; an execution in progress has *)
(* a number.                                                               *)
(***************************************************************************)
TypeSupport ==
  /\ driver \in {"translate", "execute", "query"} => case \in Runs
  /\ conn.state = "open" => conn.case \in Runs
  /\ afl \in {"request", "pid", "status", "late"} => run \in Runs

TypeInv == TypeOK /\ TypeSupport

(* The assumptions on the constants, as the proofs use them.               *)
LEMMA Constants ==
  /\ MaxRuns \in Nat
  /\ MaxCrashes \in Nat
  /\ ServerPid \in Int
BY MaxRunsAssumption, PgServerAssumption, SMT

(* Every word of the protocol is an integer.                               *)
LEMMA WordsAreIntegers ==
  /\ DriverGreeting \in Int
  /\ RuntimeGreeting(ServerMapSize) \in Int
  /\ ShmatError \in Int
  /\ DoneWord \in Int
  /\ CrashWord \in Int
<1>1. ServerMapSize \in Int
  BY PgServerAssumption, SMT
<1> QED
  BY <1>1, SMT DEF DriverGreeting, RuntimeGreeting, Greeting, ShmatError, DoneWord, CrashWord

(* A word put on the status pipe leaves it a sequence of words.            *)
LEMMA SendKeepsType ==
  ASSUME st \in Seq(Word),
         NEW w \in Int, NEW from \in {"driver", "runtime"}, NEW r \in 0 .. MaxRuns,
         Send(w, from, r)
  PROVE  st' \in Seq(Word)
BY DEF Send, Word

(* The initial states are well typed.                                      *)
LEMMA TypeInit == Init => TypeInv
<1> SUFFICES ASSUME Init PROVE TypeInv
  OBVIOUS
<1>1. ctl \in Seq(Runs) /\ st \in Seq(Word)
  BY DEF Init
<1>2. input \in [case : 0 .. MaxRuns, bytes : {"unread", "read"}]
  BY Constants DEF Init
<1>3. AflTypeOK
  BY Constants DEF Init, AflInit, AflTypeOK, NoWord, Word
<1>4. DriverTypeOK
  BY Constants DEF Init, DriverInit, DriverTypeOK, Booting, ExecutionStatus
<1>5. ServerTypeOK
  BY Constants, InitServerAssumption DEF Init, ServerInit, ServerTypeOK, NoConn
<1>6. TypeSupport
  BY DEF Init, AflInit, DriverInit, ServerInit, NoConn, TypeSupport
<1>7. bitmap \in {"clear", "marked"}
  BY DEF Init
<1> QED
  BY <1>1, <1>2, <1>3, <1>4, <1>5, <1>6, <1>7 DEF TypeInv, TypeOK

(* The words read from the pipes are words, and so is what stays behind.   *)
LEMMA ReadKeepsType ==
  ASSUME st \in Seq(Word), st # <<>>
  PROVE  Head(st) \in Word /\ Head(st).w \in Int /\ Tail(st) \in Seq(Word)
<1>1. Head(st) \in Word /\ Tail(st) \in Seq(Word)
  OBVIOUS
<1> QED
  BY <1>1 DEF Word

(* A failure of the server is put down to a run.                           *)
LEMMA BreakKeepsType ==
  ASSUME conn \in [state : {"none", "open", "lost"}, case : 0 .. MaxRuns],
         crashed \in SUBSET Runs,
         conn.state = "open" => conn.case \in Runs,
         BreakConnection
  PROVE  /\ conn' \in [state : {"none", "open", "lost"}, case : 0 .. MaxRuns]
         /\ crashed' \in SUBSET Runs
         /\ conn'.state = "open" => conn'.case \in Runs
<1>1. CASE conn.state = "open"
  BY <1>1 DEF BreakConnection
<1>2. CASE conn.state # "open"
  BY <1>2 DEF BreakConnection
<1> QED
  BY <1>1, <1>2

(* The steps of afl-fuzz keep the types.                                   *)
LEMMA TypeAfl ==
  ASSUME TypeInv, AflAction
  PROVE  TypeInv'
<1> USE Constants
    DEF TypeInv, TypeOK, TypeSupport, AflTypeOK, DriverTypeOK, ServerTypeOK,
         Runs, Booting, chanVars,
         AflAction, driverOwn, Proceed, Abort, peerVars, aflBook, NoConn, Verdict
<1>1. CASE AflHello
  BY <1>1 DEF AflHello
<1>2. CASE AflHelloFailed
  BY <1>2 DEF AflHelloFailed
<1>3. CASE AflWriteTestcase
  BY <1>3 DEF AflWriteTestcase
<1>4. CASE AflRequest
  <2>1. CASE PeersGone
    BY <1>4, <2>1 DEF AflRequest
  <2>2. CASE ~PeersGone
    <3>1. run \in Runs /\ ctl' = Append(ctl, run)
      BY <1>4, <2>2 DEF AflRequest
    <3>2. ctl' \in Seq(Runs)
      BY <3>1
    <3> QED
      BY <1>4, <2>2, <3>2 DEF AflRequest
  <2> QED
    BY <2>1, <2>2, SMTT(30)
<1>5. CASE AflReadPid
  BY <1>5, ReadKeepsType DEF AflReadPid
<1>6. CASE AflEof
  BY <1>6 DEF AflEof
<1>7. CASE AflReadStatus
  BY <1>7, ReadKeepsType DEF AflReadStatus
<1>8. CASE AflTimeout
  <2>1. CASE childPid = ServerPid /\ child = "alive"
    BY <1>8, <2>1, BreakKeepsType DEF AflTimeout, PostmasterGone
  <2>2. CASE ~(childPid = ServerPid /\ child = "alive")
    <3>1. UNCHANGED <<server, child, conn, crashed>>
      BY <1>8, <2>2 DEF AflTimeout
    <3> QED
      BY <1>8, <3>1 DEF AflTimeout
  <2> QED
    BY <2>1, <2>2, SMTT(30)
<1>9. CASE AflStop
  BY <1>9 DEF AflStop
<1>10. CASE AflKilled
  BY <1>10 DEF AflKilled
<1> QED
  BY <1>1, <1>2, <1>3, <1>4, <1>5, <1>6, <1>7, <1>8, <1>9, <1>10, Zenon DEF AflAction, AflStep

(* The steps of the driver keep the types.                                 *)
LEMMA TypeDriver ==
  ASSUME TypeInv, DriverAction
  PROVE  TypeInv'
<1> USE Constants, WordsAreIntegers, SendKeepsType
    DEF TypeInv, TypeOK, TypeSupport, AflTypeOK, DriverTypeOK, ServerTypeOK,
         Runs, Booting, chanVars,
         DriverAction, aflVars, serverVars, serverRest, NoConn, Reachable,
         ExecutionStatus
<1>1. CASE DriverMapShm
  BY <1>1 DEF DriverMapShm
<1>2. CASE DriverStartServer
  BY <1>2 DEF DriverStartServer
<1>3. CASE DriverWake
  BY <1>3 DEF DriverWake
<1>4. CASE DriverStartForkserver
  BY <1>4 DEF DriverStartForkserver
<1>5. CASE DriverTakeRequest
  BY <1>5, SMTT(30) DEF DriverTakeRequest
<1>6. CASE DriverHangup
  BY <1>6 DEF DriverHangup
<1>7. CASE DriverReadInput
  <2>1. input' \in [case : 0 .. MaxRuns, bytes : {"unread", "read"}]
    BY <1>7, ZenonT(30) DEF DriverReadInput
  <2>2. case' \in 0 .. MaxRuns
    BY <1>7 DEF DriverReadInput
  <2>3. DriverTypeOK' /\ TypeSupport'
    BY <1>7, <2>2 DEF DriverReadInput
  <2>4. UNCHANGED <<ctl, st, bitmap, aflVars, runtime, serverVars>>
    BY <1>7 DEF DriverReadInput
  <2> QED
    BY <2>1, <2>3, <2>4
<1>8. CASE DriverAck
  BY <1>8 DEF DriverAck
<1>9. CASE DriverTranslate
  BY <1>9 DEF DriverTranslate
<1>10. CASE DriverConnect
  BY <1>10 DEF DriverConnect
<1>11. CASE DriverQueryDone
  BY <1>11 DEF DriverQueryDone
<1>12. CASE DriverQueryLost
  BY <1>12 DEF DriverQueryLost
<1>13. CASE DriverRecover
  BY <1>13 DEF DriverRecover
<1>14. CASE DriverEndTestcase
  BY <1>14 DEF DriverEndTestcase
<1>15. CASE DriverDie
  BY <1>15 DEF DriverDie
<1> QED
  BY <1>1, <1>2, <1>3, <1>4, <1>5, <1>6, <1>7, <1>8, <1>9, <1>10,
     <1>11, <1>12, <1>13, <1>14, <1>15, Zenon DEF DriverAction, DriverStep

(* The steps of the server and of the runtime in it keep the types.        *)
LEMMA TypeServer ==
  ASSUME TypeInv, ServerAction
  PROVE  TypeInv'
<1> USE Constants, WordsAreIntegers, SendKeepsType
    DEF TypeInv, TypeOK, TypeSupport, AflTypeOK, DriverTypeOK, ServerTypeOK,
         Runs, Booting, chanVars,
         ServerAction, aflVars, driverVars, RuntimeVars
<1>1. CASE ServerReady
  BY <1>1 DEF ServerReady
<1>2. CASE BackendCrash
  BY <1>2, BreakKeepsType DEF BackendCrash
<1>3. CASE PostmasterExit
  BY <1>3, BreakKeepsType DEF PostmasterExit, PostmasterGone
<1>4. CASE RuntimeGreet
  BY <1>4 DEF RuntimeGreet
<1>5. CASE RuntimeFork
  BY <1>5 DEF RuntimeFork
<1>6. CASE RuntimeHangup
  BY <1>6 DEF RuntimeHangup
<1>7. CASE RuntimeReportPid
  BY <1>7 DEF RuntimeReportPid
<1>8. CASE RuntimeReportExit
  BY <1>8, SMTT(30) DEF RuntimeReportExit
<1> QED
  BY <1>1, <1>2, <1>3, <1>4, <1>5, <1>6, <1>7, <1>8, Zenon DEF ServerAction, ServerNext, RuntimeStep

(* So does every step of the whole.                                        *)
LEMMA TypeStep ==
  ASSUME TypeInv, [Next]_vars
  PROVE  TypeInv'
<1>1. CASE UNCHANGED vars
  BY <1>1 DEF vars, chanVars, aflVars, driverVars, serverVars, TypeInv, TypeOK, TypeSupport,
              AflTypeOK, DriverTypeOK, ServerTypeOK
<1> QED
  BY <1>1, TypeAfl, TypeDriver, TypeServer, Zenon DEF Next, Finished

(* Type correctness of the fuzzing loop: in every reachable state of        *)
(* afl-fuzz, driver and server the variables have their types, whatever     *)
(* fails.                                                                   *)
THEOREM TypeCorrect == Spec => []TypeOK
<1>1. TypeInv /\ [Next]_vars => TypeInv'
  BY TypeStep
<1>2. TypeInv => TypeOK
  BY DEF TypeInv
<1> QED
  BY TypeInit, <1>1, <1>2, PTL DEF Spec
-----------------------------------------------------------------------------

(***************************************************************************)
(* What the invariants behind the verdicts ask of a configuration: either  *)
(* the server was up before the driver, or it may have to be launched and  *)
(* then neither the postmaster nor the driver is killed.                   *)
(***************************************************************************)
Orderly ==
  \/ InitServer = {"up"}
  \/ InitServer \subseteq {"up", "down"} /\ ~MayPanic /\ ~MayDie

(* Short sequences.                                                        *)
LEMMA AppendToOne ==
  ASSUME NEW x, NEW y
  PROVE  Append(<<x>>, y) = <<x, y>>
<1> DEFINE S == {x, y}
           s == Append(<<x>>, y)
           t == <<x, y>>
<1>1. <<x>> \in Seq(S)
  OBVIOUS
<1>2. s \in Seq(S) /\ Len(s) = 2 /\ s[1] = x /\ s[2] = y
  BY <1>1
<1>3. t \in Seq(S) /\ Len(t) = 2 /\ t[1] = x /\ t[2] = y
  OBVIOUS
<1> HIDE DEF S, s, t
<1>4. s = t
  <2>1. \A i \in 1 .. Len(s) : s[i] = t[i]
    BY <1>2, <1>3
  <2> QED
    BY <1>2, <1>3, <2>1, SeqEqual
<1> QED
  BY <1>4 DEF s, t

LEMMA ShortSequences ==
  ASSUME NEW x, NEW y
  PROVE  /\ Append(<<>>, x) = <<x>>
         /\ <<x>> # <<>>
         /\ Len(<<x>>) = 1
         /\ Head(<<x>>) = x
         /\ Tail(<<x>>) = <<>>
         /\ <<x, y>> # <<>>
         /\ Head(<<x, y>>) = x
         /\ Tail(<<x, y>>) = <<y>>
OBVIOUS

(* The words of a run are distinct from a greeting and from one another.   *)
LEMMA WordsDiffer ==
  /\ DoneWord # CrashWord
  /\ DoneWord > 0
  /\ CrashWord > 0
  /\ DriverGreeting < 0
  /\ ~IsErrorReport(DriverGreeting)
  /\ ~IsErrorReport(RuntimeGreeting(ServerMapSize))
  /\ ServerPid > 0
  /\ ServerPid # DoneWord
BY PgServerAssumption, SMT
   DEF DoneWord, CrashWord, DriverGreeting, RuntimeGreeting, Greeting, IsErrorReport

(* Lockstep holds at the start.                                            *)
LEMMA LockstepInit ==
  ASSUME Orderly, Init
  PROVE  Lockstep
BY DEF Orderly, Init, AflInit, DriverInit, ServerInit, Lockstep, Attached, CaseFlow,
       Phase, InStep, Booting, Working, AflGone, NoConn

(* A timeout finds the driver at work and never the pid of the server, so  *)
(* it only makes the run late.                                             *)
LEMMA TimeoutIsHarmless ==
  ASSUME Lockstep, AflAction, AflTimeout
  PROVE  /\ InStep /\ afl = "status" /\ afl' = "late"
         /\ UNCHANGED <<ctl, st, input, bitmap, run, verdict, source, driver, drun, case, outcome,
                        leaked, runtime, server, child, conn, crashes, crashed>>
<1>1. afl = "status" /\ st = <<>> /\ driver \notin Booting /\ ~AflGone
  BY DEF AflTimeout, AflGone
<1>2. InStep
  BY <1>1, ShortSequences DEF Lockstep, Phase, Launching, Doomed, Booting
<1>3. childPid # ServerPid
  BY <1>1, <1>2, WordsDiffer DEF InStep
<1> QED
  BY <1>1, <1>2, <1>3 DEF AflTimeout, AflAction, chanVars, aflBook, driverOwn

(* What an action of afl-fuzz does to the others: it kills them all, or it *)
(* stops them, or it leaves them alone.                                    *)
LEMMA AflLeavesPeers ==
  ASSUME Lockstep, AflAction
  PROVE  /\ UNCHANGED <<drun, case, outcome, leaked, crashes, crashed>>
         /\ \/ UNCHANGED <<driver, runtime, server, child, conn>>
            \/ driver' = "dead" /\ conn' = NoConn /\ runtime' \in {runtime, "none"} /\ AflGone'
         /\ AflGone => AflGone'
<1>1. CASE AflTimeout
  BY <1>1, TimeoutIsHarmless DEF AflGone
<1>2. CASE AflStop
  BY <1>2 DEF AflStop, AflAction, driverOwn, AflGone
<1>3. CASE AflStep \/ AflKilled
  <2>1. UNCHANGED <<drun, case, outcome, leaked, crashes, crashed>>
    BY <1>3 DEF AflAction, driverOwn, AflStep, AflHello, AflHelloFailed, AflWriteTestcase, AflRequest,
           AflReadPid, AflReadStatus, AflEof, AflKilled
  <2>2. Abort \/ UNCHANGED <<driver, runtime, server, child, conn>>
    BY <1>3 DEF AflStep, AflHello, AflHelloFailed, AflWriteTestcase, AflRequest,
           AflReadPid, AflReadStatus, AflEof, AflKilled, Proceed, peerVars
  <2>3. AflGone => AflGone'
    BY <1>3 DEF AflStep, AflHello, AflHelloFailed, AflWriteTestcase, AflRequest,
           AflReadPid, AflReadStatus, AflEof, AflKilled, AflGone
  <2> QED
    BY <2>1, <2>2, <2>3, SMTT(30) DEF Abort, AflGone
<1> QED
  BY <1>1, <1>2, <1>3 DEF AflAction

(* afl-fuzz keeps what driver and server have with each other.             *)
LEMMA AttachedAfl ==
  ASSUME Lockstep, AflAction
  PROVE  Attached'
<1>1. CASE UNCHANGED <<driver, runtime, server, child, conn>>
  BY <1>1, AflLeavesPeers DEF Lockstep, Attached, Booting
<1>2. CASE driver' = "dead" /\ conn' = NoConn /\ runtime' \in {runtime, "none"}
  BY <1>2 DEF Lockstep, Attached, Booting, NoConn
<1> QED
  BY <1>1, <1>2, AflLeavesPeers

(* The test case file and the control pipe are written for the next run    *)
(* when the driver is through with the last one.                           *)
LEMMA CaseFlowAfl ==
  ASSUME TypeInv, Lockstep, AflAction
  PROVE  CaseFlow'
<1>1. CASE AflWriteTestcase
  <2>1. ctl = <<>> /\ driver \notin {"input", "ack"} \union Working
    BY <1>1 DEF AflWriteTestcase, Lockstep, Phase, AflGone, InStep, Launching, Doomed, Working
  <2>2. run' = run + 1 /\ run' > 0 /\ input' = [case |-> run', bytes |-> "unread"]
    BY <1>1 DEF AflWriteTestcase, TypeInv, TypeOK, AflTypeOK
  <2> QED
    BY <1>1, <2>1, <2>2 DEF AflWriteTestcase, Proceed, peerVars, CaseFlow, Working
<1>2. CASE AflRequest
  <2>1. ctl = <<>> /\ driver \notin {"input", "ack"} \union Working
    BY <1>2 DEF AflRequest, Lockstep, Phase, AflGone, InStep, Launching, Doomed, Working
  <2>2. ctl' \in {<<>>, <<run>>} /\ UNCHANGED <<run, input>>
    BY <1>2, <2>1, ShortSequences DEF AflRequest, aflBook
  <2>3. driver' \in {driver, "dead"} /\ afl' # "request"
    BY <1>2 DEF AflRequest, Proceed, peerVars, Abort
  <2>4. input = [case |-> run, bytes |-> "unread"] /\ run > 0
    BY <1>2 DEF AflRequest, Lockstep, CaseFlow
  <2> QED
    BY <2>1, <2>2, <2>3, <2>4 DEF CaseFlow, Working
<1>3. CASE ~AflWriteTestcase /\ ~AflRequest
  <2>1. UNCHANGED <<ctl, input, run>> /\ afl' # "request"
    BY <1>3, TimeoutIsHarmless
       DEF AflAction, AflStep, AflHello, AflHelloFailed, AflReadPid, AflReadStatus, AflEof, AflStop,
           AflKilled, Proceed, Abort, chanVars, aflBook
  <2>2. driver' \in {driver, "dead"} /\ UNCHANGED <<drun, case>>
    BY AflLeavesPeers
  <2> QED
    BY <2>1, <2>2, SMTT(30) DEF Lockstep, CaseFlow, Working
<1> QED
  BY <1>1, <1>2, <1>3

(* afl-fuzz reads the words of an ordinary run where it expects them.      *)
LEMMA InStepAfl ==
  ASSUME Lockstep, InStep, AflAction
  PROVE  InStep' \/ AflGone'
<1> USE DEF AflAction, Proceed, peerVars, aflBook
<1>0. Abort => AflGone'
  BY DEF Abort, AflGone
<1>1. CASE AflHello
  <2>1. CASE IsErrorReport(Head(st).w)
    BY <1>0, <1>1, <2>1 DEF AflHello
  <2>2. CASE ~IsErrorReport(Head(st).w)
    <3>1. UNCHANGED <<driver, runtime, child, ctl>> /\ afl' = "idle" /\ runtime = "none"
      BY <1>1, <2>2 DEF AflHello, InStep
    <3>2. driver \in {"wait", "dead"} /\ Len(st) = 1 /\ ctl = <<>>
      BY <1>1, ShortSequences DEF AflHello, InStep, Booting
    <3>3. st' = <<>>
      BY <1>1, <3>2, ShortSequences, ZenonT(30) DEF AflHello, InStep
    <3> QED
      BY <3>1, <3>2, <3>3 DEF InStep, Working, Booting
  <2> QED
    BY <2>1, <2>2, SMTT(30)
<1>2. CASE AflHelloFailed
  BY <1>0, <1>2, SMTT(30) DEF AflHelloFailed
<1>3. CASE AflWriteTestcase
  BY <1>3 DEF AflWriteTestcase, InStep, Working
<1>4. CASE AflRequest
  <2>1. CASE PeersGone
    BY <1>0, <1>4, <2>1 DEF AflRequest
  <2>2. CASE ~PeersGone
    <3>1. UNCHANGED <<driver, runtime, child, st, run>> /\ afl' = "pid" /\ ctl' = <<run>>
      BY <1>4, <2>2, ShortSequences, SMTT(30) DEF AflRequest, InStep
    <3> QED
      BY <1>4, <3>1 DEF AflRequest, InStep, Working
  <2> QED
    BY <2>1, <2>2
<1>5. CASE AflReadPid
  <2>1. ctl = <<>> /\ driver # "input" /\ driver # "ack"
    BY <1>5 DEF AflReadPid, InStep, Working
  <2>2. Head(st) = Ack(run)
    BY <1>5, ShortSequences DEF AflReadPid, InStep
  <2>3. Head(st).w = DoneWord /\ ~(Head(st).w <= 0)
    BY <2>2, WordsDiffer, WordsAreIntegers, SMTT(30) DEF Ack
  <2>4. /\ afl' = "status" /\ childPid' = DoneWord /\ UNCHANGED <<driver, runtime, child, ctl, run>>
        /\ st' = Tail(st)
    BY <1>5, <2>3, SMTT(30) DEF AflReadPid
  <2>5. CASE st = <<Ack(run)>> /\ driver \in Working \union {"dead"}
    <3>1. st' = <<>>
      BY <2>4, <2>5, ShortSequences
    <3> QED
      BY <2>1, <2>4, <2>5, <3>1 DEF InStep, Working
  <2>6. CASE (\E f \in Final(run) : st = <<Ack(run), f>>) /\ driver \in {"wait", "dead"}
    <3>1. PICK f \in Final(run) : st = <<Ack(run), f>>
      BY <2>6
    <3>2. st' = <<f>>
      BY <2>4, <3>1, ShortSequences
    <3> QED
      BY <2>1, <2>4, <2>6, <3>2 DEF InStep, Working, Final
  <2> QED
    BY <1>5, <2>5, <2>6, SMTT(30) DEF AflReadPid, InStep
<1>6. CASE AflEof
  BY <1>0, <1>6 DEF AflEof
<1>7. CASE AflReadStatus
  <2>1. ctl = <<>> /\ driver \in {"wait", "dead"}
    BY <1>7 DEF AflReadStatus, InStep
  <2>2. PICK f \in Final(run) : st = <<f>>
    BY <1>7 DEF AflReadStatus, InStep
  <2>3. st' = <<>> /\ ctl' = <<>> /\ afl' = "idle" /\ UNCHANGED <<driver, runtime, child>>
    BY <1>7, <2>1, <2>2, ShortSequences DEF AflReadStatus
  <2> QED
    BY <1>7, <2>1, <2>3 DEF InStep, Working
<1>8. CASE AflTimeout
  <2>1. UNCHANGED <<ctl, st, run, driver, runtime, child>> /\ afl = "status" /\ afl' = "late"
    BY <1>8, TimeoutIsHarmless
  <2> QED
    BY <2>1 DEF InStep, Working, Final, Ack
<1>9. CASE AflStop \/ AflKilled
  BY <1>9 DEF AflStop, AflKilled, AflGone
<1> QED
  BY <1>1, <1>2, <1>3, <1>4, <1>5, <1>6, <1>7, <1>8, <1>9, Zenon DEF AflAction, AflStep

(* While the server is launched, afl-fuzz reads the runtime's greeting for *)
(* the driver's, its child's process id for the driver's and the driver's  *)
(* greeting for a status, or the driver's greeting for a failed fork.      *)
LEMMA LaunchingAfl ==
  ASSUME TypeInv, Lockstep, Launching, AflAction
  PROVE  (InStep' /\ afl' = "idle") \/ Launching' \/ Doomed' \/ AflGone'
<1> USE DEF AflAction, Proceed, peerVars, aflBook
<1>0. Abort => AflGone'
  BY DEF Abort, AflGone
<1>1. CASE AflHello
  <2>1. runtime = "reading" /\ ctl = <<>> /\ st = Followed(RuntimeHello) /\ run = 0
    BY <1>1 DEF AflHello, Launching
  <2>2. Head(st) = RuntimeHello /\ st' = IF driver = "wait" THEN <<HelloWord>> ELSE <<>>
    BY <1>1, <2>1, ShortSequences DEF AflHello, Followed
  <2>3. ~IsErrorReport(Head(st).w)
    BY <2>2, WordsDiffer DEF RuntimeHello
  <2>4. afl' = "idle" /\ UNCHANGED <<driver, runtime, child, server, ctl, run, crashed>>
    BY <1>1, <2>3 DEF AflHello
  <2> QED
    BY <2>1, <2>2, <2>4 DEF Launching
<1>2. CASE AflWriteTestcase
  <2>1. /\ afl = "idle" /\ afl' = "request" /\ run' = 1
        /\ UNCHANGED <<driver, runtime, child, server, ctl, st, crashed>>
    BY <1>2 DEF AflWriteTestcase, Launching
  <2> QED
    BY <2>1 DEF Launching
<1>3. CASE AflRequest
  <2>1. runtime = "reading" /\ ctl = <<>> /\ run = 1 /\ afl = "request"
    BY <1>3 DEF AflRequest, Launching
  <2>2. afl' = "pid" /\ ctl' = <<run>> /\ UNCHANGED <<driver, runtime, child, server, st, run, crashed>>
    BY <1>3, <2>1, ShortSequences DEF AflRequest, PeersGone
  <2>3. CASE driver = "wait"
    BY <2>1, <2>2, <2>3, ShortSequences DEF Launching, Doomed
  <2>4. CASE driver # "wait"
    BY <2>1, <2>2, <2>4 DEF Launching
  <2> QED
    BY <2>3, <2>4
<1>4. CASE AflReadPid
  <2>1. runtime = "waiting" /\ ctl = <<>> /\ run = 1 /\ st = Followed(PidWord)
    BY <1>4 DEF AflReadPid, Launching
  <2>2. Head(st) = PidWord /\ st' = IF driver = "wait" THEN <<HelloWord>> ELSE <<>>
    BY <1>4, <2>1, ShortSequences DEF AflReadPid, Followed
  <2>3. ~(Head(st).w <= 0)
    BY <2>2, WordsDiffer, Constants DEF PidWord
  <2>4. afl' = "status" /\ UNCHANGED <<driver, runtime, child, server, ctl, run, crashed>>
    BY <1>4, <2>3 DEF AflReadPid
  <2> QED
    BY <2>1, <2>2, <2>4 DEF Launching
<1>5. CASE AflReadStatus
  <2>1. /\ runtime = "waiting" /\ child = "alive" /\ ctl = <<>> /\ driver = "wait"
        /\ st = <<HelloWord>>
    BY <1>5 DEF AflReadStatus, Launching
  <2>2. afl' = "idle" /\ st' = <<>> /\ UNCHANGED <<driver, runtime, child, ctl>>
    BY <1>5, <2>1, ShortSequences DEF AflReadStatus
  <2> QED
    BY <2>1, <2>2 DEF InStep, Working
<1>6. CASE AflHelloFailed \/ AflEof
  BY <1>0, <1>6, SMTT(30) DEF AflHelloFailed, AflEof
<1>7. CASE AflTimeout
  BY <1>7, ShortSequences DEF AflTimeout, Launching, Booting
<1>8. CASE AflStop \/ AflKilled
  BY <1>8 DEF AflStop, AflKilled, AflGone
<1> QED
  BY <1>1, <1>2, <1>3, <1>4, <1>5, <1>6, <1>7, <1>8, Zenon DEF AflAction, AflStep

(* A greeting in the place of a process id ends the session.               *)
LEMMA DoomedAfl ==
  ASSUME Doomed, AflAction
  PROVE  AflGone'
<1>1. CASE AflReadPid
  <2>1. Head(st).w <= 0
    BY WordsDiffer, WordsAreIntegers DEF Doomed, HelloWord
  <2> QED
    BY <1>1, <2>1 DEF AflReadPid, Abort, AflGone
<1>2. CASE AflStop \/ AflKilled
  BY <1>2 DEF AflStop, AflKilled, Proceed, AflGone
<1> QED
  BY <1>1, <1>2 DEF Doomed, AflAction, AflStep, AflTimeout, AflHello, AflHelloFailed, AflWriteTestcase,
                    AflRequest, AflEof, AflReadStatus

(* The driver launches a server only when it finds none.                   *)
LEMMA AttachedDriver ==
  ASSUME Orderly, TypeInv, Lockstep, DriverAction
  PROVE  Attached'
<1> USE Constants DEF Lockstep, Attached, Booting, serverVars, serverRest, NoConn
<1>1. CASE DriverMapShm
  BY <1>1 DEF DriverMapShm
<1>2. CASE DriverStartServer
  BY <1>2 DEF DriverStartServer, Reachable
<1>3. CASE DriverWake
  BY <1>3 DEF DriverWake
<1>4. CASE DriverStartForkserver
  BY <1>4 DEF DriverStartForkserver
<1>5. CASE DriverTakeRequest
  BY <1>5 DEF DriverTakeRequest
<1>6. CASE DriverHangup
  BY <1>6 DEF DriverHangup
<1>7. CASE DriverReadInput
  BY <1>7 DEF DriverReadInput
<1>8. CASE DriverAck
  BY <1>8 DEF DriverAck
<1>9. CASE DriverTranslate
  BY <1>9 DEF DriverTranslate
<1>10. CASE DriverConnect
  BY <1>10 DEF DriverConnect
<1>11. CASE DriverQueryDone
  BY <1>11 DEF DriverQueryDone
<1>12. CASE DriverQueryLost
  BY <1>12 DEF DriverQueryLost
<1>13. CASE DriverRecover
  BY <1>13 DEF DriverRecover
<1>14. CASE DriverEndTestcase
  BY <1>14 DEF DriverEndTestcase
<1>15. CASE DriverDie
  BY <1>15 DEF DriverDie
<1> QED
  BY <1>1, <1>2, <1>3, <1>4, <1>5, <1>6, <1>7, <1>8, <1>9, <1>10, <1>11, <1>12, <1>13, <1>14, <1>15, Zenon DEF DriverAction, DriverStep

(* The driver takes the request and then the test case that goes with it.  *)
LEMMA CaseFlowDriver ==
  ASSUME TypeInv, Lockstep, DriverAction
  PROVE  CaseFlow'
<1>0. UNCHANGED <<afl, run>>
  BY DEF DriverAction, aflVars
<1>1. CASE DriverTakeRequest
  <2>1. ctl = <<run>> /\ ctl' = <<>> /\ drun' = run /\ driver' = "input" /\ UNCHANGED <<input, case>>
    BY <1>1, ShortSequences, ZenonT(30) DEF DriverTakeRequest, Lockstep, CaseFlow
  <2>2. input = [case |-> run, bytes |-> "unread"] /\ run > 0
    BY <1>1, SMTT(30) DEF DriverTakeRequest, Lockstep, CaseFlow
  <2>3. afl # "request"
    BY <1>1, <2>1, ShortSequences DEF DriverTakeRequest, Lockstep, Phase, AflGone, InStep, Launching, Doomed
  <2> QED
    BY <1>0, <2>1, <2>2, <2>3 DEF CaseFlow, Working
<1>2. CASE DriverReadInput
  <2>1. driver' = "ack" /\ case' = drun /\ UNCHANGED <<ctl, drun>> /\ drun = run /\ run > 0
    BY <1>2 DEF DriverReadInput, Lockstep, CaseFlow
  <2>2. ctl = <<>> /\ afl # "request"
    BY <1>2, ShortSequences DEF DriverReadInput, Lockstep, CaseFlow, Phase, AflGone, InStep, Launching, Doomed
  <2> QED
    BY <1>0, <2>1, <2>2 DEF CaseFlow, Working
<1>3. CASE ~DriverTakeRequest /\ ~DriverReadInput
  <2>1. UNCHANGED <<ctl, input, drun, case>> /\ driver' # "input"
    BY <1>3, SMTT(30) DEF DriverAction, DriverStep, DriverMapShm, DriverStartServer, DriverWake,
                DriverStartForkserver, DriverHangup, DriverAck, DriverTranslate, DriverConnect,
                DriverQueryDone, DriverQueryLost, DriverRecover, DriverEndTestcase, DriverDie, chanVars
  <2>2. driver' \in {"ack"} \union Working => driver \in {"ack"} \union Working
    BY <1>3 DEF DriverAction, DriverStep, DriverMapShm, DriverStartServer, DriverWake,
                DriverStartForkserver, DriverHangup, DriverAck, DriverTranslate, DriverConnect,
                DriverQueryDone, DriverQueryLost, DriverRecover, DriverEndTestcase, DriverDie, Working
  <2> QED
    BY <1>0, <2>1, <2>2, SMTT(30) DEF Lockstep, CaseFlow
<1> QED
  BY <1>1, <1>2, <1>3

(* What the driver puts on the status pipe follows what is there.          *)
LEMMA DriverAppends ==
  ASSUME DriverAction
  PROVE  st' = st \/ \E word \in [w : Int, from : {"driver"}, run : {0, drun}] : st' = Append(st, word)
BY WordsAreIntegers, SMTT(30)
   DEF DriverAction, DriverStep, DriverMapShm, DriverStartServer, DriverWake, DriverStartForkserver, DriverTakeRequest, DriverHangup, DriverReadInput, DriverAck,
       DriverTranslate, DriverConnect, DriverQueryDone, DriverQueryLost, DriverRecover, DriverEndTestcase, DriverDie, chanVars, Send

(* The driver answers the request that it took, in two words.              *)
LEMMA InStepDriver ==
  ASSUME Orderly, TypeInv, Lockstep, InStep, ~AflGone, DriverAction
  PROVE  InStep' \/ Launching'
<1> USE DEF DriverAction, aflVars, chanVars, serverVars, serverRest, Booting, Working
<1>0. UNCHANGED <<afl, run, childPid>> /\ ~AflGone'
  BY SMTT(30) DEF AflGone
<1>1. CASE DriverMapShm
  <2>1. afl = "hello" /\ ctl = <<>> /\ st = <<>> /\ runtime = "none"
    BY <1>1 DEF DriverMapShm, InStep, TypeInv, TypeOK, AflTypeOK, AflGone
  <2>2. /\ UNCHANGED <<ctl, runtime>>
        /\ (driver' = "check" /\ st' = <<>>) \/ (driver' = "dead" /\ st' = <<ErrorWord>>)
    BY <1>1, <2>1, ShortSequences DEF DriverMapShm, Send, ErrorWord
  <2> QED
    BY <1>0, <2>1, <2>2, SMTT(30) DEF InStep
<1>2. CASE DriverStartServer
  <2>1. afl = "hello" /\ ctl = <<>> /\ st = <<>> /\ runtime = "none"
    BY <1>2, SMTT(30) DEF DriverStartServer, InStep, TypeInv, TypeOK, AflTypeOK, AflGone
  <2>2. CASE Reachable
    BY <1>0, <1>2, <2>1, <2>2, SMTT(30) DEF DriverStartServer, InStep
  <2>3. CASE ~Reachable
    <3>1. server = "down" /\ child = "none" /\ crashed = {} /\ run = 0
      BY <1>2, <2>1, <2>3, Constants, SMTT(30) DEF DriverStartServer, Reachable, Lockstep, Attached, InStep
    <3> QED
      BY <1>0, <1>2, <2>1, <2>3, <3>1, SMTT(30) DEF DriverStartServer, Launching
  <2> QED
    BY <2>2, <2>3, SMTT(30)
<1>3. CASE DriverWake
  BY <1>3, SMTT(30) DEF DriverWake, InStep, TypeInv, TypeOK, AflTypeOK, AflGone
<1>4. CASE DriverStartForkserver
  <2>1. afl = "hello" /\ ctl = <<>> /\ st = <<>> /\ runtime = "none"
    BY <1>4, SMTT(30) DEF DriverStartForkserver, InStep, TypeInv, TypeOK, AflTypeOK, AflGone
  <2>2. driver' = "wait" /\ st' = <<HelloWord>> /\ UNCHANGED <<ctl, runtime>>
    BY <1>4, <2>1, ShortSequences, SMTT(30) DEF DriverStartForkserver, Send, HelloWord
  <2> QED
    BY <1>0, <2>1, <2>2, SMTT(30) DEF InStep
<1>5. CASE DriverTakeRequest
  <2>1. afl = "pid" /\ ctl = <<run>> /\ st = <<>>
    BY <1>5 DEF DriverTakeRequest, InStep, TypeInv, TypeOK, AflTypeOK, AflGone
  <2>2. ctl' = <<>> /\ driver' = "input" /\ UNCHANGED <<st, runtime, child>>
    BY <1>5, <2>1, ShortSequences DEF DriverTakeRequest
  <2> QED
    BY <1>0, <2>1, <2>2, SMTT(30) DEF InStep
<1>6. CASE DriverHangup
  BY <1>6 DEF DriverHangup
<1>7. CASE DriverReadInput
  BY <1>0, <1>7, SMTT(30) DEF DriverReadInput, InStep
<1>8. CASE DriverAck
  <2>1. afl = "pid" /\ ctl = <<>> /\ st = <<>>
    BY <1>8, SMTT(30) DEF DriverAck, InStep
  <2>2. st' = <<Ack(run)>> /\ driver' \in {"translate", "dead"} /\ UNCHANGED <<ctl, runtime, child>>
    BY <1>8, <2>1, ShortSequences DEF DriverAck, Lockstep, CaseFlow, Send, Ack
  <2> QED
    BY <1>0, <2>1, <2>2, SMTT(30) DEF InStep, Ack
<1>9. CASE DriverEndTestcase
  <2> DEFINE f == [w |-> IF outcome = "kServerCrash" THEN CrashWord ELSE DoneWord,
                   from |-> "driver", run |-> drun]
  <2>1. f \in Final(run)
    BY <1>9 DEF DriverEndTestcase, Lockstep, CaseFlow, Final
  <2>2. st' = Append(st, f) /\ driver' = "wait" /\ UNCHANGED <<ctl, runtime, child>>
    BY <1>9, ZenonT(30) DEF DriverEndTestcase, Send
  <2>3. /\ ctl = <<>>
        /\ (afl = "pid" /\ st = <<Ack(run)>>) \/ (afl \in {"status", "late"} /\ st = <<>>)
    BY <1>9, SMTT(30) DEF DriverEndTestcase, InStep
  <2> HIDE DEF f
  <2>4. CASE afl = "pid" /\ st = <<Ack(run)>>
    <3>1. st' = <<Ack(run), f>>
      BY <2>2, <2>4, AppendToOne, SMTT(30)
    <3> QED
      BY <1>0, <2>1, <2>2, <2>3, <2>4, <3>1, ZenonT(30) DEF InStep, Ack, Final
  <2>5. CASE afl \in {"status", "late"} /\ st = <<>>
    <3>1. st' = <<f>>
      BY <2>2, <2>5, ShortSequences, SMTT(30)
    <3> QED
      BY <1>0, <2>1, <2>2, <2>3, <2>5, <3>1 DEF InStep, Final
  <2> QED
    BY <2>3, <2>4, <2>5, SMTT(30)
<1>10. CASE DriverTranslate \/ DriverConnect \/ DriverQueryDone \/ DriverQueryLost \/ DriverRecover
  <2>1. driver \in Working /\ driver' \in Working /\ UNCHANGED <<ctl, st, runtime, child>>
    BY <1>10, SMTT(30) DEF DriverTranslate, DriverConnect, DriverQueryDone, DriverQueryLost, DriverRecover
  <2> QED
    BY <1>0, <2>1, SMTT(30) DEF InStep, Ack, Final
<1>11. CASE DriverDie
  <2>1. runtime = "none" /\ driver' = "dead" /\ UNCHANGED <<ctl, st, runtime, child>>
    BY <1>11, SMTT(30) DEF DriverDie, Orderly, Lockstep, Attached
  <2> QED
    BY <1>0, <2>1 DEF InStep, Ack, Final
<1> QED
  BY <1>1, <1>2, <1>3, <1>4, <1>5, <1>6, <1>7, <1>8, <1>9, <1>10, <1>11, Zenon DEF DriverAction, DriverStep

(* A driver that launched the server sleeps until the runtime has greeted, *)
(* then it greets, too.                                                    *)
LEMMA LaunchingDriver ==
  ASSUME Orderly, Lockstep, Launching, ~AflGone, DriverAction
  PROVE  Launching' \/ Doomed'
<1>0. UNCHANGED <<afl, run>>
  BY SMTT(30) DEF DriverAction, aflVars
<1>1. CASE DriverWake
  <2>1. /\ driver = "sleep" /\ driver' = "prepare" /\ runtime # "launched"
        /\ UNCHANGED <<ctl, st, runtime, server, child, crashed>>
    BY <1>1, SMTT(30) DEF DriverWake, chanVars, serverVars
  <2> QED
    BY <1>0, <2>1 DEF Launching, Followed
<1>2. CASE DriverStartForkserver
  <2>1. /\ driver = "prepare" /\ driver' = "wait" /\ st' = Append(st, HelloWord)
        /\ UNCHANGED <<ctl, runtime, server, child, crashed>>
    BY <1>2 DEF DriverStartForkserver, serverVars, Send, HelloWord
  <2>2. CASE st = <<>> /\ afl = "pid"
    <3>1. st' = <<HelloWord>>
      BY <2>1, <2>2, ShortSequences
    <3>2. runtime # "none" /\ run = 1
      BY <2>2, SMTT(30) DEF Launching
    <3> QED
      BY <1>0, <2>1, <2>2, <3>1, <3>2, ShortSequences DEF Doomed
  <2>3. CASE st = <<>> /\ afl # "pid"
    <3>1. st' = <<HelloWord>>
      BY <2>1, <2>3, ShortSequences, SMTT(30)
    <3> QED
      BY <1>0, <2>1, <2>3, <3>1, ShortSequences DEF Launching, Followed
  <2>4. CASE \E word : st = <<word>>
    <3>1. PICK word : st = <<word>>
      BY <2>4
    <3>2. st' = <<word, HelloWord>>
      BY <2>1, <3>1, AppendToOne
    <3>3. st = Followed(word) /\ st' = Followed(word)'
      BY <2>1, <3>1, <3>2, ZenonT(30) DEF Followed
    <3> QED
      BY <1>0, <2>1, <3>1, <3>2, ShortSequences, ZenonT(30) DEF Launching, Followed
  <2> QED
    BY <2>1, <2>2, <2>3, <2>4, ZenonT(30) DEF Launching, Followed
<1>3. CASE DriverTakeRequest
  BY <1>3, ShortSequences, SMTT(30) DEF DriverTakeRequest, Launching
<1>4. CASE DriverDie
  BY <1>4 DEF DriverDie, Orderly, Lockstep, Attached, Launching
<1> QED
  BY <1>1, <1>2, <1>3, <1>4
     DEF Launching, DriverAction, DriverStep, DriverMapShm, DriverStartServer, DriverHangup,
         DriverReadInput, DriverAck, DriverTranslate, DriverConnect, DriverQueryDone, DriverQueryLost,
         DriverRecover, DriverEndTestcase

(* Whatever is sent after the driver's greeting, the greeting is read      *)
(* first.                                                                  *)
LEMMA HeadStays ==
  ASSUME NEW s \in Seq(Word), s # <<>>, NEW word
  PROVE  Append(s, word) # <<>> /\ Head(Append(s, word)) = Head(s)
OBVIOUS

LEMMA DoomedDriver ==
  ASSUME TypeInv, Lockstep, Doomed, DriverAction
  PROVE  Doomed'
<1>1. UNCHANGED <<afl, run>>
  BY DEF DriverAction, aflVars
<1>2. runtime' = runtime
  BY DEF Doomed, Lockstep, Attached, DriverAction, DriverStep, DriverMapShm, DriverStartServer, DriverWake, DriverStartForkserver, DriverTakeRequest,
         DriverHangup, DriverReadInput, DriverAck, DriverTranslate, DriverConnect,
         DriverQueryDone, DriverQueryLost, DriverRecover, DriverEndTestcase, DriverDie
<1>3. st' # <<>> /\ Head(st') = Head(st)
  BY DriverAppends, HeadStays DEF Doomed, TypeInv, TypeOK
<1> QED
  BY <1>1, <1>2, <1>3 DEF Doomed

(* The server and the runtime in it.                                       *)
LEMMA AttachedServer ==
  ASSUME Orderly, Lockstep, ServerAction
  PROVE  Attached'
<1>0. UNCHANGED <<driver, leaked>>
  BY DEF ServerAction, driverVars
<1>1. CASE ServerReady
  BY <1>0, <1>1 DEF ServerReady, Lockstep, Attached
<1>2. CASE BackendCrash \/ PostmasterExit
  <2>1. driver \notin Booting /\ runtime' = runtime
    BY <1>2 DEF BackendCrash, PostmasterExit, Lockstep, Attached, Booting
  <2>2. conn' = conn \/ conn.state = "open"
    BY <1>2 DEF BackendCrash, PostmasterExit, PostmasterGone, BreakConnection
  <2> QED
    BY <1>0, <2>1, <2>2 DEF Lockstep, Attached, Booting
<1>3. CASE RuntimeStep
  <2>1. runtime # "none" /\ UNCHANGED <<conn, crashed>>
    BY <1>3 DEF RuntimeStep, RuntimeGreet, RuntimeFork, RuntimeHangup, RuntimeReportPid,
                RuntimeReportExit, RuntimeVars
  <2> QED
    BY <1>0, <2>1, SMTT(30) DEF Lockstep, Attached
<1> QED
  BY <1>1, <1>2, <1>3 DEF ServerAction, ServerNext

(* The runtime may win a request; the test case file is not its business.  *)
LEMMA CaseFlowServer ==
  ASSUME Lockstep, ServerAction
  PROVE  CaseFlow'
<1>1. UNCHANGED <<afl, run, input, driver, drun, case>>
  BY SMTT(30) DEF ServerAction, ServerNext, aflVars, driverVars, chanVars, ServerReady, BackendCrash, PostmasterExit,
         RuntimeStep, RuntimeGreet, RuntimeFork, RuntimeHangup, RuntimeReportPid, RuntimeReportExit,
         RuntimeVars
<1>2. ctl' = ctl \/ ctl' = <<>>
  <2>1. CASE RuntimeFork
    BY <2>1, ShortSequences, SMTT(30) DEF RuntimeFork, Lockstep, CaseFlow
  <2> QED
    BY <2>1 DEF ServerAction, ServerNext, chanVars, ServerReady, BackendCrash, PostmasterExit,
                RuntimeStep, RuntimeGreet, RuntimeHangup, RuntimeReportPid, RuntimeReportExit
<1> QED
  BY <1>1, <1>2, SMTT(30) DEF Lockstep, CaseFlow

(* Once the runtime waits for its child it is out of the way.              *)
LEMMA InStepServer ==
  ASSUME Orderly, Lockstep, InStep, ServerAction
  PROVE  InStep'
<1>1. ~RuntimeStep
  BY DEF InStep, RuntimeStep, RuntimeGreet, RuntimeFork, RuntimeHangup, RuntimeReportPid, RuntimeReportExit
<1>2. UNCHANGED <<afl, run, childPid, driver, ctl, st, runtime>>
  BY <1>1 DEF ServerAction, ServerNext, aflVars, driverVars, chanVars, ServerReady, BackendCrash,
              PostmasterExit
<1>3. runtime # "none" => child' = child
  BY <1>1 DEF ServerAction, ServerNext, ServerReady, BackendCrash, PostmasterExit, Orderly, Lockstep, Attached
<1> QED
  BY <1>2, <1>3 DEF InStep, Ack, Final

(* The runtime greets, wins the first request and forks the server proper. *)
LEMMA LaunchingServer ==
  ASSUME Orderly, Lockstep, Launching, ~AflGone, ServerAction
  PROVE  Launching'
<1>0. UNCHANGED <<afl, run, driver>>
  BY DEF ServerAction, aflVars, driverVars
<1>1. conn.state # "open"
  BY SMTT(30) DEF Launching, Lockstep, Attached
<1>2. CASE ServerReady \/ BackendCrash
  <2>1. UNCHANGED <<ctl, st, runtime, child, crashed>> /\ server # "down"
    BY <1>1, <1>2, SMTT(30) DEF ServerReady, BackendCrash, BreakConnection, chanVars
  <2> QED
    BY <1>0, <2>1 DEF Launching, Followed
<1>3. CASE PostmasterExit
  BY <1>3, SMTT(30) DEF PostmasterExit, Orderly, Lockstep, Attached, Launching
<1>4. CASE RuntimeGreet
  <2>1. /\ driver = "sleep" /\ afl = "hello" /\ ctl = <<>> /\ st = <<>>
        /\ child = "none" /\ server = "down"
    BY <1>4 DEF RuntimeGreet, Launching
  <2>2. /\ runtime' = "reading" /\ st' = <<RuntimeHello>>
        /\ UNCHANGED <<ctl, server, child, crashed>>
    BY <1>4, <2>1, ShortSequences, SMTT(30) DEF RuntimeGreet, RuntimeVars, Send, RuntimeHello
  <2> QED
    BY <1>0, <2>1, <2>2, SMTT(30) DEF Launching, Followed
<1>5. CASE RuntimeFork
  <2>1. /\ afl = "pid" /\ ctl = <<run>> /\ st = <<>> /\ driver # "wait"
        /\ child = "none" /\ server = "down"
    BY <1>5 DEF RuntimeFork, Launching
  <2>2. runtime' = "forked" /\ child' = "alive" /\ ctl' = <<>> /\ UNCHANGED <<st, crashed>>
    BY <1>5, <2>1, ShortSequences, SMTT(30) DEF RuntimeFork, RuntimeVars
  <2> QED
    BY <1>0, <2>1, <2>2 DEF Launching
<1>6. CASE RuntimeReportPid
  <2>1. afl = "pid" /\ ctl = <<>> /\ st = <<>> /\ driver # "wait" /\ child = "alive"
    BY <1>6 DEF RuntimeReportPid, Launching
  <2>2. /\ runtime' = "waiting" /\ st' = <<PidWord>>
        /\ UNCHANGED <<ctl, child, crashed>>
    BY <1>6, <2>1, ShortSequences, SMTT(30) DEF RuntimeReportPid, RuntimeVars, Send, PidWord
  <2> QED
    BY <1>0, <2>1, <2>2, SMTT(30) DEF Launching, Followed
<1>7. CASE RuntimeHangup \/ RuntimeReportExit
  BY <1>7 DEF RuntimeHangup, RuntimeReportExit, Launching
<1> QED
  BY <1>2, <1>3, <1>4, <1>5, <1>6, <1>7 DEF ServerAction, ServerNext, RuntimeStep

LEMMA DoomedServer ==
  ASSUME TypeInv, Doomed, ServerAction
  PROVE  Doomed'
<1>1. UNCHANGED <<afl, run>> /\ ~AflGone
  BY SMTT(30) DEF ServerAction, aflVars, Doomed, AflGone
<1>2. runtime' # "none"
  BY <1>1, SMTT(30) DEF Doomed, ServerAction, ServerNext, ServerReady, BackendCrash, PostmasterExit, RuntimeStep,
              RuntimeGreet, RuntimeFork, RuntimeHangup, RuntimeReportPid, RuntimeReportExit
<1>3. st' = st \/ \E word : st' = Append(st, word)
  BY DEF ServerAction, ServerNext, ServerReady, BackendCrash, PostmasterExit, RuntimeStep, RuntimeGreet,
         RuntimeFork, RuntimeHangup, RuntimeReportPid, RuntimeReportExit, chanVars, Send
<1>4. st' # <<>> /\ Head(st') = Head(st)
  BY <1>3, HeadStays, ZenonT(30) DEF Doomed, TypeInv, TypeOK
<1> QED
  BY <1>1, <1>2, <1>4 DEF Doomed

(* Together.                                                               *)
LEMMA LockstepStep ==
  ASSUME Orderly, TypeInv, Lockstep, [Next]_vars
  PROVE  Lockstep'
<1>1. CASE UNCHANGED vars
  <2>1. Attached'
    BY <1>1, ZenonT(30) DEF vars, chanVars, aflVars, driverVars, serverVars, Lockstep, Attached
  <2>2. CaseFlow'
    BY <1>1, ZenonT(30) DEF vars, chanVars, aflVars, driverVars, serverVars, Lockstep, CaseFlow, Working
  <2>3. AflGone => AflGone'
    BY <1>1, ZenonT(30) DEF vars, chanVars, aflVars, driverVars, serverVars, AflGone
  <2>4. InStep => InStep'
    BY <1>1, ZenonT(30) DEF vars, chanVars, aflVars, driverVars, serverVars, InStep, Ack, Final, Working
  <2>5. Launching => Launching'
    BY <1>1, ZenonT(30) DEF vars, chanVars, aflVars, driverVars, serverVars, Launching, Followed
  <2>6. Doomed => Doomed'
    BY <1>1, ZenonT(30) DEF vars, chanVars, aflVars, driverVars, serverVars, Doomed
  <2> QED
    BY <2>1, <2>2, <2>3, <2>4, <2>5, <2>6 DEF Lockstep, Phase
<1>2. CASE AflAction
  <2>1. Phase'
    BY <1>2, AflLeavesPeers, InStepAfl, LaunchingAfl, DoomedAfl DEF Lockstep, Phase
  <2> QED
    BY <1>2, <2>1, AttachedAfl, CaseFlowAfl DEF Lockstep
<1>3. CASE DriverAction
  <2>1. afl' = afl
    BY <1>3 DEF DriverAction, aflVars
  <2>2. Phase'
    BY <1>3, <2>1, InStepDriver, LaunchingDriver, DoomedDriver DEF Lockstep, Phase, AflGone
  <2> QED
    BY <1>3, <2>2, AttachedDriver, CaseFlowDriver DEF Lockstep
<1>4. CASE ServerAction
  <2>1. afl' = afl
    BY <1>4 DEF ServerAction, aflVars
  <2>2. Phase'
    BY <1>4, <2>1, InStepServer, LaunchingServer, DoomedServer DEF Lockstep, Phase, AflGone
  <2> QED
    BY <1>4, <2>2, AttachedServer, CaseFlowServer DEF Lockstep
<1> QED
  BY <1>1, <1>2, <1>3, <1>4 DEF Next, Finished

(* In step from the greeting to the end of the session: the pipes hold only *)
(* the words of the run in progress, and the test case file its test case.  *)
(* A server that the driver launches disturbs the first run at most.        *)
THEOREM LockstepHolds ==
  ASSUME Orderly
  PROVE  Spec => [](TypeInv /\ Lockstep)
<1>1. Init => TypeInv /\ Lockstep
  BY TypeInit, LockstepInit
<1>2. TypeInv /\ Lockstep /\ [Next]_vars => (TypeInv /\ Lockstep)'
  BY TypeStep, LockstepStep
<1> QED
  BY <1>1, <1>2, PTL DEF Spec
=============================================================================
