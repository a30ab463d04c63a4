------------------------------ MODULE PgServer ------------------------------
(***************************************************************************)
(* The PostgreSQL server as the driver meets it, and the AFL++ runtime     *)
(* (instrumentation/afl-compiler-rt.o.c) that an instrumented server       *)
(* carries.  The server itself is external: it accepts connections, a      *)
(* backend may crash and the postmaster then recovers, the postmaster may  *)
(* exit.  A server started by the driver inherits descriptors 198 and 199, *)
(* so the constructor __afl_auto_init turns that process into a second     *)
(* fork server on the same pipes: it greets afl-fuzz, and the server       *)
(* proper only starts, as its child, when it wins a request.               *)
(***************************************************************************)
EXTENDS Channels, FiniteSets

CONSTANTS MaxCrashes,    \* bound on the number of server failures
          ServerPid,     \* process id of the runtime's child
          ServerMapSize, \* size of the instrumented server's coverage map
          MayCrashIdle,  \* backends may also crash while no test case executes
          MayPanic       \* the postmaster itself may exit
                         \* (failures during the boot of the driver are left to
                         \* the initial states "recovering" and "down")

ASSUME PgServerAssumption ==
  /\ MaxCrashes \in Nat
  /\ ServerPid \in Nat /\ 1 < ServerPid /\ ServerPid <= 4194304
  /\ ServerMapSize \in Nat /\ 64 <= ServerMapSize /\ ServerMapSize <= 8388608

ASSUME PgServerSwitches == MayCrashIdle \in BOOLEAN /\ MayPanic \in BOOLEAN

VARIABLES server,   \* the postmaster
          child,    \* the process the runtime forked: the server proper
          conn,     \* the driver's connection, and the test case it executes
          crashes,  \* number of server failures so far
          crashed   \* history: the runs whose execution took the server down

serverVars == <<server, child, conn, crashes, crashed>>

NoConn == [state |-> "none", case |-> 0]

ServerTypeOK ==
  /\ server \in {"down", "starting", "up", "recovering"}
  /\ runtime \in {"none", "launched", "reading", "forked", "waiting"}
  /\ child \in {"none", "alive", "signaled", "exited"}
  /\ conn \in [state : {"none", "open", "lost"}, case : 0 .. MaxRuns]
  /\ crashes \in 0 .. MaxCrashes
  /\ crashed \in SUBSET Runs

ServerInit(state) ==
  /\ server = state
  /\ runtime = "none"
  /\ child = "none"
  /\ conn = NoConn
  /\ crashes = 0
  /\ crashed = {}
-----------------------------------------------------------------------------
(* The server proper.                                                      *)

(* The postmaster finishes its start or its crash recovery.                *)
ServerReady ==
  /\ server \in {"starting", "recovering"}
  /\ server' = "up"
  /\ UNCHANGED <<chanVars, runtime, child, conn, crashes, crashed>>

(* An open connection breaks when the server fails; the failure is put     *)
(* down to the test case that was executing on it.                         *)
BreakConnection ==
  IF conn.state = "open"
  THEN /\ conn' = [conn EXCEPT !.state = "lost"]
       /\ crashed' = crashed \union {conn.case}
  ELSE UNCHANGED <<conn, crashed>>

(* A backend dies; the postmaster ends all others and recovers.            *)
BackendCrash ==
  /\ server = "up"
  /\ crashes < MaxCrashes
  /\ conn.state = "open" \/ (MayCrashIdle /\ driver \notin Booting)
  /\ server' = "recovering"
  /\ crashes' = crashes + 1
  /\ BreakConnection
  /\ UNCHANGED <<chanVars, runtime, child>>

(* The postmaster is gone, and how: wait status of the runtime's child.    *)
PostmasterGone(how) ==
  /\ server' = "down"
  /\ child' = IF child = "alive" THEN how ELSE child
  /\ BreakConnection

PostmasterExit ==
  /\ MayPanic
  /\ driver \notin Booting
  /\ server # "down"
  /\ crashes < MaxCrashes
  /\ crashes' = crashes + 1
  /\ \E how \in {"signaled", "exited"} : PostmasterGone(how)
  /\ UNCHANGED <<chanVars, runtime>>
-----------------------------------------------------------------------------
(* The AFL++ runtime in the server process: __afl_start_forkserver.        *)

RuntimeVars == <<input, bitmap, conn, crashes, crashed>>

(* Phone home; with no reader left the process dies of SIGPIPE.            *)
RuntimeGreet ==
  /\ runtime = "launched"
  /\ IF AflGone
     THEN runtime' = "none" /\ UNCHANGED st
     ELSE runtime' = "reading" /\ Send(RuntimeGreeting(ServerMapSize), "runtime", 0)
  /\ UNCHANGED <<ctl, server, child, RuntimeVars>>

(* A request is won and a child is forked.  It becomes the server, unless  *)
(* another postmaster holds the data directory's lock file.                *)
RuntimeFork ==
  /\ runtime = "reading"
  /\ ctl # <<>>
  /\ ctl' = Tail(ctl)
  /\ runtime' = "forked"
  /\ IF server = "down"
     THEN server' = "starting" /\ child' = "alive"
     ELSE child' = "exited" /\ UNCHANGED server
  /\ UNCHANGED <<st, RuntimeVars>>

(* End of file on the control pipe: _exit(1).                              *)
RuntimeHangup ==
  /\ runtime = "reading"
  /\ ctl = <<>>
  /\ AflGone
  /\ runtime' = "none"
  /\ UNCHANGED <<ctl, st, server, child, RuntimeVars>>

(* The child's process id goes to afl-fuzz, the runtime waits for it.      *)
RuntimeReportPid ==
  /\ runtime = "forked"
  /\ IF AflGone
     THEN runtime' = "none" /\ UNCHANGED st
     ELSE runtime' = "waiting" /\ Send(ServerPid, "runtime", 0)
  /\ UNCHANGED <<ctl, server, child, RuntimeVars>>

(* The child ended: its wait status goes to afl-fuzz.                      *)
RuntimeReportExit ==
  /\ runtime = "waiting"
  /\ child \in {"signaled", "exited"}
  /\ child' = "none"
  /\ IF AflGone
     THEN runtime' = "none" /\ UNCHANGED st
     ELSE /\ runtime' = "reading"
          /\ Send(IF child = "signaled" THEN 9 ELSE 256, "runtime", 0)
  /\ UNCHANGED <<ctl, server, RuntimeVars>>

RuntimeStep ==
  \/ RuntimeGreet
  \/ RuntimeFork
  \/ RuntimeHangup
  \/ RuntimeReportPid
  \/ RuntimeReportExit

ServerNext == ServerReady \/ BackendCrash \/ PostmasterExit \/ RuntimeStep
=============================================================================
