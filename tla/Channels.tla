------------------------------ MODULE Channels ------------------------------
(***************************************************************************)
(* What afl-fuzz, the driver (src/db_driver.cc) and the PostgreSQL server  *)
(* share: the control and status pipes on descriptors 198 and 199, the     *)
(* test case file that is the driver's standard input, and the coverage    *)
(* map.  Everything that travels on the status pipe is a bare 32-bit word; *)
(* afl-fuzz tells a greeting, a process id and a wait status apart by      *)
(* their position only, so words are modelled by their value.              *)
(***************************************************************************)
EXTENDS Integers, Sequences

CONSTANT MaxRuns                   \* bound on the executions afl-fuzz starts

ASSUME MaxRunsAssumption == MaxRuns \in Nat

VARIABLES ctl,     \* control pipe: the unread words, each as the run it requests
          st,      \* status pipe: the unread words
          input,   \* test case file: whose bytes it holds, and whether they were read
          bitmap,  \* the coverage map was marked since afl-fuzz last cleared it
          afl,     \* control state of afl-fuzz
          driver,  \* control state of the driver
          runtime  \* control state of the AFL++ runtime inside the server process

chanVars == <<ctl, st, input, bitmap>>

Runs == 1 .. MaxRuns

(***************************************************************************)
(* A word on the status pipe.  w is the four bytes read as an s32; from    *)
(* and run (the run the driver was working for, 0 for any other word) are  *)
(* history, no process reads them.                                         *)
(***************************************************************************)
Word == [w : Int, from : {"driver", "runtime"}, run : 0 .. MaxRuns]

(* FS_OPT_ENABLED | FS_OPT_MAPSIZE | FS_OPT_SET_MAPSIZE(size), as an s32.  *)
Greeting(size) ==
  -1073741823 + (IF size <= 1 \/ size > 8388608 THEN 0 ELSE 2 * (size - 1))

(* afl-fuzz exports AFL_MAP_SIZE = 2^23 before it starts the driver.       *)
DriverGreeting == Greeting(8388608)

(* The runtime linked into the server also sets FS_OPT_NEWCMPLOG.          *)
RuntimeGreeting(size) == Greeting(size) + 33554432

(* FS_OPT_ERROR | FS_OPT_SET_ERROR(FS_ERROR_SHMAT), as an s32.             *)
ShmatError == -134217585 + 8 * 256

(* The driver's "process id" and its status for an uneventful run.         *)
DoneWord == 16777215

(* The driver's status for a server crash: death by SIGABRT.               *)
CrashWord == 6

(* <sys/wait.h> on a status word.                                          *)
WIFSIGNALED(w) == w % 128 \notin {0, 127}

WIFSTOPPED(w) == w % 256 = 127

(* States of the driver before it phones home.                             *)
Booting == {"boot", "check", "sleep", "prepare"}

(* Pipe ends.  Once afl-fuzz is gone, a write kills the writer and a read  *)
(* returns end of file; afl-fuzz sees end of file on the status pipe only  *)
(* when neither the driver nor the runtime holds its write end.            *)
AflGone == afl \in {"stopped", "fatal", "killed"}

PeersGone == driver = "dead" /\ runtime = "none"

Send(w, from, run) == st' = Append(st, [w |-> w, from |-> from, run |-> run])
=============================================================================
