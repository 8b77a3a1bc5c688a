----------------------------- MODULE Workload -----------------------------
(***************************************************************************)
(* The start and the end of the program perf record or perf stat profiles: *)
(* it is forked early and held back by a pipe, so that events can be       *)
(* opened for it (perf_evlist__prepare_workload(), evlist.c), let go by    *)
(* one byte (perf_evlist__start_workload()) and killed and waited for at   *)
(* the end (__cmd_record(), builtin-record.c; __run_perf_stat() and        *)
(* sig_atexit(), builtin-stat.c).                                          *)
(*                                                                         *)
(* Signals arrive between any two steps of perf, and their handler has run *)
(* before its next step.                                                   *)
(***************************************************************************)
EXTENDS Integers, FiniteSets

CONSTANTS
  Tools,       \* among "record" and "stat"
  Interval,    \* perf stat -I
  MayCrash     \* may perf be killed?

VARIABLES
  tool,            \* which of the two runs
  (* the pipes: who holds their writing ends, is there a byte *)
  readyWriters, goWriters, goByte,
  (* the child *)
  child, childStatus,
  termDefault,     \* SIGTERM kills the child
  termPending,     \* SIGTERM is on its way to it
  (* perf *)
  pc, pending, blocked, done, child_finished, workload_exec_errno, child_pid, signr,
  err, status, interrupted,
  (* history *)
  execFailed,
  started,         \* the byte was written
  ran,             \* the workload was executed
  randomKill       \* SIGTERM went to something that is not the workload

pipeVars == <<readyWriters, goWriters, goByte>>
childVars == <<child, childStatus, termDefault, termPending>>
flagVars == <<done, child_finished, workload_exec_errno, child_pid, signr>>
perfVars == <<pc, pending, blocked, flagVars, err, status, interrupted>>
historyVars == <<execFailed, started, ran, randomKill>>
vars == <<tool, pipeVars, childVars, perfVars, historyVars>>

Pid == 1
NoPid == -1

(* What wait() says of a child that a signal ended; the others exit with a *)
(* code below 256.                                                         *)
Signaled == 256

Alive == child \notin {"none", "exited", "reaped"}
PerfGone == pc \in {"ended", "crashed"}

(* The handlers are installed; nothing is forked. *)
Init ==
  /\ tool \in Tools
  /\ readyWriters = {} /\ goWriters = {} /\ goByte = FALSE
  /\ child = "none" /\ childStatus = 0 /\ termPending = FALSE
  /\ termDefault = (tool = "stat")    \* perf stat leaves SIGTERM alone
  /\ pc = "fork" /\ pending = {} /\ blocked = {}
  /\ done = FALSE /\ child_finished = FALSE /\ workload_exec_errno = FALSE
  /\ child_pid = NoPid /\ signr = "none"
  /\ err = FALSE /\ status = 0 /\ interrupted = FALSE
  /\ execFailed = FALSE /\ started = FALSE /\ ran = FALSE /\ randomKill = FALSE

----------------------------------------------------------------------------
(* The child.                                                              *)

(* SIGTERM is set to its default and the ends of the pipes that belong to  *)
(* perf are closed; that of the 'ready' pipe tells perf to go on.          *)
ChildSettles ==
  /\ child = "forked"
  /\ child' = "corked"
  /\ termDefault' = TRUE
  /\ goWriters' = goWriters \ {"child"}
  /\ readyWriters' = readyWriters \ {"child"}
  /\ UNCHANGED <<goByte, childStatus, termPending, perfVars, historyVars>>

(* A child that exits becomes a zombie, and perf gets SIGCHLD. *)
Exits(st) ==
  /\ child' = IF PerfGone THEN "reaped" ELSE "exited"
  /\ childStatus' = st
  /\ readyWriters' = readyWriters \ {"child"}
  /\ goWriters' = goWriters \ {"child"}
  /\ pending' = IF PerfGone THEN pending ELSE pending \cup {"CHLD"}

(* "For cancelling the workload without actually running it, the parent    *)
(* will just close workload.cork_fd": read() returns zero.                 *)
ChildCancelled ==
  /\ child = "corked" /\ ~goByte /\ goWriters = {}
  /\ Exits(0)
  /\ UNCHANGED <<goByte, termDefault, termPending, pc, blocked, flagVars, err, status, interrupted,
                 historyVars>>

ChildTold ==
  /\ child = "corked" /\ goByte
  /\ goByte' = FALSE
  /\ child' = "exec"
  /\ UNCHANGED <<readyWriters, goWriters, childStatus, termDefault, termPending, perfVars, historyVars>>

ChildExecs ==
  /\ child = "exec"
  /\ child' = "running"
  /\ ran' = TRUE
  /\ UNCHANGED <<pipeVars, childStatus, termDefault, termPending, perfVars, execFailed, started, randomKill>>

(* Mutant: perf is not told. *)
ChildExecFails_Silent ==
  /\ child = "exec"
  /\ child' = "execfailed"
  /\ execFailed' = TRUE
  /\ UNCHANGED <<pipeVars, childStatus, termDefault, termPending, perfVars, started, ran, randomKill>>

(* execvp() fails: sigqueue(getppid(), SIGUSR1), then exit(-1). *)
ChildExecFails ==
  /\ child = "exec"
  /\ child' = "execfailed"
  /\ execFailed' = TRUE
  /\ pending' = IF PerfGone THEN pending ELSE pending \cup {"USR1"}
  /\ UNCHANGED <<pipeVars, childStatus, termDefault, termPending, pc, blocked, flagVars, err, status,
                 interrupted, started, ran, randomKill>>

(* The workload ends as it likes. *)
ChildExits ==
  /\ \/ child = "running" /\ \E st \in {0, 1} : Exits(st)
     \/ child = "execfailed" /\ Exits(255)
  /\ UNCHANGED <<goByte, termDefault, termPending, pc, blocked, flagVars, err, status, interrupted,
                 historyVars>>

(* SIGTERM, unless what runs handles it. *)
ChildKilled ==
  /\ termPending /\ Alive
  /\ Exits(Signaled)
  /\ UNCHANGED <<goByte, termDefault, termPending, pc, blocked, flagVars, err, status,
                 interrupted, historyVars>>

Child ==
  /\ UNCHANGED tool
  /\ \/ ChildSettles \/ ChildCancelled \/ ChildTold \/ ChildExecs \/ ChildExecFails
     \/ ChildExits \/ ChildKilled

----------------------------------------------------------------------------
(* Signals.                                                                *)

Sigint ==
  /\ ~interrupted /\ ~PerfGone
  /\ interrupted' = TRUE
  /\ pending' = pending \cup {"INT"}
  /\ UNCHANGED <<tool, pipeVars, childVars, pc, blocked, flagVars, err, status, historyVars>>

Deliverable == pending \ blocked

(* SIGUSR1: the workload could not be executed. *)
workload_exec_failed_signal ==
  /\ workload_exec_errno' = TRUE
  /\ done' = (done \/ tool = "record")
  /\ child_finished' = (child_finished \/ tool = "record")
  /\ UNCHANGED <<child_pid, signr>>

(* The other signals in perf record ... *)
sig_handler(sig) ==
  /\ done' = TRUE
  /\ IF sig = "CHLD" THEN child_finished' = TRUE /\ UNCHANGED signr
                     ELSE signr' = sig /\ UNCHANGED child_finished
  /\ UNCHANGED <<child_pid, workload_exec_errno>>

(* ... and in perf stat. *)
skip_signal(sig) ==
  /\ done' = (done \/ child_pid = NoPid \/ Interval)
  /\ signr' = sig
  /\ child_pid' = NoPid
  /\ UNCHANGED <<child_finished, workload_exec_errno>>

Handle(sig) ==
  /\ sig \in Deliverable /\ ~PerfGone
  /\ pending' = pending \ {sig}
  /\ CASE sig = "USR1"      -> workload_exec_failed_signal
       [] tool = "record" /\ sig # "USR1" -> sig_handler(sig)
       [] tool = "stat" /\ sig # "USR1"   -> skip_signal(sig)
  /\ UNCHANGED <<pipeVars, childVars, pc, blocked, err, status, interrupted, historyVars>>

(* perf goes on only when no signal waits to be handled. *)
At(label) == pc = label /\ Deliverable = {}

(* kill(pid, SIGTERM), where -1 stands for every process.  A workload      *)
(* handles SIGTERM as it likes; before it is executed the child has the    *)
(* handler it inherited, or the default.                                   *)
Kill(pid) ==
  /\ randomKill' = (randomKill \/ pid # Pid \/ child = "reaped")
  /\ termPending' = (termPending \/ (Alive /\ termDefault))

Goto(label) == pc' = label

(* perf's process ends: the kernel closes the pipes and reaps for it. *)
ProcessEnds ==
  /\ readyWriters' = readyWriters \ {"perf"}
  /\ goWriters' = goWriters \ {"perf"}
  /\ child' = IF child = "exited" THEN "reaped" ELSE child
  /\ UNCHANGED <<goByte, childStatus, termDefault, termPending>>

Crash ==
  /\ MayCrash /\ ~PerfGone
  /\ Goto("crashed")
  /\ ProcessEnds
  /\ UNCHANGED <<tool, pending, blocked, flagVars, err, status, interrupted, historyVars>>

----------------------------------------------------------------------------
(* perf_evlist__prepare_workload() and perf_evlist__start_workload().      *)

Fork ==
  /\ At("fork")
  /\ readyWriters' = {"perf", "child"} /\ goWriters' = {"perf", "child"}
  /\ child' = "forked"
  /\ Goto("ready")
  /\ UNCHANGED <<goByte, childStatus, termDefault, termPending, pending, blocked, flagVars, err, status,
                 interrupted, historyVars>>

(* No pipe, no process. *)
ForkFails ==
  /\ At("fork")
  /\ err' = TRUE /\ status' = -1
  /\ Goto("exit")
  /\ UNCHANGED <<pipeVars, childVars, pending, blocked, flagVars, interrupted, historyVars>>

(* Mutant: perf keeps its own writing end. *)
CloseReadyPipe_Keeps ==
  /\ At("ready")
  /\ Goto("settle")
  /\ UNCHANGED <<pipeVars, childVars, pending, blocked, flagVars, err, status, interrupted,
                 historyVars>>

CloseReadyPipe ==
  /\ At("ready")
  /\ readyWriters' = readyWriters \ {"perf"}
  /\ Goto("settle")
  /\ UNCHANGED <<goWriters, goByte, childVars, pending, blocked, flagVars, err, status,
                 interrupted, historyVars>>

(* "wait for child to settle": the pipe is closed, nothing is written. *)
WaitForChild ==
  /\ At("settle")
  /\ readyWriters = {}
  /\ child_pid' = IF tool = "stat" THEN Pid ELSE child_pid
  /\ Goto("setup")
  /\ UNCHANGED <<pipeVars, childVars, pending, blocked, done, child_finished,
                 workload_exec_errno, signr, err, status, interrupted, historyVars>>

(* An event cannot be opened, the header not be written, ... *)
RecordSetupFails ==
  /\ At("setup") /\ tool = "record"
  /\ err' = TRUE
  /\ Goto("out_child")
  /\ UNCHANGED <<pipeVars, childVars, pending, blocked, flagVars, status, interrupted,
                 historyVars>>

StatSetupFails ==
  /\ At("setup") /\ tool = "stat"
  /\ err' = TRUE /\ status' = -1
  /\ pc' \in {"check_kill", "exit"}
  /\ UNCHANGED <<pipeVars, childVars, pending, blocked, flagVars, interrupted, historyVars>>

perf_evlist__start_workload ==
  /\ At("setup")
  /\ goByte' = TRUE /\ started' = TRUE
  /\ goWriters' = goWriters \ {"perf"}
  /\ Goto(IF tool = "record" THEN "loop" ELSE "wait")
  /\ UNCHANGED <<readyWriters, childVars, pending, blocked, flagVars, err, status,
                 interrupted, execFailed, ran, randomKill>>

----------------------------------------------------------------------------
(* perf record.                                                            *)

(* The loop ends with a signal, or with the events of the child. *)
LeaveLoop ==
  /\ At("loop")
  /\ done \/ ~Alive
  /\ err' = workload_exec_errno
  /\ Goto("out_child")
  /\ UNCHANGED <<pipeVars, childVars, pending, blocked, flagVars, status, interrupted,
                 historyVars>>

OutChild ==
  /\ At("out_child")
  /\ Goto(IF child_finished THEN "wait" ELSE "kill")
  /\ UNCHANGED <<pipeVars, childVars, pending, blocked, flagVars, err, status, interrupted,
                 historyVars>>

KillWorkload ==
  /\ At("kill")
  /\ Kill(Pid)
  /\ Goto("wait")
  /\ UNCHANGED <<pipeVars, child, childStatus, termDefault, pending, execFailed, ran, started,
                 blocked, flagVars, err, status, interrupted>>

----------------------------------------------------------------------------
(* perf stat.                                                              *)

(* if (child_pid != -1) kill(child_pid, SIGTERM), where an event cannot be *)
(* opened and in sig_atexit(); child_pid is volatile and read twice.       *)
CheckChildPid ==
  /\ pc \in {"check_kill", "atexit_check"} /\ Deliverable = {}
  /\ Goto(CASE pc = "check_kill"   -> IF child_pid # NoPid THEN "stat_kill" ELSE "exit"
            [] pc = "atexit_check" -> IF child_pid # NoPid THEN "atexit_kill" ELSE "atexit_end")
  /\ UNCHANGED <<pipeVars, childVars, pending, blocked, flagVars, err, status, interrupted,
                 historyVars>>

KillChildPid ==
  /\ pc \in {"stat_kill", "atexit_kill"} /\ Deliverable = {}
  /\ Kill(child_pid)
  /\ Goto(IF pc = "stat_kill" THEN "exit" ELSE "atexit_end")
  /\ UNCHANGED <<pipeVars, child, childStatus, termDefault, pending, execFailed, ran, started,
                 blocked, flagVars, err, status, interrupted>>

(* sig_atexit(): "avoid race condition with SIGCHLD handler". *)
sig_atexit ==
  /\ At("exit") /\ tool = "stat"
  /\ blocked' = {"CHLD"}
  /\ Goto("atexit_check")
  /\ UNCHANGED <<pipeVars, childVars, pending, flagVars, err, status, interrupted, historyVars>>

EndAtexit ==
  /\ At("atexit_end")
  /\ blocked' = {}
  /\ Goto("end")
  /\ UNCHANGED <<pipeVars, childVars, pending, flagVars, err, status, interrupted, historyVars>>

----------------------------------------------------------------------------
(* Both.                                                                   *)

(* perf stat -I looks whether the child is gone between two intervals and  *)
(* waits, in vain, once more behind that.                                  *)
WaitStatus ==
  /\ err' = (err \/ (tool = "stat" /\ workload_exec_errno))
  /\ status' = IF err' THEN -1
               ELSE IF childStatus = Signaled THEN status ELSE childStatus
  /\ signr' = IF tool = "record" /\ ~err' /\ childStatus = Signaled THEN "TERM" ELSE signr

Wait ==
  /\ At("wait")
  /\ child = "exited"
  /\ child' = "reaped"
  /\ WaitStatus
  /\ Goto("exit")
  /\ UNCHANGED <<pipeVars, childStatus, termDefault, termPending, pending, blocked, done, child_finished,
                 workload_exec_errno, child_pid, interrupted, historyVars>>

(* exit(): perf record's record__sig_exit() has nothing to kill. *)
Exit ==
  /\ At("exit") /\ tool = "record"
  /\ Goto("end")
  /\ UNCHANGED <<pipeVars, childVars, pending, blocked, flagVars, err, status, interrupted,
                 historyVars>>

End ==
  /\ At("end")
  /\ Goto("ended")
  /\ ProcessEnds
  /\ UNCHANGED <<pending, blocked, flagVars, err, status, interrupted, historyVars>>

Perf ==
  /\ UNCHANGED tool
  /\ \/ Fork \/ ForkFails \/ CloseReadyPipe \/ WaitForChild \/ RecordSetupFails \/ StatSetupFails
     \/ perf_evlist__start_workload
     \/ LeaveLoop \/ OutChild \/ KillWorkload
     \/ CheckChildPid \/ KillChildPid \/ sig_atexit \/ EndAtexit
     \/ Wait \/ Exit \/ End
     \/ \E sig \in {"CHLD", "USR1", "INT"} : Handle(sig)

Finished == PerfGone /\ UNCHANGED vars

Next == Child \/ Perf \/ Sigint \/ Crash \/ Finished

Spec == Init /\ [][Next]_vars

(* Both processes are scheduled, and the workload ends. *)
FairSpec == Spec /\ WF_vars(Child) /\ WF_vars(Perf)

----------------------------------------------------------------------------
(* Properties.                                                             *)

TypeOK ==
  /\ tool \in {"record", "stat"}
  /\ readyWriters \subseteq {"perf", "child"} /\ goWriters \subseteq {"perf", "child"}
  /\ child \in {"none", "forked", "corked", "exec", "running", "execfailed", "exited", "reaped"}
  /\ {goByte, termDefault, termPending, done, child_finished, workload_exec_errno, err, interrupted,
      execFailed, started, ran, randomKill} \subseteq BOOLEAN
  /\ pending \subseteq {"CHLD", "USR1", "INT"} /\ blocked \subseteq {"CHLD"}
  /\ child_pid \in {Pid, NoPid}

(* The workload runs only if perf let it go: not when perf failed, or was  *)
(* killed, while it prepared to profile it.                                *)
RunsOnlyIfStarted == ran => started

(* A workload that could not be executed is reported as such and, if perf  *)
(* was interrupted meanwhile, at least not as one that succeeded; whichever *)
(* of SIGUSR1, SIGCHLD and SIGINT comes first.                             *)
FailedExecReported ==
  pc = "ended" /\ execFailed =>
    status = -1 \/ (interrupted /\ (status # 0 \/ signr # "none"))

(* "goal is to avoid send SIGTERM to a random process" *)
NoRandomKill == ~randomKill

(* All of it; after SIGINT perf stat may send SIGTERM to every process.     *)
WorkloadSafe ==
  /\ TypeOK
  /\ RunsOnlyIfStarted
  /\ FailedExecReported
  /\ tool = "record" \/ ~interrupted => NoRandomKill

(* perf ends: it never waits for a child that waits for perf.              *)
PerfEnds == <>PerfGone

(* No child is left behind by a perf that is gone, however it went.        *)
NoChildLeft == PerfGone ~> ~Alive

----------------------------------------------------------------------------
(* What the proofs need.                                                   *)

WorkloadConstants ==
  /\ Tools \subseteq {"record", "stat"}
  /\ {Interval, MayCrash} \subseteq BOOLEAN

(* perf before it lets the workload go, and behind the wait for it.        *)
Preparing == {"ready", "settle", "setup", "check_kill", "stat_kill"}
Leaving == {"exit", "atexit_check", "atexit_kill", "atexit_end", "end", "ended"}

(* Where each tool can be. *)
PhasesOK ==
  /\ pc \in {"fork", "loop", "out_child", "kill", "wait", "crashed"} \cup Preparing \cup Leaving
  /\ tool = "record" => pc \notin {"check_kill", "stat_kill", "atexit_check", "atexit_kill", "atexit_end"}
  /\ tool = "stat" => pc \notin {"loop", "out_child", "kill"}
  /\ pc # "crashed" => ("CHLD" \in blocked <=> pc \in {"atexit_check", "atexit_kill", "atexit_end"})

(* The child is held back until the byte is written. *)
HeldBack ==
  /\ goByte \/ ran \/ execFailed \/ child \in {"exec", "running", "execfailed"} => started
  /\ pc = "fork" => child = "none" /\ ~started /\ ~termPending
  /\ pc \in Preparing => /\ child \in {"forked", "corked"} /\ "perf" \in goWriters
                         /\ ~started /\ ~termPending
  /\ pc = "loop" \/ (pc = "wait" /\ tool = "stat") => started
  /\ child = "reaped" => pc \in Leaving \cup {"crashed"}
  /\ child = "none" => pc \in {"fork", "crashed"} \cup Leaving
  /\ pc \in Leaving /\ started => child = "reaped"

(* What a signal that is on its way, or was handled, says of the child. *)
SignalsTrue ==
  /\ "CHLD" \in pending => child \in {"exited", "reaped"}
  /\ "USR1" \in pending \/ workload_exec_errno => execFailed
  /\ "INT" \in pending => interrupted
  /\ execFailed /\ pc # "crashed" => "USR1" \in pending \/ workload_exec_errno
  /\ done /\ tool = "record" => interrupted \/ child \in {"exited", "reaped"} \/ workload_exec_errno

(* What becomes of a workload that could not be executed. *)
FailuresKept ==
  /\ execFailed => child \in {"execfailed", "exited", "reaped"}
  /\ execFailed /\ child \in {"exited", "reaped"} => childStatus \in {255, Signaled}
  /\ tool = "record" /\ pc \in {"out_child", "kill", "wait"} /\ ~err /\ ~interrupted =>
       child = "exited" /\ ~execFailed
  /\ pc \in Leaving /\ execFailed =>
       status = -1 \/ (interrupted /\ (status # 0 \/ signr # "none"))

(* Whom SIGTERM goes to. *)
KillsChild ==
  tool = "record" \/ ~interrupted =>
    /\ ~randomKill
    /\ tool = "stat" /\ child \in {"exited", "reaped"} /\ ~PerfGone =>
         "CHLD" \in pending \/ child_pid = NoPid
    /\ tool = "stat" /\ child = "reaped" /\ ~PerfGone => child_pid = NoPid
    /\ pc \in {"stat_kill", "atexit_kill"} => child_pid = Pid

WorkloadInv ==
  TypeOK /\ PhasesOK /\ HeldBack /\ SignalsTrue /\ FailuresKept /\ KillsChild
=============================================================================
