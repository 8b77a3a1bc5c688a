----------------------------- MODULE SchedReplay -----------------------------
(***************************************************************************)
(* perf sched replay (builtin-sched.c).  The trace is turned into a list   *)
(* of atoms for every task; a sleep that was ended by a wakeup shares a    *)
(* semaphore with it.  Then one thread per task replays its atoms, again   *)
(* and again, and the main thread measures every run.  Two mutexes, which  *)
(* the main thread holds in turn, are the gates in front of a run and      *)
(* behind it; two semaphores per task tell the main thread who is ready    *)
(* and who is done.                                                        *)
(***************************************************************************)
EXTENDS Integers, Sequences, FiniteSets

CONSTANTS
  Pids,          \* the pids of the trace
  MaxTrace,      \* bound: scheduler events in the trace
  replay_repeat  \* runs

ASSUME ReplayAssumption == MaxTrace \in Nat /\ replay_repeat \in Nat

VARIABLES
  tasks,         \* sched->tasks: the pids, in the order of their registration
  atoms,         \* per pid its atoms: [type, wait_sem]; wait_sem 0 is NULL
  sems,          \* the semaphores of the atoms
  nr_trace,      \* events read, against the bound
  pc, curr_event,            \* per thread: its place and its atom
  ready_for_work, work_done_sem,
  start_work_mutex, work_done_wait_mutex,   \* who holds it
  mpc, i,        \* main thread: its place and the task of its loop
  cpu_usage,     \* per task: the run in which it was measured, 0 when taken
  nr_runs,
  replayed,      \* history: per task, how often it has replayed its atoms
  counted        \* history: the runs of the usages the main thread has summed

trace == <<tasks, atoms, sems, nr_trace>>
threads == <<pc, curr_event, replayed>>
gates == <<ready_for_work, work_done_sem, start_work_mutex, work_done_wait_mutex>>
main == <<mpc, i, nr_runs, counted>>
vars == <<trace, threads, gates, main, cpu_usage>>

Sleep == [type |-> "SLEEP", wait_sem |-> 0]
Run == [type |-> "RUN", wait_sem |-> 0]
Wakeup == [type |-> "WAKEUP", wait_sem |-> 0]
Registered == {tasks[n] : n \in 1 .. Len(tasks)}

Init ==
  /\ tasks = <<>> /\ atoms = [p \in Pids |-> <<>>] /\ sems = <<>> /\ nr_trace = 0
  /\ pc = [p \in Pids |-> "none"] /\ curr_event = [p \in Pids |-> 1]
  /\ ready_for_work = [p \in Pids |-> 0] /\ work_done_sem = [p \in Pids |-> 0]
  /\ start_work_mutex = "none" /\ work_done_wait_mutex = "none"
  /\ mpc = "read" /\ i = 1 /\ nr_runs = 0
  /\ cpu_usage = [p \in Pids |-> 0]
  /\ replayed = [p \in Pids |-> 0] /\ counted = {}

-----------------------------------------------------------------------------
(* Reading the trace: the state is a record [tasks, atoms, sems].          *)

get_new_event(s, pid, atom) == [s EXCEPT !.atoms[pid] = Append(@, atom)]

(* Every task starts asleep. *)
register_pid(s, pid) ==
  IF \E n \in 1 .. Len(s.tasks) : s.tasks[n] = pid THEN s
  ELSE get_new_event([s EXCEPT !.tasks = Append(@, pid)], pid, Sleep)

(* Mutant: the sleep is looked for before the wakeup is appended. *)
add_sched_event_wakeup_LookupFirst(s, pid, wakee) ==
  LET a == s.atoms[wakee]
      hit == a[Len(a)].type = "SLEEP" /\ a[Len(a)].wait_sem = 0
      sem == Len(s.sems) + 1
      t == [s EXCEPT !.atoms[wakee][Len(a)].wait_sem = IF hit THEN sem ELSE @,
                     !.sems = IF hit THEN Append(@, 0) ELSE @]
  IN  [t EXCEPT !.atoms[pid] =
         Append(@, [type |-> "WAKEUP", wait_sem |-> IF hit THEN sem ELSE 0])]

(* Atom n of the list a gets a semaphore. *)
WithSem(a, n, sem) == [a EXCEPT ![n].wait_sem = sem]

(* The wakeup is appended first: a task that wakes itself up does not find *)
(* its last sleep.  Only the first wakeup of a sleep gets its semaphore.   *)
add_sched_event_wakeup(s, pid, wakee) ==
  LET t == get_new_event(s, pid, Wakeup)
      a == t.atoms[wakee]
      sem == Len(s.sems) + 1
  IN  IF a[Len(a)].type # "SLEEP" \/ a[Len(a)].wait_sem # 0 THEN t
      ELSE [t EXCEPT !.atoms[wakee] = WithSem(@, Len(@), sem),
                     !.atoms[pid] = WithSem(@, Len(@), sem),
                     !.sems = Append(@, 0)]

add_sched_event_run(s, pid) ==
  LET a == s.atoms[pid]
  IN  IF a[Len(a)].type = "RUN" THEN s ELSE get_new_event(s, pid, Run)

add_sched_event_sleep(s, pid) == get_new_event(s, pid, Sleep)

Read == [tasks |-> tasks, atoms |-> atoms, sems |-> sems]

Reading(s) ==
  /\ mpc = "read" /\ nr_trace < MaxTrace
  /\ nr_trace' = nr_trace + 1
  /\ tasks' = s.tasks /\ atoms' = s.atoms /\ sems' = s.sems
  /\ UNCHANGED <<threads, gates, main, cpu_usage>>

replay_wakeup_event(tid, pid) ==
  Reading(add_sched_event_wakeup(register_pid(register_pid(Read, tid), pid), tid, pid))

replay_switch_event(prev, next) ==
  Reading(add_sched_event_sleep(
            add_sched_event_run(register_pid(register_pid(Read, prev), next), prev), prev))

replay_fork_event(parent, child) ==
  Reading(register_pid(register_pid(Read, parent), child))

\* A switch at an earlier time than the last one of its CPU ends the reading,
\* and with it the command.
TraceError ==
  /\ mpc = "read" /\ mpc' = "failed"
  /\ UNCHANGED <<trace, threads, gates, i, nr_runs, counted, cpu_usage>>

(* perf_sched__read_events() returns. *)
EndOfTrace ==
  /\ mpc = "read" /\ mpc' = "cross"
  /\ UNCHANGED <<trace, threads, gates, i, nr_runs, counted, cpu_usage>>

(* Each task wakes the next one up, the last one the first: one turn of    *)
(* the loop.                                                               *)
add_cross_task_wakeups ==
  LET s == add_sched_event_wakeup(Read, tasks[i], tasks[IF i = Len(tasks) THEN 1 ELSE i + 1])
  IN  /\ mpc = "cross" /\ i <= Len(tasks)
      /\ i' = i + 1
      /\ tasks' = s.tasks /\ atoms' = s.atoms /\ sems' = s.sems
      /\ UNCHANGED <<nr_trace, threads, gates, mpc, nr_runs, counted, cpu_usage>>

(* Both gates are closed before the first thread is started. *)
create_tasks ==
  /\ mpc = "cross" /\ i > Len(tasks)
  /\ mpc' = "run"
  /\ start_work_mutex' = "main" /\ work_done_wait_mutex' = "main"
  /\ pc' = [p \in Pids |-> IF p \in Registered THEN "again" ELSE "none"]
  /\ UNCHANGED <<trace, curr_event, replayed, ready_for_work, work_done_sem,
                 i, nr_runs, counted, cpu_usage>>

-----------------------------------------------------------------------------
(* thread_func()                                                           *)

PostReady(p) ==
  /\ pc[p] = "again" /\ pc' = [pc EXCEPT ![p] = "start"]
  /\ ready_for_work' = [ready_for_work EXCEPT ![p] = @ + 1]
  /\ UNCHANGED <<trace, curr_event, replayed, work_done_sem, start_work_mutex,
                 work_done_wait_mutex, main, cpu_usage>>

\* pthread_mutex_lock() and pthread_mutex_unlock() of start_work_mutex.
StartGate(p) ==
  \/ /\ pc[p] = "start" /\ start_work_mutex = "none"
     /\ start_work_mutex' = "thread" /\ pc' = [pc EXCEPT ![p] = "started"]
     /\ UNCHANGED <<trace, curr_event, replayed, ready_for_work, work_done_sem,
                    work_done_wait_mutex, main, cpu_usage>>
  \/ /\ pc[p] = "started"
     /\ start_work_mutex' = "none" /\ pc' = [pc EXCEPT ![p] = "work"]
     /\ curr_event' = [curr_event EXCEPT ![p] = 1]
     /\ UNCHANGED <<trace, replayed, ready_for_work, work_done_sem,
                    work_done_wait_mutex, main, cpu_usage>>

\* A sleep waits for its semaphore, a wakeup posts its own, a run burns time.
perf_sched__process_event(p) ==
  LET atom == atoms[p][curr_event[p]]
  IN  /\ pc[p] = "work" /\ curr_event[p] <= Len(atoms[p])
      /\ curr_event' = [curr_event EXCEPT ![p] = @ + 1]
      /\ IF atom.wait_sem = 0 THEN sems' = sems
         ELSE IF atom.type = "SLEEP"
         THEN sems[atom.wait_sem] > 0 /\ sems' = [sems EXCEPT ![atom.wait_sem] = @ - 1]
         ELSE sems' = [sems EXCEPT ![atom.wait_sem] = @ + 1]
      /\ UNCHANGED <<tasks, atoms, nr_trace, pc, replayed, gates, main, cpu_usage>>

PostDone(p) ==
  /\ pc[p] = "work" /\ curr_event[p] > Len(atoms[p])
  /\ pc' = [pc EXCEPT ![p] = "done"]
  /\ cpu_usage' = [cpu_usage EXCEPT ![p] = replayed[p] + 1]
  /\ replayed' = [replayed EXCEPT ![p] = @ + 1]
  /\ work_done_sem' = [work_done_sem EXCEPT ![p] = @ + 1]
  /\ UNCHANGED <<trace, curr_event, ready_for_work, start_work_mutex,
                 work_done_wait_mutex, main>>

\* pthread_mutex_lock() and pthread_mutex_unlock() of work_done_wait_mutex.
DoneGate(p) ==
  \/ /\ pc[p] = "done" /\ work_done_wait_mutex = "none"
     /\ work_done_wait_mutex' = "thread" /\ pc' = [pc EXCEPT ![p] = "passing"]
     /\ UNCHANGED <<trace, curr_event, replayed, ready_for_work, work_done_sem,
                    start_work_mutex, main, cpu_usage>>
  \/ /\ pc[p] = "passing"
     /\ work_done_wait_mutex' = "none" /\ pc' = [pc EXCEPT ![p] = "again"]
     /\ UNCHANGED <<trace, curr_event, replayed, ready_for_work, work_done_sem,
                    start_work_mutex, main, cpu_usage>>

thread_func(p) ==
  \/ PostReady(p)
  \/ StartGate(p)
  \/ perf_sched__process_event(p)
  \/ PostDone(p)
  \/ DoneGate(p)

-----------------------------------------------------------------------------
(* wait_for_tasks() and the loop around it.                                *)

\* run_one_test() is called again, or all runs are done.
OpenDoneGate ==
  /\ mpc = "run" /\ nr_runs < replay_repeat
  /\ work_done_wait_mutex' = "none" /\ i' = 1 /\ mpc' = "ready"
  /\ UNCHANGED <<trace, threads, ready_for_work, work_done_sem, start_work_mutex,
                 nr_runs, counted, cpu_usage>>

\* sem_wait() of the next task, and sem_init() behind it.
WaitReady ==
  \/ /\ mpc = "ready" /\ i <= Len(tasks) /\ ready_for_work[tasks[i]] > 0
     /\ ready_for_work' = [ready_for_work EXCEPT ![tasks[i]] = @ - 1]
     /\ mpc' = "ready_init" /\ i' = i
     /\ UNCHANGED <<trace, threads, work_done_sem, start_work_mutex,
                    work_done_wait_mutex, nr_runs, counted, cpu_usage>>
  \/ /\ mpc = "ready_init"
     /\ ready_for_work' = [ready_for_work EXCEPT ![tasks[i]] = 0]
     /\ mpc' = "ready" /\ i' = i + 1
     /\ UNCHANGED <<trace, threads, work_done_sem, start_work_mutex,
                    work_done_wait_mutex, nr_runs, counted, cpu_usage>>

(* Mutant: the gate behind the run stays open. *)
CloseDoneGate_Not ==
  /\ mpc = "ready" /\ i > Len(tasks)
  /\ mpc' = "open"
  /\ UNCHANGED <<trace, threads, gates, i, nr_runs, counted, cpu_usage>>

(* Close the gate behind the run ... *)
CloseDoneGate ==
  /\ mpc = "ready" /\ i > Len(tasks)
  /\ work_done_wait_mutex = "none" /\ work_done_wait_mutex' = "main"
  /\ mpc' = "open"
  /\ UNCHANGED <<trace, threads, ready_for_work, work_done_sem, start_work_mutex,
                 i, nr_runs, counted, cpu_usage>>

\* ... and only then open the one in front of it.
OpenStartGate ==
  /\ mpc = "open" /\ start_work_mutex' = "none" /\ i' = 1 /\ mpc' = "work"
  /\ UNCHANGED <<trace, threads, ready_for_work, work_done_sem, work_done_wait_mutex,
                 nr_runs, counted, cpu_usage>>

WaitDone ==
  \/ /\ mpc = "work" /\ i <= Len(tasks) /\ work_done_sem[tasks[i]] > 0
     /\ work_done_sem' = [work_done_sem EXCEPT ![tasks[i]] = @ - 1]
     /\ mpc' = "work_init" /\ i' = i
     /\ UNCHANGED <<trace, threads, ready_for_work, start_work_mutex,
                    work_done_wait_mutex, nr_runs, counted, cpu_usage>>
  \/ /\ mpc = "work_init"
     /\ work_done_sem' = [work_done_sem EXCEPT ![tasks[i]] = 0]
     /\ counted' = counted \union {<<tasks[i], cpu_usage[tasks[i]]>>}
     /\ cpu_usage' = [cpu_usage EXCEPT ![tasks[i]] = 0]
     /\ mpc' = "work" /\ i' = i + 1
     /\ UNCHANGED <<trace, threads, ready_for_work, start_work_mutex,
                    work_done_wait_mutex, nr_runs>>

\* Close the gate in front of the next run; the run is measured.
CloseStartGate ==
  /\ mpc = "work" /\ i > Len(tasks)
  /\ start_work_mutex = "none" /\ start_work_mutex' = "main"
  /\ nr_runs' = nr_runs + 1 /\ mpc' = "run"
  /\ UNCHANGED <<trace, threads, ready_for_work, work_done_sem, work_done_wait_mutex,
                 i, counted, cpu_usage>>

\* perf_sched__replay() returns, and the process exits with its threads.
Terminated ==
  /\ mpc = "failed" \/ (mpc = "run" /\ nr_runs = replay_repeat)
  /\ UNCHANGED vars

wait_for_tasks ==
  \/ OpenDoneGate
  \/ WaitReady
  \/ CloseDoneGate
  \/ OpenStartGate
  \/ WaitDone
  \/ CloseStartGate

Next ==
  \/ \E p, q \in Pids : \/ replay_wakeup_event(p, q)
                        \/ replay_switch_event(p, q)
                        \/ replay_fork_event(p, q)
  \/ TraceError
  \/ EndOfTrace
  \/ add_cross_task_wakeups
  \/ create_tasks
  \/ \E p \in Pids : thread_func(p)
  \/ wait_for_tasks
  \/ Terminated

Spec == Init /\ [][Next]_vars

(* The main thread between the trace and the first run. *)
Prepare == add_cross_task_wakeups \/ create_tasks

(* The kernel schedules every thread. *)
FairSpec ==
  /\ Spec
  /\ WF_vars(Prepare)
  /\ \A p \in Pids : WF_vars(thread_func(p))
  /\ WF_vars(wait_for_tasks)
-----------------------------------------------------------------------------
TypeOK ==
  /\ \A p \in Pids : \A k \in 1 .. Len(atoms[p]) :
       /\ atoms[p][k].type \in {"SLEEP", "RUN", "WAKEUP"}
       /\ atoms[p][k].wait_sem \in 0 .. Len(sems)
  /\ \A k \in 1 .. Len(sems) : sems[k] \in 0 .. 1
  /\ ready_for_work \in [Pids -> 0 .. 1] /\ work_done_sem \in [Pids -> 0 .. 1]
  /\ {start_work_mutex, work_done_wait_mutex} \subseteq {"none", "main", "thread"}
  /\ nr_runs \in 0 .. replay_repeat

\* While a run is not being measured, no thread is in the middle of one: the
\* times of a run are times of that run only.
RunsAreSeparate ==
  (\E p \in Pids : pc[p] \in {"started", "work"}) => mpc \in {"work", "work_init"}

\* When the main thread has measured a run, every task has replayed its atoms
\* exactly once in it, and every semaphore of the atoms is back at 0: the next
\* run starts as the first one did.
RunsAreWhole ==
  mpc = "run" =>
    /\ \A p \in Registered : replayed[p] = nr_runs
    /\ \A k \in 1 .. Len(sems) : sems[k] = 0

\* The usage that is summed is the task's usage in the run that is measured,
\* never one of another run and never one that was taken already.
UsageOfRun ==
  /\ \A c \in counted : c[2] \in 1 .. nr_runs + 1
  /\ mpc = "run" => \A p \in Registered : \A r \in 1 .. nr_runs : <<p, r>> \in counted

(* Whenever perf sched replay has measured a run, each of its threads has  *)
(* replayed its task once, no thread is still in it, and all semaphores    *)
(* are as they were: however the two gates and the tasks interleave.       *)
ReplaysAreWhole == TypeOK /\ RunsAreSeparate /\ RunsAreWhole /\ UsageOfRun

(* Whatever the trace holds, the threads that replay it do not end up      *)
(* waiting for each other ("and can repeat it a number of times").         *)
ReplayEnds == mpc = "cross" ~> mpc = "run" /\ nr_runs = replay_repeat
-----------------------------------------------------------------------------
(* The inductive invariant of the proofs.                                  *)

Atom == [type : {"SLEEP", "RUN", "WAKEUP"}, wait_sem : Nat]

(* What the trace left: al are the lists of atoms, ns is the number of     *)
(* semaphores.  A semaphore belongs to one sleep and to one wakeup.        *)
SemsInRange(al, ns) ==
  \A p \in Pids : \A n \in 1 .. Len(al[p]) :
    /\ al[p][n].wait_sem \in 0 .. ns
    /\ al[p][n].type = "RUN" => al[p][n].wait_sem = 0

SemsUsedOnce(al) ==
  \A p, q \in Pids : \A n \in 1 .. Len(al[p]) : \A m \in 1 .. Len(al[q]) :
    al[p][n] = al[q][m] /\ al[p][n].wait_sem # 0 => p = q /\ n = m

SemsUsed(al, ns) ==
  \A k \in 1 .. ns : \A ty \in {"SLEEP", "WAKEUP"} :
    \E p \in Pids : \E n \in 1 .. Len(al[p]) : al[p][n].type = ty /\ al[p][n].wait_sem = k

AtomsOK(al, ns) == SemsInRange(al, ns) /\ SemsUsedOnce(al) /\ SemsUsed(al, ns)

TraceOK(s) ==
  /\ s \in [tasks : Seq(Pids), atoms : [Pids -> Seq(Atom)], sems : Seq(Nat)]
  /\ \A n, m \in 1 .. Len(s.tasks) : s.tasks[n] = s.tasks[m] => n = m
  /\ \A p \in Pids : s.atoms[p] # <<>> <=> \E n \in 1 .. Len(s.tasks) : s.tasks[n] = p
  /\ AtomsOK(s.atoms, Len(s.sems))

Locations == {"none", "again", "start", "started", "work", "done", "passing"}

ThreadTypes ==
  /\ pc \in [Pids -> Locations] /\ curr_event \in [Pids -> Nat \ {0}]
  /\ ready_for_work \in [Pids -> Nat] /\ work_done_sem \in [Pids -> Nat]
  /\ cpu_usage \in [Pids -> Nat] /\ replayed \in [Pids -> Nat]
  /\ start_work_mutex \in {"none", "main", "thread"}
  /\ work_done_wait_mutex \in {"none", "main", "thread"}
  /\ mpc \in {"read", "cross", "failed", "run", "ready", "ready_init", "open", "work",
              "work_init"}
  /\ i \in Nat \ {0} /\ nr_runs \in Nat
  /\ mpc \in {"ready_init", "work_init"} => i <= Len(tasks)
  /\ \A p \in Pids : pc[p] # "none" => p \in Registered

(* No thread runs before create_tasks(). *)
ReadInv ==
  mpc \in {"read", "cross", "failed"} =>
    /\ nr_runs = 0 /\ counted = {}
    /\ \A p \in Pids : /\ pc[p] = "none" /\ replayed[p] = 0 /\ cpu_usage[p] = 0
                       /\ ready_for_work[p] = 0 /\ work_done_sem[p] = 0

(* The main thread has waited for task n to be ready, or to be done. *)
Awaited(n) == \/ mpc \in {"ready", "work"} /\ n < i
              \/ mpc \in {"ready_init", "work_init"} /\ n <= i
              \/ mpc = "open"

(* Between two runs the gate in front of the next one is closed, and every *)
(* thread is on its way from the one to the other.                         *)
BetweenRuns ==
  mpc \in {"run", "ready", "ready_init", "open"} =>
    /\ start_work_mutex = "main"
    /\ mpc \in {"run", "open"} => work_done_wait_mutex = "main"
    /\ mpc \in {"ready", "ready_init"} => work_done_wait_mutex # "main"
    /\ \A n \in 1 .. Len(tasks) :
         /\ pc[tasks[n]] \in {"done", "passing", "again", "start"}
         /\ mpc = "run" => pc[tasks[n]] # "passing"
         /\ Awaited(n) => pc[tasks[n]] = "start"
         /\ ready_for_work[tasks[n]] = IF pc[tasks[n]] = "start" /\ ~Awaited(n) THEN 1 ELSE 0
         /\ work_done_sem[tasks[n]] = 0 /\ cpu_usage[tasks[n]] = 0
         /\ replayed[tasks[n]] = nr_runs

(* During a run the gate behind it is closed: a thread that is done waits  *)
(* for the main thread to have measured all of them.                       *)
DuringRun ==
  mpc \in {"work", "work_init"} =>
    /\ work_done_wait_mutex = "main" /\ start_work_mutex # "main"
    /\ \A n \in 1 .. Len(tasks) :
         /\ pc[tasks[n]] \in {"start", "started", "work", "done"}
         /\ Awaited(n) => pc[tasks[n]] = "done"
         /\ ready_for_work[tasks[n]] = 0
         /\ work_done_sem[tasks[n]] = IF pc[tasks[n]] = "done" /\ ~Awaited(n) THEN 1 ELSE 0
         /\ pc[tasks[n]] = "done" /\ n >= i => cpu_usage[tasks[n]] = nr_runs + 1
         /\ pc[tasks[n]] # "done" \/ n < i => cpu_usage[tasks[n]] = 0
         /\ replayed[tasks[n]] = IF pc[tasks[n]] = "done" THEN nr_runs + 1 ELSE nr_runs

(* What was summed: every task in every run so far, and in the run that is *)
(* measured the tasks that were waited for.                                *)
CountedInv ==
  /\ \A c \in counted : c[2] \in 1 .. nr_runs + (IF mpc \in {"work", "work_init"} THEN 1 ELSE 0)
  /\ \A n \in 1 .. Len(tasks) : \A r \in 1 .. nr_runs : <<tasks[n], r>> \in counted
  /\ mpc \in {"work", "work_init"} =>
       \A n \in 1 .. Len(tasks) : n < i => <<tasks[n], nr_runs + 1>> \in counted
  /\ nr_runs <= replay_repeat
  /\ mpc \in {"ready", "ready_init", "open", "work", "work_init"} => nr_runs < replay_repeat

(* How often the thread of p has got past its atom n. *)
Times(p, n) == replayed[p] + (IF pc[p] = "work" /\ n < curr_event[p] THEN 1 ELSE 0)

(* A semaphore is ahead by the wakeups that no sleep has taken yet. *)
SemInv ==
  \A p, q \in Pids : \A n \in 1 .. Len(atoms[p]), m \in 1 .. Len(atoms[q]) :
    /\ atoms[p][n].type = "WAKEUP" /\ atoms[q][m].type = "SLEEP"
    /\ atoms[p][n].wait_sem = atoms[q][m].wait_sem /\ atoms[p][n].wait_sem # 0
    => sems[atoms[p][n].wait_sem] = Times(p, n) - Times(q, m)

SemsUnused ==
  mpc \in {"read", "cross", "failed"} => \A k \in 1 .. Len(sems) : sems[k] = 0

(* Nobody posts the semaphores of a pid without a task. *)
IdleInv ==
  \A p \in Pids : p \notin Registered => ready_for_work[p] = 0 /\ work_done_sem[p] = 0

GateInv == ThreadTypes /\ ReadInv /\ BetweenRuns /\ DuringRun /\ CountedInv

ReplayInv == TraceOK(Read) /\ GateInv /\ IdleInv /\ SemInv /\ SemsUnused
=============================================================================
