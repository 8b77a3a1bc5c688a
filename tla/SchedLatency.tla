---------------------------- MODULE SchedLatency ----------------------------
(***************************************************************************)
(* perf sched latency (builtin-sched.c): what the tool makes of a stream   *)
(* of scheduler events, beside the scheduler that emits it.  The scheduler *)
(* (external) runs tasks on CPUs, wakes them up (also tasks that are on    *)
(* the run queue already) and preempts them; its events reach the tool in  *)
(* the order of their times, or, if Unordered, late by one event; if Lossy *)
(* some do not reach it at all.  Recording starts at any point.            *)
(***************************************************************************)
EXTENDS Integers, Sequences, SequencesExt, FiniteSets

CONSTANTS
  Tasks, Cpus,
  Lossy, Unordered,
  MaxEvents,    \* bound: events of a recording
  MaxTime       \* bound: the last time

VARIABLES
  kstate,       \* scheduler: per task "running", "runnable" or "sleeping"
  running,      \* scheduler: per CPU its task, or swapper
  since,        \* scheduler: when a runnable task was first seen so, or Unseen
  now, nr,      \* the time, and the events so far
  pending,      \* events on their way to the tool
  atoms,        \* tool, per task: the last work_atom and the sums; NoAtoms
  cpu_last_switched, curr_pid, nr_context_switch_bugs,
  nr_unordered_timestamps,
  status,       \* "ok", or "error": an event handler returned -1
  true_lat, true_max, true_nr,  \* history: what the scheduler knows
  lost,         \* history: an event did not reach the tool
  late          \* history: one was on its way as the next was emitted

kernel == <<kstate, running, since, now, nr, true_lat, true_max, true_nr, lost, late>>
tool == <<atoms, cpu_last_switched, curr_pid, nr_context_switch_bugs,
          nr_unordered_timestamps, status>>
vars == <<kernel, pending, tool>>

swapper == "swapper"
Threads == Tasks \union {swapper}
Unseen == -1
NoAtoms == [state |-> "none", sched_out_time |-> 0, wake_up_time |-> 0,
            total_lat |-> 0, max_lat |-> 0, nb_atoms |-> 0]
Known(a) == a.state # "none"

Init ==
  /\ running \in [Cpus -> Threads]
  /\ \A c, d \in Cpus : running[c] = running[d] /\ c # d => running[c] = swapper
  /\ kstate \in [Tasks -> {"running", "runnable", "sleeping"}]
  /\ \A t \in Tasks : kstate[t] = "running" <=> \E c \in Cpus : running[c] = t
  /\ since = [t \in Tasks |-> Unseen]
  /\ now = 1 /\ nr = 0 /\ pending = <<>>
  /\ atoms = [t \in Threads |-> NoAtoms]
  /\ cpu_last_switched = [c \in Cpus |-> 0] /\ curr_pid = [c \in Cpus |-> "none"]
  /\ nr_context_switch_bugs = 0 /\ nr_unordered_timestamps = 0 /\ status = "ok"
  /\ true_lat = [t \in Tasks |-> 0] /\ true_max = [t \in Tasks |-> 0]
  /\ true_nr = [t \in Tasks |-> 0]
  /\ lost = FALSE /\ late = FALSE

-----------------------------------------------------------------------------
(* The scheduler and its tracepoints.                                      *)

Emit(e) ==
  /\ nr < MaxEvents /\ Len(pending) < (IF Unordered THEN 2 ELSE 1)
  /\ nr' = nr + 1
  /\ late' = (late \/ pending # <<>>)
  /\ \/ pending' = Append(pending, e) /\ lost' = lost
     \/ Lossy /\ pending' = pending /\ lost' = TRUE

Switch(c, next, sleeps) ==
  LET prev == running[c]
      \* a task that was runnable all along is first seen when it comes in
      lat == IF since[next] = Unseen THEN 0 ELSE now - since[next]
  IN  /\ next # prev
      /\ next # swapper => kstate[next] = "runnable"
      /\ prev = swapper => ~sleeps
      /\ running' = [running EXCEPT ![c] = next]
      /\ kstate' = [t \in Tasks |-> IF t = next THEN "running"
                                    ELSE IF t # prev THEN kstate[t]
                                    ELSE IF sleeps THEN "sleeping" ELSE "runnable"]
      /\ since' = [t \in Tasks |-> IF t = prev /\ ~sleeps THEN now
                                   ELSE IF t \in {prev, next} THEN Unseen ELSE since[t]]
      /\ IF next = swapper THEN UNCHANGED <<true_lat, true_max, true_nr>>
         ELSE /\ true_lat' = [true_lat EXCEPT ![next] = @ + lat]
              /\ true_max' = [true_max EXCEPT ![next] = IF lat > @ THEN lat ELSE @]
              /\ true_nr' = [true_nr EXCEPT ![next] = @ + 1]
      /\ Emit([type |-> "switch", cpu |-> c, prev |-> prev, next |-> next,
               state |-> IF sleeps THEN "S" ELSE "R", time |-> now])
      /\ UNCHANGED <<now, tool>>

Wakeup(c, t) ==
  /\ kstate' = [kstate EXCEPT ![t] = IF @ = "sleeping" THEN "runnable" ELSE @]
  /\ since' = [since EXCEPT ![t] = IF kstate'[t] = "runnable" /\ @ = Unseen THEN now ELSE @]
  /\ Emit([type |-> "wakeup", cpu |-> c, pid |-> t, time |-> now])
  /\ UNCHANGED <<running, now, true_lat, true_max, true_nr, tool>>

StatRuntime(c) ==
  /\ running[c] # swapper
  /\ Emit([type |-> "runtime", cpu |-> c, pid |-> running[c], time |-> now])
  /\ UNCHANGED <<kstate, running, since, now, true_lat, true_max, true_nr, tool>>

Tick ==
  /\ now < MaxTime /\ now' = now + 1
  /\ UNCHANGED <<kstate, running, since, nr, pending, true_lat, true_max, true_nr, lost, late>>
  /\ UNCHANGED tool

-----------------------------------------------------------------------------
(* The handlers of the tool, on the atoms of one task.                     *)

\* A new work_atom at the end of the list, the only one that counts from here.
add_sched_out_event(a, run_state, timestamp) ==
  [a EXCEPT !.state = IF run_state = "R" THEN "WAIT_CPU" ELSE "SLEEPING",
            !.sched_out_time = timestamp,
            !.wake_up_time = IF run_state = "R" THEN timestamp ELSE 0]

add_sched_in_event(a, timestamp) ==
  LET delta == timestamp - a.wake_up_time
  IN  IF a.state # "WAIT_CPU" THEN a
      ELSE IF timestamp < a.wake_up_time THEN [a EXCEPT !.state = "IGNORE"]
      ELSE [a EXCEPT !.state = "SCHED_IN", !.total_lat = @ + delta,
                     !.max_lat = IF delta > @ THEN delta ELSE @, !.nb_atoms = @ + 1]

\* A task that comes in and is not known yet was runnable at that time.
latency_switch_event(e) ==
  LET out == [atoms EXCEPT ![e.prev] = add_sched_out_event(@, e.state, e.time)]
      known == IF Known(out[e.next]) THEN out
               ELSE [out EXCEPT ![e.next] = add_sched_out_event(@, "R", e.time)]
  IN  [known EXCEPT ![e.next] = add_sched_in_event(@, e.time)]

\* process_sched_switch_event(): the check of the current task, then the
\* handler, which gives up on a time before the CPU's last switch.
process_sched_switch_event(e) ==
  LET backwards == cpu_last_switched[e.cpu] # 0 /\ e.time < cpu_last_switched[e.cpu]
  IN  /\ nr_context_switch_bugs' =
           IF curr_pid[e.cpu] \notin {"none", e.prev} THEN nr_context_switch_bugs + 1
           ELSE nr_context_switch_bugs
      /\ cpu_last_switched' = [cpu_last_switched EXCEPT ![e.cpu] = e.time]
      /\ curr_pid' = [curr_pid EXCEPT ![e.cpu] = e.next]
      /\ atoms' = IF backwards THEN atoms ELSE latency_switch_event(e)
      /\ status' = IF backwards THEN "error" ELSE status
      /\ UNCHANGED nr_unordered_timestamps

\* A wakeup counts for a task that sleeps, as far as the tool knows.
WakeupCounts_Always(a) == TRUE
WakeupCounts(a) == a.state = "SLEEPING"

latency_wakeup_event(e) ==
  LET a == IF Known(atoms[e.pid]) THEN atoms[e.pid]
           ELSE add_sched_out_event(atoms[e.pid], "S", e.time)
      unordered == WakeupCounts(a) /\ a.sched_out_time > e.time
  IN  /\ atoms' = [atoms EXCEPT ![e.pid] =
                     IF ~WakeupCounts(a) \/ unordered THEN a
                     ELSE [a EXCEPT !.state = "WAIT_CPU", !.wake_up_time = e.time]]
      /\ nr_unordered_timestamps' = nr_unordered_timestamps + (IF unordered THEN 1 ELSE 0)
      /\ UNCHANGED <<cpu_last_switched, curr_pid, nr_context_switch_bugs, status>>

\* The runtime is added to the last atom; a task that is not known gets one.
latency_runtime_event(e) ==
  /\ atoms' = IF Known(atoms[e.pid]) THEN atoms
              ELSE [atoms EXCEPT ![e.pid] = add_sched_out_event(@, "R", e.time)]
  /\ UNCHANGED <<cpu_last_switched, curr_pid, nr_context_switch_bugs,
                 nr_unordered_timestamps, status>>

\* The events of one CPU stay in order: each CPU has its own buffer.
Deliver(k) ==
  LET e == pending[k]
  IN  /\ status = "ok"
      /\ k > 1 => Unordered /\ pending[1].cpu # e.cpu
      /\ pending' = RemoveAt(pending, k)
      /\ CASE e.type = "switch" -> process_sched_switch_event(e)
           [] e.type = "wakeup" -> latency_wakeup_event(e)
           [] e.type = "runtime" -> latency_runtime_event(e)
      /\ UNCHANGED kernel

Next ==
  \/ \E c \in Cpus, n \in Threads, s \in BOOLEAN : Switch(c, n, s)
  \/ \E c \in Cpus, t \in Tasks : Wakeup(c, t)
  \/ \E c \in Cpus : StatRuntime(c)
  \/ Tick
  \/ \E k \in 1 .. Len(pending) : Deliver(k)

Spec == Init /\ [][Next]_vars
-----------------------------------------------------------------------------
\* With every event and in the order of time, the tool's latencies are the
\* scheduler's, of every task and wherever the recording starts: their sum,
\* their maximum and their number.
LatencyIsTrue ==
  ~lost /\ ~late /\ pending = <<>> =>
    \A t \in Tasks : /\ atoms[t].total_lat = true_lat[t]
                     /\ atoms[t].max_lat = true_max[t]
                     /\ atoms[t].nb_atoms = true_nr[t]

\* With every event and in order, no task is switched out that is not current.
NoSwitchBugs ==
  ~lost /\ ~late => nr_context_switch_bugs = 0 /\ nr_unordered_timestamps = 0 /\ status = "ok"

\* Whatever is lost or late, no latency is longer than the time recorded (a
\* difference below zero would be huge, as the sums are unsigned); with events
\* in order the latencies of a task are of stretches of time that do not
\* overlap, and so is their sum.
LatencyWithinTime ==
  \A t \in Tasks : /\ 0 <= atoms[t].max_lat
                   /\ atoms[t].max_lat <= atoms[t].total_lat
                   /\ atoms[t].max_lat <= now
                   /\ ~late => atoms[t].total_lat <= now

-----------------------------------------------------------------------------
(* What the proofs need besides: the types, that a task runs on one CPU, the *)
(* times that the tool has of a task, and how far it is behind.              *)

SchedConstants ==
  swapper \notin Tasks /\ "none" \notin Tasks /\ Lossy \in BOOLEAN /\ Unordered \in BOOLEAN

Events ==
  [type : {"switch"}, cpu : Cpus, prev : Threads, next : Threads, state : {"S", "R"}, time : Nat]
    \union [type : {"wakeup", "runtime"}, cpu : Cpus, pid : Tasks, time : Nat]

Atoms ==
  [state : {"none", "SLEEPING", "WAIT_CPU", "SCHED_IN", "IGNORE"}, sched_out_time : Nat,
   wake_up_time : Nat, total_lat : Nat, max_lat : Nat, nb_atoms : Nat]

(* The shape of the state; no event is of a time that is still to come. *)
TypeOK ==
  /\ now \in Nat /\ pending \in Seq(Events) /\ \A k \in DOMAIN pending : pending[k].time <= now
  /\ running \in [Cpus -> Threads] /\ kstate \in [Tasks -> {"running", "runnable", "sleeping"}]
  /\ since \in [Tasks -> Int] /\ \A t \in Tasks : since[t] <= now
  /\ true_lat \in [Tasks -> Nat] /\ true_max \in [Tasks -> Nat] /\ true_nr \in [Tasks -> Nat]
  /\ atoms \in [Threads -> Atoms] /\ curr_pid \in [Cpus -> Threads \union {"none"}]
  /\ cpu_last_switched \in [Cpus -> Nat]
  /\ lost \in BOOLEAN /\ late \in BOOLEAN /\ (~late => Len(pending) <= 1)

RunsOnce ==
  /\ \A c \in Cpus : running[c] # swapper => kstate[running[c]] = "running"
  /\ \A c, d \in Cpus : running[c] = running[d] /\ c # d => running[c] = swapper

\* The last time that the tool has seen, at most.
Seen == IF pending = <<>> THEN now ELSE pending[1].time

Fits(a, seen) ==
  /\ a.max_lat <= a.total_lat /\ a.max_lat <= now
  /\ ~late => /\ a.total_lat <= seen /\ a.sched_out_time <= seen
              /\ a.state = "WAIT_CPU" => a.total_lat <= a.wake_up_time /\ a.wake_up_time <= seen

WithinTime == \A t \in Threads : Fits(atoms[t], Seen)

\* The tool has of a task what the scheduler has.
Agree(t) ==
  LET a == atoms[t] IN
    /\ a.total_lat = true_lat[t] /\ a.max_lat = true_max[t] /\ a.nb_atoms = true_nr[t]
    /\ kstate[t] = "sleeping" => a.state \in {"none", "SLEEPING"} /\ since[t] = Unseen
    /\ kstate[t] = "runnable" => \/ a.state = "none" /\ since[t] = Unseen
                                 \/ a.state = "WAIT_CPU" /\ a.wake_up_time = since[t]
    /\ kstate[t] = "running" => since[t] = Unseen

\* Or will have it, once it has seen the event that is on its way.
AgreeAfter(t, e) ==
  LET a == atoms[t]
      lat == IF Known(a) THEN e.time - a.wake_up_time ELSE 0
      same == a.total_lat = true_lat[t] /\ a.max_lat = true_max[t] /\ a.nb_atoms = true_nr[t]
  IN  IF e.type = "switch" /\ t = e.prev
      THEN /\ same
           /\ IF e.state = "R" THEN kstate[t] = "runnable" /\ since[t] = e.time
              ELSE kstate[t] = "sleeping" /\ since[t] = Unseen
      ELSE IF e.type = "switch" /\ t = e.next
      THEN /\ kstate[t] = "running" /\ since[t] = Unseen /\ a.state \in {"none", "WAIT_CPU"}
           /\ true_lat[t] = a.total_lat + lat /\ true_nr[t] = a.nb_atoms + 1
           /\ true_max[t] = IF lat > a.max_lat THEN lat ELSE a.max_lat
      ELSE IF e.type = "wakeup" /\ t = e.pid /\ a.state \in {"none", "SLEEPING"}
      THEN /\ same
           /\ \/ kstate[t] = "running" /\ since[t] = Unseen
              \/ kstate[t] = "runnable" /\ since[t] = e.time
      ELSE Agree(t) /\ (e.type = "runtime" /\ t = e.pid => kstate[t] = "running")

InStep ==
  /\ nr_context_switch_bugs = 0 /\ nr_unordered_timestamps = 0 /\ status = "ok"
  /\ \A c \in Cpus : cpu_last_switched[c] <= Seen
  /\ pending = <<>> =>
       /\ \A t \in Tasks : Agree(t)
       /\ \A c \in Cpus : curr_pid[c] \in {"none", running[c]}
  /\ pending # <<>> =>
       LET e == pending[1] IN
       /\ e.type = "switch" => e.prev # e.next
       /\ \A t \in Tasks : AgreeAfter(t, e)
       /\ \A c \in Cpus : IF e.type = "switch" /\ c = e.cpu
                           THEN curr_pid[c] \in {"none", e.prev} /\ running[c] = e.next
                           ELSE curr_pid[c] \in {"none", running[c]}

Exact == ~lost /\ ~late => InStep

SchedInv == TypeOK /\ RunsOnce /\ WithinTime /\ Exact
=============================================================================
