------------------------------ MODULE Reports ------------------------------
(***************************************************************************)
(* What reports make of a stream of events that begins anywhere and may    *)
(* have lost some: the latencies of perf sched (SchedLatency) and the      *)
(* waiting times of perf lock (LockStats).  The two share no state: a      *)
(* behaviour of both is one of each.                                       *)
(***************************************************************************)

CONSTANTS Tasks, SchedCpus, Lossy, Unordered, MaxSchedEvents, MaxSchedTime
VARIABLES kstate, running, sched_since, now, sched_nr, sched_pending, atoms,
          cpu_last_switched, curr_pid, nr_context_switch_bugs, nr_unordered_timestamps,
          sched_status, true_lat, true_max, true_nr, sched_lost, sched_late
Sched == INSTANCE SchedLatency WITH
    Cpus <- SchedCpus, MaxEvents <- MaxSchedEvents, MaxTime <- MaxSchedTime,
    since <- sched_since, nr <- sched_nr, pending <- sched_pending, status <- sched_status,
    lost <- sched_lost, late <- sched_late

CONSTANTS LockThreads, LockNames, LockFlags, Midway, MaxLockTime, MaxLost
VARIABLES lock_phase, flag, lock_depth, asked, lock_since, lock_time, lock_lost, lock_seq, ls,
          waits, waited, taken, missed, gap, aborted
Lock == INSTANCE LockStats WITH
    Threads <- LockThreads, Locks <- LockNames, Flags <- LockFlags, MaxTime <- MaxLockTime,
    phase <- lock_phase, depth <- lock_depth, since <- lock_since, time <- lock_time,
    lost <- lock_lost, seq <- lock_seq

(* What the proofs need of the constants. *)
ASSUME ReportsAssumption == Sched!SchedConstants /\ Lock!LockConstants

-----------------------------------------------------------------------------
(* perf sched latency: with all events and in order, the latencies of a    *)
(* task (sum, maximum, number) are those that the scheduler gave it,       *)
(* wherever the recording begins, and no switch is taken for a bug.        *)
(* Whatever is lost or late, none is longer than the time recorded; with   *)
(* events in order nor is their sum.                                       *)
LatenciesAreReal ==
    Sched!TypeOK /\ Sched!LatencyIsTrue /\ Sched!NoSwitchBugs /\ Sched!LatencyWithinTime

(* perf lock: the waiting times and the number of acquisitions of a lock   *)
(* that is reported are those that were seen of it, of all threads, unless *)
(* three events of a thread and lock in a row were lost; and a lock that   *)
(* is taken exclusively only, all events seen, is reported.                *)
LocksAreCounted ==
    Lock!TypeOK /\ Lock!WaitsAreCounted /\ Lock!TakenAreCounted /\ Lock!ExclusiveIsReported
=============================================================================
