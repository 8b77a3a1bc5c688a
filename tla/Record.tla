------------------------------- MODULE Record -------------------------------
(***************************************************************************)
(* The main loop of perf record (__cmd_record(), builtin-record.c) with    *)
(* the ring buffers it reads (struct perf_mmap, evlist.c), the signal      *)
(* handlers that talk to it through flags and triggers, and the poll array *)
(* whose entries die with the events.                                      *)
(*                                                                         *)
(* A buffer is how many events were written to it and how many of these    *)
(* were read: head and prev of struct perf_mmap, counted in events.  The   *)
(* kernel writes, lets events die and delivers signals between any two     *)
(* steps of the loop.                                                      *)
(***************************************************************************)
EXTENDS Integers, FiniteSets, Trigger

CONSTANTS
  NrMmaps,        \* evlist->nr_mmaps
  NrFds,          \* events that share one buffer
  Backward,       \* evlist->backward_mmap # NULL: --overwrite
  SwitchOutput,   \* --switch-output
  SnapshotMode,   \* --snapshot
  TargetNone,     \* target__none(): perf starts what it profiles
  RingSize,       \* events that fit in a forward buffer
  MaxEvents,      \* bound: events written to one buffer
  MaxSignals,     \* bound: SIGUSR2s
  MayFail         \* may writes and snapshots fail?

ASSUME RecordAssumption ==
  /\ NrMmaps \in Nat \ {0} /\ NrFds \in Nat \ {0} /\ RingSize \in Nat \ {0}
  /\ MaxEvents \in Nat /\ MaxSignals \in Nat
  /\ {Backward, SwitchOutput, SnapshotMode, TargetNone, MayFail} \subseteq BOOLEAN

VARIABLES
  (* the ring buffers, indexed by <<kind, index>> *)
  head, prev, refcnt,
  mapped,             \* map->base # NULL
  (* the poll array: entries of each buffer, and how many of them are dead *)
  polled, hup,
  (* the kernel *)
  paused,             \* PERF_EVENT_IOC_PAUSE_OUTPUT of the backward buffers
  enabled,            \* cleared by perf_evlist__disable()
  signals,            \* SIGUSR2s so far
  (* written by signal handlers *)
  done, child_finished, switch_output_trigger, auxtrace_snapshot_trigger,
  snapshot_started,
  (* the loop *)
  pc, kind, cur, hits, samples, draining, disabled, bkw_mmap_state,
  files,              \* output files begun
  (* history *)
  wanted,             \* head when the switch of the output was asked for
  lastWords           \* head when the workload had exited by itself

ringVars == <<head, prev, refcnt, mapped>>
pollVars == <<polled, hup>>
kernelVars == <<paused, enabled, signals>>
flagVars == <<done, child_finished, switch_output_trigger,
              auxtrace_snapshot_trigger, snapshot_started>>
loopVars == <<pc, kind, cur, hits, samples, draining, disabled,
              bkw_mmap_state, files>>
historyVars == <<wanted, lastWords>>
vars == <<ringVars, pollVars, kernelVars, flagVars, loopVars, historyVars>>

Kinds == IF Backward THEN {"forward", "backward"} ELSE {"forward"}
Maps == Kinds \X (1 .. NrMmaps)
BackwardMaps == {m \in Maps : m[1] = "backward"}

(* perf_evlist__mmap() has mapped every buffer: one reference for each of  *)
(* its events and one for the reader.  The handlers are installed.         *)
Init ==
  /\ head = [m \in Maps |-> 0]
  /\ prev = [m \in Maps |-> 0]
  /\ refcnt = [m \in Maps |-> NrFds + 1]
  /\ mapped = [m \in Maps |-> TRUE]
  /\ polled = [m \in Maps |-> NrFds]
  /\ hup = [m \in Maps |-> 0]
  /\ paused = FALSE /\ enabled = TRUE /\ signals = 0
  /\ done = FALSE /\ child_finished = FALSE
  /\ switch_output_trigger = IF SwitchOutput THEN trigger_on("OFF") ELSE "OFF"
  /\ auxtrace_snapshot_trigger = IF SnapshotMode THEN trigger_on("OFF") ELSE "OFF"
  /\ snapshot_started = FALSE
  /\ pc = "setup" /\ kind = "forward" /\ cur = 1
  /\ hits = 0 /\ samples = 0
  /\ draining = FALSE /\ disabled = FALSE
  /\ bkw_mmap_state = IF Backward THEN "RUNNING" ELSE "NOTREADY"
  /\ files = 1
  /\ wanted = [m \in Maps |-> 0]
  /\ lastWords = [m \in Maps |-> 0]

----------------------------------------------------------------------------
(* The kernel and the profiled tasks, external.                            *)

(* An event is written unless the buffer is full; a backward buffer is     *)
(* never full.  The dead write nothing.                                    *)
KernelWrites(m) ==
  /\ enabled
  /\ polled[m] > hup[m]
  /\ head[m] < MaxEvents
  /\ IF m[1] = "backward" THEN ~paused ELSE head[m] - prev[m] < RingSize
  /\ head' = [head EXCEPT ![m] = @ + 1]
  /\ UNCHANGED <<prev, refcnt, mapped, pollVars, kernelVars, flagVars, loopVars, historyVars>>

(* The task an event counts has exited. *)
EventDies(m) ==
  /\ hup[m] < polled[m]
  /\ hup' = [hup EXCEPT ![m] = @ + 1]
  /\ UNCHANGED <<ringVars, polled, kernelVars, flagVars, loopVars, historyVars>>

(* A signal that arrives while perf sleeps ends the sleep. *)
InterruptsPoll == pc' = IF pc = "poll" THEN "woken" ELSE pc

(* sig_handler(): SIGCHLD, once what perf started has exited ... *)
Sigchld ==
  /\ ~child_finished
  /\ child_finished' = TRUE /\ done' = TRUE
  /\ lastWords' = IF done THEN lastWords ELSE head
  /\ InterruptsPoll
  /\ UNCHANGED <<ringVars, pollVars, kernelVars, switch_output_trigger,
                 auxtrace_snapshot_trigger, snapshot_started, kind, cur, hits,
                 samples, draining, disabled, bkw_mmap_state, files, wanted>>

(* ... SIGINT and SIGTERM. *)
Sigint ==
  /\ ~done
  /\ done' = TRUE
  /\ InterruptsPoll
  /\ UNCHANGED <<ringVars, pollVars, kernelVars, child_finished, switch_output_trigger,
                 auxtrace_snapshot_trigger, snapshot_started, kind, cur, hits,
                 samples, draining, disabled, bkw_mmap_state, files, historyVars>>

(* SIGUSR2.  auxtrace_record__snapshot_start() may fail. *)
snapshot_sig_handler ==
  /\ SwitchOutput \/ SnapshotMode
  /\ signals < MaxSignals
  /\ signals' = signals + 1
  /\ IF auxtrace_snapshot_trigger = "READY"
     THEN /\ snapshot_started' = TRUE
          /\ \/ auxtrace_snapshot_trigger' = trigger_hit(auxtrace_snapshot_trigger)
             \/ MayFail /\ auxtrace_snapshot_trigger' = trigger_error(auxtrace_snapshot_trigger)
     ELSE UNCHANGED <<snapshot_started, auxtrace_snapshot_trigger>>
  /\ IF switch_output_trigger = "READY"
     THEN /\ switch_output_trigger' = trigger_hit(switch_output_trigger)
          /\ wanted' = head
     ELSE UNCHANGED <<switch_output_trigger, wanted>>
  /\ InterruptsPoll
  /\ UNCHANGED <<ringVars, pollVars, paused, enabled, done, child_finished, kind, cur,
                 hits, samples, draining, disabled, bkw_mmap_state, files, lastWords>>

----------------------------------------------------------------------------
(* perf_evlist__toggle_bkw_mmap(): the states of the overwritable buffers. *)

Toggles == {<<"NOTREADY", "RUNNING">>, <<"RUNNING", "DATA_PENDING">>,
            <<"DATA_PENDING", "EMPTY">>, <<"EMPTY", "RUNNING">>}

(* Mutant: the buffers are read while the kernel writes to them. *)
perf_evlist__toggle_bkw_mmap_NoPause(state) ==
  IF Backward /\ <<bkw_mmap_state, state>> \in Toggles
  THEN bkw_mmap_state' = state /\ UNCHANGED paused
  ELSE UNCHANGED <<bkw_mmap_state, paused>>

(* A transition that is not one of these is ignored. *)
perf_evlist__toggle_bkw_mmap(state) ==
  IF Backward /\ <<bkw_mmap_state, state>> \in Toggles
  THEN /\ bkw_mmap_state' = state
       /\ paused' = CASE state = "DATA_PENDING" -> TRUE
                      [] state = "RUNNING"      -> FALSE
                      [] state = "EMPTY"        -> paused
  ELSE UNCHANGED <<bkw_mmap_state, paused>>

(* Mutant: the pass starts below the first buffer. *)
Top_FromZero ==
  /\ pc = "top"
  /\ hits' = samples
  /\ IF switch_output_trigger = "HIT" \/ done \/ draining
     THEN perf_evlist__toggle_bkw_mmap("DATA_PENDING")
     ELSE UNCHANGED <<bkw_mmap_state, paused>>
  /\ pc' = "pass" /\ kind' = "forward" /\ cur' = 0
  /\ UNCHANGED <<ringVars, pollVars, enabled, signals, flagVars, samples, draining,
                 disabled, files, historyVars>>

----------------------------------------------------------------------------
(* One turn of the loop.                                                   *)

(* The workload is let go, the triggers are set: what hit one before is    *)
(* forgotten.                                                              *)
Start ==
  /\ pc = "setup"
  /\ pc' = "top"
  /\ auxtrace_snapshot_trigger' = trigger_ready(auxtrace_snapshot_trigger)
  /\ switch_output_trigger' = trigger_ready(switch_output_trigger)
  /\ UNCHANGED <<ringVars, pollVars, kernelVars, done, child_finished, snapshot_started,
                 kind, cur, hits, samples, draining, disabled, bkw_mmap_state, files,
                 historyVars>>

Top ==
  /\ pc = "top"
  /\ hits' = samples
  /\ IF switch_output_trigger = "HIT" \/ done \/ draining
     THEN perf_evlist__toggle_bkw_mmap("DATA_PENDING")
     ELSE UNCHANGED <<bkw_mmap_state, paused>>
  /\ pc' = "pass" /\ kind' = "forward" /\ cur' = 1
  /\ UNCHANGED <<ringVars, pollVars, enabled, signals, flagVars, samples, draining,
                 disabled, files, historyVars>>

(* A backward buffer is dumped from its newest event on, old ones included; *)
(* a forward one from where the last read stopped.                          *)
HasData(m) == IF m[1] = "backward" THEN head[m] # 0 ELSE head[m] # prev[m]

(* A buffer with an AUX area, which snapshots need, is never empty. *)
perf_mmap__empty(m) == head[m] = prev'[m] /\ ~SnapshotMode

(* Mutant: the reader's reference goes although an event lives. *)
perf_mmap__consume_AnyRef(m) ==
  IF refcnt[m] <= 2 /\ perf_mmap__empty(m)
  THEN /\ refcnt' = [refcnt EXCEPT ![m] = 0]
       /\ mapped' = [mapped EXCEPT ![m] = FALSE]
  ELSE UNCHANGED <<refcnt, mapped>>

(* perf_mmap__consume(): the reader's reference goes last, and only from a *)
(* buffer that is empty; with it goes the mapping.                         *)
perf_mmap__consume(m) ==
  IF refcnt[m] = 1 /\ perf_mmap__empty(m)
  THEN /\ refcnt' = [refcnt EXCEPT ![m] = 0]
       /\ mapped' = [mapped EXCEPT ![m] = FALSE]
  ELSE UNCHANGED <<refcnt, mapped>>

record__mmap_read ==
  LET m == <<kind, cur>>
  IN  /\ pc = "pass" /\ cur <= NrMmaps
      /\ IF mapped[m] /\ HasData(m)
         THEN /\ samples' = samples + 1
              /\ prev' = [prev EXCEPT ![m] = head[m]]
              /\ perf_mmap__consume(m)
         ELSE UNCHANGED <<samples, prev, refcnt, mapped>>
      /\ cur' = cur + 1
      /\ UNCHANGED <<head, pollVars, kernelVars, flagVars, pc, kind, hits, draining,
                     disabled, bkw_mmap_state, files, historyVars>>

(* record__mmap_read_all() failed: record__write() got an error. *)
ReadFails ==
  /\ MayFail
  /\ pc = "pass"
  /\ pc' = "error"
  /\ switch_output_trigger' = trigger_error(switch_output_trigger)
  /\ auxtrace_snapshot_trigger' = trigger_error(auxtrace_snapshot_trigger)
  /\ UNCHANGED <<ringVars, pollVars, kernelVars, done, child_finished, snapshot_started,
                 kind, cur, hits, samples, draining, disabled, bkw_mmap_state, files,
                 historyVars>>

(* Behind the forward buffers the backward ones, if their data is pending. *)
PassEnds ==
  /\ pc = "pass" /\ cur > NrMmaps
  /\ IF kind = "forward" /\ bkw_mmap_state = "DATA_PENDING"
     THEN /\ kind' = "backward" /\ cur' = 1
          /\ UNCHANGED <<pc, bkw_mmap_state, paused>>
     ELSE /\ pc' = "snapshot"
          /\ IF kind = "backward" THEN perf_evlist__toggle_bkw_mmap("EMPTY")
                                  ELSE UNCHANGED <<bkw_mmap_state, paused>>
          /\ UNCHANGED <<kind, cur>>
  /\ UNCHANGED <<ringVars, pollVars, enabled, signals, flagVars, hits, samples,
                 draining, disabled, files, historyVars>>

(* Mutant: a snapshot that was read leaves its trigger hit. *)
ReadSnapshot_NotReady ==
  /\ pc = "snapshot"
  /\ snapshot_started
  /\ snapshot_started' = FALSE
  /\ pc' = "switch"
  /\ samples' \in {samples, samples + 1}
  /\ UNCHANGED <<ringVars, pollVars, kernelVars, done, child_finished, auxtrace_snapshot_trigger,
                 switch_output_trigger, kind, cur, hits, draining, disabled,
                 bkw_mmap_state, files, historyVars>>

(* A snapshot was started: it is read, or perf gives up. *)
ReadSnapshot ==
  /\ pc = "snapshot"
  /\ snapshot_started
  /\ snapshot_started' = FALSE
  /\ \/ /\ auxtrace_snapshot_trigger # "ERROR"
        /\ pc' = "switch"
        /\ auxtrace_snapshot_trigger' = trigger_ready(auxtrace_snapshot_trigger)
        /\ samples' \in {samples, samples + 1}
     \/ /\ MayFail \/ auxtrace_snapshot_trigger = "ERROR"
        /\ pc' = "error"
        /\ auxtrace_snapshot_trigger' = trigger_error(auxtrace_snapshot_trigger)
        /\ UNCHANGED samples
  /\ UNCHANGED <<ringVars, pollVars, kernelVars, done, child_finished,
                 switch_output_trigger, kind, cur, hits, draining, disabled,
                 bkw_mmap_state, files, historyVars>>

NoSnapshot ==
  /\ pc = "snapshot"
  /\ ~snapshot_started
  /\ pc' = "switch"
  /\ UNCHANGED <<ringVars, pollVars, kernelVars, flagVars, kind, cur, hits, samples,
                 draining, disabled, bkw_mmap_state, files, historyVars>>

(* Mutant: the overwritable buffers are not looked at. *)
CheckSwitch_NoReadAgain ==
  /\ pc = "switch"
  /\ IF switch_output_trigger = "HIT"
     THEN /\ pc' = "output"
          /\ switch_output_trigger' = trigger_ready(switch_output_trigger)
          /\ perf_evlist__toggle_bkw_mmap("RUNNING")
     ELSE pc' = "idle" /\ UNCHANGED <<switch_output_trigger, bkw_mmap_state, paused>>
  /\ UNCHANGED <<ringVars, pollVars, enabled, signals, done, child_finished,
                 auxtrace_snapshot_trigger, snapshot_started, kind, cur, hits, samples,
                 draining, disabled, files, historyVars>>

(* Mutant: the overwritable buffers stay paused. *)
CheckSwitch_NoResume ==
  /\ pc = "switch"
  /\ IF switch_output_trigger = "HIT"
     THEN IF bkw_mmap_state = "RUNNING"
          THEN pc' = "top" /\ UNCHANGED <<switch_output_trigger, bkw_mmap_state, paused>>
          ELSE /\ pc' = "output"
               /\ switch_output_trigger' = trigger_ready(switch_output_trigger)
               /\ UNCHANGED <<bkw_mmap_state, paused>>
     ELSE pc' = "idle" /\ UNCHANGED <<switch_output_trigger, bkw_mmap_state, paused>>
  /\ UNCHANGED <<ringVars, pollVars, enabled, signals, done, child_finished,
                 auxtrace_snapshot_trigger, snapshot_started, kind, cur, hits, samples,
                 draining, disabled, files, historyVars>>

(* "If SIGUSR2 raise after or during record__mmap_read_all() [it] didn't   *)
(* collect data from overwritable ring buffer. Read again."                *)
CheckSwitch ==
  /\ pc = "switch"
  /\ IF switch_output_trigger = "HIT"
     THEN IF bkw_mmap_state = "RUNNING"
          THEN pc' = "top" /\ UNCHANGED <<switch_output_trigger, bkw_mmap_state, paused>>
          ELSE /\ pc' = "output"
               /\ switch_output_trigger' = trigger_ready(switch_output_trigger)
               /\ perf_evlist__toggle_bkw_mmap("RUNNING")
     ELSE pc' = "idle" /\ UNCHANGED <<switch_output_trigger, bkw_mmap_state, paused>>
  /\ UNCHANGED <<ringVars, pollVars, enabled, signals, done, child_finished,
                 auxtrace_snapshot_trigger, snapshot_started, kind, cur, hits, samples,
                 draining, disabled, files, historyVars>>

(* record__switch_output(): it resets rec->samples, which the loop goes on *)
(* to compare with hits.                                                   *)
record__switch_output ==
  /\ pc = "output"
  /\ samples' = 0
  /\ \/ /\ pc' = "idle" /\ files' = files + 1
        /\ UNCHANGED switch_output_trigger
     \/ /\ MayFail
        /\ pc' = "error" /\ switch_output_trigger' = trigger_error(switch_output_trigger)
        /\ UNCHANGED files
  /\ UNCHANGED <<ringVars, pollVars, kernelVars, done, child_finished,
                 auxtrace_snapshot_trigger, snapshot_started, kind, cur, hits, draining,
                 disabled, bkw_mmap_state, historyVars>>

(* A pass that found nothing: leave the loop, or sleep. *)
CheckIdle ==
  /\ pc = "idle"
  /\ pc' = IF hits # samples THEN "woken"
           ELSE IF done \/ draining THEN "out" ELSE "sleep"
  /\ UNCHANGED <<ringVars, pollVars, kernelVars, flagVars, kind, cur, hits, samples,
                 draining, disabled, bkw_mmap_state, files, historyVars>>

(* perf_evlist__poll() is entered: a signal that came since the flags were *)
(* looked at does not interrupt it.                                        *)
Sleep ==
  /\ pc = "sleep"
  /\ pc' = "poll"
  /\ UNCHANGED <<ringVars, pollVars, kernelVars, flagVars, kind, cur, hits, samples,
                 draining, disabled, bkw_mmap_state, files, historyVars>>

(* It returns for data.  How much data the kernel thinks worth a wakeup is *)
(* its own business, so this may never happen.                             *)
PollData ==
  /\ pc = "poll"
  /\ \E m \in Maps : m[1] = "forward" /\ polled[m] > 0 /\ head[m] # prev[m]
  /\ \A m \in Maps : hup[m] = 0
  /\ pc' = "woken"
  /\ UNCHANGED <<ringVars, pollVars, kernelVars, flagVars, kind, cur, hits, samples,
                 draining, disabled, bkw_mmap_state, files, historyVars>>

(* Mutant: one reference is dropped for all the dead of a buffer. *)
perf_evlist__filter_pollfd_Once ==
  /\ polled' = [m \in Maps |-> polled[m] - hup[m]]
  /\ refcnt' = [m \in Maps |-> IF hup[m] > 0 THEN refcnt[m] - 1 ELSE refcnt[m]]
  /\ mapped' = [m \in Maps |-> mapped[m] /\ (hup[m] = 0 \/ refcnt'[m] > 0)]
  /\ hup' = [m \in Maps |-> 0]
  /\ draining' = (draining \/ \A m \in Maps : polled'[m] = 0)

(* Mutant: the filter does not look for POLLHUP. *)
perf_evlist__filter_pollfd_NoHup ==
  UNCHANGED <<polled, refcnt, mapped, hup, draining>>

(* perf_evlist__filter_pollfd(): the dead leave the poll array, and each   *)
(* drops its reference (perf_mmap__put()).                                 *)
perf_evlist__filter_pollfd ==
  /\ polled' = [m \in Maps |-> polled[m] - hup[m]]
  /\ refcnt' = [m \in Maps |-> refcnt[m] - hup[m]]
  /\ mapped' = [m \in Maps |-> mapped[m] /\ (hup[m] = 0 \/ refcnt'[m] > 0)]
  /\ hup' = [m \in Maps |-> 0]
  /\ draining' = (draining \/ \A m \in Maps : polled'[m] = 0)

(* Mutant: the loop is left without another pass. *)
PollHup_Leaves ==
  /\ pc = "poll"
  /\ \E m \in Maps : hup[m] > 0
  /\ perf_evlist__filter_pollfd
  /\ pc' = IF draining' THEN "out" ELSE "woken"
  /\ UNCHANGED <<head, prev, kernelVars, flagVars, kind, cur, hits, samples, disabled,
                 bkw_mmap_state, files, historyVars>>

(* It returns because of entries that are dead. *)
PollHup ==
  /\ pc = "poll"
  /\ \E m \in Maps : hup[m] > 0
  /\ perf_evlist__filter_pollfd
  /\ pc' = "woken"
  /\ UNCHANGED <<head, prev, kernelVars, flagVars, kind, cur, hits, samples, disabled,
                 bkw_mmap_state, files, historyVars>>

(* The end of a turn. *)
Disable ==
  /\ pc = "woken"
  /\ pc' = "top"
  /\ IF done /\ ~disabled /\ ~TargetNone
     THEN /\ auxtrace_snapshot_trigger' = trigger_off(auxtrace_snapshot_trigger)
          /\ enabled' = FALSE
          /\ disabled' = TRUE
     ELSE UNCHANGED <<auxtrace_snapshot_trigger, enabled, disabled>>
  /\ UNCHANGED <<ringVars, pollVars, paused, signals, done, child_finished,
                 switch_output_trigger, snapshot_started, kind, cur, hits, samples,
                 draining, bkw_mmap_state, files, historyVars>>

(* Behind the loop: the triggers are off, a workload that still runs gets  *)
(* SIGTERM and is waited for, the file is completed.                       *)
Finish ==
  /\ pc \in {"out", "error"}
  /\ pc' = IF pc = "out" THEN "closed" ELSE "failed"
  /\ auxtrace_snapshot_trigger' = IF pc = "out" THEN trigger_off(auxtrace_snapshot_trigger)
                                  ELSE auxtrace_snapshot_trigger
  /\ switch_output_trigger' = IF pc = "out" THEN trigger_off(switch_output_trigger)
                              ELSE switch_output_trigger
  /\ UNCHANGED <<ringVars, pollVars, kernelVars, done, child_finished, snapshot_started,
                 kind, cur, hits, samples, draining, disabled, bkw_mmap_state, files,
                 historyVars>>

Terminated ==
  /\ pc \in {"closed", "failed"}
  /\ UNCHANGED vars

Kernel == (\E m \in Maps : KernelWrites(m) \/ EventDies(m))

Signal == Sigchld \/ Sigint \/ snapshot_sig_handler

Loop ==
  \/ Start \/ Top \/ record__mmap_read \/ ReadFails \/ PassEnds
  \/ ReadSnapshot \/ NoSnapshot \/ CheckSwitch \/ record__switch_output
  \/ CheckIdle \/ Sleep \/ PollHup \/ Disable \/ Finish

Next == Loop \/ PollData \/ Kernel \/ Signal \/ Terminated

Spec == Init /\ [][Next]_vars

(* perf is scheduled while it is not asleep, and a dead event wakes it. *)
FairSpec == Spec /\ WF_vars(Loop)

----------------------------------------------------------------------------
(* Properties.                                                             *)

TypeOK ==
  /\ head \in [Maps -> Nat] /\ prev \in [Maps -> Nat]
  /\ refcnt \in [Maps -> Nat]
  /\ mapped \in [Maps -> BOOLEAN]
  /\ polled \in [Maps -> 0 .. NrFds] /\ hup \in [Maps -> 0 .. NrFds]
  /\ {paused, enabled, done, child_finished, snapshot_started, draining, disabled}
       \subseteq BOOLEAN
  /\ {switch_output_trigger, auxtrace_snapshot_trigger} \subseteq TriggerStates
  /\ pc \in {"setup", "top", "pass", "snapshot", "switch", "output", "idle", "sleep", "poll",
             "woken", "out", "error", "closed", "failed"}
  /\ kind \in Kinds /\ cur \in 1 .. NrMmaps + 1
  /\ hits \in Nat /\ samples \in Nat
  /\ bkw_mmap_state \in {"NOTREADY", "RUNNING", "DATA_PENDING", "EMPTY"}

(* "make sure we don't prevent tools from consuming every last event": a   *)
(* buffer is unmapped only when all its events are dead and what they      *)
(* wrote was read, however deaths, filtering, reads and writes interleave. *)
UnmappedOnlyWhenDrained ==
  \A m \in Maps : ~mapped[m] => polled[m] = 0 /\ head[m] = prev[m]

(* A mapped buffer is held by the reader and by every event that is still  *)
(* polled, so the BUG_ON() of perf_mmap__put() cannot fire.                *)
RefcntMatchesPolled ==
  \A m \in Maps : refcnt[m] = IF mapped[m] THEN polled[m] + 1 ELSE 0

(* An overwritable buffer is read only while the kernel leaves it alone.   *)
BackwardReadWhilePaused ==
  pc = "pass" /\ kind = "backward" => paused

(* perf never sleeps while its overwritable buffers are paused: whatever   *)
(* the order of signals and passes, it has put them back to recording.     *)
SleepsOnlyWhileRecording == pc = "poll" => ~paused

(* The output is switched only when the overwritable buffers as they were  *)
(* when SIGUSR2 arrived, or newer, are in the file: "taking a snapshot of  *)
(* the most current events".                                               *)
SwitchedAfterDump ==
  [][pc = "switch" /\ pc' = "output" =>
       \A m \in BackwardMaps : prev[m] >= wanted[m]]_vars

(* A snapshot that was asked for is not forgotten: while its trigger is    *)
(* hit the loop is told to read it.                                        *)
SnapshotNotForgotten ==
  auxtrace_snapshot_trigger = "HIT" => snapshot_started

(* When all events have died and no signal was involved, perf stops only   *)
(* after everything they wrote is in the file.                             *)
DrainedMeansRead ==
  pc = "closed" /\ ~done => \A m \in Maps : head[m] = prev[m]

(* "at the end events die with the process and we wait for that": what the *)
(* workload wrote before it exited, unless perf was told to stop before    *)
(* that, is in the file.                                                   *)
LastWordsRecorded ==
  pc = "closed" /\ child_finished /\ TargetNone =>
    \A m \in Maps : prev[m] >= lastWords[m]

(* perf stops once all events have died, even if the signal of the         *)
(* workload's end came between the test of done and the sleep and woke     *)
(* nobody.                                                                 *)
StopsWhenEventsDie ==
  (\A m \in Maps : hup[m] = polled[m]) ~> pc \in {"closed", "failed"}

(* "switching to a new one when receiving a SIGUSR2" *)
SwitchesOnSignal ==
  switch_output_trigger = "HIT" ~> switch_output_trigger # "HIT"

----------------------------------------------------------------------------
(* The inductive invariant of the proofs.                                  *)

RingTypes ==
  /\ head \in [Maps -> Nat] /\ prev \in [Maps -> Nat] /\ wanted \in [Maps -> Nat]
  /\ refcnt \in [Maps -> Nat] /\ mapped \in [Maps -> BOOLEAN]
  /\ polled \in [Maps -> Nat] /\ hup \in [Maps -> Nat]
  /\ cur \in Nat \ {0} /\ kind \in Kinds

(* References, mappings and deaths of one buffer. *)
RefInv ==
  \A m \in Maps :
    /\ hup[m] <= polled[m]
    /\ refcnt[m] = IF mapped[m] THEN polled[m] + 1 ELSE 0
    /\ ~mapped[m] => polled[m] = 0 /\ head[m] = prev[m]

(* The state of the overwritable buffers says whether the kernel writes to *)
(* them, and is out of step with the flags only inside a turn.             *)
StateInv ==
  /\ bkw_mmap_state \in {"NOTREADY", "RUNNING", "DATA_PENDING", "EMPTY"}
  /\ bkw_mmap_state = "NOTREADY" <=> ~Backward
  /\ paused <=> bkw_mmap_state \in {"DATA_PENDING", "EMPTY"}
  /\ bkw_mmap_state = "DATA_PENDING" => pc \in {"pass", "error", "failed"}
  /\ pc = "pass" /\ kind = "backward" => bkw_mmap_state = "DATA_PENDING"
  /\ bkw_mmap_state \in {"DATA_PENDING", "EMPTY"} /\ pc \notin {"error", "failed"} =>
       \/ done \/ draining
       \/ switch_output_trigger = "HIT" /\ pc \in {"pass", "snapshot", "switch"}
  /\ pc \in {"sleep", "poll"} => bkw_mmap_state \notin {"DATA_PENDING", "EMPTY"}

(* What the overwritable buffers held when the output was to be switched   *)
(* is not more than what they hold; once EMPTY, all of it was read.        *)
DumpInv ==
  \A m \in BackwardMaps :
    /\ prev[m] <= head[m] /\ wanted[m] <= head[m]
    /\ bkw_mmap_state = "EMPTY" => prev[m] = head[m]
    /\ pc = "pass" /\ kind = "backward" /\ m[2] < cur => prev[m] = head[m]

(* Once the poll array is empty nobody writes any more, and the pass that  *)
(* follows reads what is left: the forward buffers first, the overwritable *)
(* ones if they were not dumped before.                                    *)
DrainInv ==
  draining => \A m \in Maps :
    /\ polled[m] = 0
    /\ pc = "pass" /\ m[1] = "forward" /\ (kind = "backward" \/ m[2] < cur) =>
         prev[m] = head[m]
    /\ pc = "pass" /\ m[1] = "backward" =>
         bkw_mmap_state = "DATA_PENDING" \/ prev[m] = head[m]
    /\ pc \in {"snapshot", "switch", "output", "idle", "out", "closed"} =>
         prev[m] = head[m]

(* Why perf stops: it was told to, or the poll array is empty. *)
OutInv == pc \in {"out", "closed"} => done \/ draining

RecInv ==
  /\ RingTypes /\ RefInv /\ StateInv /\ DumpInv /\ SnapshotNotForgotten
  /\ DrainInv /\ OutInv
=============================================================================
