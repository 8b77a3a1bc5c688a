---------------------------- MODULE MCPrograms ----------------------------
(***************************************************************************)
(* The programs that wait: for input, for threads, for children, for       *)
(* descriptors.  Each behaviour is one of one program, which the variable  *)
(* scenario names; the state of the others stays as it was initially.      *)
(***************************************************************************)
EXTENDS SchedReplay, Programs

CONSTANT NULL

(* Between them the three events meet every fallback; the first asks in    *)
(* order.                                                                  *)
RecordAsks ==
    <<{"clockid", "mmap2", "exclude_guest", "sample_id_all", "cycles", "kernel"},
      {"sample_id_all", "bpf", "lbr_flags"},
      {"write_backward", "exclude_guest", "clockid"}>>

NewKernel == [lacks |-> {}, clock |-> TRUE, pmu |-> TRUE, paranoid |-> FALSE, root |-> TRUE,
              bad |-> {}]

ThreeFds == {"fd1", "fd2", "fd3"}
TwoMaps == {"m1", "m2"}
(* Two events share a ring buffer, as the events of one CPU do. *)
Shared == [fd \in ThreeFds |-> IF fd \in {"fd1", "fd2"} THEN "m1" ELSE "m2"]

(* Recordings of up to three samples and AUX area data, with an index.     *)
Ev(kind, size, skip) == [kind |-> kind, size |-> size, skip |-> skip]
Traced == {Ev("sample", 1, 0), Ev("auxtrace", 1, 3), Ev("auxtrace", 2, 13)}
Short == UNION {[1 .. n -> Traced] : n \in 0 .. 3}
Recordings == Short \union {<<Ev("auxtrace_info", 2, 0)>> \o f : f \in Short}

DsoSizes == [a |-> 3, b |-> 1]
TopCollapse == [u1 |-> "u", u2 |-> "u", k |-> "k"]

VARIABLE scenario  \* what runs in this behaviour

(* A session that reads a pipe; memory and callbacks fail. *)
VARIABLES events, last, max_timestamp, next_flush, last_flush, nr_events,
          nr_unordered_events, session_cache, buffer, buffer_idx, to_free,
          cur_alloc_size, max_alloc_size, delivered, session_pc, how,
          session_pending, session_done, nread, session_err, halved
Pipe == INSTANCE Session WITH
    Timestamps <- {1, 2}, ULLONG_MAX <- 99, Sizes <- {1}, BufferBytes <- 3,
    MAX_SAMPLE_BUFFER <- 3, MaxAllocSize <- 6, CopyOnQueue <- FALSE,
    MallocMayFail <- TRUE, Pipe <- TRUE, MaxRecords <- 4, DeliverMayFail <- TRUE,
    cache <- session_cache, pc <- session_pc, pending <- session_pending,
    err <- session_err
sessionVars == <<events, last, max_timestamp, next_flush, last_flush,
                 nr_events, nr_unordered_events, session_cache, buffer,
                 buffer_idx, to_free, cur_alloc_size, max_alloc_size,
                 delivered, session_pc, how, session_pending, session_done,
                 nread, session_err, halved>>

(* perf sched replay of two tasks, twice: SchedReplay itself. *)
replayVars == <<tasks, atoms, sems, nr_trace, pc, curr_event,
                ready_for_work, work_done_sem, start_work_mutex,
                work_done_wait_mutex, mpc, i, cpu_usage, nr_runs, replayed,
                counted>>

startVars == <<tool, readyWriters, goWriters, goByte, child, childStatus,
               termDefault, termPending, start_pc, start_pending, blocked,
               start_done, child_finished, workload_exec_errno, child_pid,
               signr, start_err, status, start_interrupted, execFailed,
               started, ran, randomKill>>

openVars == <<missing, kernel, attr, flags, FD, nopen, soft, hard,
              set_rlimit, evsel, slot, open_pc, open_err>>

traceVars == <<workload, others, unread, due, enabled, trace_done,
               trace_interrupted, trace_pc, mmap, trace_new, forever, fds,
               draining>>

pollVars == <<poll_pc, nr, poll_entries, priv, dangling, refcnt, hup>>

(* A ring buffer and its reader. *)
VARIABLES ring_data, ring_head, tail, khead, paused, records, prev,
          event_copy, ring_pc, start, end, loaded, event, out, nreads
Ring == INSTANCE MmapRing WITH
    RingSize <- 4, Kind <- "forward", Reader <- "read", Sizes <- {1, 2, 3}, EventMax <- 4,
    PosBits <- 4, IntBits <- 4, MaxRecords <- 5, MaxReads <- 0, WriteMayFail <- FALSE,
    data <- ring_data, head <- ring_head, pc <- ring_pc
ringVars == <<ring_data, ring_head, tail, khead, paused, records, prev,
              event_copy, ring_pc, start, end, loaded, event, out, nreads>>

(* A recording that is read through windows. *)
VARIABLES file, data_offset, window_pc, file_offset, window_head, file_pos,
          mmaps, map_idx, windows, processed, queue, round, auxqueue,
          populated
Window == INSTANCE FileWindows WITH
    Files <- Recordings, DataOffsets <- {1, 4}, PageSize <- 2, MMAP_SIZE <- 8,
    NUM_MMAPS <- 2, AddressSpace <- 3, pc <- window_pc, head <- window_head
windowVars == <<file, data_offset, window_pc, file_offset, window_head,
                file_pos, mmaps, map_idx, windows, processed, queue, round,
                auxqueue, populated>>

(* Two threads that read the data of DSOs. *)
VARIABLES dso_data, dso_others, dso_lock, dso_cache, freed, dso_pc, op
Dso == INSTANCE DsoData WITH
    Threads <- {"t1", "t2"}, Dsos <- {"a", "b"}, Size <- DsoSizes, ChunkSize <- 2,
    RLIMIT_NOFILE <- 4, MaxOthers <- 0, Reads <- {<<1, 5>>}, Uses <- {}, data <- dso_data,
    others <- dso_others, lock <- dso_lock, cache <- dso_cache, pc <- dso_pc
dsoVars == <<dso_data, dso_others, dso_lock, dso_cache, freed, dso_pc, op>>

(* The threads of perf top. *)
VARIABLES entries_in, in, collapsed, top_entries, he, nr_entries,
          total_period, top_lock, rpc, rkey, rhe, root, dpc, droot, hide,
          zero, sym_filter_entry, top_done, samples, presses, gone, added,
          dropped, raced, shared
Top == INSTANCE HistsTop WITH
    Keys <- {"u1", "u2", "k"}, CollapseKey <- TopCollapse, KernelKeys <- {"k"},
    MaxSamples <- 2, MaxPresses <- 0, Browser <- FALSE, entries <- top_entries,
    lock <- top_lock, done <- top_done
topVars == <<entries_in, in, collapsed, top_entries, he, nr_entries,
             total_period, top_lock, rpc, rkey, rhe, root, dpc, droot, hide,
             zero, sym_filter_entry, top_done, samples, presses, gone,
             added, dropped, raced, shared>>

suiteVars == <<scenario, sessionVars, replayVars, startVars, openVars, traceVars, pollVars,
         ringVars, windowVars, dsoVars, topVars>>

-----------------------------------------------------------------------------
Scenarios ==
    {"session", "replay", "start", "open", "trace", "poll", "ring", "windows", "dso", "top"}

SuiteInit ==
    /\ scenario \in Scenarios
    /\ Pipe!Init
    /\ Init
    /\ Start!Init
    /\ scenario # "start" => tool = "record"
    /\ Open!Init
    /\ scenario # "open" => kernel = NewKernel /\ soft = 1
    /\ Trace!Init
    /\ Poll!Init
    /\ Ring!Init
    /\ Window!Init
    /\ scenario # "windows" => file = <<>> /\ data_offset = 1
    /\ Dso!Init
    /\ Top!Init
    /\ scenario # "top" => rkey = "k"

SuiteNext ==
    \/ /\ scenario = "session" /\ Pipe!Next
       /\ UNCHANGED <<scenario, replayVars, startVars, openVars,
                 traceVars, pollVars, ringVars, windowVars, dsoVars,
                 topVars>>
    \/ /\ scenario = "replay" /\ Next
       /\ UNCHANGED <<scenario, sessionVars, startVars, openVars,
                 traceVars, pollVars, ringVars, windowVars, dsoVars,
                 topVars>>
    \/ /\ scenario = "start" /\ Start!Next
       /\ UNCHANGED <<scenario, sessionVars, replayVars, openVars,
                 traceVars, pollVars, ringVars, windowVars, dsoVars,
                 topVars>>
    \/ /\ scenario = "open" /\ Open!Next
       /\ UNCHANGED <<scenario, sessionVars, replayVars, startVars,
                 traceVars, pollVars, ringVars, windowVars, dsoVars,
                 topVars>>
    \/ /\ scenario = "trace" /\ Trace!Next
       /\ UNCHANGED <<scenario, sessionVars, replayVars, startVars,
                 openVars, pollVars, ringVars, windowVars, dsoVars,
                 topVars>>
    \/ /\ scenario = "poll" /\ Poll!Next
       /\ UNCHANGED <<scenario, sessionVars, replayVars, startVars,
                 openVars, traceVars, ringVars, windowVars, dsoVars,
                 topVars>>
    \/ /\ scenario = "ring" /\ Ring!Next
       /\ UNCHANGED <<scenario, sessionVars, replayVars, startVars,
                 openVars, traceVars, pollVars, windowVars, dsoVars,
                 topVars>>
    \/ /\ scenario = "windows" /\ Window!Next
       /\ UNCHANGED <<scenario, sessionVars, replayVars, startVars,
                 openVars, traceVars, pollVars, ringVars, dsoVars, topVars>>
    \/ /\ scenario = "dso" /\ Dso!Next
       /\ UNCHANGED <<scenario, sessionVars, replayVars, startVars,
                 openVars, traceVars, pollVars, ringVars, windowVars,
                 topVars>>
    \/ /\ scenario = "top" /\ Top!Next
       /\ UNCHANGED <<scenario, sessionVars, replayVars, startVars,
                 openVars, traceVars, pollVars, ringVars, windowVars,
                 dsoVars>>

(* The fairness of each program, as its module states and justifies it. *)
Fairness ==
    /\ WF_sessionVars(scenario = "session" /\ Pipe!Process)
    /\ WF_replayVars(scenario = "replay" /\ Prepare)
    /\ \A p \in Pids : WF_replayVars(scenario = "replay" /\ thread_func(p))
    /\ WF_replayVars(scenario = "replay" /\ wait_for_tasks)
    /\ WF_startVars(scenario = "start" /\ Start!Child)
    /\ WF_startVars(scenario = "start" /\ Start!Perf)
    /\ WF_traceVars(scenario = "trace" /\ Trace!Loop)
    /\ WF_traceVars(scenario = "trace" /\ Trace!Sigchld)
    /\ WF_pollVars(scenario = "poll" /\ Poll!fdarray__poll)
    /\ WF_pollVars(scenario = "poll" /\ Poll!perf_evlist__filter_pollfd)
    /\ WF_openVars(scenario = "open" /\ Open!Next)
    /\ WF_ringVars(scenario = "ring" /\ Ring!ReadStep)
    /\ WF_ringVars(scenario = "ring" /\ Ring!Publish)
    /\ WF_windowVars(scenario = "windows" /\ Window!Next)
    /\ \A t \in {"t1", "t2"} : WF_dsoVars(scenario = "dso" /\ Dso!ReadStep(t))
    /\ WF_topVars(scenario = "top" /\ Top!Reader)
    /\ WF_topVars(scenario = "top" /\ Top!Display)

SuiteSpec == SuiteInit /\ [][SuiteNext]_suiteVars /\ Fairness

-----------------------------------------------------------------------------
(* perf ends with its workload: it never waits for a child that waits for  *)
(* perf, and leaves none behind; perf trace leaves its loop when its       *)
(* target is gone, however SIGCHLD meets poll(); the poll array empties    *)
(* when all events are gone; every retry of an open uses something up; a   *)
(* session on a pipe ends, whatever fails on the way; and the threads that *)
(* replay a trace do not wait for each other for ever.                     *)
WaitsEnd ==
    /\ scenario = "replay" => ReplayEnds
    /\ scenario = "session" => Pipe!SessionEnds
    /\ scenario = "start" => Start!PerfEnds /\ Start!NoChildLeft
    /\ scenario = "trace" => Trace!GoneEnds /\ Trace!DrainEnds
    /\ scenario = "poll" => Poll!EmptiesWhenAllHungUp
    /\ scenario = "open" => Open!OpenEnds

(* Every record that is in a ring buffer is read sooner or later, a        *)
(* recording is read to its end through the windows, a read of a DSO ends, *)
(* and perf top shows every symbol that has a sample.                      *)
AllIsRead ==
    /\ scenario = "ring" => Ring!EverythingRead
    /\ scenario = "windows" => Window!ReadsAll
    /\ scenario = "dso" => Dso!ReadsEnd
    /\ scenario = "top" => Top!EverySampleShown
=============================================================================
