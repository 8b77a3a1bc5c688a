------------------------------ MODULE Programs ------------------------------
(***************************************************************************)
(* What perf record, perf stat and perf trace do around their events, side *)
(* by side: events are opened (EvselOpen), their descriptors are kept in   *)
(* the poll array of the evlist (FdArray), the workload is started and     *)
(* waited for (Workload), and perf trace loops until its target is gone    *)
(* (TraceLoop).  The four share no state: a behaviour of all is one of     *)
(* each.                                                                   *)
(***************************************************************************)

CONSTANTS Asks, NrSlots, Hard, Increase, MayBeBad
VARIABLES missing, kernel, attr, flags, FD, nopen, soft, hard, set_rlimit, evsel, slot,
          open_pc, open_err
Open == INSTANCE EvselOpen WITH e <- evsel, pc <- open_pc, err <- open_err

CONSTANTS Fds, Maps, MapOf, Nfds, NrAutogrow, EntriesFail, PrivFail
VARIABLES poll_pc, nr, poll_entries, priv, dangling, refcnt, hup
Poll == INSTANCE FdArray WITH pc <- poll_pc, entries <- poll_entries

CONSTANTS Tools, Interval, MayCrash
VARIABLES tool, readyWriters, goWriters, goByte, child, childStatus, termDefault, termPending,
          start_pc, start_pending, blocked, start_done, child_finished, workload_exec_errno,
          child_pid, signr, start_err, status, start_interrupted, execFailed, started, ran,
          randomKill
Start == INSTANCE Workload WITH
    pc <- start_pc, pending <- start_pending, done <- start_done, err <- start_err,
    interrupted <- start_interrupted

CONSTANTS NrMmaps, Cap, Daemons
VARIABLES workload, others, unread, due, enabled, trace_done, trace_interrupted, trace_pc,
          mmap, trace_new, forever, fds, draining
Trace == INSTANCE TraceLoop WITH
    done <- trace_done, interrupted <- trace_interrupted, pc <- trace_pc, i <- mmap,
    new <- trace_new

(* What the proofs need of the constants. *)
ASSUME ProgramsAssumption ==
    /\ Open!EvselOpenConstants /\ Poll!FdArrayConstants
    /\ Start!WorkloadConstants /\ Trace!TraceLoopConstants

-----------------------------------------------------------------------------
(* perf_event_open() is tried again without what a kernel lacks, with a    *)
(* higher limit of descriptors, or not at all: an event that is opened has *)
(* the same attributes on every CPU, one that is refused leaves no file    *)
(* open and none is lost, the limit is used up before it is complained     *)
(* about, and no feature is given up that the kernel has.  In the poll     *)
(* array every slot has its buffer, and every buffer a reference for each  *)
(* of its slots, though allocations fail.                                  *)
DescriptorsKept == Open!DescriptorsKept /\ Poll!KeptInSynch /\ Poll!OneReferencePerEntry

(* The workload runs only when perf let it; an exec that failed is         *)
(* reported whichever signal comes first; SIGTERM is sent to nobody else.  *)
(* When perf trace leaves its loop by itself it has shown all that came    *)
(* before the end of its target.                                           *)
WorkloadSafe == Start!WorkloadSafe /\ Trace!TypeOK /\ Trace!NothingUnread

(* The poll array is a list that is added to at its end and that only dead *)
(* descriptors leave, though it grows, shrinks and fails to grow.          *)
PollListSpec == Poll!PollListSpec
=============================================================================
