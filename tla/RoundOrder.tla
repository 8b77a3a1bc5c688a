---------------------------- MODULE RoundOrder ----------------------------
(***************************************************************************)
(* From the ring buffers to the tool: perf record passes over the buffers  *)
(* of all CPUs, again and again, and writes what it finds and, behind each *)
(* pass that found something, a FINISHED_ROUND record                      *)
(* (record__mmap_read_evlist(), builtin-record.c).  The session that reads *)
(* these records flushes at every FINISHED_ROUND what was read up to the   *)
(* round before; the comment above process_finished_round() (session.c)    *)
(* argues why that delivers all events in order.                           *)
(*                                                                         *)
(* What a session does depends on the records and their order only, so it  *)
(* is composed with the recorder step by step and there is no file between *)
(* them.  The kernel is external: it stamps an event with the time and     *)
(* publishes it in the buffer of the CPU in one step.                      *)
(***************************************************************************)
EXTENDS Session

CONSTANTS
  NrMmaps,     \* evlist->nr_mmaps: one ring buffer per CPU
  MaxSamples   \* bound: events the kernel writes

ASSUME RoundAssumption ==
  /\ NrMmaps \in Nat \ {0}
  /\ MaxSamples \in Nat
  /\ ULLONG_MAX > 1
  /\ Timestamps = 1 .. (ULLONG_MAX - 1)

VARIABLES
  clock,      \* the time, the same on all CPUs
  ring,       \* ring[c]: times of the events in the buffer and not read
  nsamples,
  cpu,        \* the buffer the pass reads next
  wrote,      \* bytes_written # rec->bytes_written
  batch,      \* what was read from a buffer and is not processed yet
  passStart,  \* history: when the current pass started,
  prevStart,  \* ... and the one before
  mark,       \* history: nread at the last FINISHED_ROUND,
  prevMark    \* ... and at the one before

kernelVars == <<clock, ring, nsamples>>
passVars == <<cpu, wrote, batch, passStart, prevStart, mark, prevMark>>
roundVars == <<vars, kernelVars, passVars>>

Mmaps == 1 .. NrMmaps

RoundInit ==
  /\ Init
  /\ clock = 1
  /\ ring = [c \in Mmaps |-> <<>>]
  /\ nsamples = 0
  /\ cpu = 1
  /\ wrote = FALSE
  /\ batch = <<>>
  /\ passStart = 0 /\ prevStart = 0
  /\ mark = 0 /\ prevMark = 0

----------------------------------------------------------------------------
(* The kernel, external. *)
Tick ==
  /\ clock < ULLONG_MAX - 1
  /\ clock' = clock + 1
  /\ UNCHANGED <<vars, ring, nsamples, passVars>>

Sample(c) ==
  /\ nsamples < MaxSamples
  /\ ring' = [ring EXCEPT ![c] = Append(@, clock)]
  /\ nsamples' = nsamples + 1
  /\ UNCHANGED <<vars, clock, passVars>>

----------------------------------------------------------------------------
(* perf record.                                                            *)

(* record__mmap_read() of one buffer: all that is in it. *)
ReadRing ==
  /\ pc = "read" /\ batch = <<>> /\ cpu \in Mmaps
  /\ batch' = ring[cpu]
  /\ ring' = [ring EXCEPT ![cpu] = <<>>]
  /\ wrote' = (wrote \/ ring[cpu] # <<>>)
  /\ cpu' = cpu + 1
  /\ IF cpu = 1 THEN passStart' = clock /\ prevStart' = passStart
                ELSE UNCHANGED <<passStart, prevStart>>
  /\ UNCHANGED <<vars, clock, nsamples, mark, prevMark>>

(* The end of a pass: FINISHED_ROUND "in case we wrote at least one event" *)
FinishPass ==
  /\ pc = "read" /\ batch = <<>> /\ cpu = NrMmaps + 1
  /\ wrote
  /\ process_finished_round
  /\ prevMark' = mark /\ mark' = nread + 1
  /\ cpu' = 1
  /\ wrote' = FALSE
  /\ UNCHANGED <<kernelVars, batch, passStart, prevStart>>

EmptyPass ==
  /\ pc = "read" /\ batch = <<>> /\ cpu = NrMmaps + 1
  /\ ~wrote
  /\ cpu' = 1
  /\ UNCHANGED <<vars, kernelVars, wrote, batch, passStart, prevStart, mark, prevMark>>

----------------------------------------------------------------------------
(* The session.                                                            *)

ProcessRecord ==
  /\ batch # <<>>
  /\ \E sz \in Sizes : QueueEventAt(Head(batch), sz)
  /\ batch' = Tail(batch)
  /\ UNCHANGED <<kernelVars, cpu, wrote, passStart, prevStart, mark, prevMark>>

(* perf record stops, between two buffers at the earliest. *)
EndOfRecording ==
  /\ batch = <<>>
  /\ EndOfData
  /\ UNCHANGED <<kernelVars, passVars>>

SessionStep ==
  /\ Flush \/ RetryQueue \/ FinalFlush \/ Teardown \/ SetSessionDone \/ Ended
  /\ UNCHANGED <<kernelVars, passVars>>

RoundNext ==
  \/ Tick
  \/ \E c \in Mmaps : Sample(c)
  \/ ReadRing \/ FinishPass \/ EmptyPass
  \/ ProcessRecord \/ EndOfRecording \/ SessionStep

RoundSpec == RoundInit /\ [][RoundNext]_roundVars

----------------------------------------------------------------------------
(* Properties.                                                             *)

RoundTypeOK ==
  /\ clock \in Timestamps
  /\ ring \in [Mmaps -> Seq(Timestamps)]
  /\ nsamples \in Nat
  /\ cpu \in 1 .. NrMmaps + 1
  /\ wrote \in BOOLEAN
  /\ batch \in Seq(Timestamps)
  /\ passStart \in Nat /\ prevStart \in Nat
  /\ mark \in Nat /\ prevMark \in Nat

(* The argument of the comment above process_finished_round(): with one    *)
(* clock for all CPUs no event that is read arrives behind a flush, so     *)
(* "out of order events recorded" is never reported.                       *)
NoneOutOfOrder == ~MallocMayFail => nr_unordered_events = 0

(* What the scheme is for: a tool that reads the recording is given the    *)
(* samples of all CPUs in time order, ties in the order they were written. *)
RecordingInOrder ==
  ~MallocMayFail /\ pc # "closed" =>
    \A i, j \in 1 .. Len(delivered) :
      i < j => Before(delivered[i], delivered[j])

(* A flush at FINISHED_ROUND empties the queue of all that was read before *)
(* the FINISHED_ROUND before it: the queue never holds more than the last  *)
(* complete round and the current one, however long the recording is.      *)
QueueHoldsTwoRounds ==
  pc = "read" /\ ~MallocMayFail =>
    \A i \in 1 .. Len(events) : events[i].id > prevMark

----------------------------------------------------------------------------
(* The inductive invariant of the proof that no event is out of order.     *)

(* Nothing is stamped later than now. *)
TimeInv ==
  /\ prevStart <= passStart /\ passStart <= clock
  /\ \A c \in Mmaps : \A i \in 1 .. Len(ring[c]) : ring[c][i] <= clock
  /\ \A i \in 1 .. Len(batch) : batch[i] <= clock
  /\ max_timestamp <= clock

(* No event that is still to be processed is older than Bound: a buffer    *)
(* that was read in this pass holds events of this pass only, the others   *)
(* what came since the pass before.                                        *)
Bound == IF cpu = 1 THEN passStart ELSE prevStart

RingInv ==
  /\ \A c \in Mmaps : \A i \in 1 .. Len(ring[c]) :
       ring[c][i] >= IF cpu = 1 \/ c < cpu THEN passStart ELSE prevStart
  /\ \A i \in 1 .. Len(batch) : batch[i] >= prevStart
  /\ batch # <<>> => cpu > 1

(* The limit of the next flush is the time of an event that was read       *)
(* before the current pass started, and no flush went beyond Bound.        *)
FlushInv ==
  /\ pc = "read" => /\ next_flush <= IF cpu = 1 THEN clock ELSE passStart
                    /\ last_flush <= Bound
  /\ pc = "flush" /\ how = "ROUND" => /\ cpu = 1
                                       /\ next_flush <= passStart
                                       /\ last_flush <= Bound
  /\ nr_unordered_events = 0

(* What was read before the last FINISHED_ROUND is within the limit of the *)
(* next flush, and that flush leaves nothing older than it.                *)
MarkInv ==
  /\ prevMark <= mark /\ mark <= nread
  /\ pc = "read" => \A i \in 1 .. Len(events) :
       /\ events[i].id > prevMark
       /\ events[i].id <= mark => events[i].timestamp <= next_flush
  /\ pc = "flush" /\ how = "ROUND" => \A i \in 1 .. Len(events) :
       events[i].id <= prevMark => events[i].timestamp <= next_flush

(* Only events with a time are recorded. *)
AllTimed == \A i \in 1 .. Len(delivered) : delivered[i].timestamp \in Timestamps

RInv == TimeInv /\ RingInv /\ FlushInv /\ MarkInv
=============================================================================
