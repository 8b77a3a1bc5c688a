------------------------------ MODULE IntelBts ------------------------------
(***************************************************************************)
(* Decoding Intel BTS data (intel-bts.c): the AUX buffers of a recording   *)
(* are put on queues, one per thread (auxtrace_queues, auxtrace.c), and    *)
(* decoded between the ordinary events, in the order of time that a heap   *)
(* of the queues gives.                                                    *)
(*                                                                         *)
(* A recording with an index has its buffers queued before the first       *)
(* event; through a pipe they arrive between the events.  A branch is a    *)
(* number, in the order the thread took them, and 0 is what is not         *)
(* written; times are those of the TSC, to which perf_time_to_tsc()        *)
(* converts the time of an event.                                          *)
(***************************************************************************)
EXTENDS AuxHeap, FiniteSets

CONSTANTS
  Indexes,       \* the queues of the recording: auxtrace.idx
  Indexed,       \* bts->data_queued: the buffers come from the index
  SnapshotMode,  \* bts->snapshot_mode
  Capacity,      \* branches a snapshot of the whole AUX buffer has
  MaxTime,       \* bound: times are 1 .. MaxTime, 0 is no time
  MaxBuffers,    \* bound: buffers in the recording
  MaxBranches,   \* bound: new branches in a buffer
  MaxEvents,     \* bound: ordinary events
  MayFail        \* may decoding fail?

VARIABLES
  queues,    \* bts->queues.queue_array
  new_data, next_buffer_nr,  \* bts->queues
  heap,      \* bts->heap
  pc,        \* "index", "idle", "queues", "exit", "end" or "failed"
  ts,        \* the timestamp intel_bts_process_queues() goes up to
  exiting,   \* the thread whose exit is the event, or None
  nevents,
  (* history *)
  clock,     \* the latest time of an event or a buffer of the recording
  upto,      \* the latest time of an event that was processed
  taken,     \* per queue: the branches of its thread that were recorded
  wrapped,   \* per queue: is a snapshot the whole AUX buffer?
  decoded    \* the buffers in the order they were decoded

vars == <<queues, new_data, next_buffer_nr, heap, pc, ts, exiting, nevents,
          clock, upto, taken, wrapped, decoded>>

None == -1
TidOf(idx) == 100 + idx
NoTid == 0  \* the memory of calloc()

(* struct intel_bts_queue; buffer counts in the list, 0 is NULL. *)
NoBtsq == [alloc |-> FALSE, buffer |-> 0, on_heap |-> FALSE, done |-> FALSE, tid |-> NoTid]

(* struct auxtrace_queue *)
NewQueue == [set |-> FALSE, tid |-> NoTid, head |-> <<>>, priv |-> NoBtsq]

Init ==
  /\ queues = [i \in 0 .. (InitNrQueues - 1) |-> NewQueue]
  /\ new_data = FALSE /\ next_buffer_nr = 0
  /\ heap = EmptyHeap
  /\ pc = IF Indexed THEN "index" ELSE "idle"
  /\ ts = 0 /\ exiting = None /\ nevents = 0
  /\ clock = 1 /\ upto = 0
  /\ taken = [i \in Indexes |-> 0]
  /\ wrapped = [i \in Indexes |-> FALSE]
  /\ decoded = <<>>

-----------------------------------------------------------------------------
(* The recording: what an AUX event of a queue holds. *)

Counting(from, to) == [i \in 1 .. (to - from + 1) |-> from + i - 1]

(* The thread took k branches since the last time; a snapshot of an AUX    *)
(* buffer that has, or seems to have, wrapped is all of it.                *)
Branches(idx, k) ==
  LET last == taken[idx] + k
  IN  IF wrapped'[idx]
      THEN [i \in 1 .. Capacity |-> IF last - Capacity + i > 0 THEN last - Capacity + i ELSE 0]
      ELSE Counting(taken[idx] + 1, last)

-----------------------------------------------------------------------------
(* auxtrace_queues *)

(* The buffers and the private data move to the new array. *)
grow(qs, nr) ==
  [i \in 0 .. (Enough(nr) - 1) |->
     IF i \in DOMAIN qs
     THEN [NewQueue EXCEPT !.head = qs[i].head, !.priv = qs[i].priv]
     ELSE NewQueue]

(* auxtrace_queues__add_buffer(); the buffers of one queue have one owner. *)
add_buffer(qs, idx, buffer) ==
  LET q0 == IF idx \in DOMAIN qs THEN qs ELSE grow(qs, idx)
      q  == q0[idx]
  IN  [q0 EXCEPT ![idx] = [q EXCEPT !.set  = TRUE,
                                    !.tid  = IF q.set THEN q.tid ELSE buffer.tid,
                                    !.head = Append(q.head, buffer)]]

(* intel_bts_process_auxtrace_event(), or an entry of the index: a buffer  *)
(* is read later than the buffers before it, and than every event that is  *)
(* already ordered.                                                        *)
QueueBuffer(idx, k, t, wrap) ==
  /\ pc = IF Indexed THEN "index" ELSE "idle"
  /\ next_buffer_nr < MaxBuffers
  /\ t >= clock /\ t >= upto
  /\ wrap \in IF ~SnapshotMode THEN {FALSE}
              ELSE IF wrapped[idx] \/ taken[idx] + k > Capacity THEN {TRUE} ELSE BOOLEAN
  /\ wrapped' = [wrapped EXCEPT ![idx] = wrap]
  /\ queues' = add_buffer(queues, idx, [nr        |-> next_buffer_nr,
                                        tid       |-> TidOf(idx),
                                        reference |-> t,
                                        data      |-> Branches(idx, k)])
  /\ next_buffer_nr' = next_buffer_nr + 1 /\ new_data' = TRUE
  /\ taken' = [taken EXCEPT ![idx] = @ + k]
  /\ clock' = t
  /\ UNCHANGED <<heap, pc, ts, exiting, nevents, upto, decoded>>

IndexRead ==
  /\ pc = "index"
  /\ pc' = "idle"
  /\ UNCHANGED <<queues, new_data, next_buffer_nr, heap, ts, exiting, nevents,
                 clock, upto, taken, wrapped, decoded>>

-----------------------------------------------------------------------------
(* intel_bts_setup_queues() *)

(* Mutant: only the buffer is looked at. *)
NeedsSetup_Buffer(q) == q.head # <<>> /\ q.priv.buffer = 0

(* A queue that has buffers and neither waits nor has one to go on with.   *)
NeedsSetup(q) == /\ q.head # <<>>
                 /\ ~q.priv.on_heap /\ q.priv.buffer = 0

(* A new queue gets its private data, and starts with its first buffer. *)
SetupQueue(q) ==
  LET btsq == IF q.priv.alloc \/ q.head = <<>> THEN q.priv
              ELSE [NoBtsq EXCEPT !.alloc = TRUE, !.tid = q.tid]
  IN  [q EXCEPT !.priv = IF NeedsSetup(q)
                         THEN [btsq EXCEPT !.buffer = 1, !.on_heap = TRUE]
                         ELSE btsq]

SetupHeap ==
  FoldLeft(LAMBDA h, i : IF NeedsSetup(queues[i - 1])
                         THEN auxtrace_heap__add(h, i - 1, queues[i - 1].head[1].reference)
                         ELSE h,
           heap, [i \in 1 .. Cardinality(DOMAIN queues) |-> i])

(* intel_bts_update_queues() *)
UpdateQueues ==
  /\ new_data' = FALSE
  /\ queues' = IF new_data THEN [i \in DOMAIN queues |-> SetupQueue(queues[i])] ELSE queues
  /\ heap' = IF new_data THEN SetupHeap ELSE heap

-----------------------------------------------------------------------------
(* intel_bts_process_queue() *)

(* intel_bts_find_overlap(): the longest end of a that b starts with.      *)
find_overlap(a, b) ==
  LET lens == {len \in 1 .. Len(a) : /\ len <= Len(b)
                                     /\ SubSeq(a, Len(a) - len + 1, Len(a)) = SubSeq(b, 1, len)}
  IN  IF lens = {} THEN 0 ELSE CHOOSE n \in lens : \A o \in lens : o <= n

(* What is used of buffer n of a queue. *)
UseData(q, n) ==
  LET b == q.head[n].data
  IN  IF SnapshotMode /\ n > 1
      THEN SubSeq(b, find_overlap(q.head[n - 1].data, b) + 1, Len(b))
      ELSE b

Written(branch) == branch # 0

(* intel_bts_process_buffer() stops when one branch is left. *)
process_buffer(data) ==
  SelectSeq(SubSeq(data, 1, Len(data) - 1), Written)

(* The buffer to go on with, or the first. *)
Current(q) == IF q.priv.buffer = 0 THEN 1 ELSE q.priv.buffer

(* On to the next buffer; a queue without one is done. *)
Advance(q) ==
  LET next == IF Current(q) < Len(q.head) THEN Current(q) + 1 ELSE 0
  IN  [q EXCEPT !.priv.buffer = next, !.priv.done = (next = 0)]

(* The time a queue waits for next. *)
NextReference(q) == LET n == Advance(q).priv.buffer
                    IN  IF n = 0 THEN 0 ELSE q.head[n].reference

Decode(idx, how) ==
  LET q == queues[idx]
      n == Current(q)
  IN  decoded' = Append(decoded, [idx |-> idx, n |-> n, how |-> how,
                                  reference |-> q.head[n].reference,
                                  branches |-> process_buffer(UseData(q, n))])

-----------------------------------------------------------------------------
(* intel_bts_process_event(): an event at time t, 0 for none, or the exit  *)
(* of a thread.  Events come in the order of time.                         *)
ProcessEvent(t, tid) ==
  /\ pc = "idle" /\ nevents < MaxEvents
  /\ t = 0 \/ t >= upto
  /\ UpdateQueues
  /\ ts' = t /\ exiting' = tid
  /\ upto' = IF t = 0 THEN upto ELSE t
  /\ nevents' = nevents + 1
  /\ pc' = "queues"
  /\ UNCHANGED <<next_buffer_nr, clock, taken, wrapped, decoded>>

MaxTimestamp == MaxTime + 1

(* intel_bts_flush(), behind the last event. *)
Flush ==
  /\ pc = "idle"
  /\ UpdateQueues
  /\ ts' = MaxTimestamp /\ exiting' = None
  /\ upto' = MaxTimestamp
  /\ pc' = "queues"
  /\ UNCHANGED <<next_buffer_nr, nevents, clock, taken, wrapped, decoded>>

(* Mutant: a buffer of the time of the event is left for later. *)
Due_Strict == heap.cnt > 0 /\ Top(heap).ordinal < ts

(* The first queue of the heap has a buffer up to this time. *)
Due == heap.cnt > 0 /\ Top(heap).ordinal <= ts

(* A round of intel_bts_process_queues() with a queue that is done. *)
ProcessDone ==
  /\ pc = "queues" /\ Due
  /\ LET idx == Top(heap).queue_nr
     IN  /\ queues[idx].priv.done
         /\ queues' = [queues EXCEPT ![idx].priv.on_heap = FALSE]
  /\ heap' = auxtrace_heap__pop(heap)
  /\ UNCHANGED <<new_data, next_buffer_nr, pc, ts, exiting, nevents,
                 clock, upto, taken, wrapped, decoded>>

(* A round that decodes a buffer; the queue waits for its next one, or,    *)
(* at time 0, to be found done.                                            *)
ProcessQueue ==
  /\ pc = "queues" /\ Due
  /\ LET idx == Top(heap).queue_nr
         q   == queues[idx]
     IN  /\ ~q.priv.done
         /\ Decode(idx, "time")
         /\ queues' = [queues EXCEPT ![idx] = Advance(q)]
         /\ heap' = auxtrace_heap__add(auxtrace_heap__pop(heap), idx, NextReference(q))
  /\ UNCHANGED <<new_data, next_buffer_nr, pc, ts, exiting, nevents,
                 clock, upto, taken, wrapped>>

(* The buffer cannot be read or a sample not be delivered: the queue goes  *)
(* back on the heap and the session ends.                                  *)
ProcessFails ==
  /\ MayFail
  /\ pc = "queues" /\ Due
  /\ LET idx == Top(heap).queue_nr
     IN  /\ ~queues[idx].priv.done
         /\ heap' = auxtrace_heap__add(auxtrace_heap__pop(heap), idx, 0)
  /\ pc' = "failed"
  /\ UNCHANGED <<queues, new_data, next_buffer_nr, ts, exiting, nevents,
                 clock, upto, taken, wrapped, decoded>>

(* Nothing is due any more: the event itself, or the end. *)
QueuesProcessed ==
  /\ pc = "queues" /\ ~Due
  /\ pc' = IF ts = MaxTimestamp THEN "end" ELSE IF exiting # None THEN "exit" ELSE "idle"
  /\ UNCHANGED <<queues, new_data, next_buffer_nr, heap, ts, exiting, nevents,
                 clock, upto, taken, wrapped, decoded>>

(* The first queue of the thread that exits. *)
ExitQueues == {i \in DOMAIN queues : queues[i].priv.alloc /\ queues[i].priv.tid = exiting}
ExitQueue == CHOOSE i \in ExitQueues : \A j \in ExitQueues : i <= j

(* intel_bts_process_tid_exit(): a round of intel_bts_flush_queue(). *)
ExitDecode ==
  /\ pc = "exit" /\ ExitQueues # {}
  /\ ~queues[ExitQueue].priv.done
  /\ Decode(ExitQueue, "exit")
  /\ queues' = [queues EXCEPT ![ExitQueue] = Advance(queues[ExitQueue])]
  /\ UNCHANGED <<new_data, next_buffer_nr, heap, pc, ts, exiting, nevents,
                 clock, upto, taken, wrapped>>

ExitDone ==
  /\ pc = "exit"
  /\ ExitQueues # {} => queues[ExitQueue].priv.done
  /\ pc' = "idle"
  /\ UNCHANGED <<queues, new_data, next_buffer_nr, heap, ts, exiting, nevents,
                 clock, upto, taken, wrapped, decoded>>

Ended == pc \in {"end", "failed"} /\ UNCHANGED vars

Next ==
  \/ \E idx \in Indexes, k \in 1 .. MaxBranches, t \in 1 .. MaxTime, wrap \in BOOLEAN :
       QueueBuffer(idx, k, t, wrap)
  \/ IndexRead
  \/ \E t \in 0 .. MaxTime, tid \in {None} \cup {TidOf(idx) : idx \in Indexes} :
       ProcessEvent(t, tid)
  \/ Flush
  \/ ProcessDone \/ ProcessQueue \/ ProcessFails \/ QueuesProcessed
  \/ ExitDecode \/ ExitDone
  \/ Ended

Spec == Init /\ [][Next]_vars

-----------------------------------------------------------------------------
(* Every value has the type of its declaration. *)
TypeOK ==
  /\ \A i \in DOMAIN queues : queues[i].priv.buffer \in 0 .. Len(queues[i].head)
  /\ new_data \in BOOLEAN /\ next_buffer_nr \in 0 .. MaxBuffers
  /\ pc \in {"index", "idle", "queues", "exit", "end", "failed"}
  /\ ts \in 0 .. MaxTimestamp

(* btsq->on_heap says which queues are on the heap, each is there once,    *)
(* and the array has room for them.                                        *)
HeapIsQueues ==
  /\ heap.cnt <= heap.sz
  /\ Cardinality(OnHeap(heap)) = heap.cnt
  /\ OnHeap(heap) = {i \in DOMAIN queues : queues[i].priv.on_heap}

IsDecoded(i, n) == \E d \in DOMAIN decoded : decoded[d].idx = i /\ decoded[d].n = n

(* When an event is handled, every buffer of its time or before has been   *)
(* decoded: the samples of the trace come before the event.                *)
DecodedInTime ==
  pc \in {"exit", "idle", "end"} =>
    \A i \in DOMAIN queues : \A n \in DOMAIN queues[i].head :
      queues[i].head[n].reference <= ts => IsDecoded(i, n)

(* Buffers are decoded in the order of time over all queues, except for    *)
(* those a thread's exit decodes early.                                    *)
DecodedInOrder ==
  \A d, e \in DOMAIN decoded :
    d < e /\ decoded[d].how = "time" /\ decoded[e].how = "time"
      => decoded[d].reference <= decoded[e].reference

(* No branch is decoded twice, and the branches of a thread in the order   *)
(* it took them, whatever snapshots overlap and threads exit.              *)
BranchesOnce ==
  \A d, e \in DOMAIN decoded :
    d <= e /\ decoded[d].idx = decoded[e].idx =>
      \A x \in DOMAIN decoded[d].branches, y \in DOMAIN decoded[e].branches :
        (d < e \/ x < y) => decoded[d].branches[x] < decoded[e].branches[y]

(* At the end every buffer of the recording has been decoded. *)
EverythingDecoded ==
  pc = "end" =>
    \A i \in DOMAIN queues : \A n \in DOMAIN queues[i].head : IsDecoded(i, n)

(* At the end every branch of the recording has been decoded: "it can also *)
(* identify every branch a program takes".                                 *)
EveryBranch ==
  pc = "end" =>
    \A i \in Indexes : \A b \in 1 .. taken[i] :
      \E d \in DOMAIN decoded :
        decoded[d].idx = i /\ b \in Range(decoded[d].branches)

(* A queue with buffers is set and belongs to their thread: "%true once    *)
(* this queue has been dedicated to a specific thread or cpu".             *)
QueueHasOwner ==
  \A i \in DOMAIN queues :
    queues[i].head # <<>> => queues[i].set /\ queues[i].tid = queues[i].head[1].tid
=============================================================================
