------------------------------ MODULE KvmLive ------------------------------
(***************************************************************************)
(* The loop of perf kvm stat live (perf_kvm__mmap_read(), builtin-kvm.c):  *)
(* each pass reads some events of every ring buffer into the ordered       *)
(* queue, then flushes the queue up to the earliest of the first times it  *)
(* saw, while the kernel goes on writing.  There are no rounds that end:   *)
(* how far it is safe to flush is guessed from the events.                 *)
(*                                                                         *)
(* The queue is used by what EventSorter says of it: a flush delivers what *)
(* is queued up to its limit in the order of time.                         *)
(***************************************************************************)
EXTENDS Integers, Sequences, FiniteSets

CONSTANTS
  NrMmaps,     \* evlist->nr_mmaps: ring buffers, one per CPU
  Slots,       \* events a ring buffer has room for
  MaxPerMmap,  \* PERF_KVM__MAX_EVENTS_PER_MMAP: 25
  MaxEvents,   \* bound: events the kernel writes
  MaxPasses    \* bound: calls of perf_kvm__mmap_read()

VARIABLES
  (* the kernel *)
  clock,       \* the time of the last event, which are all different
  inflight,    \* per buffer: the time of an event that is not published yet
  slots,       \* per buffer: the times of the events in its slots
  head, tail,  \* per buffer: events published, events consumed
  (* perf_kvm__mmap_read() and perf_kvm__mmap_read_idx() *)
  pc, idx, n, mmap_time, flush_time, ntotal, throttled,
  npasses,
  queue,       \* the ordered events: what their pointers lead to, and their times
  delivered,   \* history: what was delivered, in order
  empty,       \* history: buffers this pass found empty
  late         \* history: events not read when others later were delivered

kernelVars == <<clock, inflight, slots, head, tail>>
vars == <<kernelVars, pc, idx, n, mmap_time, flush_time, ntotal, throttled,
          npasses, queue, delivered, empty, late>>

Mmaps == 0 .. (NrMmaps - 1)
ULLONG_MAX == MaxEvents + 1
Nothing == 0

Init ==
  /\ clock = 0
  /\ inflight = [i \in Mmaps |-> Nothing]
  /\ slots = [i \in Mmaps |-> [s \in 0 .. (Slots - 1) |-> Nothing]]
  /\ head = [i \in Mmaps |-> 0] /\ tail = [i \in Mmaps |-> 0]
  /\ pc = "start" /\ idx = 0 /\ n = 0
  /\ mmap_time = ULLONG_MAX /\ flush_time = ULLONG_MAX
  /\ ntotal = 0 /\ throttled = FALSE /\ npasses = 0
  /\ queue = {} /\ delivered = <<>> /\ empty = {} /\ late = {}

-----------------------------------------------------------------------------
(* The kernel stamps an event, and publishes it later. *)

Stamp(i) ==
  /\ clock < MaxEvents
  /\ inflight[i] = Nothing
  /\ clock' = clock + 1
  /\ inflight' = [inflight EXCEPT ![i] = clock + 1]
  /\ UNCHANGED <<slots, head, tail, pc, idx, n, mmap_time, flush_time, ntotal,
                 throttled, npasses, queue, delivered, empty, late>>

Publish(i) ==
  /\ inflight[i] # Nothing
  /\ head[i] - tail[i] < Slots
  /\ slots' = [slots EXCEPT ![i][head[i] % Slots] = inflight[i]]
  /\ head' = [head EXCEPT ![i] = @ + 1]
  /\ inflight' = [inflight EXCEPT ![i] = Nothing]
  /\ UNCHANGED <<clock, tail, pc, idx, n, mmap_time, flush_time, ntotal,
                 throttled, npasses, queue, delivered, empty, late>>

-----------------------------------------------------------------------------
StartPass ==
  /\ pc = "start" /\ npasses < MaxPasses
  /\ npasses' = npasses + 1
  /\ idx' = 0 /\ n' = 0 /\ ntotal' = 0 /\ throttled' = FALSE
  /\ flush_time' = ULLONG_MAX /\ mmap_time' = ULLONG_MAX
  /\ empty' = {}
  /\ pc' = "read"
  /\ UNCHANGED <<kernelVars, queue, delivered, late>>

(* Mutant: without copy_on_queue, a pointer into the ring buffer. *)
Queued_Pointer(i, t) == [time |-> t, copy |-> FALSE, mmap |-> i, slot |-> tail[i] % Slots, data |-> t]

(* perf_session__queue_event() with copy_on_queue set: the event itself.   *)
Queued(i, t) == [time |-> t, copy |-> TRUE, mmap |-> i, slot |-> tail[i] % Slots, data |-> t]

(* Mutant: the first time of the buffer read last. *)
MinTime_Last(flush) == IF mmap_time = ULLONG_MAX THEN flush ELSE mmap_time

(* The earliest first time of the buffers that were not empty. *)
MinTime(flush) == IF mmap_time < flush THEN mmap_time ELSE flush

(* The time of the first event of a buffer in a pass. *)
FirstTime(t) == IF n = 0 THEN t ELSE mmap_time

(* An event is queued and consumed. *)
ReadEvent ==
  /\ pc = "read" /\ n < MaxPerMmap
  /\ tail[idx] < head[idx]
  /\ LET t == slots[idx][tail[idx] % Slots]
     IN  /\ queue' = queue \cup {Queued(idx, t)}
         /\ mmap_time' = FirstTime(t)
  /\ tail' = [tail EXCEPT ![idx] = @ + 1]
  /\ n' = n + 1
  /\ UNCHANGED <<clock, inflight, slots, head, pc, idx, flush_time, ntotal,
                 throttled, npasses, delivered, empty, late>>

(* An event that cannot be parsed is consumed; one that cannot be queued   *)
(* as well.  Both end the loop.                                            *)
ReadFails ==
  /\ pc = "read" /\ n < MaxPerMmap
  /\ tail[idx] < head[idx]
  /\ tail' = [tail EXCEPT ![idx] = @ + 1]
  /\ pc' = "ended"
  /\ UNCHANGED <<clock, inflight, slots, head, idx, n, mmap_time, flush_time, ntotal,
                 throttled, npasses, queue, delivered, empty, late>>

(* A buffer is empty or has had its share; on to the next, or to the flush *)
(* if there was anything to read.                                          *)
NextMmap ==
  /\ pc = "read"
  /\ n = MaxPerMmap \/ tail[idx] = head[idx]
  /\ flush_time' = MinTime(flush_time)
  /\ ntotal' = ntotal + n
  /\ throttled' = (throttled \/ n = MaxPerMmap)
  /\ empty' = IF n = 0 THEN empty \cup {idx} ELSE empty
  /\ IF idx + 1 \in Mmaps
     THEN idx' = idx + 1 /\ pc' = "read"
     ELSE idx' = idx /\ pc' = IF ntotal' > 0 THEN "flush" ELSE "start"
  /\ n' = 0 /\ mmap_time' = ULLONG_MAX
  /\ UNCHANGED <<kernelVars, npasses, queue, delivered, late>>

(* What the pointer of a queued event leads to. *)
Content(e) == IF e.copy THEN e.data ELSE slots[e.mmap][e.slot]

(* The event in slot k of a buffer, and those that are written, or about   *)
(* to be, and not read.                                                    *)
At(i, k) == slots[i][k % Slots]
UnreadOf(i) == ({inflight[i]} \ {Nothing}) \cup {At(i, k) : k \in tail[i] .. (head[i] - 1)}
Unread == UNION {UnreadOf(i) : i \in Mmaps}
MmapOf(t) == CHOOSE i \in Mmaps : t \in UnreadOf(i)

(* ordered_events__flush() with next_flush = flush_time delivers an event. *)
FlushEvent ==
  /\ pc = "flush"
  /\ \E e \in queue :
       /\ e.time <= flush_time
       /\ \A o \in queue : e.time <= o.time
       /\ queue' = queue \ {e}
       /\ delivered' = Append(delivered, [time |-> e.time, data |-> Content(e)])
       /\ late' = late \cup {[event |-> t, foundEmpty |-> MmapOf(t) \in empty] :
                               t \in {u \in Unread : u < e.time}}
  /\ UNCHANGED <<kernelVars, pc, idx, n, mmap_time, flush_time, ntotal,
                 throttled, npasses, empty>>

(* The tool fails with an event: the loop ends and the queue is left.      *)
FlushFails ==
  /\ pc = "flush"
  /\ \E e \in queue : e.time <= flush_time
  /\ pc' = "ended"
  /\ UNCHANGED <<kernelVars, idx, n, mmap_time, flush_time, ntotal,
                 throttled, npasses, queue, delivered, empty, late>>

(* A pass that was throttled is followed by the next one without a poll.   *)
FlushDone ==
  /\ pc = "flush"
  /\ \A e \in queue : e.time > flush_time
  /\ pc' = "start"
  /\ UNCHANGED <<kernelVars, idx, n, mmap_time, flush_time, ntotal,
                 throttled, npasses, queue, delivered, empty, late>>

Ended == (pc = "ended" \/ npasses = MaxPasses) /\ UNCHANGED vars

Next ==
  \/ \E i \in Mmaps : Stamp(i) \/ Publish(i)
  \/ StartPass \/ ReadEvent \/ ReadFails \/ NextMmap
  \/ FlushEvent \/ FlushFails \/ FlushDone
  \/ Ended

Spec == Init /\ [][Next]_vars

-----------------------------------------------------------------------------
(* Every value has the type of its declaration. *)
TypeOK ==
  /\ clock \in 0 .. MaxEvents
  /\ \A i \in Mmaps : /\ inflight[i] \in 0 .. MaxEvents
                      /\ head[i] - tail[i] \in 0 .. Slots
  /\ pc \in {"start", "read", "flush", "ended"}
  /\ idx \in Mmaps /\ n \in 0 .. MaxPerMmap
  /\ mmap_time \in 1 .. ULLONG_MAX /\ flush_time \in 1 .. ULLONG_MAX

(* "that leaves a very small race": an event is delivered behind a later   *)
(* one only if its buffer was empty when the pass that delivered the later *)
(* one read it.  The limit of events per buffer never causes it.           *)
OnlyEmptyBuffersRace ==
  \A j, k \in DOMAIN delivered :
    j < k /\ delivered[k].time < delivered[j].time
      => \E l \in late : l.event = delivered[k].time /\ l.foundEmpty

(* The tool sees the event the kernel wrote, although its place in the     *)
(* ring buffer was given back as soon as it was queued.                    *)
DeliveredIntact ==
  \A k \in DOMAIN delivered : delivered[k].data = delivered[k].time
-----------------------------------------------------------------------------
(* The inductive invariant of the proofs, and what they assume.            *)

KvmConstants ==
  /\ NrMmaps \in Nat \ {0} /\ Slots \in Nat \ {0} /\ MaxPerMmap \in Nat \ {0}
  /\ MaxEvents \in Nat

Types ==
  /\ clock \in 0 .. MaxEvents /\ inflight \in [Mmaps -> Nat]
  /\ slots \in [Mmaps -> [0 .. (Slots - 1) -> Nat]]
  /\ head \in [Mmaps -> Nat] /\ tail \in [Mmaps -> Nat]
  /\ pc \in {"start", "read", "flush", "ended"} /\ idx \in Mmaps /\ n \in Nat
  /\ mmap_time \in 1 .. ULLONG_MAX /\ flush_time \in 1 .. ULLONG_MAX
  /\ delivered \in Seq([time : Nat, data : Nat])

(* A buffer has its events in the order of time, no two have the same.     *)
BuffersInv ==
  /\ \A i \in Mmaps : head[i] - tail[i] \in 0 .. Slots
  /\ \A i \in Mmaps : UnreadOf(i) \subseteq 1 .. clock
  /\ \A i \in Mmaps : \A k \in tail[i] .. (head[i] - 1) :
       /\ inflight[i] # Nothing => At(i, k) < inflight[i]
       /\ \A l \in tail[i] .. (head[i] - 1) : k < l => At(i, k) < At(i, l)
  /\ \A i, j \in Mmaps : i # j => UnreadOf(i) \cap UnreadOf(j) = {}

(* The buffers the pass has been at.  What it left in one that was not     *)
(* empty is behind the time up to which it flushes.                        *)
Passed == IF pc = "flush" THEN Mmaps ELSE IF pc = "read" THEN 0 .. (idx - 1) ELSE {}
PassInv ==
  /\ pc = "read" /\ n = 0 => mmap_time = ULLONG_MAX
  /\ pc = "read" /\ n > 0 => mmap_time <= clock /\ \A t \in UnreadOf(idx) : mmap_time < t
  /\ \A i \in Passed \ empty : flush_time <= clock /\ \A t \in UnreadOf(i) : flush_time < t

(* What is still to be delivered behind a later event is known to be late. *)
LateInv ==
  /\ \A e \in queue : e.time \in 1 .. clock /\ e.copy /\ e.data = e.time
  /\ \A k \in DOMAIN delivered : delivered[k].time <= clock
  /\ \A k \in DOMAIN delivered : \A t \in Unread \cup {e.time : e \in queue} :
       t < delivered[k].time => [event |-> t, foundEmpty |-> TRUE] \in late

KvmInv ==
  Types /\ BuffersInv /\ PassInv /\ LateInv /\ OnlyEmptyBuffersRace /\ DeliveredIntact
=============================================================================
