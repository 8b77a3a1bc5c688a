--------------------------- MODULE OrderedEvents ---------------------------
(***************************************************************************)
(* The time-ordering queue of perf sessions: struct ordered_events         *)
(* (tools/perf/util/ordered-events.c).  Samples are queued in the order    *)
(* they are read and delivered in timestamp order by flushes.              *)
(*                                                                         *)
(* This module holds the state of the queue and its operations.  The loop  *)
(* that calls them is in module Session (perf_session__process_events).    *)
(* An operation that runs to its end without the caller regaining control  *)
(* is one action; the flush loop calls back into the tool once per event   *)
(* and polls session_done() once per event, so each of its turns is an     *)
(* action of its own.                                                      *)
(***************************************************************************)
EXTENDS Integers, Sequences

CONSTANTS
  Timestamps,        \* sample times that can be queued
  ULLONG_MAX,        \* ~0ULL: "no timestamp", and the limit of a final flush
  Sizes,             \* event->header.size
  BufferBytes,       \* MAX_SAMPLE_BUFFER * sizeof(struct ordered_event)
  MAX_SAMPLE_BUFFER, \* slots of one buffer, the first links it in to_free
  MaxAllocSize,      \* report.queue-size; ULLONG_MAX when it is not set
  CopyOnQueue,       \* oe->copy_on_queue
  MallocMayFail,     \* may malloc() and memdup() return NULL?
  NULL

ASSUME OEAssumption ==
  /\ ULLONG_MAX \in Nat \ {0}
  /\ Timestamps \subseteq 1 .. (ULLONG_MAX - 1)
  /\ Sizes \subseteq Nat \ {0}
  /\ BufferBytes \in Nat \ {0}
  /\ MAX_SAMPLE_BUFFER \in Nat /\ MAX_SAMPLE_BUFFER > 2
  /\ MaxAllocSize \in Nat \ {0}
  /\ CopyOnQueue \in BOOLEAN
  /\ MallocMayFail \in BOOLEAN

VARIABLES
  events,              \* oe->events: the queued events, in list order
  last,                \* oe->last: the event queued last, or NULL
  max_timestamp,
  next_flush,
  last_flush,
  nr_events,
  nr_unordered_events,
  cache,               \* number of slots on oe->cache
  buffer,              \* oe->buffer # NULL
  buffer_idx,
  to_free,             \* number of buffers on oe->to_free
  cur_alloc_size,
  max_alloc_size,
  delivered            \* history: what the tool was given, in order

queueVars == <<events, last, max_timestamp, nr_events>>
flushVars == <<next_flush, last_flush>>
allocVars == <<cache, buffer, buffer_idx, to_free, cur_alloc_size>>
oeVars == <<events, last, max_timestamp, next_flush, last_flush, nr_events,
            nr_unordered_events, cache, buffer, buffer_idx, to_free,
            cur_alloc_size, max_alloc_size, delivered>>

(* An event as the queue sees it: id is its position in the input stream.  *)
Event == [id : Nat, timestamp : Timestamps, size : Sizes]

ASSUME NULLAssumption == NULL \notin Event

Range(s) == {s[i] : i \in 1 .. Len(s)}

(* ordered_events__init(), and ordered_events__set_alloc_size() of the     *)
(* tools that bound the queue.                                             *)
ordered_events__init ==
  /\ events = <<>>
  /\ last = NULL
  /\ max_timestamp = 0
  /\ next_flush = 0
  /\ last_flush = 0
  /\ nr_events = 0
  /\ nr_unordered_events = 0
  /\ cache = 0
  /\ buffer = FALSE
  /\ buffer_idx = 0
  /\ to_free = 0
  /\ cur_alloc_size = 0
  /\ max_alloc_size = MaxAllocSize

----------------------------------------------------------------------------
(* queue_event(): the place of a new event, searched from oe->last.        *)

(* s with e put at position p, which is what list_add does. *)
InsertEvent(s, p, e) ==
  [i \in 1 .. Len(s) + 1 |-> IF i < p THEN s[i]
                             ELSE IF i = p THEN e ELSE s[i - 1]]

(* Where oe->last is on the list. *)
LastPos == CHOOSE i \in 1 .. Len(events) : events[i] = last

(* Walk towards the tail to the first later event, or past the tail. *)
ForwardPos(from, t) ==
  CHOOSE p \in from + 1 .. Len(events) + 1 :
    /\ \A i \in from .. p - 1 : events[i].timestamp <= t
    /\ p <= Len(events) => events[p].timestamp > t

(* Mutant: the walk towards the head passes events of the same time. *)
BackwardPos_PassesEquals(from, t) ==
  CHOOSE p \in 1 .. from :
    /\ \A i \in p .. from : events[i].timestamp >= t
    /\ p > 1 => events[p - 1].timestamp < t

(* Walk towards the head to just behind the first event not later. *)
BackwardPos(from, t) ==
  CHOOSE p \in 1 .. from :
    /\ \A i \in p .. from : events[i].timestamp > t
    /\ p > 1 => events[p - 1].timestamp <= t

QueuePos(t) ==
  IF last = NULL THEN 1
  ELSE IF last.timestamp <= t THEN ForwardPos(LastPos, t)
                              ELSE BackwardPos(LastPos, t)

(* The walk starts from an event that is on the list. *)
LastIsQueued == last # NULL => last \in Range(events)

queue_event(new) ==
  LET p == QueuePos(new.timestamp)
  IN  /\ LastIsQueued
      /\ nr_events' = nr_events + 1
      /\ last' = new
      /\ events' = InsertEvent(events, p, new)
      /\ max_timestamp' = IF last = NULL \/ p = Len(events) + 1
                          THEN new.timestamp ELSE max_timestamp

----------------------------------------------------------------------------
(* alloc_event(): a copy of the event if copy_on_queue is set, and a slot. *)

DupBytes(e) == IF CopyOnQueue THEN e.size ELSE 0

(* __dup_event() gets past the allocation limit. *)
DupAllowed == CopyOnQueue => cur_alloc_size < max_alloc_size

SlotFromCache(e) ==
  /\ cache > 0
  /\ cache' = cache - 1
  /\ cur_alloc_size' = cur_alloc_size + DupBytes(e)
  /\ UNCHANGED <<buffer, buffer_idx, to_free>>

SlotFromBuffer(e) ==
  /\ cache = 0
  /\ buffer
  /\ buffer_idx' = buffer_idx + 1
  /\ buffer' = IF buffer_idx + 1 = MAX_SAMPLE_BUFFER THEN FALSE ELSE buffer
  /\ cur_alloc_size' = cur_alloc_size + DupBytes(e)
  /\ UNCHANGED <<cache, to_free>>

NeedsBuffer == cache = 0 /\ ~buffer

(* Mutant: the entry that links the buffer is handed out as well. *)
SlotFromNewBuffer_IndexOne(e) ==
  /\ NeedsBuffer
  /\ cur_alloc_size + DupBytes(e) < max_alloc_size
  /\ cur_alloc_size' = cur_alloc_size + DupBytes(e) + BufferBytes
  /\ to_free' = to_free + 1
  /\ buffer' = TRUE
  /\ buffer_idx' = 1
  /\ UNCHANGED cache

SlotFromNewBuffer(e) ==
  /\ NeedsBuffer
  /\ cur_alloc_size + DupBytes(e) < max_alloc_size
  /\ cur_alloc_size' = cur_alloc_size + DupBytes(e) + BufferBytes
  /\ to_free' = to_free + 1
  /\ buffer' = TRUE
  /\ buffer_idx' = 2
  /\ UNCHANGED cache

alloc_event(e) ==
  /\ DupAllowed
  /\ SlotFromCache(e) \/ SlotFromBuffer(e) \/ SlotFromNewBuffer(e)

(* alloc_event() returns NULL and leaves nothing behind. *)
AllocReturnsNull(e) ==
  \/ ~DupAllowed
  \/ MallocMayFail /\ CopyOnQueue
  \/ /\ MallocMayFail
     /\ NeedsBuffer
     /\ cur_alloc_size + DupBytes(e) < max_alloc_size

(* "allocation limit reached" is reported and new, still NULL, is written  *)
(* through: new->event = new_event.                                        *)
AllocDereferencesNull(e) ==
  /\ DupAllowed
  /\ NeedsBuffer
  /\ cur_alloc_size + DupBytes(e) >= max_alloc_size

----------------------------------------------------------------------------
(* The three outcomes of ordered_events__new_event(), and a fourth when    *)
(* oe->last is not on the list: the walk of queue_event() then follows the *)
(* links of a slot that is on the cache or already reused.                 *)

ordered_events__new_event(e) == alloc_event(e) /\ queue_event(e)

NewEventFails(e) ==
  AllocReturnsNull(e) /\ UNCHANGED <<queueVars, allocVars>>

NewEventCrashes(e) ==
  AllocDereferencesNull(e) /\ UNCHANGED <<queueVars, allocVars>>

NewEventCorrupts(e) ==
  /\ alloc_event(e)
  /\ ~LastIsQueued
  /\ UNCHANGED queueVars

(* Mutant: off by one in the test for an event behind the last flush. *)
CountUnordered_OffByOne(e) ==
  nr_unordered_events' = IF e.timestamp + 1 < last_flush
                         THEN nr_unordered_events + 1
                         ELSE nr_unordered_events

(* ordered_events__queue() counts what arrives behind the last flush. *)
CountUnordered(e) ==
  nr_unordered_events' = IF e.timestamp < last_flush
                         THEN nr_unordered_events + 1
                         ELSE nr_unordered_events

----------------------------------------------------------------------------
(* ordered_events__flush().                                                *)

FlushKinds == {"FINAL", "ROUND", "HALF"}

(* Mutant: a final flush keeps the limit of the last round. *)
FlushLimit_FinalAsRound(how) ==
  CASE how = "FINAL" -> next_flush
    [] how = "HALF"  -> events[1].timestamp
                        + (last.timestamp - events[1].timestamp) \div 2
    [] how = "ROUND" -> next_flush

(* Mutant: a round flushes up to its own latest event. *)
FlushLimit_RoundAtOnce(how) ==
  CASE how = "FINAL" -> ULLONG_MAX
    [] how = "HALF"  -> events[1].timestamp
                        + (last.timestamp - events[1].timestamp) \div 2
    [] how = "ROUND" -> max_timestamp

FlushLimit(how) ==
  CASE how = "FINAL" -> ULLONG_MAX
    [] how = "HALF"  -> events[1].timestamp
                        + (last.timestamp - events[1].timestamp) \div 2
    [] how = "ROUND" -> next_flush

(* The loop of __ordered_events__flush() is entered, with this limit. *)
FlushEnters(how) == nr_events # 0 /\ FlushLimit(how) # 0

(* The loop stops: nothing left, or the next event is beyond the limit. *)
FlushExhausted ==
  events = <<>> \/ (events # <<>> /\ Head(events).timestamp > next_flush)

(* ordered_events__delete() of the event just delivered, which frees its   *)
(* slot to the cache, and the record of how far the flush got.             *)
ordered_events__delete ==
  LET e == Head(events)
  IN  /\ events' = Tail(events)
      /\ nr_events' = nr_events - 1
      /\ cache' = cache + 1
      /\ cur_alloc_size' = cur_alloc_size - DupBytes(e)
      /\ last_flush' = e.timestamp
      /\ UNCHANGED <<last, max_timestamp, next_flush, buffer, buffer_idx, to_free>>

(* Behind a loop that ran to its end oe->last is put back on the list. *)
LastAfterFlush ==
  IF events = <<>> THEN NULL
  ELSE IF (IF last = NULL THEN 0 ELSE last.timestamp) <= next_flush
       THEN events[Len(events)]
       ELSE last

(* Mutant: a round leaves the limit as it was. *)
NextFlushAfter_Kept(how, err) == next_flush

(* A round that ended without an error sets the limit of the next round. *)
NextFlushAfter(how, err) ==
  IF how = "ROUND" /\ ~err THEN max_timestamp ELSE next_flush

(* ordered_events__free() and ordered_events__reinit(): everything back to *)
(* zero, the configured allocation limit included.                         *)
ordered_events__reinit ==
  /\ events' = <<>>
  /\ last' = NULL
  /\ max_timestamp' = 0
  /\ next_flush' = 0
  /\ last_flush' = 0
  /\ nr_events' = 0
  /\ nr_unordered_events' = 0
  /\ cache' = 0
  /\ buffer' = FALSE
  /\ buffer_idx' = 0
  /\ to_free' = 0
  /\ cur_alloc_size' = 0
  /\ max_alloc_size' = ULLONG_MAX

----------------------------------------------------------------------------
(* What the list promises to whoever drives it.                            *)

(* e comes before f: by time, and events of one time in the order read. *)
Before(e, f) ==
  e.timestamp < f.timestamp \/ (e.timestamp = f.timestamp /\ e.id < f.id)

(* queue_event() keeps the list sorted, and stable: it walks from the      *)
(* event queued last, in either direction, whatever the flushes in between *)
(* have removed.                                                           *)
QueueSorted ==
  \A i, j \in 1 .. Len(events) : i < j => Before(events[i], events[j])

(* oe->max_timestamp, the limit the next round gets, is the time of the    *)
(* list's tail: no event that could still be overtaken is below it.        *)
MaxTimestampIsTail ==
  events # <<>> => max_timestamp = events[Len(events)].timestamp
=============================================================================
