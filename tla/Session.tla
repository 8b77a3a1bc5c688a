------------------------------ MODULE Session ------------------------------
(***************************************************************************)
(* perf_session__process_events() (tools/perf/util/session.c): the loop    *)
(* that reads the records of a perf.data file or of a pipe, queues the     *)
(* timed ones, flushes the queue at every FINISHED_ROUND record, and does  *)
(* a final flush at the end of the data or when session_done is set.       *)
(*                                                                         *)
(* session_done is set by a signal handler at any moment.  The tool's      *)
(* callback may fail, and so may malloc().                                 *)
(***************************************************************************)
EXTENDS OrderedEvents

CONSTANTS
  Pipe,            \* perf_data_file__is_pipe(session->file)
  MaxRecords,      \* bound: records read over all the files processed
  DeliverMayFail   \* may the tool or the sample parser return an error?

ASSUME SessionAssumption ==
  /\ Pipe \in BOOLEAN
  /\ MaxRecords \in Nat
  /\ DeliverMayFail \in BOOLEAN
  /\ ~CopyOnQueue

VARIABLES
  pc,            \* where the loop is
  how,           \* the kind of the flush in progress
  pending,       \* the event ordered_events__queue() is to try again
  session_done,
  nread,         \* records read so far; the id of the one read last
  err,           \* did an error end the loop?
  halved         \* has memory run out, and a half flush begun, in this file?

sessionVars == <<pc, how, pending, session_done, nread, err, halved>>
vars == <<oeVars, sessionVars>>

Locations == {"read", "flush", "retry", "final", "teardown", "closed",
              "crashed", "corrupt"}

Init ==
  /\ ordered_events__init
  /\ delivered = <<>>
  /\ pc = "read"
  /\ how = "FINAL"
  /\ pending = NULL
  /\ session_done = FALSE
  /\ nread = 0
  /\ err = FALSE
  /\ halved = FALSE

----------------------------------------------------------------------------
(* Mutant: the records of a file share one buffer too. *)
Shown_SharedBuffer(e, n) ==
  [id |-> e.id, timestamp |-> e.timestamp, data |-> n]

(* What the tool is shown of event e.  A record of a file stays mapped     *)
(* while it is queued; the records of a pipe share the one buffer of the   *)
(* read loop, which holds what was read last.                              *)
Shown(e, n) ==
  [id |-> e.id, timestamp |-> e.timestamp, data |-> IF Pipe THEN n ELSE e.id]

(* The tail of the loop: go on, or leave it when session_done is set. *)
AfterRecord == pc' = IF session_done THEN "final" ELSE "read"

NextRecord ==
  /\ pc = "read"
  /\ nread < MaxRecords
  /\ nread' = nread + 1
  /\ UNCHANGED session_done

(* The entry of ordered_events__flush(); back says where the loop goes if  *)
(* there is nothing to flush.  A round whose limit is still zero returns   *)
(* from __ordered_events__flush() at once and sets the next limit.         *)
BeginFlush(kind, back) ==
  \/ /\ nr_events = 0
     /\ back
     /\ UNCHANGED <<how, next_flush>>
  \/ /\ nr_events # 0
     /\ FlushLimit(kind) = 0
     /\ back
     /\ next_flush' = NextFlushAfter(kind, FALSE)
     /\ UNCHANGED how
  \/ /\ FlushEnters(kind)
     /\ pc' = "flush"
     /\ how' = kind
     /\ next_flush' = FlushLimit(kind)

----------------------------------------------------------------------------
(* One record of the input.                                                *)

(* ordered_events__queue(), up to the retry behind a half flush. *)
QueueEventAt(t, sz) ==
  LET e == [id |-> nread + 1, timestamp |-> t, size |-> sz]
  IN  /\ NextRecord
      /\ CountUnordered(e)
      /\ \/ /\ ordered_events__new_event(e)
            /\ AfterRecord
            /\ UNCHANGED <<how, pending, halved, next_flush>>
         \/ /\ NewEventFails(e)
            /\ pending' = e
            /\ halved' = TRUE
            /\ BeginFlush("HALF", pc' = "retry")
         \/ /\ NewEventCrashes(e)
            /\ pc' = "crashed"
            /\ UNCHANGED <<how, pending, halved, next_flush>>
      /\ UNCHANGED <<last_flush, max_alloc_size, delivered, err>>

QueueEvent == \E t \in Timestamps, sz \in Sizes : QueueEventAt(t, sz)

(* Without a usable timestamp ordered_events__queue() returns -ETIME and   *)
(* the event goes to the tool at once, past the queue.                     *)
DeliverUntimed ==
  /\ NextRecord
  /\ \E t \in {0, ULLONG_MAX} :
       \/ /\ delivered' = Append(delivered,
                                 Shown([id |-> nread + 1, timestamp |-> t], nread + 1))
          /\ AfterRecord
          /\ UNCHANGED err
       \/ /\ DeliverMayFail
          /\ pc' = "teardown"
          /\ err' = TRUE
          /\ UNCHANGED delivered
  /\ UNCHANGED <<queueVars, flushVars, allocVars, nr_unordered_events,
                 max_alloc_size, how, pending, halved>>

(* PERF_RECORD_FINISHED_ROUND. *)
process_finished_round ==
  /\ NextRecord
  /\ BeginFlush("ROUND", AfterRecord)
  /\ UNCHANGED <<queueVars, last_flush, allocVars, nr_unordered_events,
                 max_alloc_size, delivered, pending, err, halved>>

(* Any other user record, or one that cannot be parsed: handled at once. *)
ProcessUserEvent ==
  /\ NextRecord
  /\ \/ AfterRecord /\ UNCHANGED err
     \/ DeliverMayFail /\ pc' = "teardown" /\ err' = TRUE
  /\ UNCHANGED <<oeVars, how, pending, halved>>

(* The last record is behind the loop. *)
EndOfData ==
  /\ pc = "read"
  /\ pc' = "final"
  /\ UNCHANGED <<oeVars, how, pending, session_done, nread, err, halved>>

----------------------------------------------------------------------------
(* The flush loop, one turn per event.                                     *)

(* Back in the caller: the half flush's result is ignored, a round's error *)
(* ends the session.                                                       *)
FlushReturns(failed) ==
  /\ next_flush' = NextFlushAfter(how, failed)
  /\ CASE how = "HALF"  -> pc' = "retry"
       [] how = "ROUND" -> IF failed THEN pc' = "teardown" ELSE AfterRecord
       [] how = "FINAL" -> pc' = "teardown"
  /\ err' = (err \/ (failed /\ how # "HALF"))

(* session_done() between two events: return without repairing oe->last. *)
FlushInterrupted ==
  /\ pc = "flush"
  /\ events # <<>> /\ session_done
  /\ FlushReturns(FALSE)
  /\ UNCHANGED <<queueVars, last_flush, allocVars, nr_unordered_events,
                 max_alloc_size, delivered, how, pending, session_done, nread,
                 halved>>

FlushDeliver ==
  /\ pc = "flush"
  /\ ~session_done /\ ~FlushExhausted
  /\ delivered' = Append(delivered, Shown(Head(events), nread))
  /\ ordered_events__delete
  /\ UNCHANGED <<nr_unordered_events, max_alloc_size, sessionVars>>

FlushDeliverFails ==
  /\ pc = "flush"
  /\ ~session_done /\ ~FlushExhausted
  /\ DeliverMayFail
  /\ FlushReturns(TRUE)
  /\ UNCHANGED <<queueVars, last_flush, allocVars, nr_unordered_events,
                 max_alloc_size, delivered, how, pending, session_done, nread,
                 halved>>

FlushEnds ==
  /\ pc = "flush"
  /\ FlushExhausted
  /\ events # <<>> => ~session_done
  /\ last' = LastAfterFlush
  /\ FlushReturns(FALSE)
  /\ UNCHANGED <<events, max_timestamp, nr_events, last_flush, allocVars,
                 nr_unordered_events, max_alloc_size, delivered, how, pending,
                 session_done, nread, halved>>

(* Mutant: the queueing is tried until it succeeds. *)
RetryQueue_Forever ==
  /\ pc = "retry"
  /\ \/ ordered_events__new_event(pending) /\ AfterRecord /\ pending' = NULL
     \/ NewEventFails(pending) /\ UNCHANGED <<pc, pending>>
  /\ UNCHANGED <<flushVars, nr_unordered_events, max_alloc_size, delivered,
                 how, session_done, nread, err, halved>>

(* The second ordered_events__new_event() of ordered_events__queue().  If  *)
(* that fails too the event is lost and -ENOMEM ends the session.          *)
RetryQueue ==
  /\ pc = "retry"
  /\ \/ ordered_events__new_event(pending) /\ AfterRecord /\ UNCHANGED err
     \/ NewEventFails(pending)    /\ pc' = "teardown" /\ err' = TRUE
     \/ NewEventCrashes(pending)  /\ pc' = "crashed"  /\ UNCHANGED err
     \/ NewEventCorrupts(pending) /\ pc' = "corrupt"  /\ UNCHANGED err
  /\ pending' = NULL
  /\ UNCHANGED <<flushVars, nr_unordered_events, max_alloc_size, delivered,
                 how, session_done, nread, halved>>

----------------------------------------------------------------------------
(* "do the final flush for ordered samples" *)
FinalFlush ==
  /\ pc = "final"
  /\ BeginFlush("FINAL", pc' = "teardown")
  /\ UNCHANGED <<queueVars, last_flush, allocVars, nr_unordered_events,
                 max_alloc_size, delivered, pending, session_done, nread, err,
                 halved>>

(* out_err: ordered_events__reinit(), so that the session can be used      *)
(* again; a pipe is read once and its queue is freed.                      *)
Teardown ==
  /\ pc = "teardown"
  /\ pc' = "closed"
  /\ ordered_events__reinit
  /\ UNCHANGED <<delivered, how, pending, session_done, nread, err, halved>>

(* perf record --switch-output processes the next file with the session.   *)
ProcessNextFile ==
  /\ pc = "closed"
  /\ ~Pipe
  /\ nread < MaxRecords
  /\ pc' = "read"
  /\ delivered' = <<>>
  /\ err' = FALSE /\ halved' = FALSE
  /\ UNCHANGED <<queueVars, flushVars, allocVars, nr_unordered_events,
                 max_alloc_size, how, pending, session_done, nread>>

(* The tool's signal handler. *)
SetSessionDone ==
  /\ ~session_done
  /\ session_done' = TRUE
  /\ UNCHANGED <<oeVars, pc, how, pending, nread, err, halved>>

(* The process has ended. *)
Ended ==
  /\ pc \in {"closed", "crashed", "corrupt"}
  /\ UNCHANGED vars

Flush == FlushInterrupted \/ FlushDeliver \/ FlushDeliverFails \/ FlushEnds

Process ==
  \/ QueueEvent \/ DeliverUntimed \/ process_finished_round
  \/ ProcessUserEvent \/ EndOfData
  \/ Flush \/ RetryQueue \/ FinalFlush \/ Teardown

Next == Process \/ ProcessNextFile \/ SetSessionDone \/ Ended

Spec == Init /\ [][Next]_vars

(* perf is scheduled while it has something to do, and every file ends. *)
FairSpec == Spec /\ WF_vars(Process)

----------------------------------------------------------------------------
(* Properties.                                                             *)

TypeOK ==
  /\ events \in Seq(Event)
  /\ last \in Event \cup {NULL}
  /\ max_timestamp \in Timestamps \cup {0}
  /\ next_flush \in 0 .. ULLONG_MAX
  /\ last_flush \in Timestamps \cup {0}
  /\ nr_events = Len(events)
  /\ nr_unordered_events \in Nat
  /\ cache \in Nat
  /\ buffer \in BOOLEAN
  /\ buffer_idx \in 0 .. MAX_SAMPLE_BUFFER
  /\ buffer => buffer_idx \in 2 .. MAX_SAMPLE_BUFFER - 1
  /\ to_free \in Nat
  /\ cur_alloc_size \in Nat
  /\ max_alloc_size \in Nat
  /\ delivered \in Seq([id : Nat, timestamp : Nat, data : Nat])
  /\ pc \in Locations
  /\ how \in FlushKinds
  /\ pending \in Event \cup {NULL}
  /\ session_done \in BOOLEAN
  /\ nread \in Nat
  /\ err \in BOOLEAN /\ halved \in BOOLEAN

LastOnList == IF events = <<>> THEN last = NULL ELSE last \in Range(events)

(* Whenever the next record can be read, oe->last is an event of the list, *)
(* and is NULL only if the list is empty: __ordered_events__flush() puts   *)
(* it back on every path that returns to the loop.                         *)
LastTracksQueue == pc = "read" => LastOnList

(* If "out of order events recorded" is not reported and memory did not    *)
(* run out, the tool saw the timed events in time order, ties in the order *)
(* of the file.  (A half flush may move last_flush past the event that     *)
(* waits for it after that event was compared with last_flush.)            *)
DeliveredInOrder ==
  nr_unordered_events = 0 /\ ~halved /\ pc # "closed" =>
    \A i, j \in 1 .. Len(delivered) :
      /\ i < j
      /\ delivered[i].timestamp \in Timestamps
      /\ delivered[j].timestamp \in Timestamps
      => Before(delivered[i], delivered[j])

(* Every slot of every buffer on to_free, the first one excepted, is on    *)
(* the list, on the cache, or not handed out yet: none is leaked or used   *)
(* twice, and the bytes accounted are those of the buffers.                *)
SlotsAccounted ==
  pc # "corrupt" =>
    /\ to_free * (MAX_SAMPLE_BUFFER - 1)
         = Len(events) + cache
           + (IF buffer THEN MAX_SAMPLE_BUFFER - buffer_idx ELSE 0)
    /\ cur_alloc_size = to_free * BufferBytes

(* A session that was neither interrupted nor ended by an error has        *)
(* delivered all it queued before the queue is torn down, also when a half *)
(* flush failed on the way, whose result is ignored.                       *)
NothingLeftBehind ==
  pc = "teardown" /\ ~session_done /\ ~err => events = <<>>

(* The queue's users and "report.queue-size" count on alloc_event() to     *)
(* return NULL when the allocation limit is reached, so that half of the   *)
(* queue is flushed: it never writes through a NULL slot.                  *)
NoNullDereference == pc # "crashed"

(* What the tool is given is the event that was queued, with the contents  *)
(* it had when it was read.                                                *)
DeliveredIntact ==
  \A i \in 1 .. Len(delivered) : delivered[i].data = delivered[i].id

(* queue_event() starts its walk from an event that is "some random place  *)
(* in the list": never from a slot that has left the list.                 *)
LastOnListWhenQueued == pc # "corrupt"

(* The loop ends: every session that is processed is closed again.         *)
SessionEnds ==
  []<>(pc \in {"closed", "crashed", "corrupt"})

(* The queue and its loop implement a sorter of events: what is accepted   *)
(* waits in a pool, and leaves it earliest first.                          *)
Sorter == INSTANCE EventSorter WITH pool <- Range(events), out <- delivered

SorterSpec == Sorter!Spec
----------------------------------------------------------------------------
(* The inductive invariant of the safety proofs.                           *)

(* The list holds records read before; one that waits for its retry is the *)
(* record read last, and is not on the list.                               *)
IdsInv ==
  /\ \A i \in 1 .. Len(events) : events[i].id <= nread
  /\ pending # NULL =>
       /\ pending.id = nread
       /\ \A i \in 1 .. Len(events) : events[i].id < nread
  /\ pending # NULL <=> (pc = "retry" \/ (pc = "flush" /\ how = "HALF"))
  /\ pending # NULL => halved
  /\ halved => MallocMayFail

(* oe->last is on the list except in a flush that has removed it and will  *)
(* repair it, or that was interrupted and leads out of the loop.           *)
LastInv ==
  /\ last = NULL => events = <<>>
  /\ pc = "read" => LastOnList
  /\ pc = "final" /\ ~session_done => LastOnList
  /\ pc = "flush" /\ ~session_done =>
       /\ last # NULL
       /\ last.timestamp > next_flush => last \in Range(events)

(* Everything delivered so far comes before everything on the list. *)
OrderInv ==
  nr_unordered_events = 0 /\ ~halved /\ pc # "closed" =>
    \A i \in 1 .. Len(delivered) :
      delivered[i].timestamp \in Timestamps =>
        /\ delivered[i].timestamp <= last_flush
        /\ delivered[i].id <= nread
        /\ \A j \in 1 .. Len(events) : Before(delivered[i], events[j])

ClosedInv == pc = "closed" => events = <<>> /\ last = NULL

(* The final flush has no limit, so only a failure or session_done can end *)
(* it while events are queued.                                             *)
FinalInv ==
  /\ pc = "flush" /\ how = "FINAL" => next_flush = ULLONG_MAX
  /\ NothingLeftBehind

IInv ==
  /\ TypeOK
  /\ QueueSorted
  /\ MaxTimestampIsTail
  /\ IdsInv
  /\ LastInv
  /\ ClosedInv
=============================================================================
