---------------------------- MODULE EventSorter ----------------------------
(***************************************************************************)
(* What a perf session promises the tool about the order of events: timed  *)
(* events wait in a pool and each one that is delivered is the earliest of *)
(* the pool, the first read among equals; untimed events pass at once.     *)
(* Nothing is delivered twice or made up, and nothing leaves the pool      *)
(* undelivered but when the session is torn down.                          *)
(***************************************************************************)
EXTENDS Naturals, Sequences

VARIABLES
  pool,   \* the events accepted and not delivered
  out     \* what was delivered in this session, as [id, timestamp, data]

Init == pool = {} /\ out = <<>>

(* e comes no later than f. *)
NotAfter(e, f) ==
  e.timestamp < f.timestamp \/ (e.timestamp = f.timestamp /\ e.id <= f.id)

Accept ==
  /\ \E e \in pool' : e \notin pool /\ pool' = pool \cup {e}
  /\ UNCHANGED out

(* The earliest event is delivered, with the contents it was read with. *)
Emit ==
  \E e \in pool :
    /\ \A f \in pool : NotAfter(e, f)
    /\ pool' = pool \ {e}
    /\ out' = Append(out, [id |-> e.id, timestamp |-> e.timestamp, data |-> e.id])

Pass ==
  /\ UNCHANGED pool
  /\ Len(out') = Len(out) + 1
  /\ SubSeq(out', 1, Len(out)) = out
  /\ \A e \in pool : e.id # out'[Len(out) + 1].id

Discard == pool' = {} /\ UNCHANGED out

NextSession == pool = {} /\ pool' = {} /\ out' = <<>>

Next == Accept \/ Emit \/ Pass \/ Discard \/ NextSession

Spec == Init /\ [][Next]_<<pool, out>>
=============================================================================
