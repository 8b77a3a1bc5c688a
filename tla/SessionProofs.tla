--------------------------- MODULE SessionProofs ---------------------------
(***************************************************************************)
(* Safety proofs about modules Session and RoundOrder, for every file,     *)
(* every moment of a signal, every failure of malloc() and of the tool.    *)
(***************************************************************************)
EXTENDS RoundOrder, TLAPS, WellFoundedInduction

----------------------------------------------------------------------------
(* The list of struct ordered_events: where queue_event() puts an event,   *)
(* and what an insertion and a deletion at the head do to the list.        *)

(* Every set of naturals that is not empty has a least element. *)
LEMMA LeastNatural ==
  ASSUME NEW T, T \subseteq Nat, T # {}
  PROVE  \E x \in T : \A y \in T : x <= y
<1> DEFINE R == OpToRel(<, Nat)
<1>1. IsWellFoundedOn(R, Nat)
  BY NatLessThanWellFounded
<1> HIDE DEF R
<1>2. PICK x \in T : \A y \in T : ~(<<y, x>> \in R)
  BY <1>1, WFMin
<1>3. \A y \in T : x <= y
  <2> TAKE y \in T
  <2>1. x \in Nat /\ y \in Nat
    OBVIOUS
  <2>2. ~(<<y, x>> \in R)
    BY <1>2
  <2>3. ~(y < x)
    BY <2>1, <2>2 DEF R, OpToRel
  <2> QED
    BY <2>1, <2>3
<1> QED
  BY <1>3

(* The elements of a list of events have a natural time and id. *)
LEMMA EventFields ==
  ASSUME NEW s \in Seq(Event), Timestamps \subseteq Nat
  PROVE  /\ Len(s) \in Nat
         /\ \A i \in 1 .. Len(s) : /\ s[i] \in Event
                                  /\ s[i].timestamp \in Nat
                                  /\ s[i].id \in Nat
<1>1. Len(s) \in Nat
  OBVIOUS
<1>2. ASSUME NEW i \in 1 .. Len(s)
      PROVE  s[i] \in Event /\ s[i].timestamp \in Nat /\ s[i].id \in Nat
  <2>1. s[i] \in Event
    OBVIOUS
  <2>2. s[i].timestamp \in Timestamps /\ s[i].id \in Nat
    BY <2>1 DEF Event
  <2> QED
    BY <2>1, <2>2
<1> QED
  BY <1>1, <1>2

(* A position that splits the list at time t: nothing before it is later,  *)
(* and everything from it on is.                                           *)
SplitsAt(p, t) ==
  /\ p \in 1 .. Len(events) + 1
  /\ \A i \in 1 .. p - 1 : events[i].timestamp <= t
  /\ \A i \in p .. Len(events) : events[i].timestamp > t

(* A list sorted by time has such a position for every time. *)
LEMMA SplitExists ==
  ASSUME events \in Seq(Event), QueueSorted, Timestamps \subseteq Nat,
         NEW t \in Nat
  PROVE  \E p \in Nat : SplitsAt(p, t)
<1> DEFINE T == {i \in 1 .. Len(events) : events[i].timestamp > t}
<1>0. Len(events) \in Nat /\ \A i \in 1 .. Len(events) : events[i].timestamp \in Nat
  BY EventFields
<1>1. CASE T = {}
  <2>1. SplitsAt(Len(events) + 1, t)
    BY <1>0, <1>1 DEF SplitsAt
  <2> QED
    BY <2>1, <1>0
<1>2. CASE T # {}
  <2>0. T \subseteq Nat
    BY <1>0
  <2>1. PICK p \in T : \A y \in T : p <= y
    <3> HIDE DEF T
    <3> QED
      BY <1>2, <2>0, LeastNatural
  <2>2. \A i \in 1 .. p - 1 : events[i].timestamp <= t
    BY <2>1, <1>0
  <2>3. \A i \in p .. Len(events) : events[i].timestamp > t
    BY <2>1, <1>0 DEF QueueSorted, Before
  <2> QED
    BY <2>1, <2>2, <2>3, <1>0 DEF SplitsAt
<1> QED
  BY <1>1, <1>2
(* The walk of queue_event(), in either direction, ends at the place that  *)
(* splits the list at the new event's time.                                *)
LEMMA QueuePosSplits ==
  ASSUME events \in Seq(Event), QueueSorted, Timestamps \subseteq Nat,
         NEW t \in Nat, last # NULL => last \in Range(events),
         last = NULL => events = <<>>
  PROVE  SplitsAt(QueuePos(t), t)
<1>0. Len(events) \in Nat /\ \A i \in 1 .. Len(events) : events[i].timestamp \in Nat
  BY EventFields
<1>m. \A i, j \in 1 .. Len(events) :
         i <= j => events[i].timestamp <= events[j].timestamp
  BY <1>0 DEF QueueSorted, Before
<1>1. CASE last = NULL
  BY <1>0, <1>1 DEF QueuePos, SplitsAt
<1>2. CASE last # NULL
  <2> DEFINE from == LastPos
  <2>1. from \in 1 .. Len(events) /\ events[from] = last
    BY <1>2 DEF LastPos, Range
  <2>2. PICK p \in Nat : SplitsAt(p, t)
    BY SplitExists
  <2> HIDE DEF from
  <2>3. CASE last.timestamp <= t
    <3> DEFINE F(q) == /\ \A i \in from .. q - 1 : events[i].timestamp <= t
                       /\ q <= Len(events) => events[q].timestamp > t
    <3>1. p \in from + 1 .. Len(events) + 1 /\ F(p)
      BY <1>0, <2>1, <2>2, <2>3 DEF SplitsAt
    <3>2. ForwardPos(from, t) = CHOOSE q \in from + 1 .. Len(events) + 1 : F(q)
      BY DEF ForwardPos
    <3>3. ForwardPos(from, t) \in from + 1 .. Len(events) + 1 /\ F(ForwardPos(from, t))
      <4> HIDE DEF F
      <4> QED
        BY <3>1, <3>2
    <3>4. QueuePos(t) = ForwardPos(from, t)
      BY <1>2, <2>3 DEF QueuePos, from
    <3> DEFINE q == QueuePos(t)
    <3>5. q \in from + 1 .. Len(events) + 1 /\ F(q)
      BY <3>3, <3>4
    <3> HIDE DEF q
    <3>6. ASSUME NEW i \in 1 .. q - 1 PROVE events[i].timestamp <= t
      BY <3>5, <1>0, <1>m, <2>1, <2>3
    <3>7. ASSUME NEW i \in q .. Len(events) PROVE events[i].timestamp > t
      BY <3>5, <1>0, <1>m, <2>1, <2>3
    <3> QED
      BY <3>5, <3>6, <3>7, <1>0, <2>1 DEF SplitsAt, q
  <2>4. CASE ~(last.timestamp <= t)
    <3> DEFINE B(q) == /\ \A i \in q .. from : events[i].timestamp > t
                       /\ q > 1 => events[q - 1].timestamp <= t
    <3>1. p \in 1 .. from /\ B(p)
      BY <1>0, <2>1, <2>2, <2>4 DEF SplitsAt
    <3>2. BackwardPos(from, t) = CHOOSE q \in 1 .. from : B(q)
      BY DEF BackwardPos
    <3>3. BackwardPos(from, t) \in 1 .. from /\ B(BackwardPos(from, t))
      <4> HIDE DEF B
      <4> QED
        BY <3>1, <3>2
    <3>4. QueuePos(t) = BackwardPos(from, t)
      BY <1>2, <2>4 DEF QueuePos, from
    <3> DEFINE q == QueuePos(t)
    <3>5. q \in 1 .. from /\ B(q)
      BY <3>3, <3>4
    <3> HIDE DEF q
    <3>6. ASSUME NEW i \in 1 .. q - 1 PROVE events[i].timestamp <= t
      BY <3>5, <1>0, <1>m, <2>1, <2>4
    <3>7. ASSUME NEW i \in q .. Len(events) PROVE events[i].timestamp > t
      BY <3>5, <1>0, <1>m, <2>1, <2>4
    <3> QED
      BY <3>5, <3>6, <3>7, <1>0, <2>1 DEF SplitsAt, q
  <2> QED
    BY <2>3, <2>4
<1> QED
  BY <1>1, <1>2

(* InsertEvent() yields a list with one element more, the new one at p. *)
LEMMA InsertedList ==
  ASSUME NEW s \in Seq(Event), NEW p \in 1 .. Len(s) + 1, NEW e \in Event
  PROVE  LET r == InsertEvent(s, p, e)
         IN  /\ r \in Seq(Event)
             /\ Len(r) = Len(s) + 1
             /\ r # <<>>
             /\ \A i \in 1 .. p - 1 : r[i] = s[i]
             /\ r[p] = e
             /\ \A i \in p + 1 .. Len(s) + 1 : r[i] = s[i - 1]
<1> DEFINE r == InsertEvent(s, p, e)
<1>0. Len(s) \in Nat /\ \A i \in 1 .. Len(s) : s[i] \in Event
  OBVIOUS
<1>1. \A i \in 1 .. Len(s) + 1 :
         r[i] = IF i < p THEN s[i] ELSE IF i = p THEN e ELSE s[i - 1]
  BY DEF InsertEvent
<1>2. \A i \in 1 .. Len(s) + 1 : r[i] \in Event
  BY <1>0, <1>1
<1>3. r = [i \in 1 .. Len(s) + 1 |-> r[i]]
  BY DEF InsertEvent
<1> HIDE DEF r
<1>4. r \in Seq(Event) /\ Len(r) = Len(s) + 1
  BY <1>0, <1>2, <1>3
<1>5. r # <<>>
  BY <1>0, <1>4
<1> QED
  BY <1>0, <1>1, <1>4, <1>5 DEF r

(* The elements of the new list are the old ones and the new one. *)
LEMMA InsertedRange ==
  ASSUME NEW s \in Seq(Event), NEW p \in 1 .. Len(s) + 1, NEW e \in Event
  PROVE  Range(InsertEvent(s, p, e)) = Range(s) \cup {e}
<1> DEFINE r == InsertEvent(s, p, e)
<1>0. Len(s) \in Nat
  OBVIOUS
<1>1. /\ Len(r) = Len(s) + 1
      /\ \A i \in 1 .. p - 1 : r[i] = s[i]
      /\ r[p] = e
      /\ \A i \in p + 1 .. Len(s) + 1 : r[i] = s[i - 1]
  BY InsertedList
<1> HIDE DEF r
<1>2. ASSUME NEW x \in Range(r) PROVE x \in Range(s) \cup {e}
  <2>1. PICK i \in 1 .. Len(s) + 1 : r[i] = x
    BY <1>1 DEF Range
  <2>2. CASE i < p
    <3>1. i \in 1 .. Len(s) /\ s[i] = x
      BY <1>0, <1>1, <2>1, <2>2
    <3> QED
      BY <3>1 DEF Range
  <2>3. CASE i = p
    BY <1>1, <2>1, <2>3
  <2>4. CASE i > p
    <3>1. i - 1 \in 1 .. Len(s) /\ s[i - 1] = x
      BY <1>0, <1>1, <2>1, <2>4
    <3> QED
      BY <3>1 DEF Range
  <2> QED
    BY <2>2, <2>3, <2>4
<1>3. ASSUME NEW x \in Range(s) PROVE x \in Range(r)
  <2>1. PICK i \in 1 .. Len(s) : s[i] = x
    BY DEF Range
  <2>2. CASE i < p
    BY <1>0, <1>1, <2>1, <2>2 DEF Range
  <2>3. CASE i >= p
    <3>1. i + 1 \in p + 1 .. Len(s) + 1 /\ r[i + 1] = s[i]
      BY <1>0, <1>1, <2>1, <2>3
    <3> QED
      BY <1>0, <1>1, <2>1, <3>1 DEF Range
  <2> QED
    BY <1>0, <2>2, <2>3
<1>4. e \in Range(r)
  BY <1>0, <1>1 DEF Range
<1> QED
  BY <1>2, <1>3, <1>4 DEF r

(* queue_event() of an event younger than all on the list keeps the list   *)
(* sorted, adds that event and nothing else, and keeps max_timestamp at    *)
(* the time of the tail.                                                   *)
LEMMA QueueEventStep ==
  ASSUME events \in Seq(Event), QueueSorted, MaxTimestampIsTail,
         Timestamps \subseteq Nat, nr_events = Len(events),
         last = NULL => events = <<>>,
         NEW e \in Event, \A i \in 1 .. Len(events) : events[i].id < e.id,
         queue_event(e)
  PROVE  /\ events' \in Seq(Event)
         /\ events' # <<>>
         /\ QueueSorted'
         /\ MaxTimestampIsTail'
         /\ Range(events') = Range(events) \cup {e}
         /\ Len(events') = Len(events) + 1
         /\ nr_events' = Len(events')
         /\ last' = e
<1> DEFINE t == e.timestamp
<1> DEFINE p == QueuePos(t)
<1>e. t \in Timestamps /\ e.id \in Nat
  BY DEF Event
<1>n. t \in Nat
  BY <1>e, Zenon
<1>l. Len(events) \in Nat
  OBVIOUS
<1>0. Len(events) \in Nat /\ t \in Nat /\ e.id \in Nat
  BY <1>e, <1>n, <1>l, Zenon
<1>f. \A i \in 1 .. Len(events) : events[i].timestamp \in Nat /\ events[i].id \in Nat
  BY EventFields
<1>1. SplitsAt(p, t)
  BY <1>0, QueuePosSplits DEF queue_event, LastIsQueued
<1>2. /\ last' = e
      /\ events' = InsertEvent(events, p, e)
      /\ nr_events' = nr_events + 1
      /\ max_timestamp' = IF last = NULL \/ p = Len(events) + 1 THEN t ELSE max_timestamp
  BY DEF queue_event
<1> HIDE DEF p
<1>3. p \in 1 .. Len(events) + 1
  BY <1>1 DEF SplitsAt
<1>4. /\ events' \in Seq(Event)
      /\ Len(events') = Len(events) + 1
      /\ events' # <<>>
      /\ \A i \in 1 .. p - 1 : events'[i] = events[i]
      /\ events'[p] = e
      /\ \A i \in p + 1 .. Len(events) + 1 : events'[i] = events[i - 1]
  <2> DEFINE r == InsertEvent(events, p, e)
  <2>1. /\ r \in Seq(Event)
        /\ Len(r) = Len(events) + 1
        /\ r # <<>>
        /\ \A i \in 1 .. p - 1 : r[i] = events[i]
        /\ r[p] = e
        /\ \A i \in p + 1 .. Len(events) + 1 : r[i] = events[i - 1]
    BY <1>3, InsertedList, ZenonT(30)
  <2>2. events' = r
    BY <1>2
  <2> HIDE DEF r
  <2> QED
    BY <2>1, <2>2, Zenon
<1>5. Range(events') = Range(events) \cup {e}
  BY <1>2, <1>3, InsertedRange
<1>6. QueueSorted'
  <2> SUFFICES ASSUME NEW i \in 1 .. Len(events'), NEW j \in 1 .. Len(events'), i < j
               PROVE  Before(events'[i], events'[j])
    BY DEF QueueSorted, Before
  <2>1. CASE j < p
    BY <1>0, <1>3, <1>4, <2>1 DEF QueueSorted
  <2>2. CASE j = p
    <3>1. events'[i] = events[i] /\ i \in 1 .. p - 1
      BY <1>0, <1>3, <1>4, <2>2
    <3>2. events[i].timestamp <= t /\ events[i].id < e.id
      BY <1>0, <1>1, <1>3, <3>1 DEF SplitsAt
    <3> QED
      BY <1>0, <1>f, <1>3, <1>4, <2>2, <3>1, <3>2 DEF Before
  <2>3. CASE j > p /\ i = p
    <3>1. events'[j] = events[j - 1] /\ j - 1 \in p .. Len(events)
      BY <1>0, <1>3, <1>4, <2>3
    <3>2. events[j - 1].timestamp > t
      BY <1>1, <3>1 DEF SplitsAt
    <3> QED
      BY <1>0, <1>f, <1>3, <1>4, <2>3, <3>1, <3>2 DEF Before
  <2>4. CASE j > p /\ i < p
    <3>1. /\ events'[j] = events[j - 1] /\ events'[i] = events[i]
          /\ j - 1 \in 1 .. Len(events) /\ i \in 1 .. Len(events) /\ i < j - 1
      BY <1>0, <1>3, <1>4, <2>4
    <3> QED
      BY <3>1 DEF QueueSorted
  <2>5. CASE j > p /\ i > p
    <3>1. /\ events'[j] = events[j - 1] /\ events'[i] = events[i - 1]
          /\ j - 1 \in 1 .. Len(events) /\ i - 1 \in 1 .. Len(events) /\ i - 1 < j - 1
      BY <1>0, <1>3, <1>4, <2>5
    <3> QED
      BY <3>1 DEF QueueSorted
  <2> QED
    BY <1>3, <1>4, <1>0, <2>1, <2>2, <2>3, <2>4, <2>5
<1>7. MaxTimestampIsTail'
  <2>1. CASE p = Len(events) + 1
    BY <1>0, <1>2, <1>4, <2>1 DEF MaxTimestampIsTail
  <2>2. CASE p # Len(events) + 1
    <3>1. events # <<>> /\ Len(events) > 0
      BY <1>0, <1>3, <2>2
    <3>2. last # NULL
      BY <3>1
    <3>3. max_timestamp' = events[Len(events)].timestamp
      BY <1>2, <2>2, <3>1, <3>2 DEF MaxTimestampIsTail
    <3>4. events'[Len(events')] = events[Len(events)]
      BY <1>0, <1>3, <1>4, <2>2
    <3> QED
      BY <3>3, <3>4 DEF MaxTimestampIsTail
  <2> QED
    BY <2>1, <2>2
<1> QED
  BY <1>0, <1>2, <1>4, <1>5, <1>6, <1>7

(* Taking the head off a sorted list leaves it sorted and takes exactly    *)
(* that event, which comes before all that stay.                           *)
LEMMA HeadRemoved ==
  ASSUME events \in Seq(Event), events # <<>>, QueueSorted, MaxTimestampIsTail,
         Timestamps \subseteq Nat,
         events' = Tail(events), max_timestamp' = max_timestamp
  PROVE  /\ events' \in Seq(Event)
         /\ Len(events') = Len(events) - 1
         /\ QueueSorted'
         /\ MaxTimestampIsTail'
         /\ Head(events) \in Event
         /\ Head(events) = events[1]
         /\ Range(events) = {Head(events)} \cup Range(events')
         /\ \A f \in Range(events') : Before(Head(events), f)
         /\ Head(events) \notin Range(events')
<1>0. Len(events) \in Nat /\ Len(events) > 0
  OBVIOUS
<1>f. \A i \in 1 .. Len(events) : events[i].timestamp \in Nat /\ events[i].id \in Nat
  BY EventFields
<1>1. /\ events' \in Seq(Event)
      /\ Len(events') = Len(events) - 1
      /\ \A i \in 1 .. Len(events) - 1 : events'[i] = events[i + 1]
      /\ Head(events) = events[1]
      /\ Head(events) \in Event
  BY <1>0
<1>2. QueueSorted'
  <2> SUFFICES ASSUME NEW i \in 1 .. Len(events'), NEW j \in 1 .. Len(events'), i < j
               PROVE  Before(events'[i], events'[j])
    BY DEF QueueSorted, Before
  <2>1. /\ events'[i] = events[i + 1] /\ events'[j] = events[j + 1]
        /\ i + 1 \in 1 .. Len(events) /\ j + 1 \in 1 .. Len(events) /\ i + 1 < j + 1
    BY <1>0, <1>1
  <2> QED
    BY <2>1 DEF QueueSorted
<1>3. MaxTimestampIsTail'
  <2> SUFFICES ASSUME events' # <<>>
               PROVE  max_timestamp' = events'[Len(events')].timestamp
    BY DEF MaxTimestampIsTail
  <2>1. Len(events') > 0 /\ Len(events') \in Nat
    BY <1>1
  <2>2. events'[Len(events')] = events[Len(events)]
    BY <2>1, <1>0, <1>1
  <2> QED
    BY <2>2 DEF MaxTimestampIsTail
<1>4. ASSUME NEW x \in Range(events) PROVE x = Head(events) \/ x \in Range(events')
  <2>1. PICK i \in 1 .. Len(events) : events[i] = x
    BY DEF Range
  <2>2. CASE i = 1
    BY <2>1, <2>2, <1>1
  <2>3. CASE i # 1
    <3>1. i - 1 \in 1 .. Len(events') /\ events'[i - 1] = events[i]
      BY <2>3, <1>0, <1>1
    <3> QED
      BY <2>1, <3>1 DEF Range
  <2> QED
    BY <2>2, <2>3
<1>5. ASSUME NEW f \in Range(events')
      PROVE  f \in Range(events) /\ Before(Head(events), f)
  <2>1. PICK i \in 1 .. Len(events') : events'[i] = f
    BY DEF Range
  <2>2. i + 1 \in 1 .. Len(events) /\ events[i + 1] = f /\ 1 \in 1 .. Len(events) /\ 1 < i + 1
    BY <1>0, <1>1, <2>1
  <2> QED
    BY <2>2, <1>1 DEF Range, QueueSorted
<1>6. Head(events) \in Range(events)
  BY <1>0, <1>1 DEF Range
<1>7. Head(events) \notin Range(events')
  <2> SUFFICES ASSUME Head(events) \in Range(events') PROVE FALSE
    OBVIOUS
  <2>1. Before(Head(events), Head(events))
    BY <1>5
  <2> QED
    BY <2>1, <1>0, <1>1, <1>f DEF Before
<1> QED
  BY <1>1, <1>2, <1>3, <1>4, <1>5, <1>6, <1>7

----------------------------------------------------------------------------
(* The session.                                                            *)

(* Sample times are naturals other than 0 and ULLONG_MAX. *)
LEMMA TimeFacts ==
  /\ Timestamps \subseteq Nat
  /\ \A t \in Timestamps : t > 0 /\ t < ULLONG_MAX
  /\ ULLONG_MAX \in Nat /\ ULLONG_MAX > 0
BY OEAssumption

(* A queue that does not copy counts no bytes for an event. *)
LEMMA NoDup == \A e : DupBytes(e) = 0
BY SessionAssumption DEF DupBytes

(* A slot is found without breaking the allocator's types. *)
LEMMA AllocTypes ==
  ASSUME TypeOK, NEW e, alloc_event(e)
  PROVE  /\ cache' \in Nat
         /\ buffer' \in BOOLEAN
         /\ buffer_idx' \in 0 .. MAX_SAMPLE_BUFFER
         /\ buffer' => buffer_idx' \in 2 .. MAX_SAMPLE_BUFFER - 1
         /\ to_free' \in Nat
         /\ cur_alloc_size' \in Nat
<1>1. DupBytes(e) = 0
  BY NoDup
<1>2. CASE SlotFromCache(e)
  BY <1>1, <1>2 DEF SlotFromCache, TypeOK
<1>3. CASE SlotFromBuffer(e)
  <2>1. /\ MAX_SAMPLE_BUFFER \in Nat
        /\ buffer_idx \in 2 .. MAX_SAMPLE_BUFFER - 1
        /\ buffer_idx' = buffer_idx + 1
        /\ cache' \in Nat /\ to_free' \in Nat /\ cur_alloc_size' \in Nat
    BY <1>1, <1>3, OEAssumption DEF SlotFromBuffer, TypeOK
  <2>2. buffer' = IF buffer_idx + 1 = MAX_SAMPLE_BUFFER THEN FALSE ELSE TRUE
    BY <1>3, Zenon DEF SlotFromBuffer
  <2>3. buffer_idx' \in 0 .. MAX_SAMPLE_BUFFER
    BY <2>1
  <2>4. buffer' => buffer_idx' \in 2 .. MAX_SAMPLE_BUFFER - 1
    <3>1. CASE buffer_idx + 1 = MAX_SAMPLE_BUFFER
      BY <3>1, <2>2, Zenon
    <3>2. CASE buffer_idx + 1 # MAX_SAMPLE_BUFFER
      BY <3>2, <2>1
    <3> QED
      BY <3>1, <3>2
  <2>5. buffer' \in BOOLEAN
    BY <2>2, Zenon
  <2> QED
    BY <2>1, <2>3, <2>4, <2>5
<1>4. CASE SlotFromNewBuffer(e)
  BY <1>1, <1>4, OEAssumption DEF SlotFromNewBuffer, TypeOK
<1> QED
  BY <1>2, <1>3, <1>4 DEF alloc_event

(* A flush never gets a limit above ULLONG_MAX. *)
LEMMA LimitType ==
  ASSUME TypeOK, QueueSorted, NEW kind \in FlushKinds, nr_events # 0,
         kind = "HALF" => LastOnList
  PROVE  FlushLimit(kind) \in 0 .. ULLONG_MAX
<1>0. Timestamps \subseteq Nat /\ \A t \in Timestamps : t > 0 /\ t < ULLONG_MAX
  BY TimeFacts
<1>1. CASE kind = "FINAL"
  BY <1>1, TimeFacts DEF FlushLimit
<1>2. CASE kind = "ROUND"
  BY <1>2 DEF FlushLimit, TypeOK
<1>3. CASE kind = "HALF"
  <2>1. events \in Seq(Event) /\ Len(events) \in Nat /\ Len(events) > 0 /\ events # <<>>
    BY DEF TypeOK
  <2>2. PICK i \in 1 .. Len(events) : events[i] = last
    BY <1>3, <2>1 DEF LastOnList, Range
  <2>3. events[1] \in Event /\ events[i] \in Event
    BY <2>1
  <2>4. events[1].timestamp \in Timestamps /\ events[i].timestamp \in Timestamps
    BY <2>3 DEF Event
  <2> DEFINE a == events[1].timestamp
  <2> DEFINE b == events[i].timestamp
  <2>5. /\ a \in Nat /\ b \in Nat /\ a < ULLONG_MAX /\ b < ULLONG_MAX
    BY <1>0, <2>4
  <2>6. a <= b
    <3>1. CASE i = 1
      BY <3>1, <2>5
    <3>2. CASE i # 1
      <4>1. Before(events[1], events[i])
        BY <3>2, <2>1, <2>2 DEF QueueSorted
      <4> QED
        BY <4>1, <2>5 DEF Before
    <3> QED
      BY <3>1, <3>2
  <2>7. FlushLimit(kind) = a + (b - a) \div 2
    BY <1>3, <2>2 DEF FlushLimit
  <2> HIDE DEF a, b
  <2> QED
    BY <2>5, <2>6, <2>7, TimeFacts
<1> QED
  BY <1>1, <1>2, <1>3 DEF FlushKinds
(* A flush that is begun leaves the list alone and has a limit in range;   *)
(* it is entered only with something to flush.                             *)
LEMMA BeginFlushStep ==
  ASSUME IInv, NEW kind \in FlushKinds, NEW ACTION back,
         kind = "HALF" => LastOnList,
         BeginFlush(kind, back)
  PROVE  /\ next_flush' \in 0 .. ULLONG_MAX
         /\ how' \in FlushKinds
         /\ \/ back
            \/ /\ pc' = "flush" /\ how' = kind
               /\ events # <<>>
<1>1. CASE nr_events = 0 /\ back /\ UNCHANGED <<how, next_flush>>
  BY <1>1 DEF IInv, TypeOK
<1>2. CASE /\ nr_events # 0 /\ FlushLimit(kind) = 0 /\ back
           /\ next_flush' = NextFlushAfter(kind, FALSE) /\ UNCHANGED how
  <2>1. /\ max_timestamp \in 0 .. ULLONG_MAX
        /\ next_flush \in 0 .. ULLONG_MAX
        /\ how \in FlushKinds
    BY TimeFacts DEF IInv, TypeOK
  <2> QED
    BY <1>2, <2>1 DEF NextFlushAfter
<1>3. CASE /\ FlushEnters(kind) /\ pc' = "flush" /\ how' = kind
           /\ next_flush' = FlushLimit(kind)
  <2>1. nr_events # 0 /\ events # <<>>
    BY <1>3 DEF FlushEnters, IInv, TypeOK
  <2>2. FlushLimit(kind) \in 0 .. ULLONG_MAX
    BY <2>1, LimitType DEF IInv
  <2> QED
    BY <1>3, <2>1, <2>2
<1> QED
  BY <1>1, <1>2, <1>3 DEF BeginFlush

(* The limit left behind by a flush, and where the loop goes on. *)
LEMMA FlushReturnsStep ==
  ASSUME IInv, NEW failed \in BOOLEAN, FlushReturns(failed)
  PROVE  /\ next_flush' \in 0 .. ULLONG_MAX
         /\ pc' \in {"read", "final", "retry", "teardown"}
         /\ pc' = "retry" <=> how = "HALF"
         /\ pc' = "read" => ~session_done
         /\ pc' = "final" => session_done
<1>1. next_flush' \in 0 .. ULLONG_MAX
  <2>1. /\ max_timestamp \in 0 .. ULLONG_MAX
        /\ next_flush \in 0 .. ULLONG_MAX
    BY TimeFacts DEF IInv, TypeOK
  <2> QED
    BY <2>1 DEF FlushReturns, NextFlushAfter
<1>2. how \in {"FINAL", "ROUND", "HALF"}
  BY DEF IInv, TypeOK, FlushKinds
<1>3. CASE how = "HALF"
  BY <1>1, <1>3 DEF FlushReturns
<1>4. CASE how = "ROUND"
  BY <1>1, <1>4 DEF FlushReturns, AfterRecord
<1>5. CASE how = "FINAL"
  BY <1>1, <1>5 DEF FlushReturns
<1> QED
  BY <1>2, <1>3, <1>4, <1>5
(* What the invariant says of each event of the list. *)
LEMMA ListFacts ==
  ASSUME IInv
  PROVE  /\ Len(events) \in Nat
         /\ \A i \in 1 .. Len(events) :
              /\ events[i] \in Event
              /\ events[i].timestamp \in Nat
              /\ events[i].id \in Nat
              /\ events[i].id <= nread
<1>1. events \in Seq(Event)
  BY DEF IInv, TypeOK
<1>2. Timestamps \subseteq Nat
  BY TimeFacts
<1>3. \A i \in 1 .. Len(events) : events[i].id <= nread
  BY DEF IInv, IdsInv
<1> QED
  BY <1>1, <1>2, <1>3, EventFields

(* An event that gets a slot and is queued. *)
LEMMA NewEventStep ==
  ASSUME IInv, NEW e \in Event, \A i \in 1 .. Len(events) : events[i].id < e.id,
         ordered_events__new_event(e)
  PROVE  /\ events' \in Seq(Event)
         /\ events' # <<>>
         /\ last' = e /\ last' \in Range(events') /\ last' # NULL
         /\ max_timestamp' \in Timestamps \cup {0}
         /\ nr_events' = Len(events')
         /\ cache' \in Nat
         /\ buffer' \in BOOLEAN
         /\ buffer_idx' \in 0 .. MAX_SAMPLE_BUFFER
         /\ buffer' => buffer_idx' \in 2 .. MAX_SAMPLE_BUFFER - 1
         /\ to_free' \in Nat
         /\ cur_alloc_size' \in Nat
         /\ QueueSorted'
         /\ MaxTimestampIsTail'
         /\ Range(events') = Range(events) \cup {e}
<1>1. /\ events' \in Seq(Event)
      /\ events' # <<>>
      /\ QueueSorted'
      /\ MaxTimestampIsTail'
      /\ Range(events') = Range(events) \cup {e}
      /\ nr_events' = Len(events')
      /\ last' = e
  BY QueueEventStep, TimeFacts DEF IInv, TypeOK, LastInv, ordered_events__new_event
<1>2. max_timestamp' \in Timestamps \cup {0}
  <2>1. e.timestamp \in Timestamps
    BY DEF Event
  <2> QED
    BY <2>1 DEF ordered_events__new_event, queue_event, IInv, TypeOK
<1>3. last' \in Range(events') /\ last' # NULL
  BY <1>1, NULLAssumption
<1> QED
  BY <1>1, <1>2, <1>3, AllocTypes DEF ordered_events__new_event, IInv

(* The ids of the list after a queueing. *)
LEMMA IdsAfterQueue ==
  ASSUME IInv, NEW e \in Event, e.id \in Nat, NEW n \in Nat, e.id <= n,
         \A i \in 1 .. Len(events) : events[i].id <= n,
         events' \in Seq(Event), Range(events') = Range(events) \cup {e}
  PROVE  \A i \in 1 .. Len(events') : events'[i].id <= n
<1> SUFFICES ASSUME NEW i \in 1 .. Len(events') PROVE events'[i].id <= n
  OBVIOUS
<1>1. events'[i] \in Range(events')
  BY DEF Range
<1>2. CASE events'[i] = e
  BY <1>2
<1>3. CASE events'[i] \in Range(events)
  BY <1>3 DEF Range
<1> QED
  BY <1>1, <1>2, <1>3

(* What each step does to the two flags of the loop. *)
LEMMA FlagSteps ==
  ASSUME IInv, Next
  PROVE  /\ err' \in BOOLEAN /\ halved' \in BOOLEAN
         /\ halved' = halved \/ QueueEvent \/ ProcessNextFile
<1>0. err \in BOOLEAN /\ halved \in BOOLEAN
  BY DEF IInv, TypeOK
<1>1. CASE QueueEvent
  BY <1>0, <1>1, Zenon DEF QueueEvent, QueueEventAt
<1>2. CASE DeliverUntimed
  BY <1>0, <1>2, Zenon DEF DeliverUntimed
<1>3. CASE process_finished_round
  BY <1>0, <1>3, Zenon DEF process_finished_round
<1>4. CASE ProcessUserEvent
  BY <1>0, <1>4, Zenon DEF ProcessUserEvent
<1>5. CASE EndOfData
  BY <1>0, <1>5, Zenon DEF EndOfData
<1>6. CASE FlushInterrupted
  BY <1>0, <1>6, Zenon DEF FlushInterrupted, FlushReturns
<1>7. CASE FlushDeliver
  BY <1>0, <1>7, Zenon DEF FlushDeliver, sessionVars
<1>8. CASE FlushDeliverFails
  BY <1>0, <1>8, Zenon DEF FlushDeliverFails, FlushReturns
<1>9. CASE FlushEnds
  BY <1>0, <1>9, Zenon DEF FlushEnds, FlushReturns
<1>10. CASE RetryQueue
  BY <1>0, <1>10, Zenon DEF RetryQueue
<1>11. CASE FinalFlush
  BY <1>0, <1>11, Zenon DEF FinalFlush
<1>12. CASE Teardown
  BY <1>0, <1>12, Zenon DEF Teardown
<1>13. CASE ProcessNextFile
  BY <1>0, <1>13, Zenon DEF ProcessNextFile
<1>14. CASE SetSessionDone
  BY <1>0, <1>14, Zenon DEF SetSessionDone
<1>15. CASE Ended
  BY <1>0, <1>15, Zenon DEF Ended, vars, sessionVars
<1> QED
  BY <1>1, <1>2, <1>3, <1>4, <1>5, <1>6, <1>7, <1>8, <1>9, <1>10, <1>11, <1>12, <1>13,
     <1>14, <1>15, Zenon DEF Next, Process, Flush

(* Queueing one record keeps the invariant. *)
LEMMA QueueEventInv == IInv /\ QueueEvent => IInv'
<1> SUFFICES ASSUME IInv, QueueEvent PROVE IInv'
  OBVIOUS
<1> USE DEF Locations, FlushKinds
<1>1. PICK t \in Timestamps, sz \in Sizes :
        LET e == [id |-> nread + 1, timestamp |-> t, size |-> sz]
        IN  /\ CountUnordered(e)
            /\ \/ /\ ordered_events__new_event(e)
                  /\ AfterRecord
                  /\ UNCHANGED <<how, pending, halved, next_flush>>
               \/ /\ NewEventFails(e)
                  /\ pending' = e
                  /\ halved' = TRUE
                  /\ BeginFlush("HALF", pc' = "retry")
               \/ /\ NewEventCrashes(e)
                  /\ pc' = "crashed"
                  /\ UNCHANGED <<how, pending, halved, next_flush>>
  BY DEF QueueEvent, QueueEventAt
<1> DEFINE e == [id |-> nread + 1, timestamp |-> t, size |-> sz]
<1>2. /\ pc = "read" /\ nread' = nread + 1 /\ session_done' = session_done
      /\ last_flush' = last_flush /\ max_alloc_size' = max_alloc_size
      /\ delivered' = delivered
      /\ nread \in Nat
  BY DEF QueueEvent, QueueEventAt, NextRecord, IInv, TypeOK
<1>3. e \in Event /\ e.id = nread + 1 /\ e.timestamp = t
  BY <1>2 DEF Event
<1>4. \A i \in 1 .. Len(events) : events[i].id < e.id /\ events[i].id <= nread + 1
  BY <1>2, <1>3, ListFacts
<1>5. nr_unordered_events' \in Nat
  <2>1. CountUnordered(e)
    BY <1>1
  <2> QED
    BY <2>1 DEF CountUnordered, IInv, TypeOK
<1>6. pending = NULL /\ LastOnList
  BY <1>2 DEF IInv, IdsInv, LastInv
<1>10. /\ err' \in BOOLEAN /\ halved' \in BOOLEAN
       /\ halved => MallocMayFail
  BY FlagSteps DEF Next, Process, IInv, IdsInv
<1> HIDE DEF e
<1>7. CASE ordered_events__new_event(e) /\ AfterRecord /\ UNCHANGED <<how, pending, halved, next_flush>>
  <2>1. /\ events' \in Seq(Event)
        /\ events' # <<>>
        /\ last' = e /\ last' \in Range(events') /\ last' # NULL
        /\ max_timestamp' \in Timestamps \cup {0}
        /\ nr_events' = Len(events')
        /\ cache' \in Nat
        /\ buffer' \in BOOLEAN
        /\ buffer_idx' \in 0 .. MAX_SAMPLE_BUFFER
        /\ buffer' => buffer_idx' \in 2 .. MAX_SAMPLE_BUFFER - 1
        /\ to_free' \in Nat
        /\ cur_alloc_size' \in Nat
        /\ QueueSorted'
        /\ MaxTimestampIsTail'
        /\ Range(events') = Range(events) \cup {e}
    BY <1>3, <1>4, <1>7, NewEventStep
  <2>2. pc' \in {"read", "final"}
    BY <1>7 DEF AfterRecord
  <2>3. TypeOK'
    BY <1>2, <1>3, <1>5, <1>7, <1>10, <2>1, <2>2 DEF IInv, TypeOK
  <2>4. IdsInv'
    <3>2. \A i \in 1 .. Len(events') : events'[i].id <= nread'
      BY <1>2, <1>3, <1>4, <2>1, IdsAfterQueue, SMTT(30)
    <3> QED
      BY <1>6, <1>7, <1>10, <2>2, <3>2 DEF IdsInv
  <2>5. LastInv'
    BY <2>1, <2>2 DEF LastInv, LastOnList
  <2>6. ClosedInv'
    BY <2>2 DEF ClosedInv
  <2> QED
    BY <2>1, <2>3, <2>4, <2>5, <2>6 DEF IInv
<1>8. CASE /\ NewEventFails(e) /\ pending' = e /\ halved' = TRUE
           /\ BeginFlush("HALF", pc' = "retry")
  <2>1. UNCHANGED <<queueVars, allocVars>>
    BY <1>8 DEF NewEventFails
  <2>2. /\ next_flush' \in 0 .. ULLONG_MAX
        /\ how' \in FlushKinds
        /\ \/ pc' = "retry"
           \/ /\ pc' = "flush" /\ how' = "HALF"
              /\ events # <<>>
    BY <1>6, <1>8, BeginFlushStep
  <2>3. TypeOK'
    BY <1>2, <1>3, <1>5, <1>8, <1>10, <2>1, <2>2 DEF IInv, TypeOK, queueVars, allocVars
  <2>4. QueueSorted' /\ MaxTimestampIsTail'
    BY <2>1 DEF IInv, QueueSorted, MaxTimestampIsTail, queueVars
  <2>5. IdsInv'
    <3>1. MallocMayFail
      BY <1>8, SessionAssumption DEF NewEventFails, AllocReturnsNull, DupAllowed
    <3>2. \A i \in 1 .. Len(events') : events'[i].id <= nread' /\ events'[i].id < nread'
      BY <1>2, <1>3, <1>4, <2>1 DEF queueVars
    <3> QED
      BY <1>2, <1>3, <1>8, <2>2, <3>1, <3>2, NULLAssumption DEF IdsInv
  <2>6. LastInv'
    BY <1>6, <2>1, <2>2 DEF LastInv, LastOnList, queueVars, IInv
  <2>7. ClosedInv'
    BY <2>2 DEF ClosedInv
  <2> QED
    BY <2>3, <2>4, <2>5, <2>6, <2>7 DEF IInv
<1>9. CASE /\ NewEventCrashes(e) /\ pc' = "crashed"
           /\ UNCHANGED <<how, pending, halved, next_flush>>
  <2>1. UNCHANGED <<queueVars, allocVars>>
    BY <1>9 DEF NewEventCrashes
  <2>3. TypeOK'
    BY <1>2, <1>5, <1>9, <1>10, <2>1 DEF IInv, TypeOK, queueVars, allocVars
  <2>4. QueueSorted' /\ MaxTimestampIsTail'
    BY <2>1 DEF IInv, QueueSorted, MaxTimestampIsTail, queueVars
  <2>5. IdsInv'
    BY <1>2, <1>4, <1>6, <1>9, <1>10, <2>1 DEF IdsInv, queueVars
  <2>6. LastInv' /\ ClosedInv'
    BY <1>9, <2>1 DEF IInv, LastInv, ClosedInv, queueVars
  <2> QED
    BY <2>3, <2>4, <2>5, <2>6 DEF IInv
<1> QED
  BY <1>1, <1>7, <1>8, <1>9 DEF e
(* The records that do not touch the list. *)
LEMMA OtherRecordsInv ==
  ASSUME IInv, DeliverUntimed \/ process_finished_round \/ ProcessUserEvent
  PROVE  IInv'
<1> USE DEF Locations, FlushKinds
<1>1. /\ pc = "read" /\ nread \in Nat /\ nread' = nread + 1
      /\ session_done' = session_done /\ pending = NULL /\ pending' = NULL
      /\ LastOnList
      /\ UNCHANGED <<queueVars, last_flush, allocVars, nr_unordered_events, max_alloc_size>>
  BY DEF DeliverUntimed, process_finished_round, ProcessUserEvent, NextRecord, IInv,
         IdsInv, LastInv, TypeOK, oeVars, queueVars, flushVars, allocVars
<1>2. /\ delivered' \in Seq([id : Nat, timestamp : Nat, data : Nat])
      /\ next_flush' \in 0 .. ULLONG_MAX
      /\ how' \in FlushKinds
      /\ \/ pc' \in {"read", "final", "teardown"}
         \/ pc' = "flush" /\ how' = "ROUND" /\ events # <<>>
  <2>0. /\ delivered \in Seq([id : Nat, timestamp : Nat, data : Nat])
        /\ next_flush \in 0 .. ULLONG_MAX
        /\ how \in FlushKinds
    BY DEF IInv, TypeOK
  <2>1. CASE DeliverUntimed
    <3>1. PICK t \in {0, ULLONG_MAX} :
             \/ /\ delivered' = Append(delivered,
                                 Shown([id |-> nread + 1, timestamp |-> t], nread + 1))
                /\ AfterRecord
             \/ pc' = "teardown" /\ UNCHANGED delivered
      BY <2>1 DEF DeliverUntimed
    <3>2. Shown([id |-> nread + 1, timestamp |-> t], nread + 1)
            \in [id : Nat, timestamp : Nat, data : Nat]
      BY <1>1, TimeFacts DEF Shown
    <3>3. delivered' \in Seq([id : Nat, timestamp : Nat, data : Nat])
      <4> DEFINE D == [id : Nat, timestamp : Nat, data : Nat]
      <4> DEFINE d == Shown([id |-> nread + 1, timestamp |-> t], nread + 1)
      <4>1. d \in D /\ delivered \in Seq(D)
        BY <2>0, <3>2
      <4>2. delivered' = Append(delivered, d) \/ delivered' = delivered
        BY <3>1
      <4> HIDE DEF D, d
      <4>3. delivered' \in Seq(D)
        BY <4>1, <4>2
      <4> QED
        BY <4>3 DEF D
    <3>4. pc' \in {"read", "final", "teardown"}
      BY <3>1 DEF AfterRecord
    <3>5. UNCHANGED <<next_flush, how>>
      BY <2>1 DEF DeliverUntimed, flushVars
    <3> QED
      BY <2>0, <3>3, <3>4, <3>5
  <2>2. CASE process_finished_round
    <3>1. BeginFlush("ROUND", AfterRecord) /\ UNCHANGED delivered
      BY <2>2 DEF process_finished_round
    <3>2. /\ next_flush' \in 0 .. ULLONG_MAX
          /\ how' \in FlushKinds
          /\ AfterRecord \/ (pc' = "flush" /\ how' = "ROUND" /\ events # <<>>)
      BY <3>1, BeginFlushStep
    <3> QED
      BY <2>0, <3>1, <3>2 DEF AfterRecord
  <2>3. CASE ProcessUserEvent
    BY <2>0, <2>3 DEF ProcessUserEvent, AfterRecord, oeVars
  <2> QED
    BY <2>1, <2>2, <2>3
<1>f. /\ err' \in BOOLEAN /\ halved' \in BOOLEAN
      /\ halved' = halved /\ (halved => MallocMayFail)
  BY FlagSteps DEF Next, Process, IInv, IdsInv, DeliverUntimed, process_finished_round, ProcessUserEvent
<1>3. TypeOK'
  BY <1>f, <1>1, <1>2 DEF IInv, TypeOK, queueVars, allocVars
<1>4. QueueSorted' /\ MaxTimestampIsTail'
  BY <1>1 DEF IInv, QueueSorted, MaxTimestampIsTail, queueVars
<1>5. IdsInv'
  <2>1. \A i \in 1 .. Len(events') : events'[i].id <= nread'
    BY <1>1, ListFacts DEF queueVars
  <2> QED
    BY <1>f, <1>1, <1>2, <2>1 DEF IdsInv
<1>6. LastInv'
  BY <1>1, <1>2 DEF IInv, LastInv, LastOnList, queueVars
<1>7. ClosedInv'
  BY <1>2 DEF ClosedInv
<1> QED
  BY <1>3, <1>4, <1>5, <1>6, <1>7 DEF IInv

(* The turns of the flush loop. *)
LEMMA FlushDeliverInv == IInv /\ FlushDeliver => IInv'
<1> SUFFICES ASSUME IInv, FlushDeliver PROVE IInv'
  OBVIOUS
<1> USE DEF Locations, FlushKinds
<1>1. /\ pc = "flush" /\ ~session_done
      /\ events # <<>> /\ events \in Seq(Event)
      /\ events' = Tail(events) /\ max_timestamp' = max_timestamp
      /\ ~(Head(events).timestamp > next_flush)
      /\ UNCHANGED <<last, next_flush, buffer, buffer_idx, to_free, nr_unordered_events,
                     max_alloc_size, sessionVars>>
      /\ last_flush' = Head(events).timestamp
      /\ nr_events' = nr_events - 1
      /\ cache' = cache + 1
      /\ cur_alloc_size' = cur_alloc_size - DupBytes(Head(events))
      /\ delivered' = Append(delivered, Shown(Head(events), nread))
  BY DEF FlushDeliver, ordered_events__delete, FlushExhausted, IInv, TypeOK
<1>2. /\ events' \in Seq(Event)
      /\ Len(events') = Len(events) - 1
      /\ QueueSorted'
      /\ MaxTimestampIsTail'
      /\ Head(events) \in Event
      /\ Head(events) = events[1]
      /\ Range(events) = {Head(events)} \cup Range(events')
      /\ \A f \in Range(events') : Before(Head(events), f)
      /\ Head(events) \notin Range(events')
  BY <1>1, TimeFacts, HeadRemoved DEF IInv
<1>3. Head(events).timestamp \in Timestamps /\ Head(events).id \in Nat
  BY <1>2 DEF Event
<1>4. TypeOK'
  <2>1. Shown(Head(events), nread) \in [id : Nat, timestamp : Nat, data : Nat]
    BY <1>3, TimeFacts DEF Shown, IInv, TypeOK
  <2>2. delivered' \in Seq([id : Nat, timestamp : Nat, data : Nat])
    BY <1>1, <2>1 DEF IInv, TypeOK
  <2>3. cur_alloc_size' \in Nat
    BY <1>1, NoDup DEF IInv, TypeOK
  <2> QED
    BY <1>1, <1>2, <1>3, <2>2, <2>3 DEF IInv, TypeOK, sessionVars
<1>5. IdsInv'
  <2>1. \A i \in 1 .. Len(events') : events'[i] = events[i + 1] /\ i + 1 \in 1 .. Len(events)
    BY <1>1, <1>2
  <2> QED
    BY <1>1, <2>1 DEF IInv, IdsInv, sessionVars
<1>6. LastInv'
  <2>1. last # NULL /\ last \in Event /\ last.timestamp \in Timestamps
    BY <1>1 DEF IInv, LastInv, TypeOK, Event
  <2>2. last.timestamp > next_flush => last \in Range(events')
    BY <1>1, <1>2 DEF IInv, LastInv
  <2> QED
    BY <1>1, <2>1, <2>2 DEF LastInv, sessionVars
<1>7. ClosedInv'
  BY <1>1 DEF ClosedInv, sessionVars
<1> QED
  BY <1>2, <1>4, <1>5, <1>6, <1>7 DEF IInv

LEMMA FlushStopsInv ==
  ASSUME IInv, FlushInterrupted \/ FlushDeliverFails
  PROVE  IInv'
<1> USE DEF Locations, FlushKinds
<1>1. /\ pc = "flush" /\ events # <<>>
      /\ UNCHANGED <<queueVars, last_flush, allocVars, nr_unordered_events,
                     max_alloc_size, delivered, how, pending, session_done, nread>>
  BY DEF FlushInterrupted, FlushDeliverFails, FlushExhausted
<1>2. /\ next_flush' \in 0 .. ULLONG_MAX
      /\ pc' \in {"read", "final", "retry", "teardown"}
      /\ pc' = "retry" <=> how = "HALF"
      /\ pc' = "read" => FALSE
      /\ pc' = "final" => session_done
  <2>1. CASE FlushInterrupted
    <3>1. FlushReturns(FALSE) /\ session_done
      BY <2>1 DEF FlushInterrupted
    <3> QED
      BY <3>1, FlushReturnsStep
  <2>2. CASE FlushDeliverFails
    <3>1. FlushReturns(TRUE)
      BY <2>2 DEF FlushDeliverFails
    <3>2. pc' # "read"
      BY <3>1 DEF FlushReturns, IInv, TypeOK
    <3> QED
      BY <3>1, <3>2, FlushReturnsStep
  <2> QED
    BY <2>1, <2>2
<1>f. /\ err' \in BOOLEAN /\ halved' \in BOOLEAN
      /\ halved' = halved /\ (halved => MallocMayFail)
  BY FlagSteps DEF Next, Process, Flush, IInv, IdsInv, FlushInterrupted, FlushDeliverFails
<1>3. TypeOK'
  BY <1>f, <1>1, <1>2 DEF IInv, TypeOK, queueVars, allocVars
<1>4. QueueSorted' /\ MaxTimestampIsTail'
  BY <1>1 DEF IInv, QueueSorted, MaxTimestampIsTail, queueVars
<1>5. IdsInv'
  BY <1>f, <1>1, <1>2 DEF IInv, IdsInv, queueVars
<1>6. LastInv'
  BY <1>1, <1>2 DEF IInv, LastInv, queueVars
<1>7. ClosedInv'
  BY <1>2 DEF ClosedInv
<1> QED
  BY <1>3, <1>4, <1>5, <1>6, <1>7 DEF IInv

LEMMA FlushEndsInv == IInv /\ FlushEnds => IInv'
<1> SUFFICES ASSUME IInv, FlushEnds PROVE IInv'
  OBVIOUS
<1> USE DEF Locations, FlushKinds
<1>1. /\ pc = "flush" /\ (events # <<>> => ~session_done)
      /\ last' = LastAfterFlush
      /\ UNCHANGED <<events, max_timestamp, nr_events, last_flush, allocVars,
                     nr_unordered_events, max_alloc_size, delivered, how, pending,
                     session_done, nread>>
  BY DEF FlushEnds
<1>2. /\ next_flush' \in 0 .. ULLONG_MAX
      /\ pc' \in {"read", "final", "retry", "teardown"}
      /\ pc' = "retry" <=> how = "HALF"
      /\ pc' = "read" => ~session_done
      /\ pc' = "final" => session_done
  BY FlushReturnsStep DEF FlushEnds
<1>3. /\ events = <<>> => last' = NULL
      /\ events # <<>> => last' \in Range(events) /\ last' # NULL
  <2>1. CASE events = <<>>
    BY <1>1, <2>1 DEF LastAfterFlush
  <2>2. CASE events # <<>>
    <3>1. /\ Len(events) \in Nat /\ Len(events) > 0
          /\ events[Len(events)] \in Event
      BY <2>2 DEF IInv, TypeOK
    <3>2. events[Len(events)] \in Range(events)
      BY <3>1 DEF Range
    <3>3. last # NULL /\ (last.timestamp > next_flush => last \in Range(events))
      BY <1>1, <2>2 DEF IInv, LastInv
    <3>4. last.timestamp \in Nat /\ next_flush \in Nat
      <4>1. last \in Event
        BY <3>3 DEF IInv, TypeOK
      <4>2. last.timestamp \in Timestamps
        BY <4>1 DEF Event
      <4>3. last.timestamp \in Nat
        BY <4>2, TimeFacts, Zenon
      <4>4. next_flush \in Nat
        BY TimeFacts DEF IInv, TypeOK
      <4> QED
        BY <4>3, <4>4, Zenon
    <3>5. last' = IF last.timestamp <= next_flush THEN events[Len(events)] ELSE last
      BY <1>1, <2>2, <3>3 DEF LastAfterFlush
    <3> QED
      BY <2>2, <3>1, <3>2, <3>3, <3>4, <3>5, NULLAssumption
  <2> QED
    BY <2>1, <2>2
<1>4. last' \in Event \cup {NULL}
  BY <1>3 DEF IInv, TypeOK, Range
<1>f. /\ err' \in BOOLEAN /\ halved' \in BOOLEAN
      /\ halved' = halved /\ (halved => MallocMayFail)
  BY FlagSteps DEF Next, Process, Flush, IInv, IdsInv, FlushEnds
<1>5. TypeOK'
  BY <1>f, <1>1, <1>2, <1>4 DEF IInv, TypeOK, allocVars
<1>6. QueueSorted' /\ MaxTimestampIsTail'
  BY <1>1 DEF IInv, QueueSorted, MaxTimestampIsTail
<1>7. IdsInv'
  BY <1>f, <1>1, <1>2 DEF IInv, IdsInv
<1>8. LastInv'
  BY <1>1, <1>2, <1>3 DEF LastInv, LastOnList
<1>9. ClosedInv'
  BY <1>2 DEF ClosedInv
<1> QED
  BY <1>5, <1>6, <1>7, <1>8, <1>9 DEF IInv
LEMMA RetryQueueInv == IInv /\ RetryQueue => IInv'
<1> SUFFICES ASSUME IInv, RetryQueue PROVE IInv'
  OBVIOUS
<1> USE DEF Locations, FlushKinds
<1> DEFINE e == pending
<1>1. /\ pc = "retry" /\ pending' = NULL
      /\ UNCHANGED <<flushVars, nr_unordered_events, max_alloc_size, delivered,
                     how, session_done, nread>>
      /\ nread \in Nat
  BY DEF RetryQueue, IInv, TypeOK
<1>2. /\ e # NULL /\ e \in Event /\ e.id = nread
      /\ \A i \in 1 .. Len(events) : events[i].id < e.id /\ events[i].id <= nread
  BY <1>1 DEF IInv, IdsInv, TypeOK
<1>f. /\ err' \in BOOLEAN /\ halved' \in BOOLEAN
      /\ halved' = halved /\ (halved => MallocMayFail)
  BY FlagSteps DEF Next, Process, IInv, IdsInv, RetryQueue
<1>3. CASE ordered_events__new_event(e) /\ AfterRecord
  <2>1. /\ events' \in Seq(Event)
        /\ events' # <<>>
        /\ last' = e /\ last' \in Range(events') /\ last' # NULL
        /\ max_timestamp' \in Timestamps \cup {0}
        /\ nr_events' = Len(events')
        /\ cache' \in Nat
        /\ buffer' \in BOOLEAN
        /\ buffer_idx' \in 0 .. MAX_SAMPLE_BUFFER
        /\ buffer' => buffer_idx' \in 2 .. MAX_SAMPLE_BUFFER - 1
        /\ to_free' \in Nat
        /\ cur_alloc_size' \in Nat
        /\ QueueSorted'
        /\ MaxTimestampIsTail'
        /\ Range(events') = Range(events) \cup {e}
    BY <1>2, <1>3, NewEventStep
  <2>2. pc' \in {"read", "final"}
    BY <1>3 DEF AfterRecord
  <2>3. TypeOK'
    BY <1>f, <1>1, <1>2, <2>1, <2>2 DEF IInv, TypeOK, flushVars
  <2>4. IdsInv'
    <3>1. nread <= nread
      BY <1>1
    <3>2. \A i \in 1 .. Len(events') : events'[i].id <= nread'
      BY <1>1, <1>2, <2>1, <3>1, IdsAfterQueue
    <3> QED
      BY <1>f, <1>1, <2>2, <3>2 DEF IdsInv
  <2>5. LastInv'
    BY <2>1, <2>2 DEF LastInv, LastOnList
  <2>6. ClosedInv'
    BY <2>2 DEF ClosedInv
  <2> QED
    BY <2>1, <2>3, <2>4, <2>5, <2>6 DEF IInv
<1>4. CASE /\ pc' \in {"teardown", "crashed", "corrupt"}
           /\ UNCHANGED queueVars
           /\ alloc_event(e) \/ UNCHANGED allocVars
  <2>1. /\ cache' \in Nat
        /\ buffer' \in BOOLEAN
        /\ buffer_idx' \in 0 .. MAX_SAMPLE_BUFFER
        /\ buffer' => buffer_idx' \in 2 .. MAX_SAMPLE_BUFFER - 1
        /\ to_free' \in Nat
        /\ cur_alloc_size' \in Nat
    <3>1. CASE alloc_event(e)
      BY <3>1, AllocTypes DEF IInv
    <3>2. CASE UNCHANGED allocVars
      BY <3>2 DEF IInv, TypeOK, allocVars
    <3> QED
      BY <1>4, <3>1, <3>2
  <2>2. TypeOK'
    BY <1>f, <1>1, <1>4, <2>1 DEF IInv, TypeOK, flushVars, queueVars
  <2>3. QueueSorted' /\ MaxTimestampIsTail'
    BY <1>4 DEF IInv, QueueSorted, MaxTimestampIsTail, queueVars
  <2>4. IdsInv'
    BY <1>f, <1>1, <1>2, <1>4 DEF IdsInv, queueVars
  <2>5. LastInv' /\ ClosedInv'
    BY <1>4 DEF IInv, LastInv, ClosedInv, queueVars
  <2> QED
    BY <2>2, <2>3, <2>4, <2>5 DEF IInv
<1> QED
  BY <1>3, <1>4 DEF RetryQueue, NewEventFails, NewEventCrashes, NewEventCorrupts

LEMMA EndOfDataInv == IInv /\ EndOfData => IInv'
<1> SUFFICES ASSUME IInv, EndOfData PROVE IInv'
  OBVIOUS
<1> USE DEF Locations, FlushKinds
<1>1. /\ pc = "read" /\ pc' = "final"
      /\ UNCHANGED <<oeVars, how, pending, session_done, nread>>
  BY DEF EndOfData
<1>f. /\ err' \in BOOLEAN /\ halved' \in BOOLEAN
      /\ halved' = halved /\ (halved => MallocMayFail)
  BY FlagSteps DEF Next, Process, IInv, IdsInv, EndOfData
<1>2. TypeOK'
  BY <1>f, <1>1 DEF IInv, TypeOK, oeVars
<1>3. QueueSorted' /\ MaxTimestampIsTail'
  BY <1>1 DEF IInv, QueueSorted, MaxTimestampIsTail, oeVars
<1>4. IdsInv' /\ ClosedInv'
  BY <1>f, <1>1 DEF IInv, IdsInv, ClosedInv, oeVars
<1>5. LastInv'
  BY <1>1 DEF IInv, LastInv, LastOnList, oeVars
<1> QED
  BY <1>2, <1>3, <1>4, <1>5 DEF IInv

LEMMA FinalFlushInv == IInv /\ FinalFlush => IInv'
<1> SUFFICES ASSUME IInv, FinalFlush PROVE IInv'
  OBVIOUS
<1> USE DEF Locations, FlushKinds
<1>1. /\ pc = "final"
      /\ BeginFlush("FINAL", pc' = "teardown")
      /\ UNCHANGED <<queueVars, last_flush, allocVars, nr_unordered_events,
                     max_alloc_size, delivered, pending, session_done, nread>>
  BY DEF FinalFlush
<1>2. /\ next_flush' \in 0 .. ULLONG_MAX
      /\ how' \in FlushKinds
      /\ pc' = "teardown" \/ (pc' = "flush" /\ how' = "FINAL" /\ events # <<>>)
  BY <1>1, BeginFlushStep
<1>f. /\ err' \in BOOLEAN /\ halved' \in BOOLEAN
      /\ halved' = halved /\ (halved => MallocMayFail)
  BY FlagSteps DEF Next, Process, IInv, IdsInv, FinalFlush
<1>3. TypeOK'
  BY <1>f, <1>1, <1>2 DEF IInv, TypeOK, queueVars, allocVars
<1>4. QueueSorted' /\ MaxTimestampIsTail'
  BY <1>1 DEF IInv, QueueSorted, MaxTimestampIsTail, queueVars
<1>5. IdsInv' /\ ClosedInv'
  BY <1>f, <1>1, <1>2 DEF IInv, IdsInv, ClosedInv, queueVars
<1>6. LastInv'
  BY <1>1, <1>2 DEF IInv, LastInv, LastOnList, queueVars
<1> QED
  BY <1>3, <1>4, <1>5, <1>6 DEF IInv

LEMMA TeardownInv == IInv /\ Teardown => IInv'
<1> SUFFICES ASSUME IInv, Teardown PROVE IInv'
  OBVIOUS
<1> USE DEF Locations, FlushKinds
<1>1. /\ pc = "teardown" /\ pc' = "closed" /\ events' = <<>> /\ last' = NULL
      /\ UNCHANGED <<delivered, how, pending, session_done, nread>>
  BY DEF Teardown, ordered_events__reinit
<1>f. /\ err' \in BOOLEAN /\ halved' \in BOOLEAN
      /\ halved' = halved /\ (halved => MallocMayFail)
  BY FlagSteps DEF Next, Process, IInv, IdsInv, Teardown
<1>2. TypeOK'
  <2>1. /\ max_timestamp' = 0 /\ next_flush' = 0 /\ last_flush' = 0 /\ nr_events' = 0
        /\ nr_unordered_events' = 0 /\ cache' = 0 /\ buffer_idx' = 0 /\ to_free' = 0
        /\ cur_alloc_size' = 0 /\ max_alloc_size' = ULLONG_MAX
    BY DEF Teardown, ordered_events__reinit
  <2>2. buffer' \in BOOLEAN /\ ~buffer'
    BY DEF Teardown, ordered_events__reinit
  <2>3. 0 \in 0 .. MAX_SAMPLE_BUFFER /\ 0 \in 0 .. ULLONG_MAX /\ ULLONG_MAX \in Nat
    BY OEAssumption
  <2> QED
    BY <1>f, <1>1, <2>1, <2>2, <2>3 DEF IInv, TypeOK
<1> QED
  BY <1>f, <1>1, <1>2 DEF IInv, QueueSorted, MaxTimestampIsTail, IdsInv, LastInv, LastOnList,
                    ClosedInv

LEMMA NextFileInv == IInv /\ ProcessNextFile => IInv'
<1> SUFFICES ASSUME IInv, ProcessNextFile PROVE IInv'
  OBVIOUS
<1> USE DEF Locations, FlushKinds
<1>1. /\ pc = "closed" /\ pc' = "read" /\ delivered' = <<>>
      /\ UNCHANGED <<queueVars, flushVars, allocVars, nr_unordered_events,
                     max_alloc_size, how, pending, session_done, nread>>
  BY DEF ProcessNextFile
<1>f. err' \in BOOLEAN /\ halved' \in BOOLEAN /\ ~halved'
  BY DEF ProcessNextFile
<1>2. TypeOK'
  BY <1>f, <1>1 DEF IInv, TypeOK, queueVars, flushVars, allocVars
<1>3. QueueSorted' /\ MaxTimestampIsTail' /\ IdsInv' /\ ClosedInv'
  BY <1>f, <1>1 DEF IInv, QueueSorted, MaxTimestampIsTail, IdsInv, ClosedInv, queueVars
<1>4. LastInv'
  BY <1>1 DEF IInv, LastInv, LastOnList, ClosedInv, queueVars
<1> QED
  BY <1>2, <1>3, <1>4 DEF IInv
LEMMA InitInv == Init => IInv
<1> SUFFICES ASSUME Init PROVE IInv
  OBVIOUS
<1>1. 0 \in 0 .. MAX_SAMPLE_BUFFER /\ 0 \in 0 .. ULLONG_MAX /\ MaxAllocSize \in Nat
  BY OEAssumption
<1>2. buffer \in BOOLEAN /\ ~buffer /\ session_done \in BOOLEAN /\ err \in BOOLEAN /\ halved \in BOOLEAN
  BY DEF Init, ordered_events__init
<1>e. /\ events = <<>> /\ delivered = <<>> /\ last = NULL /\ pending = NULL
      /\ max_timestamp = 0 /\ next_flush = 0 /\ last_flush = 0 /\ nr_events = 0
      /\ nr_unordered_events = 0 /\ cache = 0 /\ buffer_idx = 0 /\ to_free = 0
      /\ cur_alloc_size = 0 /\ max_alloc_size = MaxAllocSize
      /\ pc = "read" /\ how = "FINAL" /\ nread = 0
  BY DEF Init, ordered_events__init
<1>3. TypeOK
  BY <1>1, <1>2, <1>e DEF TypeOK, Locations, FlushKinds
<1> QED
  BY <1>3 DEF Init, ordered_events__init, IInv, QueueSorted, MaxTimestampIsTail, IdsInv,
              LastInv, LastOnList, ClosedInv

LEMMA NextInv == IInv /\ [Next]_vars => IInv'
<1> SUFFICES ASSUME IInv, [Next]_vars PROVE IInv'
  OBVIOUS
<1>1. CASE QueueEvent
  BY <1>1, QueueEventInv
<1>2. CASE DeliverUntimed \/ process_finished_round \/ ProcessUserEvent
  BY <1>2, OtherRecordsInv
<1>3. CASE EndOfData
  BY <1>3, EndOfDataInv
<1>4. CASE FlushDeliver
  BY <1>4, FlushDeliverInv
<1>5. CASE FlushInterrupted \/ FlushDeliverFails
  BY <1>5, FlushStopsInv
<1>6. CASE FlushEnds
  BY <1>6, FlushEndsInv
<1>7. CASE RetryQueue
  BY <1>7, RetryQueueInv
<1>8. CASE FinalFlush
  BY <1>8, FinalFlushInv
<1>9. CASE Teardown
  BY <1>9, TeardownInv
<1>10. CASE ProcessNextFile
  BY <1>10, NextFileInv
<1>11. CASE SetSessionDone
  <2>1. session_done' = TRUE /\ UNCHANGED <<oeVars, pc, how, pending, nread, err, halved>>
    BY <1>11 DEF SetSessionDone
  <2>2. TypeOK'
    BY <2>1 DEF IInv, TypeOK, oeVars
  <2>3. QueueSorted' /\ MaxTimestampIsTail' /\ IdsInv' /\ ClosedInv'
    BY <2>1 DEF IInv, QueueSorted, MaxTimestampIsTail, IdsInv, ClosedInv, oeVars
  <2>4. LastInv'
    BY <2>1 DEF IInv, LastInv, LastOnList, oeVars
  <2> QED
    BY <2>2, <2>3, <2>4 DEF IInv
<1>12. CASE UNCHANGED vars
  BY <1>12 DEF vars, oeVars, sessionVars, IInv, TypeOK, QueueSorted, MaxTimestampIsTail,
               IdsInv, LastInv, LastOnList, ClosedInv
<1> QED
  BY <1>1, <1>2, <1>3, <1>4, <1>5, <1>6, <1>7, <1>8, <1>9, <1>10, <1>11, <1>12
     DEF Next, Process, Flush, Ended

(* IInv holds in every state of every session. *)
THEOREM SessionInvariant == Spec => []IInv
<1>1. Init => IInv
  BY InitInv
<1>2. IInv /\ [Next]_vars => IInv'
  BY NextInv
<1> QED
  BY <1>1, <1>2, PTL DEF Spec

(* The queue's variables keep their types. *)
THEOREM TypeCorrect == Spec => []TypeOK
<1>1. IInv => TypeOK
  BY DEF IInv
<1> QED
  BY <1>1, SessionInvariant, PTL

(* queue_event() keeps the list sorted by time and, among equals, by the   *)
(* order in which the records were read.                                   *)
THEOREM QueueStaysSorted == Spec => []QueueSorted
<1>1. IInv => QueueSorted
  BY DEF IInv
<1> QED
  BY <1>1, SessionInvariant, PTL

(* Whenever a record is read oe->last is on the list. *)
THEOREM LastStaysOnList == Spec => []LastTracksQueue
<1>1. IInv => LastTracksQueue
  BY DEF IInv, LastInv, LastTracksQueue
<1> QED
  BY <1>1, SessionInvariant, PTL

(* The limit a round takes over is the time of the latest queued event. *)
THEOREM MaxTimestampCorrect == Spec => []MaxTimestampIsTail
<1>1. IInv => MaxTimestampIsTail
  BY DEF IInv
<1> QED
  BY <1>1, SessionInvariant, PTL
----------------------------------------------------------------------------
(* The order of delivery.                                                  *)

(* The states in which the order of delivery is promised. *)
Ordered == nr_unordered_events = 0 /\ ~halved /\ pc # "closed"

LEMMA DeliveryFacts ==
  ASSUME IInv
  PROVE  /\ Len(delivered) \in Nat
         /\ \A i \in 1 .. Len(delivered) :
              delivered[i].timestamp \in Nat /\ delivered[i].id \in Nat
<1> DEFINE D == [id : Nat, timestamp : Nat, data : Nat]
<1>1. delivered \in Seq(D)
  BY DEF IInv, TypeOK
<1>2. \A d \in D : d.timestamp \in Nat /\ d.id \in Nat
  OBVIOUS
<1> HIDE DEF D
<1> QED
  BY <1>1, <1>2

(* A step that neither delivers nor queues. *)
LEMMA OrderUnchanged ==
  ASSUME IInv, OrderInv, DeliveredInOrder, pc # "closed",
         UNCHANGED <<events, delivered, last_flush, nr_unordered_events>>,
         halved' = halved, nread' \in Nat, nread <= nread'
  PROVE  OrderInv' /\ DeliveredInOrder'
<1>1. nread \in Nat
  BY DEF IInv, TypeOK
<1>2. DeliveredInOrder'
  BY DEF DeliveredInOrder, Before
<1>3. OrderInv'
  <2> SUFFICES ASSUME Ordered', NEW i \in 1 .. Len(delivered'),
                      delivered'[i].timestamp \in Timestamps
               PROVE  /\ delivered'[i].timestamp <= last_flush'
                      /\ delivered'[i].id <= nread'
                      /\ \A j \in 1 .. Len(events') : Before(delivered'[i], events'[j])
    BY DEF OrderInv, Ordered
  <2>1. /\ delivered[i].timestamp <= last_flush
        /\ delivered[i].id <= nread
        /\ \A j \in 1 .. Len(events) : Before(delivered[i], events[j])
    BY DEF OrderInv, Ordered
  <2> QED
    BY <1>1, <2>1, DeliveryFacts, SMTT(30) DEF Before
<1> QED
  BY <1>2, <1>3

LEMMA QueueKeepsOrder ==
  ASSUME IInv, OrderInv, DeliveredInOrder, QueueEvent
  PROVE  OrderInv' /\ DeliveredInOrder'
<1>1. PICK t \in Timestamps, sz \in Sizes :
        LET e == [id |-> nread + 1, timestamp |-> t, size |-> sz]
        IN  /\ CountUnordered(e)
            /\ \/ ordered_events__new_event(e)
               \/ NewEventFails(e)
               \/ NewEventCrashes(e)
  BY DEF QueueEvent, QueueEventAt
<1> DEFINE e == [id |-> nread + 1, timestamp |-> t, size |-> sz]
<1>2. /\ pc = "read" /\ nread' = nread + 1 /\ nread \in Nat
      /\ last_flush' = last_flush /\ delivered' = delivered
  BY DEF QueueEvent, QueueEventAt, NextRecord, IInv, TypeOK
<1>3. e \in Event /\ e.id = nread + 1 /\ e.timestamp = t
  BY <1>2 DEF Event
<1>4. t \in Nat /\ last_flush \in Nat /\ nr_unordered_events \in Nat
  BY TimeFacts DEF IInv, TypeOK
<1>5. CountUnordered(e)
  BY <1>1
<1> HIDE DEF e
<1>6. nr_unordered_events' = 0 => nr_unordered_events = 0 /\ ~(t < last_flush)
  BY <1>3, <1>4, <1>5 DEF CountUnordered
<1>h. ~halved' => ~halved
  BY Zenon DEF QueueEvent, QueueEventAt
<1>7. DeliveredInOrder'
  BY <1>2, <1>6, <1>h DEF DeliveredInOrder, Before
<1>8. OrderInv'
  <2> SUFFICES ASSUME Ordered', NEW i \in 1 .. Len(delivered'),
                      delivered'[i].timestamp \in Timestamps
               PROVE  /\ delivered'[i].timestamp <= last_flush'
                      /\ delivered'[i].id <= nread'
                      /\ \A j \in 1 .. Len(events') : Before(delivered'[i], events'[j])
    BY DEF OrderInv, Ordered
  <2>1. /\ delivered[i].timestamp <= last_flush
        /\ delivered[i].id <= nread
        /\ \A j \in 1 .. Len(events) : Before(delivered[i], events[j])
        /\ delivered[i].timestamp \in Nat /\ delivered[i].id \in Nat
    BY <1>2, <1>6, <1>h, DeliveryFacts DEF OrderInv, Ordered
  <2>2. Before(delivered[i], e)
    BY <1>2, <1>3, <1>4, <1>6, <2>1 DEF Before, Ordered
  <2>3. \A f \in Range(events) : Before(delivered[i], f)
    BY <2>1 DEF Range
  <2>4. Range(events') \subseteq Range(events) \cup {e}
    <3>1. CASE ordered_events__new_event(e)
      <4>1. \A k \in 1 .. Len(events) : events[k].id < e.id
        BY <1>2, <1>3, ListFacts
      <4> QED
        BY <3>1, <4>1, <1>3, NewEventStep
    <3>2. CASE NewEventFails(e) \/ NewEventCrashes(e)
      BY <3>2 DEF NewEventFails, NewEventCrashes, queueVars
    <3> QED
      BY <1>1, <3>1, <3>2 DEF e
  <2>5. \A j \in 1 .. Len(events') : Before(delivered[i], events'[j])
    <3> TAKE j \in 1 .. Len(events')
    <3>1. events'[j] \in Range(events')
      BY DEF Range
    <3> QED
      BY <2>2, <2>3, <2>4, <3>1
  <2> QED
    BY <1>2, <2>1, <2>5
<1> QED
  BY <1>7, <1>8

LEMMA DeliverKeepsOrder ==
  ASSUME IInv, OrderInv, DeliveredInOrder, FlushDeliver
  PROVE  OrderInv' /\ DeliveredInOrder'
<1> DEFINE h == Head(events)
<1> DEFINE D == [id : Nat, timestamp : Nat, data : Nat]
<1> DEFINE n == Len(delivered)
<1>1. /\ pc = "flush" /\ pc' = pc /\ halved' = halved /\ nread' = nread /\ nread \in Nat
      /\ events # <<>> /\ events \in Seq(Event)
      /\ events' = Tail(events) /\ max_timestamp' = max_timestamp
      /\ nr_unordered_events' = nr_unordered_events
      /\ last_flush' = h.timestamp
      /\ delivered' = Append(delivered, Shown(h, nread))
      /\ delivered \in Seq(D)
  BY DEF FlushDeliver, ordered_events__delete, FlushExhausted, IInv, TypeOK, sessionVars
<1>2. /\ events' \in Seq(Event)
      /\ h \in Event
      /\ h = events[1]
      /\ Range(events) = {h} \cup Range(events')
      /\ \A f \in Range(events') : Before(h, f)
  BY <1>1, TimeFacts, HeadRemoved DEF IInv
<1>3. h.timestamp \in Timestamps /\ h.timestamp \in Nat /\ h.id \in Nat /\ h.id <= nread
  <2>1. 1 \in 1 .. Len(events)
    BY <1>1
  <2>2. h.timestamp \in Timestamps
    BY <1>2 DEF Event
  <2> QED
    BY <1>2, <2>1, <2>2, ListFacts
<1>4. Shown(h, nread) \in D
  BY <1>1, <1>3 DEF Shown
<1>5. Shown(h, nread).timestamp = h.timestamp /\ Shown(h, nread).id = h.id
  BY DEF Shown
<1> HIDE DEF h, D
<1>6. /\ n \in Nat /\ Len(delivered') = n + 1
      /\ \A i \in 1 .. n : delivered'[i] = delivered[i]
      /\ delivered'[n + 1] = Shown(h, nread)
  BY <1>1, <1>4
<1> HIDE DEF n
<1>7. ASSUME Ordered', NEW i \in 1 .. n, delivered[i].timestamp \in Timestamps
      PROVE  /\ delivered[i].timestamp <= last_flush
             /\ delivered[i].id <= nread
             /\ delivered[i].timestamp \in Nat /\ delivered[i].id \in Nat
             /\ \A f \in Range(events) : Before(delivered[i], f)
  BY <1>1, <1>7, DeliveryFacts DEF OrderInv, Ordered, Range, n
<1>8. h \in Range(events)
  BY <1>2
<1>9. OrderInv'
  <2> SUFFICES ASSUME Ordered', NEW i \in 1 .. Len(delivered'),
                      delivered'[i].timestamp \in Timestamps
               PROVE  /\ delivered'[i].timestamp <= last_flush'
                      /\ delivered'[i].id <= nread'
                      /\ \A j \in 1 .. Len(events') : Before(delivered'[i], events'[j])
    BY DEF OrderInv, Ordered
  <2>0. \A j \in 1 .. Len(events') : events'[j] \in Range(events')
    BY DEF Range
  <2>1. CASE i = n + 1
    <3>1. \A f \in Range(events') : Before(delivered'[i], f)
      BY <1>2, <1>5, <1>6, <2>1 DEF Before
    <3> QED
      BY <1>1, <1>3, <1>5, <1>6, <2>0, <2>1, <3>1
  <2>2. CASE i # n + 1
    <3>1. i \in 1 .. n /\ delivered'[i] = delivered[i]
      BY <1>6, <2>2
    <3>2. /\ delivered[i].timestamp <= last_flush
          /\ delivered[i].id <= nread
          /\ delivered[i].timestamp \in Nat /\ delivered[i].id \in Nat
          /\ \A f \in Range(events) : Before(delivered[i], f)
      BY <1>7, <3>1
    <3>3. delivered[i].timestamp <= h.timestamp
      BY <1>3, <1>8, <3>2 DEF Before
    <3> QED
      BY <1>1, <1>2, <2>0, <3>1, <3>2, <3>3
  <2> QED
    BY <2>1, <2>2
<1>10. DeliveredInOrder'
  <2> SUFFICES ASSUME Ordered', NEW i \in 1 .. Len(delivered'), NEW j \in 1 .. Len(delivered'),
                      i < j, delivered'[i].timestamp \in Timestamps,
                      delivered'[j].timestamp \in Timestamps
               PROVE  Before(delivered'[i], delivered'[j])
    BY DEF DeliveredInOrder, Ordered, Before
  <2>1. i \in 1 .. n /\ delivered'[i] = delivered[i]
    BY <1>6
  <2>2. CASE j = n + 1
    <3>1. Before(delivered[i], h)
      BY <1>7, <1>8, <2>1
    <3> QED
      BY <1>5, <1>6, <2>1, <2>2, <3>1 DEF Before
  <2>3. CASE j # n + 1
    <3>1. j \in 1 .. n /\ delivered'[j] = delivered[j]
      BY <1>6, <2>3
    <3> QED
      BY <1>1, <2>1, <3>1 DEF DeliveredInOrder, Ordered, n
  <2> QED
    BY <2>2, <2>3
<1> QED
  BY <1>9, <1>10
(* An untimed event takes no part in the order. *)
LEMMA UntimedKeepsOrder ==
  ASSUME IInv, OrderInv, DeliveredInOrder, DeliverUntimed
  PROVE  OrderInv' /\ DeliveredInOrder'
<1> DEFINE D == [id : Nat, timestamp : Nat, data : Nat]
<1> DEFINE n == Len(delivered)
<1>1. /\ pc = "read" /\ nread \in Nat /\ nread' = nread + 1
      /\ UNCHANGED <<events, last_flush, nr_unordered_events, halved>>
      /\ delivered \in Seq(D)
  BY DEF DeliverUntimed, NextRecord, IInv, TypeOK, queueVars, flushVars
<1>2. PICK t \in {0, ULLONG_MAX} :
         \/ delivered' = Append(delivered,
                                Shown([id |-> nread + 1, timestamp |-> t], nread + 1))
         \/ delivered' = delivered
  BY DEF DeliverUntimed
<1> DEFINE d == Shown([id |-> nread + 1, timestamp |-> t], nread + 1)
<1>3. d \in D /\ d.timestamp = t
  BY <1>1, TimeFacts DEF Shown
<1>4. t \notin Timestamps
  BY OEAssumption
<1>5. CASE delivered' = delivered
  BY <1>1, <1>5, OrderUnchanged
<1>6. CASE delivered' = Append(delivered, d)
  <2> HIDE DEF d, D
  <2>1. /\ n \in Nat /\ Len(delivered') = n + 1
        /\ \A i \in 1 .. n : delivered'[i] = delivered[i]
        /\ delivered'[n + 1].timestamp \notin Timestamps
    BY <1>1, <1>3, <1>4, <1>6
  <2> HIDE DEF n
  <2>2. \A i \in 1 .. Len(delivered') :
           delivered'[i].timestamp \in Timestamps => i \in 1 .. n /\ delivered'[i] = delivered[i]
    BY <2>1
  <2>3. OrderInv'
    <3> SUFFICES ASSUME Ordered', NEW i \in 1 .. Len(delivered'),
                        delivered'[i].timestamp \in Timestamps
                 PROVE  /\ delivered'[i].timestamp <= last_flush'
                        /\ delivered'[i].id <= nread'
                        /\ \A j \in 1 .. Len(events') : Before(delivered'[i], events'[j])
      BY DEF OrderInv, Ordered
    <3>1. i \in 1 .. n /\ delivered'[i] = delivered[i]
      BY <2>2
    <3>2. /\ delivered[i].timestamp <= last_flush
          /\ delivered[i].id <= nread
          /\ \A j \in 1 .. Len(events) : Before(delivered[i], events[j])
          /\ delivered[i].id \in Nat
      BY <1>1, <3>1, DeliveryFacts DEF OrderInv, Ordered, n
    <3> QED
      BY <1>1, <3>1, <3>2 DEF Before
  <2>4. DeliveredInOrder'
    <3> SUFFICES ASSUME Ordered', NEW i \in 1 .. Len(delivered'),
                        NEW j \in 1 .. Len(delivered'),
                        i < j, delivered'[i].timestamp \in Timestamps,
                        delivered'[j].timestamp \in Timestamps
                 PROVE  Before(delivered'[i], delivered'[j])
      BY DEF DeliveredInOrder, Ordered, Before
    <3>1. /\ i \in 1 .. n /\ delivered'[i] = delivered[i]
          /\ j \in 1 .. n /\ delivered'[j] = delivered[j]
      BY <2>2
    <3> QED
      BY <1>1, <3>1 DEF DeliveredInOrder, Ordered, n
  <2> QED
    BY <2>3, <2>4
<1> QED
  BY <1>2, <1>5, <1>6

LEMMA NextKeepsOrder ==
  ASSUME IInv, OrderInv, DeliveredInOrder, [Next]_vars
  PROVE  OrderInv' /\ DeliveredInOrder'
<1>0. nread \in Nat /\ nread <= nread /\ nread <= nread + 1 /\ nread + 1 \in Nat
  BY DEF IInv, TypeOK
<1>1. CASE QueueEvent
  BY <1>1, QueueKeepsOrder
<1>2. CASE DeliverUntimed
  BY <1>2, UntimedKeepsOrder
<1>3. CASE FlushDeliver
  BY <1>3, DeliverKeepsOrder
<1>4. CASE process_finished_round \/ ProcessUserEvent
  <2>1. /\ pc # "closed" /\ nread' = nread + 1
        /\ UNCHANGED <<events, delivered, last_flush, nr_unordered_events, halved>>
    BY <1>4 DEF process_finished_round, ProcessUserEvent, NextRecord, queueVars, oeVars
  <2> QED
    BY <1>0, <2>1, OrderUnchanged
<1>5. CASE EndOfData \/ FlushInterrupted \/ FlushDeliverFails \/ FlushEnds \/ FinalFlush
  <2>1. /\ pc # "closed" /\ nread' = nread
        /\ UNCHANGED <<events, delivered, last_flush, nr_unordered_events, halved>>
    BY <1>5 DEF EndOfData, FlushInterrupted, FlushDeliverFails, FlushEnds, FinalFlush,
                queueVars, oeVars
  <2> QED
    BY <1>0, <2>1, OrderUnchanged
<1>6. CASE RetryQueue
  <2>1. halved'
    BY <1>6 DEF RetryQueue, IInv, IdsInv
  <2> QED
    BY <2>1 DEF OrderInv, DeliveredInOrder
<1>7. CASE Teardown
  <2>1. pc' = "closed"
    BY <1>7 DEF Teardown
  <2> QED
    BY <2>1 DEF OrderInv, DeliveredInOrder
<1>8. CASE ProcessNextFile
  <2>1. delivered' = <<>>
    BY <1>8 DEF ProcessNextFile
  <2> QED
    BY <2>1 DEF OrderInv, DeliveredInOrder
<1>9. CASE SetSessionDone \/ UNCHANGED vars
  <2>1. UNCHANGED <<events, delivered, last_flush, nr_unordered_events, pc, nread,
                 halved>>
    BY <1>9 DEF SetSessionDone, vars, oeVars, sessionVars
  <2>2. CASE pc = "closed"
    BY <2>1, <2>2 DEF OrderInv, DeliveredInOrder
  <2>3. CASE pc # "closed"
    BY <1>0, <2>1, <2>3, OrderUnchanged
  <2> QED
    BY <2>2, <2>3
<1> QED
  BY <1>1, <1>2, <1>3, <1>4, <1>5, <1>6, <1>7, <1>8, <1>9 DEF Next, Process, Flush, Ended

(* A session that reports no out-of-order event, and for which memory did  *)
(* not run out in this file, has delivered the timed events in time order  *)
(* and, among equals, in the order of the file: whatever rounds the file   *)
(* has, whenever it is interrupted and whatever callback fails.            *)
THEOREM DeliveryOrder == Spec => []DeliveredInOrder
<1>1. Init => OrderInv /\ DeliveredInOrder
  BY DEF Init, OrderInv, DeliveredInOrder
<1>2. IInv /\ OrderInv /\ DeliveredInOrder /\ [Next]_vars => OrderInv' /\ DeliveredInOrder'
  BY NextKeepsOrder
<1> QED
  BY <1>1, <1>2, SessionInvariant, PTL DEF Spec

----------------------------------------------------------------------------
(* The final flush delivers everything.                                    *)

(* A record that is read starts no final flush, and leaves the loop only   *)
(* because of a failure.                                                   *)
LEMMA RecordsKeepFinal ==
  ASSUME IInv, FinalInv,
         QueueEvent \/ DeliverUntimed \/ process_finished_round \/ ProcessUserEvent \/ EndOfData
  PROVE  FinalInv'
<1>1. pc' = "flush" => how' \in {"HALF", "ROUND"}
  BY DEF QueueEvent, QueueEventAt, DeliverUntimed, process_finished_round, ProcessUserEvent,
         EndOfData, BeginFlush, AfterRecord
<1>2. pc' = "teardown" => err'
  BY DEF QueueEvent, QueueEventAt, DeliverUntimed, process_finished_round, ProcessUserEvent,
         EndOfData, BeginFlush, AfterRecord
<1> QED
  BY <1>1, <1>2 DEF FinalInv, NothingLeftBehind

(* A flush that is neither interrupted nor failed ends when nothing is     *)
(* left below its limit.                                                   *)
LEMMA FlushKeepsFinal ==
  ASSUME IInv, FinalInv, Flush
  PROVE  FinalInv'
<1>1. pc = "flush" /\ TypeOK
  BY DEF Flush, FlushInterrupted, FlushDeliver, FlushDeliverFails, FlushEnds, IInv
<1>2. CASE FlushDeliver
  BY <1>1, <1>2 DEF FlushDeliver, ordered_events__delete, sessionVars, FinalInv,
                    NothingLeftBehind
<1>3. CASE FlushInterrupted
  <2>1. session_done' /\ pc' # "flush"
    BY <1>1, <1>3 DEF FlushInterrupted, FlushReturns, AfterRecord, TypeOK, FlushKinds
  <2> QED
    BY <2>1 DEF FinalInv, NothingLeftBehind
<1>4. CASE FlushDeliverFails
  <2>1. pc' # "flush" /\ (pc' = "teardown" => err')
    BY <1>1, <1>4 DEF FlushDeliverFails, FlushReturns, AfterRecord, TypeOK, FlushKinds
  <2> QED
    BY <2>1 DEF FinalInv, NothingLeftBehind
<1>5. CASE FlushEnds
  <2>1. pc' # "flush" /\ (pc' = "teardown" => how = "FINAL") /\ events' = events
    BY <1>1, <1>5 DEF FlushEnds, FlushReturns, AfterRecord, TypeOK, FlushKinds
  <2>2. how = "FINAL" => events = <<>>
    <3> SUFFICES ASSUME how = "FINAL", events # <<>> PROVE FALSE
      OBVIOUS
    <3>1. next_flush = ULLONG_MAX /\ Head(events).timestamp > next_flush
      BY <1>1, <1>5 DEF FinalInv, FlushEnds, FlushExhausted
    <3>2. Head(events) \in Event
      BY <1>1 DEF TypeOK
    <3>3. Head(events).timestamp \in 1 .. ULLONG_MAX - 1
      BY <3>2, OEAssumption DEF Event
    <3> QED
      BY <3>1, <3>3, OEAssumption
  <2> QED
    BY <2>1, <2>2 DEF FinalInv, NothingLeftBehind
<1> QED
  BY <1>2, <1>3, <1>4, <1>5 DEF Flush

LEMMA NextKeepsFinal == IInv /\ FinalInv /\ [Next]_vars => FinalInv'
<1> SUFFICES ASSUME IInv, FinalInv, [Next]_vars PROVE FinalInv'
  OBVIOUS
<1>1. CASE RetryQueue
  <2>1. pc' = "teardown" => err'
    BY <1>1 DEF RetryQueue, AfterRecord
  <2>2. pc' # "flush"
    BY <1>1 DEF RetryQueue, AfterRecord
  <2> QED
    BY <2>1, <2>2 DEF FinalInv, NothingLeftBehind
<1>2. CASE FinalFlush
  <2>1. \/ nr_events = 0 /\ pc' = "teardown"
        \/ pc' = "flush" /\ next_flush' = ULLONG_MAX
    BY <1>2, OEAssumption DEF FinalFlush, BeginFlush, FlushLimit
  <2>2. events' = events /\ (nr_events = 0 => events = <<>>)
    BY <1>2 DEF FinalFlush, queueVars, IInv, TypeOK
  <2> QED
    BY <2>1, <2>2 DEF FinalInv, NothingLeftBehind
<1>3. CASE Teardown \/ ProcessNextFile
  BY <1>3 DEF Teardown, ProcessNextFile, FinalInv, NothingLeftBehind
<1>4. CASE SetSessionDone \/ Ended \/ UNCHANGED vars
  <2>1. UNCHANGED <<pc, how, next_flush, events, err>>
    BY <1>4 DEF SetSessionDone, Ended, vars, oeVars, sessionVars
  <2>2. session_done => session_done'
    BY <1>4, Zenon DEF SetSessionDone, Ended, vars, sessionVars
  <2> QED
    BY <2>1, <2>2 DEF FinalInv, NothingLeftBehind
<1> QED
  BY <1>1, <1>2, <1>3, <1>4, RecordsKeepFinal, FlushKeepsFinal DEF Next, Process

(* A session that no error ended and that was not interrupted has shown    *)
(* the tool every event it queued when perf_session__process_events()      *)
(* tears the queue down, also when a half flush failed on the way.         *)
THEOREM FinalFlushIsComplete == Spec => []NothingLeftBehind
<1>1. Init => FinalInv
  BY DEF Init, FinalInv, NothingLeftBehind
<1> QED
  BY <1>1, NextKeepsFinal, SessionInvariant, PTL DEF Spec, FinalInv

----------------------------------------------------------------------------
(* Refinement.                                                             *)

LEMMA SorterAccepts ==
  ASSUME IInv, NEW e \in Event, \A i \in 1 .. Len(events) : events[i].id < e.id,
         ordered_events__new_event(e), delivered' = delivered
  PROVE  Sorter!Next
<1>1. Range(events') = Range(events) \cup {e}
  BY NewEventStep
<1>2. e \notin Range(events)
  <2>1. e.id \in Nat
    BY DEF Event
  <2> QED
    BY <2>1 DEF Range
<1>3. Sorter!Accept
  BY <1>1, <1>2 DEF Sorter!Accept
<1> QED
  BY <1>3 DEF Sorter!Next

LEMMA SorterEmits ==
  ASSUME IInv, FlushDeliver, ~Pipe
  PROVE  Sorter!Next
<1> DEFINE h == Head(events)
<1>1. /\ events # <<>> /\ events \in Seq(Event)
      /\ events' = Tail(events) /\ max_timestamp' = max_timestamp
      /\ delivered' = Append(delivered, Shown(h, nread))
  BY DEF FlushDeliver, ordered_events__delete, FlushExhausted, IInv, TypeOK
<1>2. /\ h \in Event
      /\ Range(events) = {h} \cup Range(events')
      /\ \A f \in Range(events') : Before(h, f)
      /\ h \notin Range(events')
  BY <1>1, TimeFacts, HeadRemoved DEF IInv
<1>3. h.id \in Nat
  BY <1>2 DEF Event
<1>4. delivered' = Append(delivered, [id |-> h.id, timestamp |-> h.timestamp, data |-> h.id])
  BY <1>1 DEF Shown
<1> HIDE DEF h
<1>5. Range(events') = Range(events) \ {h}
  BY <1>2
<1>6. \A f \in Range(events) : Sorter!NotAfter(h, f)
  <2> TAKE f \in Range(events)
  <2>1. CASE f = h
    BY <1>3, <2>1 DEF Sorter!NotAfter
  <2>2. CASE f \in Range(events')
    <3>1. Before(h, f)
      BY <1>2, <2>2
    <3>2. f.id \in Nat
      <4>1. f \in Event
        BY <1>2, <2>2, <1>1 DEF Range
      <4> QED
        BY <4>1 DEF Event
    <3> QED
      BY <1>3, <3>1, <3>2 DEF Before, Sorter!NotAfter
  <2> QED
    BY <1>2, <2>1, <2>2
<1>7. h \in Range(events)
  BY <1>2
<1>8. Sorter!Emit
  BY <1>4, <1>5, <1>6, <1>7 DEF Sorter!Emit
<1> QED
  BY <1>8 DEF Sorter!Next

LEMMA SorterPasses ==
  ASSUME IInv, DeliverUntimed
  PROVE  Sorter!Next \/ UNCHANGED <<Range(events), delivered>>
<1> DEFINE D == [id : Nat, timestamp : Nat, data : Nat]
<1>1. /\ nread \in Nat /\ events' = events /\ delivered \in Seq(D)
  BY DEF DeliverUntimed, IInv, TypeOK, queueVars
<1>2. PICK t \in {0, ULLONG_MAX} :
         \/ delivered' = Append(delivered,
                                Shown([id |-> nread + 1, timestamp |-> t], nread + 1))
         \/ delivered' = delivered
  BY DEF DeliverUntimed
<1> DEFINE d == Shown([id |-> nread + 1, timestamp |-> t], nread + 1)
<1>3. d \in D /\ d.id = nread + 1
  BY <1>1, TimeFacts DEF Shown
<1>4. CASE delivered' = Append(delivered, d)
  <2> HIDE DEF d, D
  <2>1. /\ Len(delivered') = Len(delivered) + 1
        /\ SubSeq(delivered', 1, Len(delivered)) = delivered
        /\ delivered'[Len(delivered) + 1] = d
    BY <1>1, <1>3, <1>4
  <2>2. \A e \in Range(events) : e.id # d.id
    BY <1>1, <1>3, ListFacts DEF Range
  <2>3. Sorter!Pass
    BY <1>1, <2>1, <2>2 DEF Sorter!Pass
  <2> QED
    BY <2>3 DEF Sorter!Next
<1>5. CASE delivered' = delivered
  BY <1>1, <1>5
<1> QED
  BY <1>2, <1>4, <1>5
LEMMA StepImplementsSorter ==
  ASSUME IInv, ~Pipe, [Next]_vars
  PROVE  Sorter!Next \/ UNCHANGED <<Range(events), delivered>>
<1>1. CASE QueueEvent
  <2>1. PICK t \in Timestamps, sz \in Sizes :
          LET e == [id |-> nread + 1, timestamp |-> t, size |-> sz]
          IN  \/ ordered_events__new_event(e)
              \/ NewEventFails(e)
              \/ NewEventCrashes(e)
    BY <1>1 DEF QueueEvent, QueueEventAt
  <2> DEFINE e == [id |-> nread + 1, timestamp |-> t, size |-> sz]
  <2>2. nread \in Nat /\ delivered' = delivered
    BY <1>1 DEF QueueEvent, QueueEventAt, IInv, TypeOK
  <2>3. e \in Event /\ e.id = nread + 1
    BY <2>2 DEF Event
  <2> HIDE DEF e
  <2>4. \A i \in 1 .. Len(events) : events[i].id < e.id
    BY <2>2, <2>3, ListFacts
  <2>5. CASE ordered_events__new_event(e)
    BY <2>2, <2>3, <2>4, <2>5, SorterAccepts
  <2>6. CASE NewEventFails(e) \/ NewEventCrashes(e)
    BY <2>2, <2>6 DEF NewEventFails, NewEventCrashes, queueVars
  <2> QED
    BY <2>1, <2>5, <2>6 DEF e
<1>2. CASE RetryQueue
  <2>1. /\ pending \in Event /\ delivered' = delivered
        /\ \A i \in 1 .. Len(events) : events[i].id < pending.id
    BY <1>2 DEF RetryQueue, IInv, IdsInv, TypeOK
  <2>2. CASE ordered_events__new_event(pending)
    BY <2>1, <2>2, SorterAccepts
  <2>3. CASE UNCHANGED queueVars
    BY <2>1, <2>3 DEF queueVars
  <2> QED
    BY <1>2, <2>2, <2>3 DEF RetryQueue, NewEventFails, NewEventCrashes, NewEventCorrupts
<1>3. CASE FlushDeliver
  BY <1>3, SorterEmits
<1>4. CASE DeliverUntimed
  BY <1>4, SorterPasses
<1>5. CASE Teardown
  <2>1. events' = <<>> /\ delivered' = delivered
    BY <1>5 DEF Teardown, ordered_events__reinit
  <2>2. Range(events') = {}
    BY <2>1 DEF Range
  <2> QED
    BY <2>1, <2>2 DEF Sorter!Next, Sorter!Discard
<1>6. CASE ProcessNextFile
  <2>1. events = <<>> /\ events' = <<>> /\ delivered' = <<>>
    BY <1>6 DEF ProcessNextFile, IInv, ClosedInv, queueVars
  <2>2. Range(events) = {} /\ Range(events') = {}
    BY <2>1 DEF Range
  <2> QED
    BY <2>1, <2>2 DEF Sorter!Next, Sorter!NextSession
<1>7. CASE \/ process_finished_round \/ ProcessUserEvent \/ EndOfData
           \/ FlushInterrupted \/ FlushDeliverFails \/ FlushEnds
           \/ FinalFlush \/ SetSessionDone \/ UNCHANGED vars
  BY <1>7 DEF process_finished_round, ProcessUserEvent, EndOfData, FlushInterrupted,
              FlushDeliverFails, FlushEnds, FinalFlush, SetSessionDone, vars, oeVars,
              queueVars
<1> QED
  BY <1>1, <1>2, <1>3, <1>4, <1>5, <1>6, <1>7 DEF Next, Process, Flush, Ended

(* A session over a file implements the sorter: every event it delivers is *)
(* the earliest of those queued, with the contents it was read with, and   *)
(* none is lost, doubled or invented, also when flushes are interrupted,   *)
(* fail, or are forced by a lack of memory.                                *)
THEOREM SessionImplementsSorter == ASSUME ~Pipe PROVE Spec => SorterSpec
<1>1. Init => Sorter!Init
  BY DEF Init, ordered_events__init, Sorter!Init, Range
<1>2. IInv /\ [Next]_vars => [Sorter!Next]_<<Range(events), delivered>>
  BY StepImplementsSorter
<1> QED
  BY <1>1, <1>2, SessionInvariant, PTL DEF Spec, SorterSpec, Sorter!Spec

----------------------------------------------------------------------------
(* The slots of the queue's buffers.                                       *)

LEMMA Distribute ==
  ASSUME NEW n \in Nat, NEW m \in Nat
  PROVE  /\ n * m \in Nat
         /\ (n + 1) * m = n * m + m
OBVIOUS

(* What alloc_event() does to the slots that are not on the list. *)
LEMMA AllocSlots ==
  ASSUME TypeOK, NEW e, alloc_event(e)
  PROVE  LET M == MAX_SAMPLE_BUFFER - 1
             free == cache + (IF buffer THEN MAX_SAMPLE_BUFFER - buffer_idx ELSE 0)
             free2 == cache' + (IF buffer' THEN MAX_SAMPLE_BUFFER - buffer_idx' ELSE 0)
         IN  /\ to_free' * M - free2 = to_free * M - free + 1
             /\ cur_alloc_size' - to_free' * BufferBytes
                  = cur_alloc_size - to_free * BufferBytes
<1> DEFINE M == MAX_SAMPLE_BUFFER - 1
<1>0. DupBytes(e) = 0
  BY NoDup
<1>1. /\ M \in Nat /\ M = MAX_SAMPLE_BUFFER - 1 /\ BufferBytes \in Nat
      /\ MAX_SAMPLE_BUFFER \in Nat /\ MAX_SAMPLE_BUFFER > 2
  BY OEAssumption
<1>2. /\ to_free \in Nat /\ cache \in Nat /\ cur_alloc_size \in Nat
      /\ buffer_idx \in Nat /\ buffer \in BOOLEAN
  BY <1>1 DEF TypeOK
<1>3. /\ to_free * M \in Nat /\ (to_free + 1) * M = to_free * M + M
      /\ to_free * BufferBytes \in Nat
      /\ (to_free + 1) * BufferBytes = to_free * BufferBytes + BufferBytes
  BY <1>1, <1>2, Distribute
<1> HIDE DEF M
<1>4. CASE SlotFromCache(e)
  <2>1. /\ cache' = cache - 1 /\ cur_alloc_size' = cur_alloc_size
        /\ buffer' = buffer /\ buffer_idx' = buffer_idx /\ to_free' = to_free
    BY <1>0, <1>2, <1>4 DEF SlotFromCache
  <2> QED
    BY <1>1, <1>2, <1>3, <2>1
<1>5. CASE SlotFromBuffer(e)
  <2>1. /\ cache' = cache /\ cur_alloc_size' = cur_alloc_size
        /\ buffer_idx' = buffer_idx + 1 /\ to_free' = to_free
    BY <1>0, <1>2, <1>5 DEF SlotFromBuffer
  <2>2. buffer
    BY <1>5 DEF SlotFromBuffer
  <2>3. CASE buffer_idx + 1 = MAX_SAMPLE_BUFFER
    <3>1. ~buffer'
      BY <1>5, <2>3, Zenon DEF SlotFromBuffer
    <3> QED
      BY <1>1, <1>2, <1>3, <2>1, <2>2, <2>3, <3>1
  <2>4. CASE buffer_idx + 1 # MAX_SAMPLE_BUFFER
    <3>1. buffer'
      BY <1>5, <2>2, <2>4, Zenon DEF SlotFromBuffer
    <3> QED
      BY <1>1, <1>2, <1>3, <2>1, <2>2, <2>4, <3>1
  <2> QED
    BY <2>3, <2>4
<1>6. CASE SlotFromNewBuffer(e)
  <2>1. /\ cache' = cache /\ cur_alloc_size' = cur_alloc_size + BufferBytes
        /\ buffer_idx' = 2 /\ to_free' = to_free + 1
    BY <1>0, <1>1, <1>2, <1>6 DEF SlotFromNewBuffer
  <2>2. ~buffer
    BY <1>6 DEF SlotFromNewBuffer, NeedsBuffer
  <2>3. buffer'
    BY <1>6, Zenon DEF SlotFromNewBuffer
  <2> QED
    BY <1>1, <1>2, <1>3, <2>1, <2>2, <2>3
<1> QED
  BY <1>4, <1>5, <1>6 DEF alloc_event, M

(* Queueing an event uses up one slot and makes the list longer by one. *)
LEMMA SlotsAfterQueue ==
  ASSUME IInv, SlotsAccounted, pc # "corrupt",
         NEW e \in Event, \A i \in 1 .. Len(events) : events[i].id < e.id,
         ordered_events__new_event(e)
  PROVE  SlotsAccounted'
<1> DEFINE M == MAX_SAMPLE_BUFFER - 1
<1> DEFINE free == cache + (IF buffer THEN MAX_SAMPLE_BUFFER - buffer_idx ELSE 0)
<1> DEFINE free2 == cache' + (IF buffer' THEN MAX_SAMPLE_BUFFER - buffer_idx' ELSE 0)
<1>1. Len(events') = Len(events) + 1
  BY QueueEventStep, TimeFacts DEF IInv, TypeOK, LastInv, ordered_events__new_event
<1>2. /\ to_free' * M - free2 = to_free * M - free + 1
      /\ cur_alloc_size' - to_free' * BufferBytes
           = cur_alloc_size - to_free * BufferBytes
  BY AllocSlots DEF IInv, ordered_events__new_event
<1>3. /\ to_free * M = Len(events) + free
      /\ cur_alloc_size = to_free * BufferBytes
  <2>1. to_free * M \in Int /\ Len(events) \in Int /\ cache \in Int
    BY OEAssumption DEF IInv, TypeOK
  <2>2. CASE buffer
    BY <2>1, <2>2, OEAssumption DEF SlotsAccounted, IInv, TypeOK
  <2>3. CASE ~buffer
    BY <2>1, <2>3, OEAssumption DEF SlotsAccounted, IInv, TypeOK
  <2> QED
    BY <2>2, <2>3
<1>4. /\ M \in Int /\ MAX_SAMPLE_BUFFER \in Int /\ BufferBytes \in Int
      /\ to_free \in Int /\ to_free' \in Int /\ cache \in Int /\ cache' \in Int
      /\ cur_alloc_size \in Int /\ cur_alloc_size' \in Int
      /\ buffer_idx \in Int /\ buffer_idx' \in Int /\ Len(events) \in Int
  BY OEAssumption, NewEventStep DEF IInv, TypeOK
<1>5. free \in Int /\ free2 \in Int
  <2>1. free \in Int
    BY <1>4
  <2>2. free2 \in Int
    BY <1>4
  <2> QED
    BY <2>1, <2>2
<1> DEFINE p == to_free * M
<1> DEFINE p2 == to_free' * M
<1> DEFINE q == to_free * BufferBytes
<1> DEFINE q2 == to_free' * BufferBytes
<1>6. p \in Int /\ p2 \in Int /\ q \in Int /\ q2 \in Int
  <2> HIDE DEF M
  <2> QED
    BY <1>4
<1>7. /\ p2 - free2 = p - free + 1 /\ p = Len(events) + free
      /\ cur_alloc_size' - q2 = cur_alloc_size - q /\ cur_alloc_size = q
  BY <1>2, <1>3
<1>8. p2 = Len(events') + free2 /\ cur_alloc_size' = q2
  <2>1. \A x, x2, f, f2, l \in Int :
            x2 - f2 = x - f + 1 /\ x = l + f => x2 = l + 1 + f2
    OBVIOUS
  <2>2. \A c, c2, y, y2 \in Int : c2 - y2 = c - y /\ c = y => c2 = y2
    OBVIOUS
  <2> HIDE DEF free, free2, p, p2, q, q2, M
  <2>3. p2 = Len(events) + 1 + free2
    BY <1>4, <1>5, <1>6, <1>7, <2>1
  <2>4. cur_alloc_size' = q2
    <3>1. cur_alloc_size \in Int /\ cur_alloc_size' \in Int /\ q \in Int /\ q2 \in Int
      BY <1>4, <1>6
    <3>2. cur_alloc_size' - q2 = cur_alloc_size - q /\ cur_alloc_size = q
      BY <1>7
    <3> QED
      BY <3>1, <3>2, <2>2
  <2> QED
    BY <1>1, <2>3, <2>4
<1>9. Len(events') + free2
        = Len(events') + cache' + (IF buffer' THEN MAX_SAMPLE_BUFFER - buffer_idx' ELSE 0)
  <2> DEFINE left == IF buffer' THEN MAX_SAMPLE_BUFFER - buffer_idx' ELSE 0
  <2>1. \A l, c, x \in Int : l + (c + x) = l + c + x
    OBVIOUS
  <2>2. left \in Int
    BY <1>4
  <2>3. Len(events') \in Int /\ cache' \in Int
    BY <1>1, <1>4
  <2>4. free2 = cache' + left
    OBVIOUS
  <2> HIDE DEF left, free2
  <2>5. Len(events') + free2 = Len(events') + cache' + left
    BY <2>1, <2>2, <2>3, <2>4
  <2> QED
    BY <2>5 DEF left
<1> QED
  BY <1>8, <1>9 DEF SlotsAccounted

LEMMA NextKeepsSlots ==
  ASSUME IInv, SlotsAccounted, [Next]_vars
  PROVE  SlotsAccounted'
<1>1. CASE QueueEvent
  <2>1. PICK t \in Timestamps, sz \in Sizes :
          LET e == [id |-> nread + 1, timestamp |-> t, size |-> sz]
          IN  \/ ordered_events__new_event(e)
              \/ NewEventFails(e)
              \/ NewEventCrashes(e)
    BY <1>1 DEF QueueEvent, QueueEventAt
  <2> DEFINE e == [id |-> nread + 1, timestamp |-> t, size |-> sz]
  <2>2. nread \in Nat /\ pc = "read"
    BY <1>1 DEF QueueEvent, QueueEventAt, NextRecord, IInv, TypeOK
  <2>3. e \in Event /\ e.id = nread + 1
    BY <2>2 DEF Event
  <2> HIDE DEF e
  <2>4. \A i \in 1 .. Len(events) : events[i].id < e.id
    BY <2>2, <2>3, ListFacts
  <2>5. CASE ordered_events__new_event(e)
    BY <2>2, <2>3, <2>4, <2>5, SlotsAfterQueue
  <2>6. CASE NewEventFails(e) \/ NewEventCrashes(e)
    BY <2>2, <2>6 DEF NewEventFails, NewEventCrashes, queueVars, allocVars, SlotsAccounted
  <2> QED
    BY <2>1, <2>5, <2>6 DEF e
<1>2. CASE RetryQueue
  <2>1. /\ pending \in Event /\ pc = "retry"
        /\ \A i \in 1 .. Len(events) : events[i].id < pending.id
    BY <1>2 DEF RetryQueue, IInv, IdsInv, TypeOK
  <2>2. CASE ordered_events__new_event(pending)
    BY <2>1, <2>2, SlotsAfterQueue
  <2>3. CASE UNCHANGED <<queueVars, allocVars>>
    BY <2>1, <2>3 DEF queueVars, allocVars, SlotsAccounted
  <2>4. CASE pc' = "corrupt"
    BY <2>4 DEF SlotsAccounted
  <2> QED
    BY <1>2, <2>2, <2>3, <2>4 DEF RetryQueue, NewEventFails, NewEventCrashes
<1>3. CASE FlushDeliver
  <2>1. /\ events # <<>> /\ events \in Seq(Event) /\ events' = Tail(events)
        /\ UNCHANGED <<buffer, buffer_idx, to_free, pc>>
        /\ cache' = cache + 1
        /\ cur_alloc_size' = cur_alloc_size - DupBytes(Head(events))
        /\ pc = "flush"
    BY <1>3 DEF FlushDeliver, ordered_events__delete, FlushExhausted, IInv, TypeOK, sessionVars
  <2>2. Len(events') = Len(events) - 1 /\ Len(events) \in Nat
    BY <2>1
  <2>3. cur_alloc_size' = cur_alloc_size /\ cache \in Nat
    BY <2>1, NoDup DEF IInv, TypeOK
  <2>4. Len(events') + cache' = Len(events) + cache
    BY <2>1, <2>2, <2>3
  <2> QED
    BY <2>1, <2>3, <2>4 DEF SlotsAccounted
<1>4. CASE Teardown
  <2>1. /\ events' = <<>> /\ cache' = 0 /\ ~buffer' /\ to_free' = 0 /\ cur_alloc_size' = 0
    BY <1>4 DEF Teardown, ordered_events__reinit
  <2> QED
    BY <2>1, OEAssumption DEF SlotsAccounted
<1>5. CASE \/ DeliverUntimed \/ process_finished_round \/ ProcessUserEvent \/ EndOfData
           \/ FlushInterrupted \/ FlushDeliverFails \/ FlushEnds
           \/ FinalFlush \/ ProcessNextFile \/ SetSessionDone \/ UNCHANGED vars
  <2>1. /\ UNCHANGED <<events, cache, buffer, buffer_idx, to_free, cur_alloc_size>>
        /\ pc = "corrupt" => pc' = "corrupt"
    BY <1>5 DEF DeliverUntimed, process_finished_round, ProcessUserEvent, EndOfData,
                FlushInterrupted, FlushDeliverFails, FlushEnds, FinalFlush, ProcessNextFile,
                SetSessionDone, NextRecord, vars, oeVars, queueVars, allocVars, sessionVars
  <2> QED
    BY <2>1 DEF SlotsAccounted
<1> QED
  BY <1>1, <1>2, <1>3, <1>4, <1>5 DEF Next, Process, Flush, Ended

(* No slot of a buffer is leaked or handed out twice, and cur_alloc_size   *)
(* is what the buffers take, on every path through alloc_event().          *)
THEOREM SlotsStayAccounted == Spec => []SlotsAccounted
<1>1. Init => SlotsAccounted
  <2> SUFFICES ASSUME Init PROVE SlotsAccounted
    OBVIOUS
  <2>1. /\ events = <<>> /\ cache = 0 /\ ~buffer /\ to_free = 0 /\ cur_alloc_size = 0
    BY DEF Init, ordered_events__init
  <2> QED
    BY <2>1, OEAssumption DEF SlotsAccounted
<1>2. IInv /\ SlotsAccounted /\ [Next]_vars => SlotsAccounted'
  BY NextKeepsSlots
<1> QED
  BY <1>1, <1>2, SessionInvariant, PTL DEF Spec

----------------------------------------------------------------------------
(* The argument of the comment above process_finished_round(), proved for  *)
(* any number of buffers, any load and any length of the recording: a      *)
(* recording is composed with the session that reads it (RoundOrder).      *)

(* A step of the whole is a step of the session, or leaves it alone. *)
LEMMA RoundStepIsSessionStep ==
  ASSUME RoundTypeOK, [RoundNext]_roundVars
  PROVE  [Next]_vars
<1>1. CASE \/ Tick \/ (\E c \in Mmaps : Sample(c)) \/ ReadRing \/ EmptyPass
           \/ UNCHANGED roundVars
  BY <1>1 DEF Tick, Sample, ReadRing, EmptyPass, roundVars
<1>2. CASE FinishPass
  BY <1>2 DEF FinishPass, Next, Process
<1>3. CASE ProcessRecord
  <2>1. Head(batch) \in Timestamps
    BY <1>3 DEF ProcessRecord, RoundTypeOK
  <2>2. QueueEvent
    BY <1>3, <2>1 DEF ProcessRecord, QueueEvent
  <2> QED
    BY <2>2 DEF Next, Process
<1>4. CASE EndOfRecording \/ SessionStep
  BY <1>4 DEF EndOfRecording, SessionStep, Next, Process
<1> QED
  BY <1>1, <1>2, <1>3, <1>4 DEF RoundNext

LEMMA RoundTypeStep ==
  ASSUME IInv, RoundTypeOK, [RoundNext]_roundVars
  PROVE  RoundTypeOK'
<1>0. /\ NrMmaps \in Nat /\ NrMmaps > 0 /\ ULLONG_MAX \in Nat
      /\ Timestamps = 1 .. (ULLONG_MAX - 1)
      /\ nread \in Nat
  BY RoundAssumption, OEAssumption DEF IInv, TypeOK
<1>1. CASE Tick
  BY <1>0, <1>1 DEF Tick, RoundTypeOK, passVars
<1>2. ASSUME NEW c \in Mmaps, Sample(c)
      PROVE  RoundTypeOK'
  <2>1. ring' \in [Mmaps -> Seq(Timestamps)]
    <3>1. Append(ring[c], clock) \in Seq(Timestamps)
      BY <1>2 DEF RoundTypeOK
    <3> QED
      BY <1>2, <3>1 DEF RoundTypeOK, Sample
  <2> QED
    BY <1>2, <2>1 DEF Sample, RoundTypeOK, passVars
<1>3. CASE ReadRing
  <2>1. /\ ring' \in [Mmaps -> Seq(Timestamps)]
        /\ batch' \in Seq(Timestamps)
    BY <1>3 DEF ReadRing, RoundTypeOK
  <2>2. cpu' \in 1 .. NrMmaps + 1
    BY <1>0, <1>3 DEF ReadRing, Mmaps
  <2>3. passStart' \in Nat /\ prevStart' \in Nat
    BY <1>0, <1>3 DEF ReadRing, RoundTypeOK
  <2>4. wrote' \in BOOLEAN
    BY <1>3, Zenon DEF ReadRing
  <2> QED
    BY <1>3, <2>1, <2>2, <2>3, <2>4 DEF ReadRing, RoundTypeOK
<1>4. CASE FinishPass
  <2>1. wrote' \in BOOLEAN
    BY <1>4, Zenon DEF FinishPass
  <2>2. mark' \in Nat /\ prevMark' \in Nat /\ cpu' \in 1 .. NrMmaps + 1
    BY <1>0, <1>4 DEF FinishPass, RoundTypeOK
  <2>3. UNCHANGED <<clock, ring, nsamples, batch, passStart, prevStart>>
    BY <1>4 DEF FinishPass, kernelVars
  <2> QED
    BY <2>1, <2>2, <2>3 DEF RoundTypeOK
<1>5. CASE EmptyPass
  BY <1>0, <1>5 DEF EmptyPass, RoundTypeOK, kernelVars
<1>6. CASE ProcessRecord
  <2>1. batch' \in Seq(Timestamps)
    BY <1>6 DEF ProcessRecord, RoundTypeOK
  <2> QED
    BY <1>6, <2>1 DEF ProcessRecord, RoundTypeOK, kernelVars
<1>7. CASE EndOfRecording \/ SessionStep \/ UNCHANGED roundVars
  BY <1>7 DEF EndOfRecording, SessionStep, RoundTypeOK, kernelVars, passVars, roundVars
<1> QED
  BY <1>1, <1>2, <1>3, <1>4, <1>5, <1>6, <1>7 DEF RoundNext

LEMMA RoundInitFacts == RoundInit => Init /\ RoundTypeOK
<1> SUFFICES ASSUME RoundInit PROVE Init /\ RoundTypeOK
  OBVIOUS
<1>0. /\ NrMmaps \in Nat /\ NrMmaps > 0 /\ ULLONG_MAX \in Nat
      /\ Timestamps = 1 .. (ULLONG_MAX - 1) /\ ULLONG_MAX > 1
  BY RoundAssumption, OEAssumption
<1>1. /\ clock \in Timestamps /\ cpu \in 1 .. NrMmaps + 1
      /\ ring \in [Mmaps -> Seq(Timestamps)]
  BY <1>0 DEF RoundInit
<1>2. wrote \in BOOLEAN
  BY Zenon DEF RoundInit
<1> QED
  BY <1>1, <1>2 DEF RoundInit, RoundTypeOK

(* The variables of the recorder keep their types, and the session's       *)
(* invariant holds in the composition.                                     *)
THEOREM RoundTypeCorrect == RoundSpec => [](IInv /\ RoundTypeOK)
<1>1. RoundInit => IInv /\ RoundTypeOK
  BY RoundInitFacts, InitInv
<1>2. IInv /\ RoundTypeOK /\ [RoundNext]_roundVars => (IInv /\ RoundTypeOK)'
  BY RoundStepIsSessionStep, RoundTypeStep, NextInv
<1> QED
  BY <1>1, <1>2, PTL DEF RoundSpec

(* The recording that is processed is one of the files a session may meet. *)
THEOREM RoundImplementsSession == RoundSpec => Spec
<1>1. RoundInit => Init
  BY RoundInitFacts
<1>2. RoundTypeOK /\ [RoundNext]_roundVars => [Next]_vars
  BY RoundStepIsSessionStep
<1> QED
  BY <1>1, <1>2, RoundTypeCorrect, PTL DEF RoundSpec, Spec

----------------------------------------------------------------------------
(* No event is out of order.                                               *)

(* The types of everything that is compared. *)
LEMMA RoundFacts ==
  ASSUME IInv, RoundTypeOK
  PROVE  /\ clock \in Nat /\ passStart \in Nat /\ prevStart \in Nat
         /\ mark \in Nat /\ prevMark \in Nat /\ nread \in Nat
         /\ max_timestamp \in Nat /\ next_flush \in Nat /\ last_flush \in Nat
         /\ cpu \in Nat /\ cpu > 0 /\ NrMmaps \in Nat /\ NrMmaps > 0
         /\ Len(batch) \in Nat
         /\ \A i \in 1 .. Len(batch) : batch[i] \in Nat
         /\ \A c \in Mmaps : /\ Len(ring[c]) \in Nat
                             /\ \A i \in 1 .. Len(ring[c]) : ring[c][i] \in Nat
<1>1. Timestamps \subseteq Nat /\ ULLONG_MAX \in Nat
  BY TimeFacts
<1>2. NrMmaps \in Nat /\ NrMmaps > 0
  BY RoundAssumption
<1>3. /\ clock \in Nat /\ passStart \in Nat /\ prevStart \in Nat
      /\ mark \in Nat /\ prevMark \in Nat /\ cpu \in Nat /\ cpu > 0
  BY <1>1, <1>2 DEF RoundTypeOK
<1>4. nread \in Nat /\ max_timestamp \in Nat /\ next_flush \in Nat /\ last_flush \in Nat
  BY <1>1 DEF IInv, TypeOK
<1>s. ASSUME NEW s \in Seq(Timestamps)
      PROVE  Len(s) \in Nat /\ \A i \in 1 .. Len(s) : s[i] \in Nat
  <2>1. Len(s) \in Nat /\ \A i \in 1 .. Len(s) : s[i] \in Timestamps
    OBVIOUS
  <2> QED
    BY <1>1, <2>1
<1>5. Len(batch) \in Nat /\ \A i \in 1 .. Len(batch) : batch[i] \in Nat
  <2>1. batch \in Seq(Timestamps)
    BY DEF RoundTypeOK
  <2> QED
    BY <1>s, <2>1
<1>6. \A c \in Mmaps : /\ Len(ring[c]) \in Nat
                       /\ \A i \in 1 .. Len(ring[c]) : ring[c][i] \in Nat
  <2>1. \A c \in Mmaps : ring[c] \in Seq(Timestamps)
    BY DEF RoundTypeOK
  <2> QED
    BY <1>s, <2>1
<1> QED
  BY <1>2, <1>3, <1>4, <1>5, <1>6

(* Time passes. *)
LEMMA TickKeeps ==
  ASSUME IInv, RoundTypeOK, RInv, Tick PROVE RInv'
<1>1. clock' = clock + 1 /\ UNCHANGED <<vars, ring, nsamples, passVars>>
  BY DEF Tick
<1> USE RoundFacts DEF vars, oeVars, sessionVars, passVars
<1>2. TimeInv'
  <2>1. prevStart' <= passStart' /\ passStart' <= clock' /\ max_timestamp' <= clock'
    BY <1>1 DEF RInv, TimeInv
  <2>2. \A i \in 1 .. Len(batch') : batch'[i] <= clock'
    BY <1>1, SMTT(30) DEF RInv, TimeInv
  <2>3. \A c \in Mmaps : \A i \in 1 .. Len(ring'[c]) : ring'[c][i] <= clock'
    BY <1>1, SMTT(30) DEF RInv, TimeInv
  <2> QED
    BY <2>1, <2>2, <2>3 DEF TimeInv
<1>3. RingInv'
  BY <1>1 DEF RInv, RingInv
<1>4. FlushInv'
  BY <1>1 DEF RInv, FlushInv, Bound
<1>5. MarkInv'
  BY <1>1 DEF RInv, MarkInv
<1> QED
  BY <1>2, <1>3, <1>4, <1>5 DEF RInv

(* An event is stamped with the time of the pass or later. *)
LEMMA SampleKeeps ==
  ASSUME IInv, RoundTypeOK, RInv, NEW c \in Mmaps, Sample(c) PROVE RInv'
<1>1. /\ ring' = [ring EXCEPT ![c] = Append(@, clock)]
      /\ UNCHANGED <<vars, clock, passVars>>
  BY DEF Sample
<1>2. ASSUME NEW d \in Mmaps, NEW i \in 1 .. Len(ring'[d])
      PROVE  \/ i \in 1 .. Len(ring[d]) /\ ring'[d][i] = ring[d][i]
             \/ ring'[d][i] = clock
  <2>1. ring \in [Mmaps -> Seq(Timestamps)]
    BY DEF RoundTypeOK
  <2>2. CASE d = c
    <3>1. ring'[d] = Append(ring[c], clock)
      BY <1>1, <2>1, <2>2
    <3>2. ring[c] \in Seq(Timestamps)
      BY <2>1
    <3> QED
      BY <1>2, <2>2, <3>1, <3>2
  <2>3. CASE d # c
    BY <1>1, <1>2, <2>1, <2>3
  <2> QED
    BY <2>2, <2>3
<1>3. TimeInv'
  <2>1. /\ prevStart' <= passStart' /\ passStart' <= clock'
        /\ \A i \in 1 .. Len(batch') : batch'[i] <= clock'
        /\ max_timestamp' <= clock'
    BY <1>1 DEF RInv, TimeInv, vars, oeVars, passVars
  <2>2. ASSUME NEW d \in Mmaps, NEW i \in 1 .. Len(ring'[d]) PROVE ring'[d][i] <= clock'
    BY <1>1, <1>2, <2>2, RoundFacts, SMTT(30) DEF RInv, TimeInv
  <2> QED
    BY <2>1, <2>2 DEF TimeInv
<1>4. RingInv'
  <2>1. /\ \A i \in 1 .. Len(batch') : batch'[i] >= prevStart'
        /\ batch' # <<>> => cpu' > 1
    BY <1>1 DEF RInv, RingInv, vars, oeVars, passVars
  <2>2. ASSUME NEW d \in Mmaps, NEW i \in 1 .. Len(ring'[d])
        PROVE  ring'[d][i] >= IF cpu' = 1 \/ d < cpu' THEN passStart' ELSE prevStart'
    <3>1. UNCHANGED <<cpu, passStart, prevStart>>
      BY <1>1 DEF passVars
    <3>2. prevStart <= passStart /\ passStart <= clock
      BY DEF RInv, TimeInv
    <3>3. CASE ring'[d][i] = clock
      BY <3>1, <3>2, <3>3, RoundFacts
    <3>4. CASE i \in 1 .. Len(ring[d]) /\ ring'[d][i] = ring[d][i]
      BY <3>1, <3>4 DEF RInv, RingInv
    <3> QED
      BY <1>2, <2>2, <3>3, <3>4
  <2> QED
    BY <2>1, <2>2 DEF RingInv
<1>5. FlushInv'
  BY <1>1 DEF RInv, FlushInv, Bound, vars, oeVars, sessionVars, passVars
<1>6. MarkInv'
  BY <1>1 DEF RInv, MarkInv, vars, oeVars, sessionVars, passVars
<1> QED
  BY <1>3, <1>4, <1>5, <1>6 DEF RInv

(* A buffer is read; with the first one a new pass starts. *)
LEMMA ReadRingKeeps ==
  ASSUME IInv, RoundTypeOK, RInv, ReadRing PROVE RInv'
<1>1. /\ pc = "read" /\ cpu \in Mmaps
      /\ batch' = ring[cpu] /\ ring' = [ring EXCEPT ![cpu] = <<>>] /\ cpu' = cpu + 1
      /\ UNCHANGED <<vars, clock, mark, prevMark>>
  BY DEF ReadRing
<1>2. /\ cpu = 1 => passStart' = clock /\ prevStart' = passStart
      /\ cpu # 1 => passStart' = passStart /\ prevStart' = prevStart
  BY DEF ReadRing
<1>3. ASSUME NEW d \in Mmaps, NEW i \in 1 .. Len(ring'[d])
      PROVE  d # cpu /\ i \in 1 .. Len(ring[d]) /\ ring'[d][i] = ring[d][i]
  BY <1>1, <1>3 DEF RoundTypeOK
<1>4. prevStart <= passStart /\ passStart <= clock
  BY DEF RInv, TimeInv
<1>5. TimeInv'
  <2>1. prevStart' <= passStart' /\ passStart' <= clock'
    BY <1>1, <1>2, <1>4, RoundFacts
  <2>2. max_timestamp' <= clock'
    BY <1>1 DEF RInv, TimeInv, vars, oeVars
  <2>3. \A i \in 1 .. Len(batch') : batch'[i] <= clock'
    BY <1>1 DEF RInv, TimeInv
  <2>4. ASSUME NEW d \in Mmaps, NEW i \in 1 .. Len(ring'[d]) PROVE ring'[d][i] <= clock'
    BY <1>1, <1>3, <2>4 DEF RInv, TimeInv
  <2> QED
    BY <2>1, <2>2, <2>3, <2>4 DEF TimeInv
<1>6. RingInv'
  <2>1. cpu' > 1 /\ cpu' # 1
    BY <1>1, RoundFacts
  <2>2. ASSUME NEW i \in 1 .. Len(batch') PROVE batch'[i] >= prevStart'
    <3>1. i \in 1 .. Len(ring[cpu]) /\ batch'[i] = ring[cpu][i]
      BY <1>1, <2>2
    <3>2. ring[cpu][i] >= IF cpu = 1 THEN passStart ELSE prevStart
      BY <1>1, <3>1, RoundFacts, SMTT(30) DEF RInv, RingInv
    <3> QED
      BY <1>2, <3>1, <3>2
  <2>3. ASSUME NEW d \in Mmaps, NEW i \in 1 .. Len(ring'[d])
        PROVE  ring'[d][i] >= IF cpu' = 1 \/ d < cpu' THEN passStart' ELSE prevStart'
    <3>1. /\ d # cpu /\ i \in 1 .. Len(ring[d]) /\ ring'[d][i] = ring[d][i]
          /\ d \in Nat /\ d > 0 /\ cpu \in Nat
      BY <1>3, <2>3, RoundFacts DEF Mmaps
    <3>2. ring[d][i] >= IF cpu = 1 \/ d < cpu THEN passStart ELSE prevStart
      BY <3>1 DEF RInv, RingInv
    <3>3. CASE cpu = 1
      <4>1. ~(cpu' = 1 \/ d < cpu')
        BY <1>1, <3>1, <3>3
      <4> QED
        BY <1>2, <3>1, <3>2, <3>3, <4>1
    <3>4. CASE cpu # 1
      <4>1. (cpu' = 1 \/ d < cpu') <=> d < cpu
        BY <1>1, <2>1, <3>1
      <4> QED
        BY <1>2, <3>1, <3>2, <3>4, <4>1
    <3> QED
      BY <3>3, <3>4
  <2> QED
    BY <2>1, <2>2, <2>3 DEF RingInv
<1>7. FlushInv'
  <2>1. UNCHANGED <<pc, how, next_flush, last_flush, nr_unordered_events>> /\ cpu' # 1
    BY <1>1, RoundFacts DEF vars, oeVars, sessionVars
  <2>2. /\ next_flush <= IF cpu = 1 THEN clock ELSE passStart
        /\ last_flush <= IF cpu = 1 THEN passStart ELSE prevStart
        /\ nr_unordered_events = 0
    BY <1>1 DEF RInv, FlushInv, Bound
  <2> QED
    BY <1>1, <1>2, <2>1, <2>2 DEF FlushInv, Bound
<1>8. MarkInv'
  BY <1>1 DEF RInv, MarkInv, vars, oeVars, sessionVars
<1> QED
  BY <1>5, <1>6, <1>7, <1>8 DEF RInv

(* The list is sorted, so no event on it is later than max_timestamp. *)
LEMMA BelowMax ==
  ASSUME IInv, NEW i \in 1 .. Len(events)
  PROVE  events[i].timestamp <= max_timestamp
<1>1. Len(events) \in Nat /\ events # <<>> /\ Len(events) \in 1 .. Len(events)
  BY ListFacts
<1>2. max_timestamp = events[Len(events)].timestamp
  BY <1>1 DEF IInv, MaxTimestampIsTail
<1>3. events[i].timestamp \in Nat /\ events[Len(events)].timestamp \in Nat
  BY <1>1, ListFacts
<1>4. CASE i = Len(events)
  BY <1>2, <1>3, <1>4
<1>5. CASE i # Len(events)
  <2>1. Before(events[i], events[Len(events)])
    BY <1>1, <1>5 DEF IInv, QueueSorted
  <2> QED
    BY <1>2, <1>3, <2>1 DEF Before
<1> QED
  BY <1>4, <1>5

(* A pass that read nothing. *)
LEMMA EmptyPassKeeps ==
  ASSUME IInv, RoundTypeOK, RInv, EmptyPass PROVE RInv'
<1>1. /\ pc = "read" /\ cpu = NrMmaps + 1 /\ cpu' = 1 /\ batch = <<>>
      /\ UNCHANGED <<vars, kernelVars, batch, passStart, prevStart, mark, prevMark>>
  BY DEF EmptyPass
<1>2. cpu > 1 /\ \A c \in Mmaps : c < cpu
  BY <1>1, RoundFacts DEF Mmaps
<1>3. TimeInv'
  BY <1>1 DEF RInv, TimeInv, kernelVars, vars, oeVars
<1>4. RingInv'
  BY <1>1, <1>2 DEF RInv, RingInv, kernelVars
<1>5. FlushInv'
  <2>1. /\ next_flush <= passStart /\ last_flush <= prevStart
        /\ nr_unordered_events = 0
        /\ prevStart <= passStart /\ passStart <= clock
    BY <1>1, <1>2, RoundFacts DEF RInv, FlushInv, Bound, TimeInv
  <2>2. /\ UNCHANGED <<pc, how, next_flush, last_flush, nr_unordered_events>>
        /\ UNCHANGED <<clock, passStart>>
    BY <1>1 DEF vars, oeVars, sessionVars, kernelVars
  <2> QED
    BY <1>1, <2>1, <2>2, RoundFacts DEF FlushInv, Bound
<1>6. MarkInv'
  BY <1>1 DEF RInv, MarkInv, vars, oeVars, sessionVars
<1> QED
  BY <1>3, <1>4, <1>5, <1>6 DEF RInv

(* FINISHED_ROUND: what the flush is to remove is within its limit. *)
LEMMA FinishPassKeeps ==
  ASSUME IInv, RoundTypeOK, RInv, FinishPass PROVE RInv'
<1>1. /\ pc = "read" /\ cpu = NrMmaps + 1 /\ cpu' = 1 /\ batch = <<>>
      /\ nread' = nread + 1 /\ session_done' = session_done
      /\ BeginFlush("ROUND", AfterRecord)
      /\ UNCHANGED <<events, max_timestamp, last_flush, nr_unordered_events>>
      /\ prevMark' = mark /\ mark' = nread + 1
      /\ UNCHANGED <<kernelVars, batch, passStart, prevStart>>
  BY DEF FinishPass, process_finished_round, NextRecord, queueVars
<1>2. cpu > 1 /\ \A c \in Mmaps : c < cpu
  BY <1>1, RoundFacts DEF Mmaps
<1>3. TimeInv'
  BY <1>1 DEF RInv, TimeInv, kernelVars
<1>4. RingInv'
  BY <1>1, <1>2 DEF RInv, RingInv, kernelVars
<1>5. /\ next_flush <= passStart /\ last_flush <= prevStart
      /\ nr_unordered_events = 0
      /\ prevStart <= passStart /\ passStart <= clock
      /\ max_timestamp <= clock
  BY <1>1, <1>2, RoundFacts DEF RInv, FlushInv, Bound, TimeInv
<1>6. \A i \in 1 .. Len(events) :
        events[i].id <= mark => events[i].timestamp <= next_flush
  BY <1>1 DEF RInv, MarkInv
<1>7. prevMark' <= mark' /\ mark' <= nread'
  BY <1>1, RoundFacts DEF RInv, MarkInv
<1>8. CASE nr_events = 0 /\ AfterRecord /\ UNCHANGED <<how, next_flush>>
  <2>1. events = <<>> /\ events' = <<>> /\ pc' # "flush"
    <3>1. events \in Seq(Event) /\ Len(events) = 0
      BY <1>8 DEF IInv, TypeOK
    <3>2. events = <<>>
      BY <3>1
    <3>3. pc' # "flush"
      BY <1>8 DEF AfterRecord
    <3> QED
      BY <1>1, <3>2, <3>3
  <2>2. FlushInv'
    BY <1>1, <1>5, <1>8, <2>1, RoundFacts DEF FlushInv, Bound, kernelVars
  <2>3. MarkInv'
    BY <1>7, <2>1 DEF MarkInv
  <2> QED
    BY <1>3, <1>4, <2>2, <2>3 DEF RInv
<1>9. CASE /\ FlushLimit("ROUND") = 0 /\ AfterRecord
           /\ next_flush' = NextFlushAfter("ROUND", FALSE)
  <2>1. next_flush = 0 /\ next_flush' = max_timestamp /\ pc' # "flush"
    BY <1>9 DEF FlushLimit, NextFlushAfter, AfterRecord
  <2>2. FlushInv'
    BY <1>1, <1>5, <2>1, RoundFacts DEF FlushInv, Bound, kernelVars
  <2>3. ASSUME NEW i \in 1 .. Len(events)
        PROVE  events[i].id > mark /\ events[i].timestamp <= max_timestamp
    <3>1. events[i].timestamp > 0
      <4>1. events[i] \in Event
        BY ListFacts
      <4>2. events[i].timestamp \in Timestamps
        BY <4>1 DEF Event
      <4> QED
        BY <4>2, TimeFacts
    <3>2. events[i].timestamp \in Nat /\ events[i].id \in Nat
      BY ListFacts
    <3>3. events[i].id <= mark => events[i].timestamp <= 0
      BY <1>6, <2>1
    <3>4. ~(events[i].id <= mark)
      BY <3>1, <3>2, <3>3
    <3> QED
      BY <3>2, <3>4, BelowMax, RoundFacts, SMTT(30)
  <2>4. MarkInv'
    BY <1>1, <1>7, <2>1, <2>3 DEF MarkInv
  <2> QED
    BY <1>3, <1>4, <2>2, <2>4 DEF RInv
<1>10. CASE pc' = "flush" /\ how' = "ROUND" /\ next_flush' = FlushLimit("ROUND")
  <2>1. next_flush' = next_flush
    BY <1>10 DEF FlushLimit
  <2>2. FlushInv'
    BY <1>1, <1>5, <1>10, <2>1, RoundFacts DEF FlushInv, Bound, kernelVars
  <2>3. MarkInv'
    BY <1>1, <1>6, <1>7, <1>10, <2>1 DEF MarkInv
  <2> QED
    BY <1>3, <1>4, <2>2, <2>3 DEF RInv
<1> QED
  BY <1>1, <1>8, <1>9, <1>10 DEF BeginFlush

(* An event that was read is not behind the last flush. *)
LEMMA ProcessRecordKeeps ==
  ASSUME IInv, RoundTypeOK, RInv, ~MallocMayFail, ProcessRecord PROVE RInv'
<1>1. PICK sz \in Sizes : QueueEventAt(Head(batch), sz)
  BY DEF ProcessRecord
<1> DEFINE t == Head(batch)
<1> DEFINE e == [id |-> nread + 1, timestamp |-> t, size |-> sz]
<1>2. /\ batch # <<>> /\ batch' = Tail(batch)
      /\ UNCHANGED <<clock, ring, cpu, passStart, prevStart, mark, prevMark>>
  BY DEF ProcessRecord, kernelVars
<1>3. /\ t \in Timestamps /\ t = batch[1] /\ Len(batch) \in Nat /\ Len(batch) > 0
      /\ Len(batch') = Len(batch) - 1
      /\ \A i \in 1 .. Len(batch') : i + 1 \in 1 .. Len(batch) /\ batch'[i] = batch[i + 1]
  BY <1>2 DEF RoundTypeOK
<1>4. t \in Nat /\ prevStart <= t /\ t <= clock /\ cpu > 1
  <2>1. 1 \in 1 .. Len(batch)
    BY <1>3
  <2>2. batch[1] \in Nat
    BY <2>1, RoundFacts
  <2> QED
    BY <1>2, <1>3, <2>1, <2>2, RoundFacts DEF RInv, RingInv, TimeInv
<1>5. e \in Event /\ e.id = nread + 1 /\ e.timestamp = t
  BY <1>3, RoundFacts DEF Event
<1>6. /\ pc = "read" /\ nread' = nread + 1 /\ last_flush' = last_flush
      /\ CountUnordered(e)
      /\ \/ ordered_events__new_event(e) /\ AfterRecord /\ UNCHANGED next_flush
         \/ NewEventFails(e)
         \/ NewEventCrashes(e) /\ pc' = "crashed" /\ UNCHANGED next_flush
  BY <1>1 DEF QueueEventAt, NextRecord
<1> HIDE DEF e, t
<1>7. ~NewEventFails(e)
  BY SessionAssumption DEF NewEventFails, AllocReturnsNull, DupAllowed
<1>8. last_flush <= prevStart /\ next_flush <= passStart /\ nr_unordered_events = 0
  BY <1>4, <1>6, RoundFacts DEF RInv, FlushInv, Bound
<1>9. nr_unordered_events' = 0
  <2>1. ~(e.timestamp < last_flush)
    BY <1>4, <1>5, <1>8, RoundFacts
  <2> QED
    BY <1>6, <1>8, <2>1 DEF CountUnordered
<1>10. max_timestamp' <= clock'
  <2>1. max_timestamp <= clock
    BY DEF RInv, TimeInv
  <2>2. max_timestamp' \in {e.timestamp, max_timestamp}
    BY <1>6, <1>7 DEF ordered_events__new_event, queue_event, NewEventCrashes, queueVars
  <2> QED
    BY <1>2, <1>4, <1>5, <2>1, <2>2
<1>11. TimeInv'
  <2>1. \A i \in 1 .. Len(batch') : batch'[i] <= clock'
    BY <1>2, <1>3 DEF RInv, TimeInv
  <2> QED
    BY <1>2, <1>10, <2>1 DEF RInv, TimeInv
<1>12. RingInv'
  <2>1. \A i \in 1 .. Len(batch') : batch'[i] >= prevStart'
    BY <1>2, <1>3 DEF RInv, RingInv
  <2> QED
    BY <1>2, <1>4, <2>1 DEF RInv, RingInv
<1>13. FlushInv'
  <2>1. pc' # "flush" /\ next_flush' = next_flush
    BY <1>6, <1>7 DEF AfterRecord
  <2> QED
    BY <1>2, <1>4, <1>6, <1>8, <1>9, <2>1, RoundFacts DEF FlushInv, Bound
<1>14. MarkInv'
  <2>1. prevMark' <= mark' /\ mark' <= nread' /\ prevMark <= mark /\ mark <= nread
    BY <1>2, <1>6, RoundFacts DEF RInv, MarkInv
  <2>2. CASE ordered_events__new_event(e) /\ AfterRecord /\ UNCHANGED next_flush
    <3>1. \A i \in 1 .. Len(events) : events[i].id < e.id
      BY <1>5, ListFacts, RoundFacts, SMTT(30)
    <3>2. Range(events') = Range(events) \cup {e}
      BY <1>5, <2>2, <3>1, NewEventStep
    <3>3. ASSUME NEW f \in Range(events)
          PROVE  f.id > prevMark /\ (f.id <= mark => f.timestamp <= next_flush)
      BY <1>6, <3>3 DEF RInv, MarkInv, Range
    <3>4. e.id > prevMark /\ ~(e.id <= mark)
      BY <1>5, <2>1, RoundFacts
    <3>5. ASSUME NEW i \in 1 .. Len(events')
          PROVE  events'[i].id > prevMark /\ (events'[i].id <= mark => events'[i].timestamp <= next_flush)
      <4>1. events'[i] \in Range(events')
        BY <3>5 DEF Range
      <4> QED
        BY <3>2, <3>3, <3>4, <4>1
    <3> QED
      BY <1>2, <2>1, <2>2, <3>5 DEF MarkInv, AfterRecord
  <2>3. CASE pc' = "crashed"
    BY <2>1, <2>3 DEF MarkInv
  <2> QED
    BY <1>6, <1>7, <2>2, <2>3
<1> QED
  BY <1>11, <1>12, <1>13, <1>14 DEF RInv

(* One event is delivered: no flush goes beyond its limit. *)
LEMMA FlushDeliverKeeps ==
  ASSUME IInv, RoundTypeOK, RInv, ~MallocMayFail, FlushDeliver,
         UNCHANGED <<kernelVars, passVars>>
  PROVE  RInv'
<1>1. /\ pc = "flush" /\ events # <<>> /\ ~(Head(events).timestamp > next_flush)
      /\ events' = Tail(events) /\ last_flush' = Head(events).timestamp
      /\ UNCHANGED <<pc, how, nread, max_timestamp, next_flush, nr_unordered_events>>
  BY DEF FlushDeliver, FlushExhausted, ordered_events__delete, sessionVars
<1>2. UNCHANGED <<clock, ring, cpu, batch, passStart, prevStart, mark, prevMark>>
  BY DEF kernelVars, passVars
<1>3. /\ Len(events) \in Nat /\ Len(events) > 0 /\ Head(events) = events[1]
      /\ Len(events') = Len(events) - 1
      /\ \A i \in 1 .. Len(events') : i + 1 \in 1 .. Len(events) /\ events'[i] = events[i + 1]
  BY <1>1 DEF IInv, TypeOK
<1>4. last_flush' \in Nat /\ last_flush' <= next_flush
  <2>1. events[1].timestamp \in Nat
    BY <1>3, ListFacts
  <2> QED
    BY <1>1, <1>3, <2>1, RoundFacts, SMTT(30)
<1>5. TimeInv' /\ RingInv'
  BY <1>1, <1>2 DEF RInv, TimeInv, RingInv
<1>6. FlushInv'
  <2>1. how = "ROUND" => cpu = 1 /\ next_flush <= passStart
    BY <1>1 DEF RInv, FlushInv
  <2>2. nr_unordered_events = 0
    BY DEF RInv, FlushInv
  <2>3. how = "ROUND" => last_flush' <= passStart
    BY <1>4, <2>1, RoundFacts
  <2> QED
    BY <1>1, <1>2, <2>1, <2>2, <2>3 DEF FlushInv, Bound
<1>7. MarkInv'
  BY <1>1, <1>2, <1>3 DEF RInv, MarkInv
<1> QED
  BY <1>5, <1>6, <1>7 DEF RInv

(* A round that ran to its end has removed what was read before the last   *)
(* FINISHED_ROUND but one.                                                 *)
LEMMA FlushEndsKeeps ==
  ASSUME IInv, RoundTypeOK, RInv, ~MallocMayFail, FlushEnds,
         UNCHANGED <<kernelVars, passVars>>
  PROVE  RInv'
<1>1. /\ pc = "flush" /\ FlushExhausted
      /\ FlushReturns(FALSE)
      /\ UNCHANGED <<events, max_timestamp, last_flush, nr_unordered_events, how,
                     nread, session_done>>
  BY DEF FlushEnds
<1>2. UNCHANGED <<clock, ring, cpu, batch, passStart, prevStart, mark, prevMark>>
  BY DEF kernelVars, passVars
<1>3. TimeInv' /\ RingInv'
  BY <1>1, <1>2 DEF RInv, TimeInv, RingInv
<1>4. pc' # "flush" /\ (pc' = "read" => how = "ROUND")
  <2>1. how \in {"FINAL", "ROUND", "HALF"}
    BY DEF IInv, TypeOK, FlushKinds
  <2>2. pc' # "flush"
    BY <1>1, FlushReturnsStep
  <2>3. how = "FINAL" => pc' = "teardown"
    BY <1>1 DEF FlushReturns
  <2>4. how = "HALF" => pc' = "retry"
    BY <1>1 DEF FlushReturns
  <2> QED
    BY <2>1, <2>2, <2>3, <2>4
<1>5. CASE pc' # "read"
  <2>1. FlushInv'
    BY <1>1, <1>4, <1>5 DEF RInv, FlushInv
  <2>2. MarkInv'
    BY <1>1, <1>2, <1>4, <1>5 DEF RInv, MarkInv
  <2> QED
    BY <1>3, <2>1, <2>2 DEF RInv
<1>6. CASE pc' = "read"
  <2>1. /\ how = "ROUND" /\ cpu = 1 /\ last_flush <= passStart
        /\ next_flush' = max_timestamp /\ max_timestamp <= clock
        /\ nr_unordered_events = 0
    BY <1>1, <1>4, <1>6 DEF RInv, FlushInv, TimeInv, Bound, FlushReturns, NextFlushAfter
  <2>2. FlushInv'
    BY <1>1, <1>2, <1>4, <2>1 DEF FlushInv, Bound
  <2>3. ASSUME NEW i \in 1 .. Len(events)
        PROVE  events[i].id > prevMark /\ events[i].timestamp <= max_timestamp
    <3>1. /\ Len(events) \in Nat /\ 1 \in 1 .. Len(events) /\ events # <<>>
          /\ events[i].timestamp \in Nat /\ events[1].timestamp \in Nat
          /\ events[i].id \in Nat
      BY ListFacts
    <3>2. events[1].timestamp > next_flush
      <4>1. Head(events) = events[1]
        BY <3>1 DEF IInv, TypeOK
      <4> QED
        BY <1>1, <3>1, <4>1 DEF FlushExhausted
    <3>3. events[1].timestamp <= events[i].timestamp
      <4>1. CASE i = 1
        BY <4>1, <3>1
      <4>2. CASE i # 1
        <5>1. Before(events[1], events[i])
          BY <3>1, <4>2 DEF IInv, QueueSorted
        <5> QED
          BY <3>1, <5>1 DEF Before
      <4> QED
        BY <4>1, <4>2
    <3>n. next_flush \in Nat /\ max_timestamp \in Nat /\ prevMark \in Nat
      BY RoundFacts
    <3>4. ~(events[i].timestamp <= next_flush)
      BY <3>1, <3>2, <3>3, <3>n
    <3>5. events[i].id <= prevMark => events[i].timestamp <= next_flush
      BY <1>1, <2>1 DEF RInv, MarkInv
    <3>6. events[i].timestamp <= max_timestamp
      BY BelowMax
    <3> QED
      BY <3>1, <3>4, <3>5, <3>6, <3>n
  <2>4. MarkInv'
    BY <1>1, <1>2, <1>4, <2>1, <2>3 DEF RInv, MarkInv
  <2> QED
    BY <1>3, <2>2, <2>4 DEF RInv
<1> QED
  BY <1>5, <1>6

(* The steps that lead out of the loop, or leave the list alone. *)
LEMMA OtherStepsKeep ==
  ASSUME IInv, RoundTypeOK, RInv, ~MallocMayFail, UNCHANGED <<kernelVars, passVars>>,
         \/ EndOfData \/ FlushInterrupted \/ FlushDeliverFails \/ RetryQueue
         \/ FinalFlush \/ Teardown \/ SetSessionDone \/ UNCHANGED vars
  PROVE  RInv'
<1>1. UNCHANGED <<clock, ring, cpu, batch, passStart, prevStart, mark, prevMark>>
  BY DEF kernelVars, passVars
<1>2. CASE SetSessionDone \/ UNCHANGED vars
  BY <1>1, <1>2 DEF RInv, TimeInv, RingInv, FlushInv, MarkInv, Bound, SetSessionDone,
                    vars, oeVars, sessionVars
<1>3. ASSUME \/ EndOfData \/ FlushInterrupted \/ FlushDeliverFails
             \/ FinalFlush \/ Teardown
      PROVE  RInv'
  <2>1. nread' = nread
    BY <1>3 DEF EndOfData, FlushInterrupted, FlushDeliverFails, FinalFlush, Teardown
  <2>2. \/ UNCHANGED <<max_timestamp, nr_unordered_events>>
        \/ max_timestamp' = 0 /\ nr_unordered_events' = 0
    BY <1>3 DEF EndOfData, FlushInterrupted, FlushDeliverFails, FinalFlush, Teardown,
                ordered_events__reinit, oeVars, queueVars
  <2>3. pc' # "read" /\ (pc' = "flush" => how' = "FINAL")
    <3>1. CASE EndOfData \/ Teardown
      BY <3>1 DEF EndOfData, Teardown
    <3>2. CASE FinalFlush
      BY <3>2 DEF FinalFlush, BeginFlush
    <3>3. CASE FlushInterrupted
      <4>1. FlushReturns(FALSE) /\ session_done
        BY <3>3 DEF FlushInterrupted
      <4> QED
        BY <4>1, FlushReturnsStep
    <3>4. CASE FlushDeliverFails
      <4>1. FlushReturns(TRUE) /\ how \in {"FINAL", "ROUND", "HALF"}
        BY <3>4 DEF FlushDeliverFails, IInv, TypeOK, FlushKinds
      <4>2. pc' \in {"retry", "teardown"}
        BY <4>1 DEF FlushReturns
      <4> QED
        BY <4>2
    <3> QED
      BY <1>3, <3>1, <3>2, <3>3, <3>4
  <2>4. TimeInv'
    BY <1>1, <2>2, RoundFacts DEF RInv, TimeInv
  <2>5. RingInv'
    BY <1>1 DEF RInv, RingInv
  <2>6. FlushInv'
    BY <2>2, <2>3 DEF RInv, FlushInv
  <2>7. MarkInv'
    BY <1>1, <2>1, <2>3 DEF RInv, MarkInv
  <2> QED
    BY <2>4, <2>5, <2>6, <2>7 DEF RInv
<1>4. ~RetryQueue
  BY DEF RetryQueue, IInv, IdsInv
<1> QED
  BY <1>2, <1>3, <1>4

LEMMA RoundStepKeeps ==
  ASSUME IInv, RoundTypeOK, RInv, ~MallocMayFail, [RoundNext]_roundVars
  PROVE  RInv'
<1>1. CASE EndOfRecording
  BY <1>1, OtherStepsKeep DEF EndOfRecording
<1>2. CASE SessionStep
  <2>1. UNCHANGED <<kernelVars, passVars>>
    BY <1>2 DEF SessionStep
  <2>2. CASE FlushDeliver
    BY <2>1, <2>2, FlushDeliverKeeps
  <2>3. CASE FlushEnds
    BY <2>1, <2>3, FlushEndsKeeps
  <2>4. CASE \/ FlushInterrupted \/ FlushDeliverFails \/ RetryQueue
             \/ FinalFlush \/ Teardown \/ SetSessionDone \/ Ended
    BY <2>1, <2>4, OtherStepsKeep DEF Ended
  <2> QED
    BY <1>2, <2>2, <2>3, <2>4 DEF SessionStep, Flush
<1>3. CASE UNCHANGED roundVars
  BY <1>3, OtherStepsKeep DEF roundVars
<1> QED
  BY <1>1, <1>2, <1>3, TickKeeps, SampleKeeps, ReadRingKeeps, FinishPassKeeps,
     EmptyPassKeeps, ProcessRecordKeeps DEF RoundNext

(* The inductive invariant of the composition. *)
THEOREM RoundInvariant == ASSUME ~MallocMayFail PROVE RoundSpec => []RInv
<1>1. RoundInit => RInv
  BY DEF RoundInit, Init, ordered_events__init, RInv, TimeInv, RingInv, FlushInv,
         MarkInv, Bound
<1>2. IInv /\ RoundTypeOK /\ RInv /\ [RoundNext]_roundVars => RInv'
  BY RoundStepKeeps
<1> QED
  BY <1>1, <1>2, RoundTypeCorrect, PTL DEF RoundSpec

(* With one clock and enough memory "out of order events recorded" is      *)
(* never reported, whatever the number of CPUs and the load: the argument  *)
(* of the comment above process_finished_round().                          *)
THEOREM RoundsKeepOrder == RoundSpec => []NoneOutOfOrder
<1>1. CASE MallocMayFail
  <2>1. NoneOutOfOrder
    BY <1>1 DEF NoneOutOfOrder
  <2> QED
    BY <2>1, PTL
<1>2. CASE ~MallocMayFail
  <2>1. RInv => NoneOutOfOrder
    BY DEF RInv, FlushInv, NoneOutOfOrder
  <2> QED
    BY <1>2, <2>1, RoundInvariant, PTL
<1> QED
  BY <1>1, <1>2

(* The queue holds at most the last complete round and the current one.    *)
THEOREM RoundsBoundQueue == RoundSpec => []QueueHoldsTwoRounds
<1>1. CASE MallocMayFail
  <2>1. QueueHoldsTwoRounds
    BY <1>1 DEF QueueHoldsTwoRounds
  <2> QED
    BY <2>1, PTL
<1>2. CASE ~MallocMayFail
  <2>1. RInv => QueueHoldsTwoRounds
    BY DEF RInv, MarkInv, QueueHoldsTwoRounds
  <2> QED
    BY <1>2, <2>1, RoundInvariant, PTL
<1> QED
  BY <1>1, <1>2

LEMMA AllTimedStep ==
  ASSUME IInv, AllTimed, [RoundNext]_roundVars
  PROVE  AllTimed'
<1>1. CASE FlushDeliver
  <2> DEFINE d == Shown(Head(events), nread)
  <2>1. /\ events # <<>> /\ events \in Seq(Event) /\ delivered' = Append(delivered, d)
    BY <1>1 DEF FlushDeliver, FlushExhausted, IInv, TypeOK
  <2>2. Head(events) \in Event
    BY <2>1
  <2>3. d.timestamp \in Timestamps
    BY <2>2 DEF Shown, Event
  <2>4. delivered \in Seq([id : Nat, timestamp : Nat, data : Nat])
    BY DEF IInv, TypeOK
  <2> HIDE DEF d
  <2>5. /\ Len(delivered) \in Nat /\ Len(delivered') = Len(delivered) + 1
        /\ delivered'[Len(delivered) + 1] = d
        /\ \A i \in 1 .. Len(delivered) : delivered'[i] = delivered[i]
    BY <2>1, <2>4
  <2> QED
    BY <2>3, <2>5 DEF AllTimed
<1>2. CASE UNCHANGED delivered
  BY <1>2 DEF AllTimed
<1>3. FlushDeliver \/ UNCHANGED delivered
  <2>1. \/ UNCHANGED vars \/ process_finished_round
        \/ (\E sz \in Sizes : QueueEventAt(Head(batch), sz)) \/ EndOfData
        \/ Flush \/ RetryQueue \/ FinalFlush \/ Teardown \/ SetSessionDone
    BY DEF RoundNext, Tick, Sample, ReadRing, FinishPass, EmptyPass, ProcessRecord,
           EndOfRecording, SessionStep, Ended, roundVars
  <2> QED
    BY <2>1 DEF QueueEventAt, process_finished_round, EndOfData, Flush, FlushInterrupted,
                FlushDeliverFails, FlushEnds, RetryQueue, FinalFlush, Teardown,
                SetSessionDone, vars, oeVars
<1> QED
  BY <1>1, <1>2, <1>3

(* The recording reaches the tool in time order, ties in the order they    *)
(* were written: no order of the CPUs' buffers, no gap between passes and  *)
(* no interrupted flush can change that.                                   *)
THEOREM RecordingDeliveredInOrder == RoundSpec => []RecordingInOrder
<1>1. RoundInit => AllTimed
  BY DEF RoundInit, Init, AllTimed
<1>2. IInv /\ AllTimed /\ [RoundNext]_roundVars => AllTimed'
  BY AllTimedStep
<1>3. RoundSpec => []AllTimed
  BY <1>1, <1>2, RoundTypeCorrect, PTL DEF RoundSpec
<1>4. IInv /\ AllTimed /\ NoneOutOfOrder /\ DeliveredInOrder => RecordingInOrder
  BY DEF AllTimed, NoneOutOfOrder, DeliveredInOrder, RecordingInOrder, IInv, IdsInv
<1> QED
  BY <1>3, <1>4, RoundsKeepOrder, RoundImplementsSession, SessionInvariant, DeliveryOrder, PTL
=============================================================================
