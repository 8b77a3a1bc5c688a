----------------------------- MODULE LockStats -----------------------------
(* perf lock report (tools/perf/builtin-lock.c): the events of the kernel's  *)
(* locks are put together, for each thread and lock, to sequences from       *)
(* acquire to release, and waiting times are counted.  Next to it are the    *)
(* threads that take the locks: their events are seen from some point on,    *)
(* in the order in which they happen, and may be lost.                       *)
EXTENDS Naturals, FiniteSets

CONSTANTS
  Threads, Locks,
  Flags,          \* how locks are taken: "none", "read" (READ_LOCK), "try" (TRY_LOCK)
  Midway,         \* where threads may be when the recording begins
  MaxTime,        \* bound: events
  MaxLost         \* bound: events lost

VARIABLES
  phase,          \* where each thread is with each lock
  flag,           \* how it took it
  depth,          \* how often it holds it for reading
  asked,          \* its acquire was seen
  since,          \* when its wait began, 0 if that was not seen
  time, lost,
  seq,            \* lock_seq_stat of each thread and lock
  ls,             \* lock_stat of each lock
  waits, waited,  \* history: the waits that were seen, and their sum
  taken,          \* history: how often a lock was taken, the acquire seen
  missed,         \* history: events of a thread and lock lost since one was seen
  gap,            \* history: three or more of them, before one was seen
  aborted         \* BUG_ON

vars == <<phase, flag, depth, asked, since, time, lost, seq, ls, waits, waited, taken,
          missed, gap, aborted>>

NoSeq == [state |-> "UNINITIALIZED", prev |-> 0, read_count |-> 0]

(* wait_time_min starts at ULLONG_MAX. *)
Far == MaxTime + 1

NoStat == [nr_acquire |-> 0, nr_acquired |-> 0, nr_contended |-> 0, nr_release |-> 0,
           nr_readlock |-> 0, nr_trylock |-> 0, avg |-> 0, total |-> 0, min |-> Far, max |-> 0,
           discard |-> FALSE]

Init ==
  /\ phase \in [Threads \X Locks -> Midway]
  /\ \A l \in Locks : Cardinality({t \in Threads : phase[t, l] = "held"}) <= 1
  /\ flag = [p \in Threads \X Locks |-> IF phase[p] = "reading" THEN "read" ELSE "none"]
  /\ depth = [p \in Threads \X Locks |-> IF phase[p] = "reading" THEN 1 ELSE 0]
  /\ asked = [p \in Threads \X Locks |-> FALSE]
  /\ since = [p \in Threads \X Locks |-> 0]
  /\ time = 1 /\ lost = 0
  /\ seq = [p \in Threads \X Locks |-> NoSeq]
  /\ ls = [l \in Locks |-> NoStat]
  /\ waits = [l \in Locks |-> {}] /\ waited = [l \in Locks |-> 0]
  /\ missed = [p \in Threads \X Locks |-> 0] /\ gap = [l \in Locks |-> FALSE]
  /\ taken = [l \in Locks |-> 0]
  /\ aborted = FALSE

(* ------------------------------ perf lock ------------------------------- *)

(* A broken sequence: the lock is not reported at all. *)
Broken(p) ==
  /\ ls' = [ls EXCEPT ![p[2]].discard = TRUE]
  /\ seq' = [seq EXCEPT ![p] = NoSeq]

Note(p, s, stat) ==
  /\ seq' = [seq EXCEPT ![p] = s]
  /\ ls' = [ls EXCEPT ![p[2]] = stat]

(* report_lock_acquire_event() *)
Acquire(p, f) ==
  LET s == seq[p]
      st == ls[p[2]]
  IN CASE s.state \in {"UNINITIALIZED", "RELEASED"} /\ f = "none" ->
            Note(p, [s EXCEPT !.state = "ACQUIRING", !.prev = time],
                 [st EXCEPT !.nr_acquire = @ + 1])
       [] s.state \in {"UNINITIALIZED", "RELEASED"} /\ f # "none" ->
            Note(p, [state |-> "READ_ACQUIRED", prev |-> time, read_count |-> 1],
                 [st EXCEPT !.nr_acquire = @ + 1, !.nr_acquired = @ + 1,
                            !.nr_trylock = IF f = "try" THEN @ + 1 ELSE @,
                            !.nr_readlock = IF f = "read" THEN @ + 1 ELSE @])
       [] s.state = "READ_ACQUIRED" /\ f = "read" ->
            Note(p, [s EXCEPT !.read_count = @ + 1], [st EXCEPT !.nr_acquired = @ + 1])
       [] OTHER -> Broken(p)

Elapsed(s) == time - s.prev

Waited(st, w) ==
  [st EXCEPT !.total = @ + w, !.min = IF w < @ THEN w ELSE @, !.max = IF @ < w THEN w ELSE @]

Avg(st) == IF st.nr_contended = 0 THEN 0 ELSE st.total \div st.nr_contended

NowAcquired(st) == [st EXCEPT !.nr_acquired = @ + 1, !.avg = Avg(st)]

(* report_lock_acquired_event() *)
Acquired(p) ==
  LET s == seq[p]
      st == ls[p[2]]
      held == [s EXCEPT !.state = "ACQUIRED", !.prev = time]
  IN CASE s.state = "UNINITIALIZED" -> UNCHANGED <<seq, ls>>
       [] s.state = "ACQUIRING" -> Note(p, held, NowAcquired(st))
       [] s.state = "CONTENDED" -> Note(p, held, NowAcquired(Waited(st, Elapsed(s))))
       [] OTHER -> Broken(p)

(* Mutant: the wait is counted from the acquire on *)
NowContended_KeepTime(s) == [s EXCEPT !.state = "CONTENDED"]

NowContended(s) == [s EXCEPT !.state = "CONTENDED", !.prev = time]

(* report_lock_contended_event() *)
Contended(p) ==
  LET s == seq[p]
      st == [ls[p[2]] EXCEPT !.nr_contended = @ + 1]
  IN CASE s.state = "UNINITIALIZED" -> UNCHANGED <<seq, ls>>
       [] s.state = "ACQUIRING" -> Note(p, NowContended(s), [st EXCEPT !.avg = Avg(st)])
       [] OTHER -> Broken(p)

(* The sequence is freed. *)
AfterRelease(s) == NoSeq

(* report_lock_release_event(): the last of several readers leaves the *)
(* sequence as it is, an earlier one frees it.                          *)
Release(p) ==
  LET s == seq[p]
      st == [ls[p[2]] EXCEPT !.nr_release = @ + 1]
  IN CASE s.state = "UNINITIALIZED" -> UNCHANGED <<seq, ls, aborted>>
       [] s.state = "ACQUIRED" -> Note(p, AfterRelease(s), st) /\ UNCHANGED aborted
       [] s.state = "READ_ACQUIRED" /\ s.read_count = 0 ->
            aborted' = TRUE /\ UNCHANGED <<seq, ls>>
       [] s.state = "READ_ACQUIRED" /\ s.read_count = 1 ->
            Note(p, [s EXCEPT !.read_count = 0], st) /\ UNCHANGED aborted
       [] s.state = "READ_ACQUIRED" /\ s.read_count > 1 ->
            Note(p, NoSeq, st) /\ UNCHANGED aborted
       [] OTHER -> Broken(p) /\ UNCHANGED aborted

(* Nothing is done for a lock that is discarded. *)
Handled(p, A) == IF ls[p[2]].discard THEN UNCHANGED <<seq, ls, aborted>> ELSE A

(* ------------------------------ the threads ----------------------------- *)

Free(p) == \A t \in Threads \ {p[1]} : phase[t, p[2]] \notin {"held", "reading"}

NoWriter(p) == \A t \in Threads \ {p[1]} : phase[t, p[2]] # "held"

Running == time <= MaxTime /\ ~aborted

(* An event is seen or lost. *)
Emit(p, seen, A) ==
  /\ time' = time + 1
  /\ missed' = [missed EXCEPT ![p] = IF seen THEN 0 ELSE @ + 1]
  /\ gap' = [gap EXCEPT ![p[2]] = @ \/ (seen /\ missed[p] >= 3)]
  /\ IF seen THEN A /\ UNCHANGED lost
             ELSE lost < MaxLost /\ lost' = lost + 1 /\ UNCHANGED <<seq, ls, aborted>>

(* A lock is asked for; with "read" or "try" this is all there is. *)
LockAcquire(p) ==
  /\ Running
  /\ \E f \in Flags, seen \in BOOLEAN :
       /\ \/ phase[p] = "idle"
          \/ phase[p] = "reading" /\ f = "read" /\ flag[p] = "read"
       /\ f = "read" => NoWriter(p)
       /\ f = "try" => Free(p)
       /\ Emit(p, seen, Handled(p, Acquire(p, f) /\ UNCHANGED aborted))
       /\ phase' = [phase EXCEPT ![p] = IF f = "none" THEN "acquiring" ELSE "reading"]
       /\ flag' = [flag EXCEPT ![p] = f]
       /\ depth' = [depth EXCEPT ![p] = IF f = "none" THEN 0 ELSE @ + 1]
       /\ asked' = [asked EXCEPT ![p] = seen]
       /\ taken' = IF seen /\ f # "none" THEN [taken EXCEPT ![p[2]] = @ + 1] ELSE taken
  /\ since' = [since EXCEPT ![p] = 0]
  /\ UNCHANGED <<waits, waited>>

LockContended(p) ==
  /\ Running /\ phase[p] = "acquiring" /\ ~Free(p)
  /\ \E seen \in BOOLEAN :
       /\ Emit(p, seen, Handled(p, Contended(p) /\ UNCHANGED aborted))
       /\ since' = [since EXCEPT ![p] = IF seen /\ asked[p] THEN time ELSE 0]
  /\ phase' = [phase EXCEPT ![p] = "waiting"]
  /\ UNCHANGED <<flag, depth, asked, waits, waited, taken>>

LockAcquired(p) ==
  /\ Running /\ phase[p] \in {"acquiring", "waiting"} /\ Free(p)
  /\ \E seen \in BOOLEAN :
       /\ Emit(p, seen, Handled(p, Acquired(p) /\ UNCHANGED aborted))
       /\ IF seen /\ phase[p] = "waiting" /\ since[p] # 0
          THEN /\ waits' = [waits EXCEPT ![p[2]] = @ \cup {<<since[p], time>>}]
               /\ waited' = [waited EXCEPT ![p[2]] = @ + (time - since[p])]
          ELSE UNCHANGED <<waits, waited>>
       /\ taken' = IF seen /\ asked[p] THEN [taken EXCEPT ![p[2]] = @ + 1] ELSE taken
  /\ phase' = [phase EXCEPT ![p] = "held"]
  /\ UNCHANGED <<flag, depth, asked, since>>

LockRelease(p) ==
  /\ Running /\ phase[p] \in {"held", "reading"}
  /\ \E seen \in BOOLEAN : Emit(p, seen, Handled(p, Release(p)))
  /\ depth' = [depth EXCEPT ![p] = IF @ > 0 THEN @ - 1 ELSE 0]
  /\ phase' = [phase EXCEPT ![p] = IF depth[p] > 1 THEN "reading" ELSE "idle"]
  /\ UNCHANGED <<flag, asked, since, waits, waited, taken>>

Next ==
  \E p \in Threads \X Locks :
    LockAcquire(p) \/ LockContended(p) \/ LockAcquired(p) \/ LockRelease(p)

Spec == Init /\ [][Next]_vars

(* ----------------------------- properties ------------------------------- *)

States == {"UNINITIALIZED", "RELEASED", "ACQUIRING", "ACQUIRED", "READ_ACQUIRED", "CONTENDED"}

(* A lock whose events come in the sequences that the comment at struct      *)
(* lock_seq_stat lists is reported: whatever the threads do and wherever the *)
(* recording begins, none of them is taken for broken.                       *)
NotDiscarded == \A l \in Locks : ~ls[l].discard

(* So is, at least, one that was never taken with read or try. *)
ExclusiveIsReported ==
  \A l \in Locks : lost = 0 /\ ls[l].nr_readlock = 0 /\ ls[l].nr_trylock = 0 => ~ls[l].discard

WaitOf(w) == w[2] - w[1]

(* The waiting times that are reported are those of the waits whose events *)
(* were seen, from contended to acquired, of all threads together          *)
(* (report_lock_acquired_event()): one or two events lost in a row lead to *)
(* a broken sequence, never to a wrong time.                               *)
WaitsAreCounted ==
  \A l \in Locks : ~ls[l].discard /\ ~gap[l] =>
    /\ ls[l].total = waited[l]
    /\ \A w \in waits[l] : ls[l].min <= WaitOf(w) /\ WaitOf(w) <= ls[l].max
    /\ waits[l] # {} => \E u, w \in waits[l] : ls[l].min = WaitOf(u) /\ ls[l].max = WaitOf(w)
    /\ ls[l].avg = Avg(ls[l])

(* Locks are counted as acquired as often as they were, the acquire seen. *)
TakenAreCounted == \A l \in Locks : ~ls[l].discard /\ ~gap[l] => ls[l].nr_acquired = taken[l]

(* BUG_ON(seq->read_count < 0) of report_lock_release_event() *)
NoAbort == ~aborted

-----------------------------------------------------------------------------
(* What the proofs need besides: the types, and how the sequence of a thread *)
(* and lock follows the thread.                                              *)

Phases == {"idle", "acquiring", "waiting", "held", "reading"}

LockConstants ==
  Threads # {} /\ MaxTime \in Nat /\ Flags \subseteq {"none", "read", "try"} /\ Midway \subseteq Phases

Pairs == Threads \X Locks
Seqs == [state : States, prev : Nat, read_count : Nat]
Stats == [nr_acquire : Nat, nr_acquired : Nat, nr_contended : Nat, nr_release : Nat,
          nr_readlock : Nat, nr_trylock : Nat, avg : Nat, total : Nat, min : Nat, max : Nat,
          discard : BOOLEAN]

(* The shape of the state; what is remembered has happened. *)
TypeOK ==
  /\ time \in Nat /\ time > 0 /\ lost \in Nat
  /\ seq \in [Pairs -> Seqs] /\ \A p \in Pairs : seq[p].prev < time
  /\ ls \in [Locks -> Stats]
  /\ phase \in [Pairs -> Phases] /\ asked \in [Pairs -> BOOLEAN] /\ missed \in [Pairs -> Nat]
  /\ since \in [Pairs -> Nat] /\ \A p \in Pairs : since[p] < time
  /\ waited \in [Locks -> Nat] /\ taken \in [Locks -> Nat] /\ gap \in [Locks -> BOOLEAN]
  /\ DOMAIN waits = Locks /\ \A l \in Locks : \A w \in waits[l] : WaitOf(w) \in Nat

Asking(p) == phase[p] \in {"acquiring", "waiting"} /\ asked[p]

(* A sequence that is not finished is that of the thread, or events are missed. *)
SeqFits(p) ==
  ~ls[p[2]].discard /\ ~gap[p[2]] =>
    /\ Asking(p) => IF since[p] # 0 THEN seq[p].state = "CONTENDED" /\ seq[p].prev = since[p]
                    ELSE seq[p].state = "ACQUIRING"
    /\ phase[p] = "acquiring" \/ ~asked[p] => since[p] = 0
    /\ seq[p].state \in {"ACQUIRING", "CONTENDED"} =>
         \/ Asking(p)
         \/ missed[p] >= (IF phase[p] = "held" THEN 1
                          ELSE IF phase[p] \in {"acquiring", "waiting"} THEN 3 ELSE 2)

(* Without losses and readers every sequence is in step with its thread. *)
InStep(p) ==
  LET l == p[2] IN
  /\ lost = 0 => missed[p] = 0 /\ ~gap[l]
  /\ lost = 0 /\ ls[l].nr_readlock = 0 /\ ls[l].nr_trylock = 0 =>
       /\ ~ls[l].discard
       /\ ~Asking(p) => seq[p].state \in {"UNINITIALIZED", IF phase[p] = "held" THEN "ACQUIRED"
                                                           ELSE "UNINITIALIZED"}

StatFits(l) ==
  /\ ~ls[l].discard => ls[l].avg = Avg(ls[l])
  /\ ~ls[l].discard /\ ~gap[l] =>
       /\ ls[l].nr_acquired = taken[l] /\ ls[l].total = waited[l]
       /\ \A w \in waits[l] : ls[l].min <= WaitOf(w) /\ WaitOf(w) <= ls[l].max
       /\ IF waits[l] = {} THEN ls[l].min = Far /\ ls[l].max = 0
          ELSE \E u, w \in waits[l] : ls[l].min = WaitOf(u) /\ ls[l].max = WaitOf(w)

LockInv == TypeOK /\ (\A p \in Pairs : SeqFits(p) /\ InStep(p)) /\ \A l \in Locks : StatFits(l)
=============================================================================
