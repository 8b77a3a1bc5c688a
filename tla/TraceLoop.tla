----------------------------- MODULE TraceLoop -----------------------------
(***************************************************************************)
(* The main loop of perf trace, trace__run() of builtin-trace.c, with the  *)
(* signals that end it.  Of an event only its place in a buffer is kept;   *)
(* what the handlers make of it is in TraceSyscalls.                       *)
(*                                                                         *)
(* The buffers wake poll() with every event (no_buffering).  poll() looks  *)
(* at its descriptors before it looks at signals, and a descriptor whose   *)
(* tasks are gone is ready (POLLHUP) before their parent gets SIGCHLD.     *)
(***************************************************************************)
EXTENDS Naturals

CONSTANTS NrMmaps,      \* ring buffers
          Cap,          \* bound: unread events in a buffer
          Daemons       \* the workload may leave tasks behind

Mmaps == 1..NrMmaps

VARIABLES workload,     \* "runs", "gone", "reaped": SIGCHLD was delivered
          others,       \* tasks of the target besides the workload exist
          unread,       \* events in each buffer
          due,          \* those of them that are older than the end
          enabled,      \* the events are enabled
          done, interrupted,
          pc,           \* "read", "check", "poll", "polling" or "out"
          i,            \* the buffer that is read
          new,          \* nr_events != before
          forever,      \* the timeout of the poll is -1
          fds,          \* descriptors are left in the poll array
          draining

vars == << workload, others, unread, due, enabled, done, interrupted,
           pc, i, new, forever, fds, draining >>
target == << workload, others >>
loop == << i, new, forever, fds, draining >>

Hup == workload # "runs" /\ ~ others
Total(f) == \E m \in Mmaps : f[m] > 0

Init ==
    /\ workload = "runs"
    /\ others = FALSE
    /\ unread = [m \in Mmaps |-> 0]
    /\ due = [m \in Mmaps |-> 0]
    /\ enabled = TRUE
    /\ done = FALSE /\ interrupted = FALSE
    /\ pc = "read" /\ i = 1 /\ new = FALSE
    /\ forever = FALSE
    /\ fds = TRUE
    /\ draining = FALSE

-----------------------------------------------------------------------------
(* The target. *)
Event(m) ==
    /\ enabled /\ ~ Hup
    /\ unread[m] < Cap
    /\ unread' = [unread EXCEPT ![m] = @ + 1]
    /\ UNCHANGED << target, due, enabled, done, interrupted, pc, loop >>

Daemon ==
    /\ Daemons /\ workload = "runs" /\ ~ others
    /\ others' = TRUE
    /\ UNCHANGED << workload, unread, due, enabled, done, interrupted, pc, loop >>

DaemonExit ==
    /\ others
    /\ others' = FALSE
    /\ UNCHANGED << workload, unread, due, enabled, done, interrupted, pc, loop >>

WorkloadExit ==
    /\ workload = "runs"
    /\ workload' = "gone"
    /\ UNCHANGED << others, unread, due, enabled, done, interrupted, pc, loop >>

Ready == Total(unread) \/ (fds /\ Hup)

(* sig_handler(): poll() fails with EINTR unless a descriptor is ready.    *)
(* Behind the loop nobody looks at what it sets.                           *)
sig_handler(sigint) ==
    /\ pc # "out"
    /\ done' = TRUE
    /\ interrupted' = sigint
    /\ due' = IF done THEN due ELSE unread
    /\ pc' = IF pc = "polling" /\ ~ Ready THEN "out" ELSE pc

Sigchld ==
    /\ workload = "gone"
    /\ workload' = "reaped"
    /\ sig_handler(FALSE)
    /\ UNCHANGED << others, unread, enabled, loop >>

Sigint ==
    /\ ~ done
    /\ sig_handler(TRUE)
    /\ UNCHANGED << target, unread, enabled, loop >>

-----------------------------------------------------------------------------
(* trace__run() *)

(* An event is handled and consumed. *)
ReadEvent ==
    /\ pc = "read" /\ unread[i] > 0
    /\ unread' = [unread EXCEPT ![i] = @ - 1]
    /\ due' = [due EXCEPT ![i] = IF @ > 0 THEN @ - 1 ELSE 0]
    /\ new' = TRUE
    /\ IF interrupted
       THEN pc' = "out" /\ UNCHANGED << enabled, draining >>
       ELSE /\ pc' = pc
            /\ draining' = (draining \/ done)
            /\ enabled' = (enabled /\ ~ (done /\ ~ draining))
    /\ UNCHANGED << target, done, interrupted, i, forever, fds >>

NextMmap ==
    /\ pc = "read" /\ unread[i] = 0
    /\ IF i < NrMmaps THEN i' = i + 1 /\ pc' = pc ELSE i' = 1 /\ pc' = "check"
    /\ UNCHANGED << target, unread, due, enabled, done, interrupted, new, forever, fds, draining >>

(* Mutant: a loop that drains makes no second pass. *)
Check_OnePass ==
    /\ pc = "check"
    /\ IF draining THEN pc' = "out" /\ UNCHANGED << new, forever >>
       ELSE IF new THEN pc' = "read" /\ new' = FALSE /\ UNCHANGED forever
       ELSE pc' = "poll" /\ forever' = ~ done /\ UNCHANGED new
    /\ UNCHANGED << target, unread, due, enabled, done, interrupted, i, fds, draining >>

(* Behind a pass: again if there was an event, else poll, or leave. *)
Check ==
    /\ pc = "check"
    /\ IF new THEN pc' = "read" /\ new' = FALSE /\ UNCHANGED forever
       ELSE IF draining THEN pc' = "out" /\ UNCHANGED << new, forever >>
       ELSE pc' = "poll" /\ forever' = ~ done /\ UNCHANGED new
    /\ UNCHANGED << target, unread, due, enabled, done, interrupted, i, fds, draining >>

(* A signal that comes here, behind the look at done, does not end poll(). *)
PollEnter ==
    /\ pc = "poll"
    /\ pc' = "polling"
    /\ UNCHANGED << target, unread, due, enabled, done, interrupted, loop >>

(* Mutant: the descriptors of tasks that are gone stay in the array. *)
PollReady_Keep ==
    /\ pc = "polling" /\ Ready
    /\ pc' = "read"
    /\ UNCHANGED << target, unread, due, enabled, done, interrupted, loop >>

PollReady ==
    /\ pc = "polling" /\ Ready
    /\ fds' = (fds /\ ~ Hup)
    /\ draining' = (draining \/ ~ fds')
    /\ pc' = "read"
    /\ UNCHANGED << target, unread, due, enabled, done, interrupted, i, new, forever >>

PollTimeout ==
    /\ pc = "polling" /\ ~ Ready /\ ~ forever
    /\ pc' = "out"
    /\ UNCHANGED << target, unread, due, enabled, done, interrupted, loop >>

Loop == ReadEvent \/ NextMmap \/ Check \/ PollEnter \/ PollReady \/ PollTimeout

Next ==
    \/ \E m \in Mmaps : Event(m)
    \/ Daemon \/ DaemonExit \/ WorkloadExit \/ Sigchld \/ Sigint
    \/ Loop

(* The tool runs and a signal is delivered.  Whether the workload, or a    *)
(* task that it leaves behind, ends is its own affair.                     *)
Fairness == WF_vars(Loop) /\ WF_vars(Sigchld)

Spec == Init /\ [][Next]_vars /\ Fairness

-----------------------------------------------------------------------------
TypeOK ==
    /\ workload \in {"runs", "gone", "reaped"} /\ others \in BOOLEAN
    /\ unread \in [Mmaps -> 0..Cap]
    /\ due \in [Mmaps -> 0..Cap]
    /\ {enabled, done, interrupted, new, forever, fds, draining} \subseteq BOOLEAN
    /\ pc \in {"read", "check", "poll", "polling", "out"}
    /\ i \in Mmaps

(* When the loop ends by itself, every event older than the end of the     *)
(* workload was shown, in whatever buffer and at whatever point of a pass  *)
(* it came.  After SIGINT the rest is dropped.                             *)
NothingUnread == pc = "out" /\ ~ interrupted => ~ Total(due)

(* Once all tasks are gone the loop ends, however SIGCHLD meets the call   *)
(* of poll(): a signal that comes just before it is made up for by POLLHUP. *)
GoneEnds == Hup ~> pc = "out"

(* Once the loop drains the buffers it ends, though tasks that the         *)
(* workload left behind would go on and write events.                      *)
DrainEnds == draining ~> pc = "out"

-----------------------------------------------------------------------------
(* What the proofs need.                                                   *)

TraceLoopConstants == NrMmaps \in Nat \ {0} /\ Cap \in Nat

(* What is due is unread, and nothing is due before the end. *)
DueIsUnread ==
    /\ \A m \in Mmaps : due[m] <= unread[m]
    /\ ~ done => \A m \in Mmaps : due[m] = 0

(* The loop drains the buffers when the end was seen or all tasks are gone. *)
DrainsAtEnd ==
    /\ draining => done \/ Hup
    /\ ~ fds => draining
    /\ pc \in {"check", "poll", "polling"} => i = 1
    /\ pc \in {"poll", "polling"} => ~ new

(* A pass that found nothing yet has left nothing behind that is, or can   *)
(* become, due.                                                            *)
Passed == IF pc = "check" THEN Mmaps ELSE {m \in Mmaps : m < i}

PassIsClean ==
    pc \in {"read", "check"} /\ draining /\ ~ new =>
        \A m \in Passed : due[m] = 0 /\ (done \/ unread[m] = 0)

TraceInv == TypeOK /\ DueIsUnread /\ DrainsAtEnd /\ PassIsClean /\ NothingUnread
=============================================================================
