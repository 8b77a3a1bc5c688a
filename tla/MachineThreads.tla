--------------------------- MODULE MachineThreads ---------------------------
(* The threads of a machine (tools/perf/util/machine.c, thread.c): a tree   *)
(* of struct thread found by thread id, with the last one found cached, and *)
(* the map groups that the threads of a process share.  Both are counted by *)
(* reference; a thread that a FORK record replaces stays on dead_threads    *)
(* while somebody, such as a histogram entry, holds it.                     *)
(*                                                                          *)
(* task is the kernel's view: the process each thread id belongs to.  The   *)
(* session delivers records in the order of their times, so a record is     *)
(* applied when it happens.                                                 *)
EXTENDS Integers, FiniteSets, FiniteSetsExt, Functions

CONSTANTS
  Tids,        \* thread ids; a process has the id of its first thread
  Ids,         \* addresses of struct thread and of struct map_groups
  MaxHolds,    \* references that others hold at a time
  MaxForks,    \* bound on the threads that are started
  MayLose,     \* records may be lost
  MayFail      \* memory may run out

VARIABLES
  mach,        \* what the machine keeps
  fork,        \* the FORK record in the handler, and the threads it has in hand
  holds,       \* the references that others hold of each thread
  task,        \* the process of each running thread, 0 for none
  nforks

vars == <<mach, fork, holds, task, nforks>>

NULL == 0
Unknown == -1

Free == [at |-> "free", tid |-> 0, pid |-> 0, mg |-> NULL, refcnt |-> 0]
FreeMg == [refcnt |-> 0, empty |-> TRUE]

Threads(m) == {id \in Ids : m.thread[id].at = "tree"}

FirstFree(f, free) == CHOOSE id \in Ids : f[id] = free /\ \A o \in Ids : f[o] = free => id <= o

(* map_groups__new(), map_groups__get(), map_groups__put() *)
map_groups__new(m) ==
  LET mg == FirstFree(m.mg, FreeMg)
  IN [m |-> [m EXCEPT !.mg[mg].refcnt = 1], mg |-> mg]

map_groups__get(m, mg) == [m EXCEPT !.mg[mg].refcnt = @ + 1]

map_groups__put(m, mg) ==
  IF mg = NULL THEN m
  ELSE IF m.mg[mg].refcnt = 1 THEN [m EXCEPT !.mg[mg] = FreeMg]
  ELSE [m EXCEPT !.mg[mg].refcnt = @ - 1]

thread__get(m, th) == [m EXCEPT !.thread[th].refcnt = @ + 1]

(* thread__put(): the last reference takes the thread off a list, which the *)
(* node of a thread that is on none does not survive.                       *)
thread__put(m, th) ==
  IF th = NULL THEN m
  ELSE IF m.thread[th].refcnt > 1 THEN [m EXCEPT !.thread[th].refcnt = @ - 1]
  ELSE [map_groups__put(m, m.thread[th].mg) EXCEPT
          !.thread[th] = Free,
          !.fault = IF m.thread[th].at = "dead" THEN @ ELSE "not on a list"]

(* thread__new() and rb_insert_color() *)
thread__new(m, pid, tid) ==
  LET th == FirstFree(m.thread, Free)
  IN [m |-> [m EXCEPT !.thread[th] = [at |-> "tree", tid |-> tid, pid |-> pid,
                                      mg |-> NULL, refcnt |-> 1]],
      th |-> th]

(* The tree: NULL, or the thread with this id *)
InTree(m, tid) ==
  IF \E id \in Threads(m) : m.thread[id].tid = tid
  THEN CHOOSE id \in Threads(m) : m.thread[id].tid = tid
  ELSE NULL

(* The front-end cache, then the tree *)
Lookup(m, tid) ==
  IF m.last_match # NULL /\ m.thread[m.last_match].tid = tid THEN m.last_match
  ELSE InTree(m, tid)

(* The end of ____machine__findnew_thread() for a new thread and the map    *)
(* group it got: without one the thread is taken out of the tree and put.   *)
Created(m, th, mg) ==
  IF mg = NULL
  THEN [m |-> thread__put([m EXCEPT !.thread[th].at = "none"], th), th |-> NULL]
  ELSE [m |-> [thread__get(m, th) EXCEPT !.thread[th].mg = mg,
                                         !.last_match = th, !.nr_threads = @ + 1],
        th |-> th]

CreatedWith(own, th) == Created(own.m, th, own.mg)

(* __machine__findnew_thread(machine, pid, pid), as thread__init_map_groups *)
(* and machine__update_thread_pid() call it; nomem says which allocation,   *)
(* if any, fails.                                                           *)
NewLeader(new, nomem) ==
  IF nomem = "leader maps" THEN Created(new.m, new.th, NULL)
  ELSE CreatedWith(map_groups__new(new.m), new.th)

LeaderFrom(m, found, pid, nomem) ==
  IF found # NULL
  THEN [m |-> [thread__get(m, found) EXCEPT
                 !.last_match = found,
                 !.thread[found].pid = IF @ = Unknown THEN pid ELSE @],
        th |-> found]
  ELSE IF nomem = "leader" THEN [m |-> [m EXCEPT !.last_match = NULL], th |-> NULL]
  ELSE NewLeader(thread__new([m EXCEPT !.last_match = NULL], pid, pid), nomem)

FindNewLeader(m, pid, nomem) == LeaderFrom(m, Lookup(m, pid), pid, nomem)

(* machine__update_thread_pid(): a thread of which only the id was known    *)
(* joins the map group of its process.                                      *)
Regroup(m, th, mg) ==
  [map_groups__get(map_groups__put(m, m.thread[th].mg), mg) EXCEPT !.thread[th].mg = mg]

JoinLeader_NoPut(l, th) ==
  IF l.th = NULL THEN l.m ELSE Regroup(l.m, th, l.m.thread[l.th].mg)

JoinLeader(l, th) ==
  IF l.th = NULL \/ l.m.thread[th].mg = l.m.thread[l.th].mg THEN l.m
  ELSE thread__put(Regroup(l.m, th, l.m.thread[l.th].mg), l.th)

machine__update_thread_pid(m, th, pid, nomem) ==
  IF pid = Unknown \/ m.thread[th].pid # Unknown THEN m
  ELSE IF pid = m.thread[th].tid THEN [m EXCEPT !.thread[th].pid = pid]
  ELSE JoinLeader(FindNewLeader([m EXCEPT !.thread[th].pid = pid], pid, nomem), th)

(* thread__init_map_groups(): a map group of its own, or the leader's *)
SharedWith(l, th) ==
  IF l.th = NULL THEN Created(l.m, th, NULL)
  ELSE Created(thread__put(map_groups__get(l.m, l.m.thread[l.th].mg), l.th),
               th, l.m.thread[l.th].mg)

thread__init_map_groups(new, pid, tid, nomem) ==
  IF pid # tid /\ pid # Unknown THEN SharedWith(FindNewLeader(new.m, pid, nomem), new.th)
  ELSE IF nomem = "maps" THEN Created(new.m, new.th, NULL)
  ELSE CreatedWith(map_groups__new(new.m), new.th)

(* ____machine__findnew_thread() *)
FindNewFrom(m, found, pid, tid, create, nomem) ==
  IF found # NULL
  THEN [m |-> thread__get(machine__update_thread_pid([m EXCEPT !.last_match = found],
                                                     found, pid, nomem), found),
        th |-> found]
  ELSE IF ~create \/ nomem = "thread" THEN [m |-> [m EXCEPT !.last_match = NULL], th |-> NULL]
  ELSE thread__init_map_groups(thread__new([m EXCEPT !.last_match = NULL], pid, tid),
                               pid, tid, nomem)

FindNew(m, pid, tid, create, nomem) ==
  FindNewFrom(m, Lookup(m, tid), pid, tid, create, nomem)

(* machine__remove_thread() *)
machine__remove_thread_KeepMatch(m, th) ==
  thread__put([m EXCEPT !.thread[th].at = "dead", !.nr_threads = @ - 1], th)

machine__remove_thread(m, th) ==
  thread__put([m EXCEPT !.thread[th].at = "dead",
                        !.nr_threads = @ - 1,
                        !.last_match = IF @ = th THEN NULL ELSE @], th)

-----------------------------------------------------------------------------

Memory == IF MayFail THEN {"ok", "thread", "maps", "leader", "leader maps"} ELSE {"ok"}

Running(t) == task[t] # 0

(* The kernel gives a thread id out again when no thread has it and no      *)
(* process does.                                                            *)
Unused(t) == \A u \in Tids : task[u] # t /\ (u = t => task[u] = 0)

(* Bound: enough addresses for what one record can allocate *)
Room == Cardinality({id \in Ids : mach.thread[id] = Free}) >= 3

Alive == mach.fault = "none" /\ ~mach.deleted

NoFork == [at |-> "none", pid |-> 0, tid |-> 0, ppid |-> 0, ptid |-> 0,
           old |-> NULL, parent |-> NULL]

(* The reader handles one record at a time. *)
Idle == Alive /\ fork = NoFork

(* Perf knows nothing of the threads that run when the recording starts. *)
Init ==
  /\ mach = [thread |-> [id \in Ids |-> Free], mg |-> [id \in Ids |-> FreeMg],
             last_match |-> NULL, nr_threads |-> 0, fault |-> "none", deleted |-> FALSE]
  /\ fork = NoFork
  /\ holds = [id \in Ids |-> 0]
  /\ task \in {f \in [Tids -> Tids \cup {0}] :
                /\ \E t \in Tids : f[t] # 0
                /\ \A t \in Tids : f[t] # 0 => f[f[t]] = f[t]}
  /\ nforks = 0

(* A handler that looks a thread up, uses it and puts it; keep is for one   *)
(* that keeps a reference, as a histogram entry of a sample does.           *)
Use(found, keep) ==
  IF keep /\ found.th # NULL
  THEN /\ SumFunction(holds) < MaxHolds
       /\ mach' = found.m
       /\ holds' = [holds EXCEPT ![found.th] = @ + 1]
  ELSE /\ mach' = thread__put(found.m, found.th)
       /\ UNCHANGED holds

(* A sample or a COMM record *)
Sample(t, keep) ==
  /\ Idle /\ Room /\ Running(t)
  /\ \E nomem \in Memory : Use(FindNew(mach, task[t], t, TRUE, nomem), keep)
  /\ UNCHANGED <<fork, task, nforks>>

(* A tracepoint of the scheduler names a thread and not its process. *)
SchedSample(t) ==
  /\ Idle /\ Room /\ Running(t)
  /\ \E nomem \in Memory : Use(FindNew(mach, Unknown, t, TRUE, nomem), FALSE)
  /\ UNCHANGED <<fork, task, nforks>>

(* machine__process_mmap_event() *)
MapInserted(found) ==
  IF found.th = NULL THEN found.m
  ELSE thread__put([found.m EXCEPT !.mg[found.m.thread[found.th].mg].empty = FALSE], found.th)

Mmap(t) ==
  /\ Idle /\ Room /\ Running(t)
  /\ \E nomem \in Memory : mach' = MapInserted(FindNew(mach, task[t], t, TRUE, nomem))
  /\ UNCHANGED <<fork, holds, task, nforks>>

(* machine__process_fork_event(), one step for each call that takes the     *)
(* lock; the record of a fork() or of a new thread may be lost.             *)
Fork(parent, t, process) ==
  /\ Idle /\ Room /\ Running(parent) /\ Unused(t)
  /\ nforks < MaxForks
  /\ nforks' = nforks + 1
  /\ LET pid == IF process THEN t ELSE task[parent]
     IN /\ task' = [task EXCEPT ![t] = pid]
        /\ \/ fork' = [NoFork EXCEPT !.at = "find", !.pid = pid, !.tid = t,
                                     !.ppid = task[parent], !.ptid = parent]
           \/ MayLose /\ UNCHANGED fork
  /\ UNCHANGED <<mach, holds>>

ForkFind ==
  /\ Alive /\ fork.at = "find"
  /\ \E found \in {FindNew(mach, fork.pid, fork.tid, FALSE, "ok")} :
       /\ mach' = found.m
       /\ fork' = [fork EXCEPT !.at = "parent", !.old = found.th]
  /\ UNCHANGED <<holds, task, nforks>>

(* Without memory for the parent the next thing is to read its pid_. *)
ForkParent ==
  /\ Alive /\ fork.at = "parent"
  /\ \E found \in {FindNew(mach, fork.ppid, fork.ptid, TRUE, nomem) : nomem \in Memory} :
       /\ mach' = IF found.th = NULL THEN [found.m EXCEPT !.fault = "no parent"] ELSE found.m
       /\ fork' = [fork EXCEPT !.at = "check", !.parent = found.th]
  /\ UNCHANGED <<holds, task, nforks>>

RightParent == mach.thread[fork.parent].pid = fork.ppid

ForkRemoveParent ==
  /\ Alive /\ fork.at = "check" /\ ~RightParent
  /\ mach' = thread__put(machine__remove_thread(mach, fork.parent), fork.parent)
  /\ fork' = [fork EXCEPT !.at = "parent", !.parent = NULL]
  /\ UNCHANGED <<holds, task, nforks>>

ForkRemoveOld ==
  /\ Alive /\ fork.at = "check" /\ RightParent
  /\ mach' = IF fork.old = NULL THEN mach
             ELSE thread__put(machine__remove_thread(mach, fork.old), fork.old)
  /\ fork' = [fork EXCEPT !.at = "new", !.old = NULL]
  /\ UNCHANGED <<holds, task, nforks>>

(* thread__clone_map_groups(): threads share, a new process gets copies *)
thread__clone_map_groups(m, th, parent) ==
  IF \/ m.thread[th].pid = m.thread[parent].pid
     \/ m.thread[th].mg = m.thread[parent].mg
  THEN m
  ELSE [m EXCEPT !.mg[m.thread[th].mg].empty = @ /\ m.mg[m.thread[parent].mg].empty]

ForkClone(found, parent) ==
  IF found.th = NULL THEN thread__put(found.m, parent)
  ELSE thread__put(thread__put(thread__clone_map_groups(found.m, found.th, parent), found.th),
                   parent)

ForkNew ==
  /\ Alive /\ fork.at = "new"
  /\ \E nomem \in Memory :
       mach' = ForkClone(FindNew(mach, fork.pid, fork.tid, TRUE, nomem), fork.parent)
  /\ fork' = NoFork
  /\ UNCHANGED <<holds, task, nforks>>

(* machine__process_exit_event(): thread->dead changes nothing here. *)
Found(found) == thread__put(found.m, found.th)

Exit(t) ==
  /\ Idle /\ Room /\ Running(t)
  /\ \E u \in Tids \ {t} : Running(u)
  /\ task' = [task EXCEPT ![t] = 0]
  /\ \/ mach' = Found(FindNew(mach, task[t], t, FALSE, "ok"))
     \/ MayLose /\ UNCHANGED mach
  /\ UNCHANGED <<fork, holds, nforks>>

(* A reference that was kept is dropped, also behind the end and by another *)
(* thread of perf while the reader handles a fork.                          *)
Release(id) ==
  /\ mach.fault = "none" /\ holds[id] > 0
  /\ mach' = thread__put(mach, id)
  /\ holds' = [holds EXCEPT ![id] = @ - 1]
  /\ UNCHANGED <<fork, task, nforks>>

(* machine__delete_threads(), at the end of the session *)
machine__delete_threads ==
  /\ Idle
  /\ mach' = [FoldSet(LAMBDA th, m : machine__remove_thread(m, th), mach, Threads(mach))
                 EXCEPT !.deleted = TRUE]
  /\ UNCHANGED <<fork, holds, task, nforks>>

Next ==
  \/ \E t \in Tids, keep \in BOOLEAN : Sample(t, keep)
  \/ \E t \in Tids : SchedSample(t) \/ Mmap(t) \/ Exit(t)
  \/ \E parent \in Tids, t \in Tids, process \in BOOLEAN : Fork(parent, t, process)
  \/ ForkFind \/ ForkParent \/ ForkRemoveParent \/ ForkRemoveOld \/ ForkNew
  \/ \E id \in Ids : Release(id)
  \/ machine__delete_threads

Spec == Init /\ [][Next]_vars

-----------------------------------------------------------------------------

TypeOK ==
  /\ mach.thread \in [Ids -> [at : {"tree", "dead", "none", "free"}, tid : Tids \cup {0},
                              pid : Tids \cup {0, Unknown}, mg : Ids \cup {NULL}, refcnt : 0 .. MaxHolds + 3]]
  /\ mach.mg \in [Ids -> [refcnt : Nat, empty : BOOLEAN]]
  /\ mach.last_match \in Ids \cup {NULL}
  /\ holds \in [Ids -> 0 .. MaxHolds]
  /\ task \in [Tids -> Tids \cup {0}]

(* The cache never outlives the thread: last_match is in the tree, where a  *)
(* lookup that missed the cache would find it, and the tree has one thread  *)
(* for an id.                                                               *)
CacheCoherent ==
  /\ mach.last_match # NULL => mach.last_match \in Threads(mach)
  /\ \A a, b \in Threads(mach) : mach.thread[a].tid = mach.thread[b].tid => a = b

(* References are neither leaked nor dropped twice: a thread is there as    *)
(* long as it is in the tree or somebody holds it, its count says by how    *)
(* many, and the same for the map groups and the threads that share them.   *)
RefsCounted ==
  mach.fault = "none" =>
    /\ \A id \in Ids : mach.thread[id].refcnt =
         holds[id] + Cardinality({r \in {"old", "parent"} : fork[r] = id})
                   + (IF mach.thread[id].at = "tree" THEN 1 ELSE 0)
    /\ \A mg \in Ids : mach.mg[mg].refcnt = Cardinality({id \in Ids : mach.thread[id].mg = mg})
    /\ mach.nr_threads = Cardinality(Threads(mach))

(* Behind the end of the session, when nobody holds a thread, all is freed. *)
AllFreed ==
  mach.deleted /\ mach.fault = "none" /\ (\A id \in Ids : holds[id] = 0)
    => /\ mach.thread = [id \in Ids |-> Free]
       /\ mach.mg = [id \in Ids |-> FreeMg]

(* What machine__update_thread_pid() takes for granted when it drops the    *)
(* map group of a thread: a thread of an unknown process has no maps.       *)
NoMapsOnUnknown ==
  \A th \in Threads(mach) : mach.thread[th].pid = Unknown => mach.mg[mach.thread[th].mg].empty

(* As long as no record is lost, the threads that run are known under their *)
(* process, and those of one process share its maps.                        *)
ProcessShares ==
  ~MayLose /\ fork = NoFork =>
    \A a, b \in Threads(mach) :
      LET ta == mach.thread[a].tid
          tb == mach.thread[b].tid
      IN Running(ta) =>
           /\ mach.thread[a].pid \in {Unknown, task[ta]}
           /\ /\ Running(tb) /\ task[ta] = task[tb]
              /\ mach.thread[a].pid # Unknown /\ mach.thread[b].pid # Unknown
              => mach.thread[a].mg = mach.thread[b].mg

(* thread__put() takes a thread off a list when it drops the last           *)
(* reference: every thread it comes to is on dead_threads.                  *)
PutIsListed == mach.fault # "not on a list"
=============================================================================
