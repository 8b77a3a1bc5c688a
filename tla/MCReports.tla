----------------------------- MODULE MCReports -----------------------------
(***************************************************************************)
(* What the tools compute and show: whose code an address is in, who calls *)
(* whom, counts and times, and the trees all of it is kept in.  Each       *)
(* behaviour is one of one component, which the variable scenario names;   *)
(* the state of the others stays as it was initially.                      *)
(***************************************************************************)
EXTENDS MapGroups, Reports, Sequences

CONSTANT None

(* Decoders that ask for call chains, for calls and returns, and for both. *)
Stacks ==
    [chains |-> [mode |-> "event", early |-> TRUE, fails |-> TRUE, exec |-> 0, jumps |-> FALSE,
                time |-> 4],
     calls  |-> [mode |-> "process", early |-> FALSE, fails |-> FALSE, exec |-> 0, jumps |-> TRUE,
                time |-> 4],
     both   |-> [mode |-> "both", early |-> FALSE, fails |-> TRUE, exec |-> 1, jumps |-> TRUE,
                time |-> 3]]

(* perf stat: -I, -I -A, -I --per-socket, an event of a package, -r 2.     *)
SocketOf(c) == IF c = 3 THEN 1 ELSE 0
Stats ==
    [interval |-> [aggr |-> "global", interval |-> TRUE, pkg |-> FALSE, runs |-> 1, time |-> 3],
     cpus     |-> [aggr |-> "none", interval |-> TRUE, pkg |-> FALSE, runs |-> 1, time |-> 2],
     sockets  |-> [aggr |-> "socket", interval |-> TRUE, pkg |-> FALSE, runs |-> 1, time |-> 2],
     package  |-> [aggr |-> "global", interval |-> FALSE, pkg |-> TRUE, runs |-> 2, time |-> 2],
     repeat   |-> [aggr |-> "global", interval |-> FALSE, pkg |-> FALSE, runs |-> 2, time |-> 2]]

(* Locks that threads are at as the recording begins, with all events and  *)
(* with lost ones, and locks that are also taken for reading and tried.    *)
Locks ==
    [locks       |-> [flags |-> {"none"}, midway |-> Midway, time |-> 7, lost |-> 0],
     locks_lost  |-> [flags |-> {"none"}, midway |-> {"idle", "held"}, time |-> 7, lost |-> 3],
     locks_read  |-> [flags |-> LockFlags, midway |-> {"idle"}, time |-> 6, lost |-> 0]]

(* Two threads on one CPU; on two, and events are lost; names of files.    *)
Calls ==
    [syscalls |-> [tids |-> {"t1", "t2"}, cpus |-> {1}, names |-> {"a"},
                   kinds |-> {"read", "open", "exit"}, time |-> 6, lost |-> 0],
     buffers  |-> [tids |-> {"t1", "t2"}, cpus |-> {1, 2}, names |-> {"a"},
                   kinds |-> {"read"}, time |-> 4, lost |-> 1],
     names    |-> [tids |-> {"t1"}, cpus |-> {1}, names |-> {"a", "b"},
                   kinds |-> {"open", "rename", "read", "close"}, time |-> 9, lost |-> 0]]

(* Two trees that are merged, and one in which counts are looked at.       *)
Chains == [merged |-> [periods |-> {2}, merges |-> 1],
           counts |-> [periods |-> {2}, merges |-> 0]]

(* A rblist, and the output tree of hists, in which entries may be equal.  *)
Trees == [rblist |-> [keys |-> 7, copies |-> 1, unique |-> TRUE],
          equal  |-> [keys |-> 2, copies |-> 2, unique |-> FALSE]]

(* Recordings of the scheduler: with all events, with lost ones, with late *)
(* ones, and with both.                                                    *)
Scheds ==
    [sched      |-> [lossy |-> FALSE, unordered |-> FALSE, events |-> 4, time |-> 3],
     sched_lost |-> [lossy |-> TRUE, unordered |-> FALSE, events |-> 3, time |-> 3],
     sched_late |-> [lossy |-> FALSE, unordered |-> TRUE, events |-> 3, time |-> 2],
     sched_both |-> [lossy |-> TRUE, unordered |-> TRUE, events |-> 2, time |-> 2]]

Scenarios == DOMAIN Stacks \union DOMAIN Stats \union DOMAIN Locks \union DOMAIN Calls
             \union DOMAIN Chains \union DOMAIN Trees
             \union DOMAIN Scheds \union {"maps", "threads", "threads lost"}

VARIABLE scenario  \* what runs in this behaviour

(* The maps of two processes: MapGroups itself. *)
mapVars == <<maps, space, live, ever, nevents>>

(* The threads of a machine, with and without lost records. *)
VARIABLES mach, fork, holds, task, nforks
Machine(MayLose) == INSTANCE MachineThreads WITH
    Tids <- {11, 12}, Ids <- 1 .. 5, MaxHolds <- 1, MaxForks <- 2, MayLose <- MayLose,
    MayFail <- FALSE
machineVars == <<mach, fork, holds, task, nforks>>

(* The stack of a traced thread. *)
VARIABLES real, cur, tracing, offAt, comm, trace_nr, begins, stack_time,
          stack_lost, ts, completed
Stack(c) == INSTANCE ThreadStack WITH
    NrFuncs <- 3, KernelStart <- 3, Mode <- c.mode, EveryBranch <- TRUE,
    EarlyLoss <- c.early, Growth <- 2, MemoryMayFail <- c.fails, MaxTime <- c.time,
    MaxDepth <- 3, MaxLost <- 1, MaxExec <- c.exec, LongJumps <- c.jumps,
    time <- stack_time, lost <- stack_lost
stackVars == <<real, cur, tracing, offAt, comm, trace_nr, begins,
               stack_time, stack_lost, ts, completed>>

(* The counters of perf stat on three CPUs of two sockets. *)
VARIABLES hw, stat_time, stat_run, counts, aggr, prev, prev_aggr, zero, res,
          base, past, out
Stat(c) == INSTANCE StatCounters WITH
    Cpus <- 1 .. 3, Socket <- SocketOf, aggr_mode <- c.aggr, interval <- c.interval,
    per_pkg <- c.pkg, run_count <- c.runs, MaxTime <- c.time, Wrap <- 1000,
    time <- stat_time, run <- stat_run
statVars == <<hw, stat_time, stat_run, counts, aggr, prev, prev_aggr, zero,
              res, base, past, out>>

lockVars == <<lock_phase, flag, lock_depth, asked, lock_since, lock_time,
              lock_lost, lock_seq, ls, waits, waited, taken, missed, gap,
              aborted>>

schedVars == <<kstate, running, sched_since, now, sched_nr, sched_pending,
               atoms, cpu_last_switched, curr_pid, nr_context_switch_bugs,
               nr_unordered_timestamps, sched_status, true_lat, true_max,
               true_nr, sched_lost, sched_late>>

(* The system calls that perf trace shows. *)
VARIABLES call_now, call_run, file, rings, call_lost, cpu, tt, current,
          line, stat, path, inserted, shown, entered, ended
Call(c) == INSTANCE TraceSyscalls WITH
    Tids <- c.tids, Cpus <- c.cpus, Names <- c.names, Kinds <- c.kinds, MaxTime <- c.time,
    MaxLost <- c.lost, duration_filter <- 0, Wrap <- 1000, now <- call_now,
    run <- call_run, lost <- call_lost
callVars == <<call_now, call_run, file, rings, call_lost, cpu, tt, current,
              line, stat, path, inserted, shown, entered, ended>>

(* The tree of call chains. *)
VARIABLES tree, samples, chain_nr, merges
Chain(c) == INSTANCE CallchainTree WITH
    Keys <- {1, 2}, MaxLen <- 3, Periods <- c.periods, MaxSamples <- 3,
    MaxMerges <- c.merges, nr <- chain_nr
chainVars == <<tree, samples, chain_nr, merges>>

(* Red-black trees. *)
VARIABLES tree_t, pc, tree_node, tree_parent, nr_entries, deleting,
          tree_next
Tree(c) == INSTANCE RbTree WITH
    Keys <- 1 .. c.keys, Copies <- c.copies, Unique <- c.unique, t <- tree_t,
    node <- tree_node, parent <- tree_parent, next <- tree_next
treeVars == <<tree_t, pc, tree_node, tree_parent, nr_entries, deleting,
              tree_next>>

suiteVars == <<scenario, mapVars, machineVars, stackVars, statVars, lockVars, schedVars,
         callVars, chainVars, treeVars>>

-----------------------------------------------------------------------------
(* perf lock and perf sched latency in a scenario. *)
LockWith(c) == INSTANCE LockStats WITH
    Threads <- LockThreads, Locks <- LockNames, Flags <- c.flags, Midway <- c.midway,
    MaxTime <- c.time, MaxLost <- c.lost, phase <- lock_phase, depth <- lock_depth,
    since <- lock_since, time <- lock_time, lost <- lock_lost, seq <- lock_seq
SchedWith(c) == INSTANCE SchedLatency WITH
    Cpus <- SchedCpus, Lossy <- c.lossy, Unordered <- c.unordered, MaxEvents <- c.events,
    MaxTime <- c.time, since <- sched_since, nr <- sched_nr, pending <- sched_pending,
    status <- sched_status, lost <- sched_lost, late <- sched_late

(* The configuration of a component in a scenario: a fixed one where       *)
(* another component runs.                                                 *)
Setup(configs, s, default) == IF s \in DOMAIN configs THEN configs[s] ELSE configs[default]

SuiteInit ==
    \E s \in Scenarios :
        /\ scenario = s
        /\ Init
        /\ s # "maps" => live = {"p1"}
        /\ Machine(FALSE)!Init
        /\ s \notin {"threads", "threads lost"} => task = [t \in {11, 12} |-> 11]
        /\ Stack(Setup(Stacks, s, "chains"))!Init
        /\ s \notin DOMAIN Stacks => Len(real) = 1 /\ real[1].f = 1 /\ cur = 1
        /\ Stat(Setup(Stats, s, "interval"))!Init
        /\ LockWith(Setup(Locks, s, "locks"))!Init
        /\ s \notin DOMAIN Locks => \A p \in DOMAIN lock_phase : lock_phase[p] = "idle"
        /\ SchedWith(Setup(Scheds, s, "sched"))!Init
        /\ s \notin DOMAIN Scheds => \A t \in DOMAIN kstate : kstate[t] = "sleeping"
        /\ Call(Setup(Calls, s, "syscalls"))!Init
        /\ s \notin DOMAIN Calls => \A t \in DOMAIN call_run : call_run[t] = None
        /\ Chain(Setup(Chains, s, "counts"))!Init
        /\ Tree(Setup(Trees, s, "equal"))!Init

SuiteNext ==
    \/ /\ scenario = "maps" /\ Next
       /\ UNCHANGED <<scenario, machineVars, stackVars, statVars,
                 lockVars, schedVars, callVars, chainVars, treeVars>>
    \/ /\ \/ scenario = "threads" /\ Machine(FALSE)!Next
          \/ scenario = "threads lost" /\ Machine(TRUE)!Next
       /\ UNCHANGED <<scenario, mapVars, stackVars, statVars,
                 lockVars, schedVars, callVars, chainVars, treeVars>>
    \/ /\ \E s \in DOMAIN Stacks : scenario = s /\ Stack(Stacks[s])!Next
       /\ UNCHANGED <<scenario, mapVars, machineVars, statVars,
                 lockVars, schedVars, callVars, chainVars, treeVars>>
    \/ /\ \E s \in DOMAIN Stats : scenario = s /\ Stat(Stats[s])!Next
       /\ UNCHANGED <<scenario, mapVars, machineVars, stackVars,
                 lockVars, schedVars, callVars, chainVars, treeVars>>
    \/ /\ \E s \in DOMAIN Locks : scenario = s /\ LockWith(Locks[s])!Next
       /\ UNCHANGED <<scenario, mapVars, machineVars, stackVars,
                 statVars, schedVars, callVars, chainVars, treeVars>>
    \/ /\ \E s \in DOMAIN Scheds : scenario = s /\ SchedWith(Scheds[s])!Next
       /\ UNCHANGED <<scenario, mapVars, machineVars, stackVars,
                 statVars, lockVars, callVars, chainVars, treeVars>>
    \/ /\ \E s \in DOMAIN Calls : scenario = s /\ Call(Calls[s])!Next
       /\ UNCHANGED <<scenario, mapVars, machineVars, stackVars,
                 statVars, lockVars, schedVars, chainVars, treeVars>>
    \/ /\ \E s \in DOMAIN Chains : scenario = s /\ Chain(Chains[s])!Next
       /\ UNCHANGED <<scenario, mapVars, machineVars, stackVars,
                 statVars, lockVars, schedVars, callVars, treeVars>>
    \/ /\ \E s \in DOMAIN Trees : scenario = s /\ Tree(Trees[s])!Next
       /\ UNCHANGED <<scenario, mapVars, machineVars, stackVars,
                 statVars, lockVars, schedVars, callVars, chainVars>>

SuiteSpec == SuiteInit /\ [][SuiteNext]_suiteVars

-----------------------------------------------------------------------------
(* Whatever records come in, forks and exits in any order, reused ids and  *)
(* records that were lost: the thread looked up last is the one of its id, *)
(* the references to a thread are as many as have it, all threads are      *)
(* freed in the end, and those of a process share its maps.                *)
ThreadsCounted ==
    /\ scenario \in {"threads", "threads lost"} =>
          Machine(TRUE)!CacheCoherent /\ Machine(TRUE)!RefsCounted /\ Machine(TRUE)!NoMapsOnUnknown
    /\ scenario = "threads" =>
          Machine(FALSE)!TypeOK /\ Machine(FALSE)!AllFreed /\ Machine(FALSE)!ProcessShares

(* However the program calls, returns, jumps, execs and loses trace: the   *)
(* call chain is one of the program's stack, a call is paired with its own *)
(* return and reported once, in the call path it was made from, and no     *)
(* entry of the stack is of an earlier trace.  perf trace shows the entry  *)
(* of each system call once, with its own duration and file name, however  *)
(* the calls of threads interleave; only the current thread has an entry   *)
(* that waits for its end.                                                 *)
CallsPaired ==
    /\ \A s \in DOMAIN Stacks : scenario = s =>
          /\ s = "chains" => Stack(Stacks[s])!TypeOK /\ Stack(Stacks[s])!ChainIsReal
          /\ s \in {"chains", "calls"} => Stack(Stacks[s])!OneTrace
          /\ s = "calls" => Stack(Stacks[s])!PairsAreReported
          /\ s \in {"calls", "both"} => /\ Stack(Stacks[s])!PairsAreReal
                                        /\ Stack(Stacks[s])!EntriesConserved
                                        /\ Stack(Stacks[s])!PathsFollowStack
    /\ \A s \in DOMAIN Calls : scenario = s =>
          /\ Call(Calls[s])!TypeOK
          /\ Call(Calls[s])!OnlyCurrentPending
          /\ s \in {"syscalls", "names"} =>
                Call(Calls[s])!EntryShownOnce /\ Call(Calls[s])!DurationsAreReal
          /\ s = "names" => Call(Calls[s])!PathsAreReal /\ Call(Calls[s])!NameIsOfPointer

(* perf stat prints what was counted since it printed last, whatever is    *)
(* aggregated, and the mean of runs that are repeated.  The periods and    *)
(* the numbers of all samples are in the tree of call chains, each at the  *)
(* node of its chain and in the sum of every node above it, however nodes  *)
(* are split and trees merged, and no node could be part of its parent.    *)
CountsAreReal ==
    /\ \A s \in DOMAIN Stats : scenario = s =>
          /\ Stat(Stats[s])!TypeOK
          /\ s \in {"interval", "cpus", "sockets"} => Stat(Stats[s])!DeltaIsReal
          /\ s \in {"package", "repeat"} => Stat(Stats[s])!AverageIsReal
    /\ \A s \in DOMAIN Chains : scenario = s =>
          /\ Chain(Chains[s])!HitsConserved
          /\ Chain(Chains[s])!CumulIsSubtree
          /\ Chain(Chains[s])!Compressed
          /\ s = "counts" => Chain(Chains[s])!CountIsEvents

(* Between operations a tree is a red-black tree whose pointers agree and  *)
(* whose traversals meet every node; within them it is off by what the     *)
(* loops say.                                                              *)
TreesBalanced ==
    \A s \in DOMAIN Trees : scenario = s =>
        /\ Tree(Trees[s])!TypeOK
        /\ Tree(Trees[s])!PointersAgree
        /\ Tree(Trees[s])!RedBlack
        /\ Tree(Trees[s])!InsertLoop
        /\ Tree(Trees[s])!EraseLoop
        /\ Tree(Trees[s])!TraversalsAgree
        /\ Tree(Trees[s])!PostorderIsBottomUp
        /\ Tree(Trees[s])!DeleteMeetsAll

(* To their users a rblist, and a tree with equal entries, are a list that *)
(* is kept sorted; balancing does not show.  (The list may have any node   *)
(* of the two trees.)                                                      *)
KeyOf(n) == n[1]
Sorted == INSTANCE SortedList WITH
    Nodes <- (1 .. 7) \X (1 .. 2), Key <- KeyOf, list <- Tree(Trees["rblist"])!InOrder
SortedListSpec == Sorted!Spec
=============================================================================
