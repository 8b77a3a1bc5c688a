# A TLA+ development for perf

This directory holds TLA+ specifications of `tools/perf` where correctness is a
matter of order, interleaving, failure or a long sequence of calls: how events
get from the kernel's buffers to `perf.data`, from there in time order to a
tool, and what the tools keep of them. Every definition is translated from the
source; the `map` in `PROJECT.json` gives the lines. TLC checks small instances,
TLAPS proves the main safety properties for every value of the constants.

## 1. Inventory

| Component | Source | State it keeps | Operations | Module |
|---|---|---|---|---|
| ordering queue | `util/ordered-events.c` | list of events, `last`, `max_timestamp`, flush limits, slots | queue, flush (HALF, ROUND, FINAL), delete, free | `OrderedEvents`, abstractly `EventSorter` |
| session loop | `util/session.c` | position in the input, `session_done` | read a record of a file or pipe, queue, rounds, final flush, teardown | `Session`, composed with the recorder in `RoundOrder` |
| file windows | `util/session.c`, `util/auxtrace.c` | the windows a file is mapped through | remap, peek, index | `FileWindows` |
| perf.data file | `util/header.c`, `util/data.c` | header, attributes, features, switched files | write, finish, switch, read back | `PerfDataFile` |
| recording loop | `builtin-record.c` | `done`, `draining`, triggers, state of overwritable buffers | pass, round, snapshot, switch, sleep, leave | `Record`, `Trigger` |
| ring buffer | `util/evlist.c`, `builtin-record.c` | positions, contents | read, copy, dump backward | `MmapRing` |
| poll array | `lib/api/fd/array.c` | entries and their buffers | add, grow, filter, poll | `FdArray`, abstractly `PollList` |
| opening of events | `util/evsel.c` | descriptors, missing features, limits | attempts and fallbacks | `EvselOpen` |
| workload | `util/evlist.c`, `builtin-record.c`, `builtin-stat.c` | two pipes, a child, signals | fork, cork, go, exec, kill, wait | `Workload` |
| AUX area | `util/auxtrace.c`, `arch/x86/util/intel-bts.c` | positions, heap of queues, decoder cache | read, snapshot, heap add and pop, cache add and drop | `AuxMmap`, `AuxHeap`, `AuxCache` |
| decoders | `util/intel-bts.c`, `util/intel-pt.c` | queues, what is decoded, walk cache | queue, decode in time, walk | `IntelBts`, `IntelPtWalk` |
| threads, maps | `util/machine.c`, `util/thread.c`, `util/map.c` | tree of threads, references, maps of a process | find, fork, exit, mmap | `MachineThreads`, `MapGroups` |
| thread stacks | `util/thread-stack.c` | stack of a traced thread | event, process, flush | `ThreadStack` |
| DSO data | `util/dso.c` | open files, chunks | read, get and put a descriptor, close | `DsoData` |
| call chains | `util/callchain.c` | tree of chains | append, split, merge | `CallchainTree` |
| trees | `lib/rbtree.c`, `util/rblist.c` | red-black tree | insert, erase, traverse, delete all | `RbTree`, abstractly `SortedList` |
| perf top | `builtin-top.c`, `util/hist.c` | histogram of two threads | add, rotate, collapse, decay, show, keys | `HistsTop` |
| perf sched | `builtin-sched.c` | atoms and semaphores; latencies | replay; latency | `SchedReplay`, `SchedLatency` |
| perf lock, trace, stat, kvm | `builtin-*.c`, `util/stat.c` | sequences, entries, counts | their event handlers and loops | `LockStats`, `TraceSyscalls`, `TraceLoop`, `StatCounters`, `KvmLive` |

What is hard here:

* **Order.** Buffers of different CPUs are copied to the file one after the
  other, so the file is not in time order, and the session may hold back only so
  much. The FINISHED_ROUND scheme and a comment of forty lines argue that two
  rounds are enough. Decoders merge several queues by time.
* **Concurrency.** The kernel writes during each pass. Signals come between any
  two instructions, also between the test of a flag and `poll()`. Events die,
  and with them poll entries and references. perf top has two threads, perf
  sched replay one per task, DSO data is read from several.
* **Failure.** Callbacks fail in the middle of a flush, `malloc()` fails and is
  answered by a half flush and a retry, writes fail, perf is killed.
* **Limits.** Allocation limits, full rings and rings that overwrite, descriptor
  limits, caches, widths of positions.
* **Long sequences.** Lost and early records, reused ids, cut and stale maps,
  unmatched calls and returns.

`hazards` in `PROJECT.json` names the line of each and the properties about it.

## 2. How the project is laid out

A component is a module with its variables, `Init`, one action per operation,
`Next`, `Spec` and its properties. `Session`, `Record` and `RoundOrder` are checked
as they are, each configuration a `.cfg`. The other components are grouped into
three suites. In a suite the variable `scenario` says which component, in which
configuration, a behaviour is of; the other components stay in their initial
state. The suite's properties are conjunctions of the components' properties,
each for its scenario. Where theorems are about such a conjunction, the
components it is about are declared, and the conjunction is stated, in a module
that both the suite and the proofs extend: `Programs`, `Stores` and `Reports`.

| Suite | Extends | Instantiates |
|---|---|---|
| `MCPrograms`, what waits and must end | `SchedReplay`, `Programs` (`Workload` of record and stat, `EvselOpen`, `TraceLoop`, `FdArray`) | `Session` (pipe), and for progress `MmapRing`, `FileWindows`, `DsoData`, `HistsTop` |
| `MCData`, what is stored and read | `AuxCache`, `Stores` (`DsoData`, `HistsTop` of the TUI, `KvmLive`) | `MmapRing` (5 readers), `AuxMmap`, `FileWindows`, `PerfDataFile`, `IntelBts` with `AuxHeap`, `IntelPtWalk`, `HistsTop` of `--stdio` |
| `MCReports`, what is computed and shown | `MapGroups`, `Reports` (`SchedLatency`, `LockStats`) | `MachineThreads`, `ThreadStack`, `StatCounters`, `TraceSyscalls`, `CallchainTree`, `RbTree` |

A definition `X_Something` above an `X` is a fault that shows that a property
notices (`mutants` in `PROJECT.json`).

## 3. Modules and the code

**`OrderedEvents`** is `struct ordered_events`. The list is the sequence
`events`; a slot is a count. `queue_event` computes the position the two walks
of the code reach from `last` (`ForwardPos`, `BackwardPos`); the allocator is
`SlotFromCache`, `SlotFromBuffer`, `SlotFromNewBuffer`, tried in that order. An
event is its position in the input, time and size.

**`Session`** is the read loop. Each record read is one action, and so is each
turn of the flush loop: it polls `session_done()` and calls the tool once per
event. `pc` says where the loop is; "crashed" is a write through NULL and
"corrupt" a walk that starts off the list. `err` says that an error ended the
loop. `delivered`, and `halved` (memory ran out in this file), are history.
**`EventSorter`** is what the two promise: events wait in a pool, the earliest
leaves first, the first read among equals; untimed events pass. `Session`
implements it with `pool <- Range(events)`.

**`RoundOrder`** extends `Session` with the kernel (`Tick`, `Sample`: a stamp and
its publication in the CPU's buffer are one step, with one clock, external) and
the pass of `record__mmap_read_evlist()`. The session depends on the sequence of
records only, so no file is needed between the two. `mark` and `passStart` are
history.

**`Record`** is `__cmd_record()` from the start of the workload on. `pc` is the
place in the loop where a signal or the kernel can come in between. A buffer is
the number of events written (`head`) and read (`prev`), indexed by kind
(forward, overwritable) and number. `polled` and `hup` are the entries of the
poll array that belong to a buffer and those of them that are dead. System-wide
events, which hold a reference and are not polled, are left out, and so are
errors of `poll()` other than EINTR and failures of setup. **`Trigger`** has one
operator for each operation of `trigger.h`.

**`MmapRing`** has what `Record` abstracts: words, positions that wrap at their
width, the event that straddles the end, `backward_rb_find_range()` and the copy
in two parts. Its last section is for the proofs. **`FdArray`** has the two blocks of memory that grow separately;
it implements **`PollList`**. **`EvselOpen`** counts the slots of the two loops
of `__perf_evsel__open()`; the kernel is the set of features it lacks.
**`Workload`** has the two processes, the ends of both pipes and the pending
signals; `tool` says whether perf record or perf stat started it.

**`AuxMmap`** counts in units of a position; a record of the hardware has `Align`
of them. **`AuxHeap`** is the array heap, used by **`IntelBts`**, where a branch
is its number in the thread. **`AuxCache`** keeps the hash buckets as one
sequence, the newest first; **`IntelPtWalk`** has one per DSO and compares with
the walk that decodes. **`FileWindows`** counts in event headers; **`PerfDataFile`**
is a function from positions to cells, so that writing in place, and a kill in
between, is what it is on disk. **`KvmLive`** uses the queue by what
`EventSorter` says of it.

**`MapGroups`** has the maps of each process beside its address space (`space`,
external), which the kernel changes without telling perf all. **`MachineThreads`**
has the tree, the cache, `dead_threads` and reference counts beside the kernel's
tasks. **`ThreadStack`**, **`LockStats`**, **`SchedLatency`** and
**`TraceSyscalls`** each stand beside the program or kernel that emits the
events, so that what is reported can be compared with what happened; `lost`,
`late`, `missed` and `gap` are history that says which events did not reach the
tool, or not in order.
**`StatCounters`** does the same with counts, enabled and running times.

**`HistsTop`** has the trees as sets of entries; the places where a thread may be
overtaken are the values of `rpc` and `dpc`. **`SchedReplay`** reads a trace of
any events, builds the atoms and then runs the threads over their two gates and
semaphores. **`RbTree`** makes each turn of the balancing loops an action; a case
and its mirror image are one definition. **`DsoData`** has the open lock, the
chunks and what is freed. **`CallchainTree`** has trees as records.

## 4. Runs

| Run | Instance | Shows |
|---|---|---|
| `session_file` | 3 times, 5 records, buffers of 3 slots and two at most, `malloc()` and callbacks fail, signal anywhere | the inductive invariant, order of delivery, slots accounted, nothing left behind, refinement of `EventSorter` |
| `round_order` | 2 CPUs, 4 samples, 4 times | nothing out of order, delivery in time order, two rounds at most on the queue |
| `record_overwrite` | a forward and an overwritable buffer, 2 SIGUSR2, all signals, failures | paused while read, recording while asleep, dumped before switched, unmapped only when drained |
| `record_attached` | 2 buffers of 2 events, snapshots, attached target | references match, snapshots not forgotten, everything read when all events died, perf stops |
| `programs` | `MCPrograms`, 10 scenarios | descriptors and references kept, replays whole, workload started or killed properly, refinement of `PollList`; sessions, replays, waits and reads end |
| `data` | `MCData`, 22 scenarios | what is read is what was written, whoever writes meanwhile, whatever is killed and wherever positions wrap |
| `reports` | `MCReports`, 25 scenarios | what is reported is what happened; refinement of `SortedList` |
| `session_queue_size` | finite `report.queue-size` | *violation*: `alloc_event()` writes through NULL at the limit |
| `session_pipe` | pipe input | *violation*: queued events point into the one read buffer |
| `session_half_flush` | `malloc()` fails, signal during the half flush | *violation*: `last` is off the list when the retry queues |
| `record_switch_signal` | SIGUSR2 before `poll()` | *violation*: the request waits for another wakeup |
| `record_last_words` | workload exits after an empty pass | *violation*: its last events are not in the file |

Bounds. Three times are what a tie on either side of an event needs; five
records fill and empty two buffers of the allocator, use its cache, reach its
limit, and allow two rounds with events on both sides. Two CPUs, four samples and four times include every pattern of
"written behind the reader, read in the next round" for two consecutive rounds,
all the history the scheme keeps. Two events in a buffer of size one or two, with
two signals, give every order of write, read, signal and death. Rings of 4 and 8
words with records of 1 to 3 make events straddle the end, and positions of 4 to
8 bits wrap. Recordings of up to five events meet every way a window of 8 units
can cut them. Seven nodes reach every case of insertion and erasure in a
red-black tree; the second turn of the erasing loop first occurs at ten nodes
and is not reached. Three traced events on two tasks pair and mispair every
wakeup with a sleep. Four scheduler events in three units of time wake, preempt and
switch a task twice; seven lock events of three threads hold a whole wait, and
three that are lost between its contention and another acquisition. Programs that emit events are bounded in time, depth, forks
and lost events by the `Max...` constants of the modules; the suites' comments
say which cases each scenario is for.

Fairness is weak, and only of what the operating system schedules. `Session` and
the loops of `TraceLoop`, `Workload`, `MmapRing`, `FileWindows` and `EvselOpen`: the
process runs, and input has an end. `Record!FairSpec`: the loop, and `poll()`
returning for a dead event, which the kernel reports and keeps reporting;
returning for data is not fair, since the wakeup watermark lets data lie
unnoticed, and no signal is. `SchedReplay`: reading the trace (`Prepare`), each
thread (`thread_func`) and the main thread (`wait_for_tasks`). `TraceLoop`
assumes SIGCHLD is delivered, `FdArray` that a poll behind a hangup comes,
`MmapRing` that a record written is published. `HistsTop` has both threads, and
`DsoData` each reader; locks are handed over without strong fairness, as no
thread waits for one that is taken again and again in the instances.

Deadlock is checked in all runs but the suites, where a scenario is over when its
program is.

## 5. Proofs

| Module | Theorems | Assumptions |
|---|---|---|
| `SessionProofs` | `SessionInvariant`, `TypeCorrect`, `QueueStaysSorted`, `LastStaysOnList`, `MaxTimestampCorrect`, `DeliveryOrder`, `FinalFlushIsComplete`, `SlotsStayAccounted`, `SessionImplementsSorter` | `OEAssumption`, `SessionAssumption`: any times, records, failures, signals; the refinement for files, not pipes |
| the same, on `RoundOrder` | `RoundTypeCorrect`, `RoundImplementsSession`, `RoundInvariant`, `RoundsKeepOrder`, `RoundsBoundQueue`, `RecordingDeliveredInOrder` | any number of CPUs and samples; order needs that memory does not run out, as a half flush ignores rounds |
| `RecordProofs` | `RecordInvariant`, `RecordTypes`, `NothingUnmappedEarly`, `ReferencesCounted`, `ReadsArePaused`, `NeverSleepsPaused`, `DrainedIsRead`, `SwitchAfterDump`, `SnapshotsStayAsked` | any number of buffers, events and signals |
| `ProgramProofs` | `OpenedIsKept`, `PollArrayCounted`, `DescriptorsAreKept`, `PollArrayIsList`, `StartIsSafe`, `TraceShowsAll`, `WorkloadIsSafe` | `ProgramsAssumption`: any events, CPUs, limits, kernels, descriptors and buffers; the second `realloc()` of `fdarray__grow()` does not fail (section 6) |
| `DataProofs` | `CacheTypes`, `CountBehind`, `Bounded`, `DsoReadsSound`, `TopTreesSound`, `FlushOrder` | any limit of the cache; `StoresAssumption`: any threads, DSOs, reads, symbols, samples and buffers; no key is the mark of a free entry |
| `ReportProofs` | `Disjoint`, `FileIsRight`, `SchedLatencies`, `LocksCounted` | any processes, files, addresses, where memory does not run out; `ReportsAssumption`: any tasks, CPUs, threads, locks and events; no task is called swapper |
| `SchedReplayProofs` | `ReplayWhole` | any trace, tasks and repetitions |
| `MmapRingProofs` | `ForwardReadsIntact`, `FileReadsIntact` | `ForwardRing`: buffer and int are powers of two that divide the range of positions, and a distance within the buffer fits an int; for `perf_mmap__read()`, no record is longer than `union perf_event` |

A theorem about a conjunction of several components (`DescriptorsAreKept`,
`WorkloadIsSafe`) is about behaviours of each of them: they share no variable.
Bounds on time, events and samples only cut behaviours short; the proofs hold for
any.

*The queue* (`IInv`). Sortedness alone is not inductive: the walk starts at
`last`, so `last` must be on the list whenever a record is queued (`LastInv`), also
after a flush that removed it. A flush repairs `last` on its normal exit only;
`LastInv` therefore says that an interrupted flush leads out of the loop. `IdsInv`
says the list holds older records than the one being queued, which makes ties
stable. `OrderInv` ties what was delivered to `last_flush` and to the list.
`FinalInv` adds that a final flush runs with the limit ULLONG_MAX, so that only a
failure or `session_done` can end it with events on the list
(`FinalFlushIsComplete`). Neither `DeliveryOrder` nor
`FinalFlushIsComplete` rules failures out: memory may run out and callbacks may
fail in any file, and the promise is kept in those where they did not, which
`halved` and `err` tell.

*Rounds* (`RInv`). `RingInv` is the comment's argument: what is still in a buffer
the pass has read is not older than the pass, what is in the others not older
than the pass before. `FlushInv` keeps the flush limit at or below that bound,
`MarkInv` keeps what was read before a FINISHED_ROUND within the limit of the
next.

*Recording* (`RecInv`). `RefInv` relates references, poll entries and mapping of
each buffer. `StateInv` says when the overwritable buffers may be paused: after
the request of a switch only until the trigger test of the same turn, otherwise
only when the loop is about to end. `DumpInv` says a buffer that is EMPTY was read
to its head, which stays true since the kernel is kept out. `DrainInv` says that
while perf drains no event is polled any more, so that what the pass has gone over
stays read; with `OutInv`, that the loop is left only when done or draining, it
gives `DrainedIsRead`.

*Ring buffers* (`RingInv`, `FileInv`). Record i starts at word `off[i]` of all that
was written, a number that does not wrap; every position is one of these numbers
modulo its width. `Stored` says that the records not given back are less than a
buffer long and that their words lie where a reader looks for them; the kernel
keeps it because it writes only into room behind `tail`, which the reader moves
last. `ReaderInv` and `CopierInv` tie the reader's positions to records, `Copied`
the file to the words written. `CopierInv` also says that what is left lies in
one piece before the second copy, which is why it cannot run past the buffer
(`CopyInside`). The hypothesis about `union perf_event` is needed: without it a
record that straddles the end is copied in part (section 6).

*Maps* (`MapGroups`). That a found map names the right file needs that maps do not
overlap and that what a process has mapped is covered, both over everything
`maps__fixup_overlappings()` cuts.

*Replay* (`ReplayInv`). `TraceOK` says what reading a trace has built: a semaphore
belongs to one sleep and at most one wakeup. `GateInv` is the argument of the two
mutexes: where the main thread is (`BetweenRuns`, `DuringRun`) bounds where each
thread may be, and how many runs it has made. `SemInv` counts a semaphore of the
atoms by how often the waking and the sleeping thread have passed it, so that
after equal runs it is back at zero; `IdleInv` and `SemsUnused` say that nobody
else posts.

*perf top* (`TopInv`). The trees are not protected by the lock but by ownership:
`ReaderInv` says that with the lock the reader's tree is the one `entries_in`
names, `DisplayInv` that the tree the display thread has taken is the other one,
and that while a symbol is annotated it takes none. `RoomInv` bounds the entries in
use by the samples, so that a new entry is always another one.

*Opening events* (`OpenInv`). `TablesFilled` says which slots have a file: those of
the events before, and of this one those in front of the two loops, all with the
attributes it has now. A fallback changes attributes, so it must come before a
slot is filled or with all of them closed. `LimitsKept` relates the files open to
the two limits. `DropsKept` says that the kernel lacks the newest features, and
that the loops ask for nothing that is known to be missing; it needs events that
ask in the order of probing (`AskedInOrder`, section 6).

*The poll array* (`FdArrayInv`). References are counted by entry: `PolledOnce`,
`EntriesAreMapped` and `OneReferencePerEntry` are kept by adding, growing, and by
`fdarray__filter()`, which moves the entries that stay to the front: `kept`
enumerates their places, so that they can be counted through it (`CountFiltered`).
`HupIsTrue` says what is filtered is dead, which makes
filtering a step of `PollList`.

*Starting a workload* (`WorkloadInv`). `HeldBack` is the cork: nothing runs before
the byte, and perf has an end of the go pipe until then. `SignalsTrue` says what a
signal that is pending or was handled says of the child; `FailuresKept` what
becomes of an exec that failed, until perf has left. `KillsChild` says that
`child_pid` is cleared before the pid can be someone else's.

*perf trace* (`TraceInv`). While it drains, a pass that has found nothing yet has
left nothing behind that is or can become due (`PassIsClean`).

*DSO data* (`DsoInv`). `DataOK` says the list has the open DSOs once, and fewer than
the limit; `CacheOK` that a chunk is cached whole; `ReadOK` where each thread's read
stands in its file, whoever closes it meanwhile. `EndCached` is for the comment
"served by cached data", and holds where no read begins at the end of a file;
`LockOK` needs that the process leaves one descriptor (section 6).

*perf kvm stat live* (`KvmInv`). `PassInv` says that what the pass has left in a
buffer that was not empty is later than the time up to which it flushes, and
`LateInv` that whatever is still to come behind a later event is known to be late.

*Latencies* (`SchedInv`). With every event and in order the tool is behind the
scheduler by one event at most: `Agree` says what it has of a task that no event on
its way is about, `AgreeAfter` what it will have after that event. Only this makes
the sums comparable in every state. `WithinTime` is the part that is left when
events are lost or late. The proof showed that the *sum* of a task's latencies is
bounded by the time recorded only where events are in order: with late ones two
latencies of one task may be of the same stretch of time. `LatencyWithinTime`
says so.

*Locks* (`LockInv`). `SeqFits` ties the `lock_seq_stat` of a thread and lock to what
the thread does: a sequence that is not finished is that of the thread, or as many
events were lost as it takes to leave it behind. `InStep` is the same without losses.
The proof showed what the sequences can notice: one or two events of a thread and
lock that are lost in a row break the sequence and the lock is not reported; three
(acquired, release and acquire) may go unnoticed, and a wait is then too long. `gap`
says that this happened.

Only model-checked, and why:

* liveness (`StopsWhenEventsDie`, `WaitsEnd`, `AllIsRead`), which the prover does
  not handle;
* what needs induction over data: sums over sets (`TopAddsUp`, the sums of
  `StatCounters` and `CallchainTree`), paths in `RbTree`, the heap order of
  `AuxHeap`;
* modules with a `RECURSIVE` operator (`RbTree`, `CallchainTree`, `IntelPtWalk`);
* backward and overwritable ring buffers: `backward_rb_find_range()` and the
  newest records are recursive over the records, and so is `Concat` of
  `FileIntact`, in whose place `FileIsPrefix` is proved. `ForwardReadsIntact` and
  `FileReadsIntact` are the other parts of `BuffersIntact`;
* the parts of the suites that section 8 lists;
* the violations, which are about particular behaviours;
* `MapGroups` where memory runs out (`MayFail`), which no run enables.

## 6. Disagreements found

Five runs expect a violation; `findings` quotes the line each contradicts: the
crash at the allocation limit, the shared buffer of pipe mode, the stale `last`
behind an interrupted half flush, the SIGUSR2 that `poll()` sleeps through, and
the last events of a workload that exits behind an empty pass.

Modelling met more, which the models reproduce with the constants named. The
suites' scenarios leave these constants out, or ask for less there; where a
property is named it is in the module and no run checks it with that setting.

| Module, setting | The code does | A doc or comment says |
|---|---|---|
| `AuxCache`, `CacheLimit` | auxtrace.c:1376 holds limit + 1 entries | auxtrace.c:1286 "limit the number of entries to this maximum" |
| `AuxMmap`, a `SnapshotSize` that is no multiple of `Align` | auxtrace.c:1196 cuts a snapshot within a branch | intel-pt.txt:384 gives `-S0x100000` |
| `CallchainTree`, merges, `CountIsEvents` | callchain.c:740 counts a merged node once | perf-report.txt:236 "count: display event count" |
| `DsoData`, more than one DSO at the limit, `ReadsSucceed` | dso.c:823 reads a `file_size` another thread cleared | dso.c:775 the file is opened again |
| `DsoData`, reads at the file's end, `ServedByCache` | dso.c:708 frees a chunk that is in the tree | dso.c:728 "served by cached data" |
| `DsoData`, all descriptors taken (`MaxOthers` = RLIMIT_NOFILE), `FdWithLock` | dso.c:548 returns the descriptor behind the unlock | dso.c:532 to be paired with put |
| `EvselOpen`, branches on a kernel without `lbr_flags`, `OnlyMissingDropped` | evsel.c:1566 probes it last | evsel.c:1541 "in the order they were added" |
| `FdArray`, `PrivFail` | array.c:34 keeps a freed block | array.h:11 "kept in synch with @entries" |
| `FileWindows`, index and 32 bit, `FullyPopulated` | session.c:1421 reads an event over its header | auxtrace.h:205 "fully populated" |
| `HistsTop`, key K, `HiddenNotShown` | builtin-top.c:296 hides before it collapses | perf-top.txt:95 "Hide kernel symbols." |
| `IntelBts`, more buffers than `InitNrQueues`, `QueueHasOwner` | auxtrace.c:186 does not copy the owner | auxtrace.h:189 "dedicated to a specific thread or cpu" |
| `IntelBts`, `EveryBranch` | intel-bts.c:444 stops before the last branch | intel-bts.txt:7 "every branch a program takes" |
| `IntelBts`, no index, `EverythingDecoded` | intel-bts.c:533 never clears `done` | the same |
| `LockStats`, flags read and try, `NotDiscarded`, `NoAbort` | builtin-lock.c:618 miscounts readers | builtin-lock.c:97 lists the sequence as legal |
| `MachineThreads`, `MayFail`, `PutIsListed` | machine.c:429 puts a thread that is on no list | thread.c:100 |
| `MapGroups`, `RightOffset` | map.c:723 leaves `pgoff` of the part behind | map.h:47 "ip -> dso rip" |
| `MmapRing`, a distance beyond `IntBits`, `BehindRestarts` | evlist.c:710 keeps it in an int | evlist.c:714 "truncate and restart at 'end'" |
| `MmapRing`, records longer than `EventMax`, `EventsIntact` | evlist.c:749 copies a part | evlist.h:35 has room for the whole |
| `PerfDataFile`, `RenameMayFail`, `NoDumpLost` | data.c:164 truncates what was not renamed | data.c:156 "continue fill original file" |
| `PerfDataFile`, killed, `PartialIsProcessed` | session.c:1769 reads nothing | header.c:2841 "process it as much as it can" |
| `StatCounters`, -r with -I, `DeltaIsReal` | builtin-stat.c:2530 keeps the last run's counts | perf-stat.txt:146 "count deltas" |
| `StatCounters`, an event of a package with -A -I, `DeltaIsReal` | stat.c:261 writes the delta elsewhere | the same |
| `StatCounters`, `TimesAreOfInterval` | stat.c:328 resets one statistic of three | stat.c:320 |
| `ThreadStack`, BTS snapshots (mode "both"), `OneTrace` | thread-stack.c:271 does not flush number 0 | thread-stack.c:234 |
| `TraceSyscalls`, `duration_filter` and two CPUs or lost events, `FilterIsReal` | builtin-trace.c:1573, 2318 take another call's start | perf-trace.txt:82 |
| `TraceSyscalls`, a name the kernel cannot read, `NameIsOfPointer` | builtin-trace.c:1674 leaves `filename.ptr` set | builtin-trace.c:837 |
| `Workload`, perf stat and SIGINT, `NoRandomKill` | builtin-stat.c:1564 reads `child_pid` twice | builtin-stat.c:1553 |

An overwritable buffer is read in a pass of its own with a FINISHED_ROUND of its
own (builtin-record.c:544); its events may be older than what earlier rounds let
the session flush. `RoundOrder` is about forward buffers.

## 7. Not modelled

`tools/perf` has 160 000 lines, and most of them are translation of text and
formats: parsing of event names, of trace event formats and of options, the
single features of the header, symbols, DWARF, disassembly, sorting and printing
of columns, the browsers, the scripting bindings, per-PMU tables, tests and
benchmarks, and libraries shared with the kernel tree. They are sequential and
keep no state over which an order of steps could go wrong; modelling them would
repeat the code. `PROJECT.json` lists each part with the reason, and for the parts
that are modelled in part what is left out. The packets of Intel PT and the
stack unwinders are left out for the same reason.

The kernel and the hardware are external throughout: they are modelled from what
perf relies on (a stamp and its publication are one step, a paused buffer is not
written, a dead event reports POLLHUP and writes no more, `poll()` looks at
descriptors before signals).

## 8. What could come next

The parts of the suites' conjunctions that need no induction over data and are
not proved yet: the references of `MachineThreads`, the windows of `FileWindows`
that a queued event points into, the positions of `AuxMmap`, the entries of
`TraceSyscalls`, and the headers of `PerfDataFile`.
