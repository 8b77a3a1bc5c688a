------------------------------ MODULE MCData ------------------------------
(***************************************************************************)
(* The stores of data that are written and read at a time: ring buffers,   *)
(* AUX areas, files and their windows, queues of decoders, caches and the  *)
(* trees of perf top.  Each behaviour is one of one of them, which the     *)
(* variable scenario names; the state of the others stays as it was        *)
(* initially.                                                              *)
(***************************************************************************)
EXTENDS AuxCache, Stores, Integers

(* Ring buffers: what the tests and tools read event by event, what perf   *)
(* record copies, overwritable ones paused for a dump or a read, and ones  *)
(* that are overwritten as they are read.                                  *)
Rings ==
    [forward   |-> [ring |-> 4, kind |-> "forward", reader |-> "read", event |-> 4, pos |-> 4,
                    int |-> 4, records |-> 6, fails |-> FALSE],
     record    |-> [ring |-> 4, kind |-> "forward", reader |-> "record", event |-> 4, pos |-> 4,
                    int |-> 4, records |-> 6, fails |-> TRUE],
     dump      |-> [ring |-> 8, kind |-> "backward", reader |-> "record", event |-> 8, pos |-> 5,
                    int |-> 5, records |-> 6, fails |-> FALSE],
     backward  |-> [ring |-> 8, kind |-> "backward", reader |-> "read", event |-> 8, pos |-> 6,
                    int |-> 5, records |-> 6, fails |-> FALSE],
     overwrite |-> [ring |-> 8, kind |-> "overwrite", reader |-> "read", event |-> 4, pos |-> 8,
                    int |-> 7, records |-> 4, fails |-> FALSE]]

(* AUX areas: one whose length is no power of two, records of three units  *)
(* as Intel BTS has them, and snapshots of these.                          *)
Auxs ==
    [trace    |-> [length |-> 3, pos |-> 3, align |-> 0, pad |-> 2, snapshot |-> FALSE,
                   records |-> 8, events |-> 4],
     bts      |-> [length |-> 8, pos |-> 5, align |-> 3, pad |-> 1, snapshot |-> FALSE,
                   records |-> 11, events |-> 7],
     snapshot |-> [length |-> 8, pos |-> 5, align |-> 3, pad |-> 1, snapshot |-> TRUE,
                   records |-> 7, events |-> 4]]

(* Recordings: samples and rounds, or AUX area data that spans windows.    *)
Ev(kind, size, skip) == [kind |-> kind, size |-> size, skip |-> skip]
Samples == {Ev("sample", 1, 0), Ev("sample", 5, 0), Ev("round", 1, 0)}
Traced == {Ev("sample", 1, 0), Ev("auxtrace", 1, 3), Ev("auxtrace", 2, 13)}
UpTo(n, E) == UNION {[1 .. k -> E] : k \in 0 .. n}
SampleFiles == UpTo(5, Samples)
TracedFiles == UpTo(3, Traced) \union {<<Ev("auxtrace_info", 2, 0)>> \o f : f \in UpTo(3, Traced)}

(* 32 bit windows, an address space smaller than all windows, and 64 bit.  *)
Windows ==
    [w32    |-> [files |-> SampleFiles, size |-> 8, nr |-> 2, space |-> 3],
     full   |-> [files |-> SampleFiles, size |-> 8, nr |-> 4, space |-> 3],
     traced |-> [files |-> TracedFiles, size |-> 8, nr |-> 2, space |-> 3],
     w64    |-> [files |-> TracedFiles, size |-> 100, nr |-> 1, space |-> 1]]

(* Intel BTS from a recording with an index, with snapshots, from a pipe.  *)
Btss ==
    [indexed   |-> [indexes |-> {0, 1, 2}, indexed |-> TRUE, snapshot |-> FALSE, time |-> 3,
                    buffers |-> 3, branches |-> 1, events |-> 1, fails |-> TRUE],
     snapshots |-> [indexes |-> {0, 1}, indexed |-> TRUE, snapshot |-> TRUE, time |-> 2,
                    buffers |-> 3, branches |-> 2, events |-> 1, fails |-> FALSE],
     pipe      |-> [indexes |-> {0, 1}, indexed |-> FALSE, snapshot |-> FALSE, time |-> 2,
                    buffers |-> 3, branches |-> 1, events |-> 3, fails |-> FALSE]]

(* Code: instructions of several lengths and branches; one DSO is mapped   *)
(* by two threads, and one map runs into the next.                         *)
Insn(length) == [length |-> length, branch |-> FALSE]
Branch == [length |-> 1, branch |-> TRUE]
TwoDsos ==
    [a |-> [o \in {0, 2, 3} |-> IF o = 0 THEN Insn(2) ELSE IF o = 2 THEN Branch ELSE Insn(1)],
     b |-> [o \in {0} |-> Branch]]
Map(start, len, dso) == [start |-> start, end |-> start + len, dso |-> dso, pgoff |-> 0]
TwoThreads == [t1 |-> {Map(10, 4, "a"), Map(14, 1, "b")}, t2 |-> {Map(20, 4, "a")}]

(* DSOs of two chunks, of one and without a file. *)
DsoSizes == [a |-> 3, b |-> 1, none |-> -1]
WholeFile == {<<0, 5>>}

(* perf top: two user symbols that collapse, and one of the kernel; with    *)
(* the browser, and on standard output.                                    *)
TopCollapse == [u1 |-> "u", u2 |-> "u", k |-> "k"]
TopScenarios == {"tui", "stdio"}

Scenarios == DOMAIN Rings \union DOMAIN Auxs \union DOMAIN Windows \union DOMAIN Btss
             \union TopScenarios \union {"cache", "file", "kvm", "pt", "dso"}

VARIABLE scenario  \* what runs in this behaviour

(* The cache of a decoder, under any sequence of additions: AuxCache itself. *)
cacheVars == <<cache>>

(* A ring buffer and its reader. *)
VARIABLES ring_data, ring_head, ring_tail, khead, paused, records,
          ring_prev, event_copy, ring_pc, start, end, loaded, event, out,
          nreads
Ring(c) == INSTANCE MmapRing WITH
    RingSize <- c.ring, Kind <- c.kind, Reader <- c.reader, Sizes <- {1, 2, 3},
    EventMax <- c.event, PosBits <- c.pos, IntBits <- c.int, MaxRecords <- c.records,
    MaxReads <- 2, WriteMayFail <- c.fails, data <- ring_data, head <- ring_head,
    tail <- ring_tail, prev <- ring_prev, pc <- ring_pc
ringVars == <<ring_data, ring_head, ring_tail, khead, paused, records,
              ring_prev, event_copy, ring_pc, start, end, loaded, event,
              out, nreads>>

(* An AUX area buffer and its reader. *)
VARIABLES aux_data, aux_head, aux_tail, enabled, nrecords, aux_prev,
          aux_wrapped, aux_pc, rd, aux_file, kept
Aux(c) == INSTANCE AuxMmap WITH
    Length <- c.length, PowerOf2 <- c.length = 8, PosBits <- c.pos, Align <- c.align,
    PadTo <- c.pad, Snapshot <- c.snapshot, SnapshotSize <- c.length, WrapWindow <- 3,
    MaxRecords <- c.records, MaxEvents <- c.events, data <- aux_data, prev <- aux_prev,
    wrapped <- aux_wrapped, pc <- aux_pc, file <- aux_file
auxVars == <<aux_data, aux_head, aux_tail, enabled, nrecords, aux_prev,
             aux_wrapped, aux_pc, rd, aux_file, kept>>

(* The windows through which a recording is read. *)
VARIABLES window_file, data_offset, window_pc, file_offset, window_head,
          file_pos, mmaps, map_idx, windows, processed, window_queue, round,
          auxqueue, populated
Window(c) == INSTANCE FileWindows WITH
    Files <- c.files, DataOffsets <- {1, 4}, PageSize <- 2, MMAP_SIZE <- c.size,
    NUM_MMAPS <- c.nr, AddressSpace <- c.space, file <- window_file, pc <- window_pc,
    head <- window_head, queue <- window_queue
windowVars == <<window_file, data_offset, window_pc, file_offset,
                window_head, file_pos, mmaps, map_idx, windows, processed,
                window_queue, round, auxqueue, populated>>

(* The perf.data file, two events and two features. *)
VARIABLES now, old, dumps, pos, header, idOffset, sec, bytes_written,
          file_pc, file_next, events, switches, dumped
File == INSTANCE PerfDataFile WITH
    Ids <- <<2, 1>>, FeatLen <- <<1, 2>>, MaxPos <- 15, MaxEvents <- 4, MaxSwitches <- 2,
    Timestamp <- TRUE, WriteMayFail <- TRUE, RenameMayFail <- FALSE, pc <- file_pc,
    next <- file_next
fileVars == <<now, old, dumps, pos, header, idOffset, sec, bytes_written,
              file_pc, file_next, events, switches, dumped>>

kvmVars == <<kvm_clock, inflight, slots, kvm_head, kvm_tail, kvm_pc, idx,
             kvm_n, mmap_time, flush_time, ntotal, throttled, npasses,
             kvm_queue, delivered, empty, late>>

(* The queues of Intel BTS. *)
VARIABLES queues, new_data, next_buffer_nr, heap, bts_pc, ts, exiting,
          nevents, bts_clock, upto, taken, bts_wrapped, decoded
Bts(c) == INSTANCE IntelBts WITH
    InitNrQueues <- 2, Indexes <- c.indexes, Indexed <- c.indexed,
    SnapshotMode <- c.snapshot, Capacity <- 3, MaxTime <- c.time,
    MaxBuffers <- c.buffers, MaxBranches <- c.branches, MaxEvents <- c.events,
    MayFail <- c.fails, pc <- bts_pc, clock <- bts_clock, wrapped <- bts_wrapped
btsVars == <<queues, new_data, next_buffer_nr, heap, bts_pc, ts, exiting,
             nevents, bts_clock, upto, taken, bts_wrapped, decoded>>

(* The walk of the Intel PT decoder through two DSOs. *)
VARIABLES caches, query, result
Pt == INSTANCE IntelPtWalk WITH
    Code <- TwoDsos, ThreadMaps <- TwoThreads, MaxInsnCnts <- {0, 2}, limit <- 1
ptVars == <<caches, query, result>>

dsoVars == <<dso_data, others, dso_lock, dso_cache, freed, dso_pc, op>>

topVars == <<entries_in, in, collapsed, entries, he, nr_entries,
             total_period, top_lock, rpc, rkey, rhe, root, dpc, droot, hide,
             zero, sym_filter_entry, top_done, samples, presses, gone,
             added, dropped, raced, shared>>

suiteVars == <<scenario, cacheVars, ringVars, auxVars, windowVars, fileVars, kvmVars,
         btsVars, ptVars, dsoVars, topVars>>

-----------------------------------------------------------------------------
(* perf top --stdio, where keys set sym_filter_entry: two are pressed.     *)
Stdio == INSTANCE HistsTop WITH
    Keys <- TopKeys, MaxPresses <- 2, Browser <- FALSE, lock <- top_lock, done <- top_done

(* The configuration of a component in a scenario: a fixed one where       *)
(* another component runs.                                                 *)
Setup(configs, s, default) == IF s \in DOMAIN configs THEN configs[s] ELSE configs[default]

SuiteInit ==
    \E s \in Scenarios :
        /\ scenario = s
        /\ Init
        /\ Ring(Setup(Rings, s, "forward"))!Init
        /\ Aux(Setup(Auxs, s, "trace"))!Init
        /\ Window(Setup(Windows, s, "w32"))!Init
        /\ s \notin DOMAIN Windows => window_file = <<>> /\ data_offset = 1
        /\ File!Init /\ Kvm!Init /\ Pt!Init /\ Dso!Init
        /\ s # "file" => header.feats = {}
        /\ Bts(Setup(Btss, s, "indexed"))!Init
        /\ Top!Init
        /\ s \notin TopScenarios => rkey = "k"

SuiteNext ==
    \/ /\ scenario = "cache" /\ Next
       /\ UNCHANGED <<scenario, ringVars, auxVars, windowVars,
                 fileVars, kvmVars, btsVars, ptVars, dsoVars, topVars>>
    \/ /\ \E s \in DOMAIN Rings : scenario = s /\ Ring(Rings[s])!Next
       /\ UNCHANGED <<scenario, cacheVars, auxVars, windowVars,
                 fileVars, kvmVars, btsVars, ptVars, dsoVars, topVars>>
    \/ /\ \E s \in DOMAIN Auxs : scenario = s /\ Aux(Auxs[s])!Next
       /\ UNCHANGED <<scenario, cacheVars, ringVars, windowVars,
                 fileVars, kvmVars, btsVars, ptVars, dsoVars, topVars>>
    \/ /\ \E s \in DOMAIN Windows : scenario = s /\ Window(Windows[s])!Next
       /\ UNCHANGED <<scenario, cacheVars, ringVars, auxVars,
                 fileVars, kvmVars, btsVars, ptVars, dsoVars, topVars>>
    \/ /\ scenario = "file" /\ File!Next
       /\ UNCHANGED <<scenario, cacheVars, ringVars, auxVars,
                 windowVars, kvmVars, btsVars, ptVars, dsoVars, topVars>>
    \/ /\ scenario = "kvm" /\ Kvm!Next
       /\ UNCHANGED <<scenario, cacheVars, ringVars, auxVars,
                 windowVars, fileVars, btsVars, ptVars, dsoVars, topVars>>
    \/ /\ \E s \in DOMAIN Btss : scenario = s /\ Bts(Btss[s])!Next
       /\ UNCHANGED <<scenario, cacheVars, ringVars, auxVars,
                 windowVars, fileVars, kvmVars, ptVars, dsoVars, topVars>>
    \/ /\ scenario = "pt" /\ Pt!Next
       /\ UNCHANGED <<scenario, cacheVars, ringVars, auxVars,
                 windowVars, fileVars, kvmVars, btsVars, dsoVars, topVars>>
    \/ /\ scenario = "dso" /\ Dso!Next
       /\ UNCHANGED <<scenario, cacheVars, ringVars, auxVars,
                 windowVars, fileVars, kvmVars, btsVars, ptVars, topVars>>
    \/ /\ \/ scenario = "tui" /\ Top!Next
          \/ scenario = "stdio" /\ Stdio!Next
       /\ UNCHANGED <<scenario, cacheVars, ringVars, auxVars,
                 windowVars, fileVars, kvmVars, btsVars, ptVars, dsoVars>>

SuiteSpec == SuiteInit /\ [][SuiteNext]_suiteVars

-----------------------------------------------------------------------------
(* However the kernel writes while the tool reads: what is read from a     *)
(* ring buffer is what the kernel wrote, in order, whole and once; a dump  *)
(* of an overwritable buffer is exactly the newest records it has whole;   *)
(* an event of a buffer that is overwritten as it is read is whole unless  *)
(* half the buffer was written since the head was loaded.  The inductive   *)
(* invariants of MmapRingProofs and of KvmLive are checked too: no copy of *)
(* record__mmap_read() runs past the buffer, what is not given back lies   *)
(* where readers look, and what perf kvm stat live left in a buffer that   *)
(* was not empty is behind the time up to which it flushes.                *)
BuffersIntact ==
    /\ \A s \in DOMAIN Rings : scenario = s =>
          /\ Ring(Rings[s])!TypeOK
          /\ s = "forward" => /\ Ring(Rings[s])!EventReader
                              /\ Ring(Rings[s])!EventsIntact
                              /\ Ring(Rings[s])!Placed(Ring(Rings[s])!Starts)
          /\ s = "record" => /\ Ring(Rings[s])!FileReader
                             /\ Ring(Rings[s])!FileIntact
                             /\ Ring(Rings[s])!FilePrefix(Ring(Rings[s])!Starts)
                             /\ Ring(Rings[s])!CopyInside
                             /\ \E c \in 0 .. Len(records) :
                                  Ring(Rings[s])!FilePlaced(Ring(Rings[s])!Starts, c)
          /\ s = "dump" => Ring(Rings[s])!DumpIsNewest
          /\ s = "backward" => Ring(Rings[s])!BackwardReadsNewest
          /\ s = "overwrite" => Ring(Rings[s])!HalfBufferSurvives
    /\ scenario = "kvm" => Kvm!TypeOK /\ Kvm!KvmInv

(* The AUX events of the file are in step with it and are together what    *)
(* the hardware wrote, each at its position, also where positions wrap     *)
(* and where records do not fit the length; a snapshot is whole records up *)
(* to the newest and lacks none that no earlier snapshot has.              *)
AuxTraceIntact ==
    \A s \in DOMAIN Auxs : scenario = s =>
        /\ Aux(Auxs[s])!TypeOK
        /\ s \in {"trace", "bts"} => Aux(Auxs[s])!FileInStep /\ Aux(Auxs[s])!TraceIntact
        /\ s = "trace" => Aux(Auxs[s])!OffsetIsPosition
        /\ s = "snapshot" => Aux(Auxs[s])!SnapshotWhole /\ Aux(Auxs[s])!SnapshotComplete

(* Whenever perf record is killed and whatever fails, a perf.data file     *)
(* with a data size is read as it was recorded, and no finished file is    *)
(* lost by a switch of the output.  Wherever the window stands, reading is *)
(* at the event behind the last one processed; what the queues of events   *)
(* and of AUX area data point to is mapped; with 64 bit an index fills the *)
(* queues completely.                                                      *)
FilesReadBack ==
    /\ scenario = "file" => File!TypeOK /\ File!SizedIsComplete /\ File!NoDumpLost
    /\ \A s \in DOMAIN Windows : scenario = s =>
          /\ Window(Windows[s])!TypeOK
          /\ Window(Windows[s])!AtTheNextEvent
          /\ s \in {"w32", "full"} => Window(Windows[s])!QueuedIsMapped
          /\ s = "w64" => Window(Windows[s])!TraceIsMapped /\ Window(Windows[s])!FullyPopulated

(* Intel BTS: the buffers of a recording are decoded in the order of their *)
(* times, before the events behind them and all of them; from snapshots    *)
(* that overlap, and from a pipe, every branch at most once; the heap has  *)
(* the queues that wait.  The cache of the Intel PT walk is transparent,   *)
(* whatever was walked before, has nothing twice, and is bounded.          *)
TraceDecoded ==
    /\ \A s \in DOMAIN Btss : scenario = s =>
          /\ Bts(Btss[s])!TypeOK
          /\ Bts(Btss[s])!HeapIsQueues
          /\ s = "indexed" => /\ Bts(Btss[s])!DecodedInTime
                              /\ Bts(Btss[s])!DecodedInOrder
                              /\ Bts(Btss[s])!EverythingDecoded
          /\ s \in {"snapshots", "pipe"} => Bts(Btss[s])!BranchesOnce
    /\ Pt!WalkIsUncached /\ Pt!NoDuplicates /\ Pt!CachesBounded

(* perf top: the periods of the samples and the totals that are shown add  *)
(* up, whatever decays, is hidden or is counted by the other thread.       *)
TopAddsUp == Top!TypeOK /\ Top!PeriodsConserved /\ Top!TotalsMatch
=============================================================================
