---------------------------- MODULE FileWindows -----------------------------
(* How __perf_session__process_events() (tools/perf/util/session.c) looks   *)
(* at the data of a perf.data file: through one mapping on 64 bit, through  *)
(* a window of MMAP_SIZE bytes that moves along on 32 bit, with the last    *)
(* NUM_MMAPS windows kept for events on the ordered queue that still point  *)
(* into them, and the AUX area data behind an AUXTRACE event skipped.       *)
(* Positions are counted in units of one event header.                      *)
EXTENDS Naturals, Sequences, FiniteSets

CONSTANTS
  Files,         \* sequences of events [kind, size, skip]
  DataOffsets,   \* where the data may begin in the file
  PageSize,
  MMAP_SIZE, NUM_MMAPS,
  AddressSpace   \* how many windows the process can have mapped

HeaderSize == 1
Kinds == {"sample", "round", "auxtrace", "auxtrace_info"}

(* Events are at most 64K; a window is a multiple of that and of a page.    *)
VARIABLES
  file, data_offset,
  pc,            \* "remap", "more", "flush", "done", "failed"
  file_offset, head, file_pos,
  mmaps, map_idx,
  windows,       \* file offsets of the windows opened so far; the last is buf
  processed,     \* events processed
  queue,         \* ordered events: <<event, window it points into>>
  round,         \* events that were processed at the last round
  auxqueue,      \* AUX area buffers: <<event, window or 0 for read on demand>>
  populated      \* queues.populated

vars == <<file, data_offset, pc, file_offset, head, file_pos, mmaps, map_idx,
          windows, processed, queue, round, auxqueue, populated>>
inputVars == <<file, data_offset>>
positionVars == <<file_offset, head, file_pos>>
windowVars == <<mmaps, map_idx, windows>>
resultVars == <<processed, queue, round, auxqueue, populated>>

(* Where event i begins, and where the data ends. *)
Position[i \in Nat] ==
  IF i <= 1 THEN data_offset ELSE Position[i - 1] + file[i - 1].size + file[i - 1].skip
file_size == Position[Len(file) + 1]

one_mmap == MMAP_SIZE > file_size
mmap_size == IF one_mmap THEN file_size ELSE MMAP_SIZE

Init ==
  /\ file \in Files /\ data_offset \in DataOffsets
  /\ file_offset = PageSize * (data_offset \div PageSize)
  /\ head = data_offset - PageSize * (data_offset \div PageSize)
  /\ file_pos = 0
  /\ pc = IF file = <<>> THEN "flush" ELSE "remap"
  /\ mmaps = [k \in 0 .. NUM_MMAPS - 1 |-> 0] /\ map_idx = 0 /\ windows = <<>>
  /\ processed = 0 /\ queue = {} /\ round = 0 /\ auxqueue = {} /\ populated = FALSE

buf == Len(windows)
Mapped == {mmaps[k] : k \in DOMAIN mmaps} \ {0}

(* remap: the next window, unless the address space is full *)
Remap ==
  /\ pc = "remap"
  /\ \/ /\ Cardinality(Mapped) < AddressSpace
        /\ windows' = Append(windows, file_offset)
        /\ mmaps' = [mmaps EXCEPT ![map_idx] = buf + 1]
        /\ map_idx' = (map_idx + 1) % NUM_MMAPS
        /\ file_pos' = file_offset + head
        /\ pc' = "more"
     \/ /\ Cardinality(Mapped) >= AddressSpace
        /\ pc' = "failed"
        /\ UNCHANGED <<windowVars, file_pos>>
  /\ UNCHANGED <<inputVars, file_offset, head, resultVars>>

(* The event whose header the program reads at a position of the file. *)
EventAt(pos) == CHOOSE i \in DOMAIN file : Position[i] = pos

(* fetch_mmaped_event(): the header, and then the event, have to end within *)
(* the window.                                                              *)
fetch_mmaped_event ==
  /\ head + HeaderSize <= mmap_size
  /\ head + file[EventAt(windows[buf] + head)].size <= mmap_size

(* The window that is NUM_MMAPS behind is unmapped, and the next one begins *)
(* with the page that holds the event.                                      *)
OldestUnmapped == [mmaps EXCEPT ![map_idx] = 0]

NextWindow_KeepsHead ==
  LET page_offset == PageSize * (head \div PageSize)
  IN /\ file_offset' = file_offset + page_offset
     /\ head' = head

NextWindow ==
  LET page_offset == PageSize * (head \div PageSize)
  IN /\ file_offset' = file_offset + page_offset
     /\ head' = head - page_offset

MoveWindow ==
  /\ pc = "more" /\ ~fetch_mmaped_event
  /\ mmaps' = OldestUnmapped
  /\ NextWindow
  /\ pc' = "remap"
  /\ UNCHANGED <<inputVars, file_pos, map_idx, windows, resultVars>>

(* perf_session__peek_event() of an AUXTRACE event of the index: in the one *)
(* mapping it is the event; from the file, the body is read over the        *)
(* header, and the type that is tested is the size of the trace.            *)
PeekedKind(i) == IF one_mmap THEN file[i].kind ELSE "body"

(* auxtrace_queues__process_index(), called for the AUXTRACE_INFO event:   *)
(* auxtrace_queues__add_indexed_event() adds what peeks as an AUXTRACE event *)
auxtrace_queues__process_index ==
  LET index == {i \in DOMAIN file : file[i].kind = "auxtrace"}
  IN /\ auxqueue' = {<<i, buf>> : i \in {j \in index : PeekedKind(j) = "auxtrace"}}
     /\ populated' = TRUE

(* auxtrace_queues__add_event_buffer(): a pointer into the one mapping, or  *)
(* an offset to read from later                                             *)
auxtrace_queues__add_event(i) ==
  auxqueue' = auxqueue \union {<<i, IF one_mmap THEN buf ELSE 0>>}

(* perf_session__process_event() by the kind of event.  A round delivers   *)
(* all that was queued before the round in front of it, and of the rest    *)
(* what is old enough.                                                      *)
perf_session__process_event(i) ==
  LET kind == file[i].kind
  IN /\ \/ /\ kind = "sample"
           /\ queue' = queue \union {<<i, buf>>}
           /\ UNCHANGED <<round, auxqueue, populated>>
        \/ /\ kind = "round"
           /\ \E delivered \in SUBSET queue :
                /\ {q \in queue : q[1] <= round} \subseteq delivered
                /\ queue' = queue \ delivered
           /\ round' = i
           /\ UNCHANGED <<auxqueue, populated>>
        \/ /\ kind = "auxtrace_info"
           /\ auxtrace_queues__process_index
           /\ UNCHANGED <<queue, round>>
        \/ /\ kind = "auxtrace"
           /\ IF populated THEN UNCHANGED auxqueue ELSE auxtrace_queues__add_event(i)
           /\ UNCHANGED <<queue, round, populated>>
     /\ processed' = processed + 1

More_RoomForHeader ==
  /\ pc = "more" /\ fetch_mmaped_event
  /\ LET i == EventAt(windows[buf] + head)
         size == file[i].size + file[i].skip
     IN /\ perf_session__process_event(i)
        /\ head' = head + size
        /\ file_pos' = file_pos + size
  /\ pc' = IF file_pos' + HeaderSize < file_size THEN "more" ELSE "flush"
  /\ UNCHANGED <<inputVars, file_offset, windowVars>>

More ==
  /\ pc = "more" /\ fetch_mmaped_event
  /\ LET i == EventAt(windows[buf] + head)
         size == file[i].size + file[i].skip
     IN /\ perf_session__process_event(i)
        /\ head' = head + size
        /\ file_pos' = file_pos + size
  /\ pc' = IF file_pos' < file_size THEN "more" ELSE "flush"
  /\ UNCHANGED <<inputVars, file_offset, windowVars>>

(* out: everything still queued is delivered *)
FinalFlush ==
  /\ pc = "flush"
  /\ queue' = {}
  /\ pc' = "done"
  /\ UNCHANGED <<inputVars, positionVars, windowVars, processed, round, auxqueue, populated>>

Terminated == pc \in {"done", "failed"} /\ UNCHANGED vars

Next == Remap \/ MoveWindow \/ More \/ FinalFlush \/ Terminated

Spec == Init /\ [][Next]_vars

(* One thread, which goes on until it returns. *)
LiveSpec == Spec /\ WF_vars(Next)

-----------------------------------------------------------------------------

TypeOK ==
  /\ pc \in {"remap", "more", "flush", "done", "failed"}
  /\ file_offset \in Nat /\ head \in Nat /\ file_pos \in Nat
  /\ map_idx \in 0 .. NUM_MMAPS - 1
  /\ mmaps \in [0 .. NUM_MMAPS - 1 -> 0 .. buf]
  /\ processed \in 0 .. Len(file)
  /\ populated \in BOOLEAN

(* Wherever the window stands, the program is at the event that follows the *)
(* ones it processed, in the file and in the position it hands to           *)
(* perf_session__process_event(), also behind AUX area data that is skipped *)
(* over several windows.                                                    *)
AtTheNextEvent ==
  pc \in {"remap", "more"} =>
    /\ file_offset + head = Position[processed + 1]
    /\ pc = "more" => file_pos = Position[processed + 1] /\ windows[buf] = file_offset

(* Ordered events are not copied.  Whenever events can be delivered, the    *)
(* window of a queued event that is less than NUM_MMAPS windows old is      *)
(* mapped; where the address space holds fewer windows than that, no queued *)
(* event can be older.                                                      *)
QueuedIsMapped ==
  pc \in {"more", "flush"} => \A q \in queue : buf - q[2] < NUM_MMAPS => q[2] \in Mapped

(* A pointer to AUX area data stays good until the decoder runs: the window *)
(* is mapped and the data lies within it.                                   *)
TraceIsMapped ==
  \A q \in auxqueue : q[2] # 0 =>
    /\ q[2] \in Mapped
    /\ Position[q[1] + 1] <= windows[q[2]] + mmap_size

(* auxtrace.h of populated: "queues have been fully populated using the    *)
(* auxtrace_index".                                                         *)
FullyPopulated ==
  populated => {q[1] : q \in auxqueue} = {i \in DOMAIN file : file[i].kind = "auxtrace"}

(* A whole file is read to its end: moving the window always makes room for *)
(* the event that did not fit.                                              *)
ReadsAll == <>(pc = "done" /\ processed = Len(file))
=============================================================================
