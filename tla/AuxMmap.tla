------------------------------ MODULE AuxMmap ------------------------------
(***************************************************************************)
(* One AUX area buffer: __auxtrace_mmap__read() (auxtrace.c), which copies *)
(* what Intel PT or Intel BTS wrote into the file, in full trace mode      *)
(* while the hardware goes on writing, or in snapshot mode while it is     *)
(* disabled (intel_bts_find_snapshot(), arch/x86/util/intel-bts.c).        *)
(*                                                                         *)
(* The unit is what a position counts.  A record of the hardware is Align  *)
(* units when the driver asks for alignment (a branch of Intel BTS, three  *)
(* words), one unit otherwise; it never straddles the end of the buffer.   *)
(***************************************************************************)
EXTENDS Integers, Sequences, SequencesExt, FiniteSetsExt

CONSTANTS
  Length,       \* mm->len
  PowerOf2,     \* mm->mask != 0: the length is a power of two
  PosBits,      \* width of a position: 64
  Align,        \* itr->alignment in units, 0 when there is none
  PadTo,        \* an AUX event is padded to this many units: 8 bytes
  Snapshot,     \* snapshot mode?
  SnapshotSize, \* opts->auxtrace_snapshot_size
  WrapWindow,   \* what intel_bts_first_wrap() looks at: 512 words
  MaxRecords,   \* bound: records the hardware writes
  MaxEvents     \* bound: AUX events in the file

VARIABLES
  (* shared with the kernel *)
  data, aux_head, aux_tail, enabled,
  nrecords,  \* records written so far
  (* struct auxtrace_mmap, and the snapshot reference of its index *)
  prev, wrapped,
  (* the reader: where it is and the locals of __auxtrace_mmap__read() *)
  pc, rd,
  file,      \* the AUX events of the file
  kept       \* history: per event, the records written and those in the buffer

kernelVars == <<data, aux_head, aux_tail, enabled, nrecords>>
vars == <<kernelVars, prev, wrapped, pc, rd, file, kept>>

U64(n) == n % (2 ^ PosBits)
RecordSize == IF Align = 0 THEN 1 ELSE Align

(* A unit of memory: part k of record r; memory starts blank. *)
Blank == <<0, 0>>
Unit == {Blank} \cup ((1 .. MaxRecords) \X (1 .. RecordSize))
RecordUnits(r) == [k \in 1 .. RecordSize |-> <<r, k>>]

(* Where aux_head goes back to 0: "the highest multiple of the buffer size". *)
Wrap == 2 ^ PosBits - (2 ^ PosBits % Length)

NoRead == [head |-> 0, old |-> 0, size |-> 0, offset |-> 0,
           start1 |-> 0, len1 |-> 0, len2 |-> 0]

Init ==
  /\ data = [i \in 0 .. Length - 1 |-> Blank]
  /\ aux_head = 0 /\ aux_tail = 0 /\ nrecords = 0
  /\ enabled = TRUE
  /\ prev = 0 /\ wrapped = FALSE
  /\ pc = "idle" /\ rd = NoRead
  /\ file = <<>> /\ kept = <<>>

-----------------------------------------------------------------------------
(* The hardware and its driver. *)

(* What is skipped so that the next record does not straddle the end. *)
Skipped == LET room == Length - (aux_head % Length)
           IN  IF room < RecordSize THEN room ELSE 0

(* In full trace mode the driver stops at what is not read yet; in         *)
(* snapshot mode it overwrites and the head is an offset in the buffer.    *)
HwWrite ==
  /\ enabled /\ nrecords < MaxRecords
  /\ Snapshot \/ ((aux_head - aux_tail) % Wrap) + Skipped + RecordSize <= Length
  /\ LET at  == (aux_head + Skipped) % Length
         new == aux_head + Skipped + RecordSize
     IN  /\ data' = [i \in DOMAIN data |->
                       IF i \in at .. (at + RecordSize - 1)
                       THEN <<nrecords + 1, i - at + 1>> ELSE data[i]]
         /\ aux_head' = IF Snapshot THEN new % Length ELSE new % Wrap
  /\ nrecords' = nrecords + 1
  /\ UNCHANGED <<aux_tail, enabled, prev, wrapped, pc, rd, file, kept>>

-----------------------------------------------------------------------------
(* __auxtrace_mmap__read() *)

(* Mutant: a buffer that wrapped is not noticed. *)
first_wrap_Never == FALSE

(* Is there anything at the end of the buffer? *)
first_wrap ==
  \E i \in (Length - WrapWindow) .. (Length - 1) : data[i] # Blank

(* The range of the buffer between two positions. *)
TraceSize(head, old) ==
  LET head_off == head % Length
      old_off  == old % Length
      size     == IF head_off > old_off THEN head_off - old_off
                  ELSE Length - (old_off - head_off)
  IN  IF Snapshot THEN Min({size, SnapshotSize}) ELSE size

(* The position of the first unit; a head that wrapped before the end of   *)
(* the width leaves a remainder to subtract.                               *)
Offset(head, old, size) ==
  IF head > old \/ size <= head \/ PowerOf2
  THEN U64(head - size)
  ELSE U64(head - size - (U64(0 - Length) % Length))

(* What the alignment drops at the end of the first part. *)
Unwanted(len1) == IF Align = 0 THEN 0 ELSE len1 % Align

(* The two parts, the first one cut to the alignment. *)
Locals(head, old) ==
  LET size     == TraceSize(head, old)
      head_off == head % Length
      split    == size > head_off
      len1     == IF split THEN size - head_off ELSE size
  IN  [head   |-> head, old |-> old,
       size   |-> size - Unwanted(len1),
       offset |-> Offset(head, old, size),
       start1 |-> IF split THEN Length - len1 ELSE head_off - len1,
       len1   |-> len1 - Unwanted(len1),
       len2   |-> IF split THEN head_off ELSE 0]

(* Mutant: the kernel is told before the copy. *)
ReadHead_TailFirst ==
  /\ ~Snapshot /\ pc = "idle" /\ Len(file) < MaxEvents
  /\ prev # aux_head
  /\ rd' = Locals(aux_head, prev)
  /\ aux_tail' = aux_head
  /\ pc' = "process"
  /\ UNCHANGED <<data, aux_head, enabled, nrecords, prev, wrapped, file, kept>>

(* The kernel's head is read once; nothing new is nothing to do. *)
ReadHead ==
  /\ ~Snapshot /\ pc = "idle" /\ Len(file) < MaxEvents
  /\ prev # aux_head
  /\ rd' = Locals(aux_head, prev)
  /\ pc' = "process"
  /\ UNCHANGED <<kernelVars, prev, wrapped, file, kept>>

(* auxtrace_record__snapshot_start(): the event is disabled. *)
SnapshotStart ==
  /\ Snapshot /\ pc = "idle" /\ enabled /\ Len(file) < MaxEvents
  /\ enabled' = FALSE /\ pc' = "snapshot"
  /\ UNCHANGED <<data, aux_head, aux_tail, nrecords, prev, wrapped, rd, file, kept>>

(* intel_bts_find_snapshot() makes the two positions look like full trace. *)
FindSnapshot ==
  /\ pc = "snapshot"
  /\ wrapped' = (wrapped \/ first_wrap)
  /\ LET old  == IF wrapped' THEN aux_head ELSE prev % Length
         head == IF wrapped' \/ old > aux_head THEN aux_head + Length ELSE aux_head
     IN  IF old = head
         THEN pc' = "finish" /\ rd' = NoRead
         ELSE pc' = "process" /\ rd' = Locals(head, old)
  /\ UNCHANGED <<kernelVars, prev, file, kept>>

Padding(size) == (0 - size) % PadTo

Slice(from, len) == [i \in 1 .. len |-> data[from + i - 1]]
WholeRecords == {r \in 1 .. nrecords :
                   \A k \in 1 .. RecordSize : <<r, k>> \in {data[i] : i \in DOMAIN data}}

(* fn() is record__process_auxtrace(): the event, then the first part. *)
WriteFirst ==
  /\ pc = "process"
  /\ file' = Append(file, [offset |-> rd.offset,
                           size   |-> rd.size + Padding(rd.size),
                           data   |-> Slice(rd.start1, rd.len1)])
  /\ kept' = Append(kept, [upto |-> nrecords, have |-> WholeRecords])
  /\ pc' = "second"
  /\ UNCHANGED <<kernelVars, prev, wrapped, rd>>

(* The second part, and the padding, from the lengths written. *)
WriteSecond ==
  /\ pc = "second"
  /\ LET pad == Padding(rd.len1 + rd.len2)
     IN  file' = [file EXCEPT ![Len(file)].data =
                    @ \o Slice(0, rd.len2) \o [i \in 1 .. pad |-> Blank]]
  /\ pc' = "finish"
  /\ UNCHANGED <<kernelVars, prev, wrapped, rd, kept>>

(* fn() cannot get at the file or its index: the recording ends. *)
ProcessFails ==
  /\ pc = "process"
  /\ pc' = "failed"
  /\ UNCHANGED <<kernelVars, prev, wrapped, rd, file, kept>>

(* The position is kept, and in full trace mode given to the kernel. *)
FinishRead ==
  /\ ~Snapshot /\ pc = "finish"
  /\ prev' = rd.head /\ aux_tail' = rd.head
  /\ pc' = "idle"
  /\ UNCHANGED <<data, aux_head, enabled, nrecords, wrapped, rd, file, kept>>

(* The snapshot is taken: auxtrace_record__snapshot_finish() enables. *)
SnapshotFinish ==
  /\ Snapshot /\ pc = "finish"
  /\ prev' = IF rd = NoRead THEN prev ELSE rd.head
  /\ enabled' = TRUE
  /\ pc' = "idle"
  /\ UNCHANGED <<data, aux_head, aux_tail, nrecords, wrapped, rd, file, kept>>

Done == (nrecords = MaxRecords \/ Len(file) = MaxEvents \/ pc = "failed")
        /\ UNCHANGED vars

Next ==
  \/ HwWrite
  \/ ReadHead \/ SnapshotStart \/ FindSnapshot
  \/ WriteFirst \/ WriteSecond \/ ProcessFails
  \/ FinishRead \/ SnapshotFinish
  \/ Done

Spec == Init /\ [][Next]_vars

-----------------------------------------------------------------------------
(* Every value has the type of its declaration. *)
TypeOK ==
  /\ data \in [0 .. Length - 1 -> Unit]
  /\ aux_head \in 0 .. (Wrap - 1) /\ aux_tail \in 0 .. (Wrap - 1)
  /\ nrecords \in 0 .. MaxRecords /\ enabled \in BOOLEAN
  /\ prev \in 0 .. (2 ^ PosBits - 1) /\ wrapped \in BOOLEAN
  /\ pc \in {"idle", "snapshot", "process", "second", "finish", "failed"}
  /\ rd.len1 \in 0 .. Length /\ rd.len2 \in 0 .. Length
  /\ rd.size = rd.len1 + rd.len2

(* What a decoder finds in an event: records, the blank ones left out. *)
NotBlank(r) == \E k \in 1 .. RecordSize : r[k] # Blank
Whole(i) == pc # "second" \/ i < Len(file)
Content(i) ==
  LET d == file[i].data
  IN  SelectSeq([j \in 1 .. (Len(d) \div RecordSize) |->
                   SubSeq(d, (j - 1) * RecordSize + 1, j * RecordSize)], NotBlank)
RecordsFrom(r, n) == [j \in 1 .. n |-> RecordUnits(r + j - 1)]

(* The size of an AUX event, computed by the reader, is what fn() wrote     *)
(* behind it, padding included: the file stays in step.                    *)
FileInStep ==
  \A i \in 1 .. Len(file) : Whole(i) => file[i].size = Len(file[i].data)

(* Full trace: the events together are the records the hardware wrote, in  *)
(* order, whole, none twice and none missing up to the position kept.      *)
TraceIntact ==
  pc # "second" =>
    LET trace == FlattenSeq([i \in 1 .. Len(file) |-> Content(i)])
    IN  /\ trace = RecordsFrom(1, Len(trace))
        /\ (pc = "idle" /\ prev = aux_head) => Len(trace) = nrecords

(* Full trace: the offset of an event is the position of its first unit,   *)
(* also where the position wrapped below the end of its width.             *)
OffsetIsPosition ==
  \A i \in 1 .. Len(file) :
    file[i].offset = (Content(i)[1][1][1] - 1) % Wrap

(* Snapshot: an event is whole records up to the newest one.               *)
SnapshotWhole ==
  \A i \in 1 .. Len(file) : Whole(i) =>
    LET n == Len(Content(i))
    IN  Content(i) = RecordsFrom(kept[i].upto - n + 1, n)

(* Snapshot: every record that is still in the buffer and that no earlier  *)
(* snapshot has is in this one, also behind the first time around.         *)
SnapshotComplete ==
  \A i \in 1 .. Len(file) : Whole(i) =>
    LET seen == IF i = 1 THEN 0 ELSE kept[i - 1].upto
    IN  \A r \in kept[i].have : r > seen => RecordUnits(r) \in Range(Content(i))
=============================================================================
