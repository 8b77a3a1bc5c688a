---------------------------- MODULE PerfDataFile ----------------------------
(* The perf.data files of perf record (perf_session__write_header() and     *)
(* perf_session__read_header() of tools/perf/util/header.c, with             *)
(* record__finish_output() and record__switch_output() of builtin-record.c): *)
(* a header in front, the ids and attributes of the events, the recorded     *)
(* data, and behind it a table of sections and the features it points to.    *)
(* The header is written when the recording starts, without a data size, and *)
(* again when it ends.  perf may be killed between any two writes, a write   *)
(* may fail, and what a reader makes of the files is asked in every state.   *)
(*                                                                           *)
(* A file is a function from positions to cells: the file header, an id, an  *)
(* attribute, an event, a section and a part of a feature take a cell each.  *)
EXTENDS Naturals, Sequences, FiniteSets

CONSTANTS
  Ids,            \* how many ids each event of the evlist has
  FeatLen,        \* how many cells each feature takes
  MaxPos,         \* bound: the last position of a file
  MaxEvents,      \* bound: events recorded altogether
  MaxSwitches,    \* bound: switches to a new file while recording
  Timestamp,      \* --timestamp-filename: the last file is renamed as well
  WriteMayFail,   \* a write may fail, as on a full disk
  RenameMayFail   \* the rename of a switch may fail

Evsels == 1 .. Len(Ids)
Features == DOMAIN FeatLen
Positions == 0 .. MaxPos

VARIABLES
  now,            \* perf.data, being written
  old,            \* perf.data.old
  dumps,          \* the renamed files, perf.data.<timestamp>
  pos,            \* the file position
  header,         \* session->header
  idOffset,       \* evsel->id_offset
  sec,            \* feat_sec up to p: the sections written so far
  bytes_written,
  pc, next,       \* where record is, and the event or feature of its loop
  events,         \* events recorded so far
  switches,
  dumped          \* history: the data of every file that was finished

vars == <<now, old, dumps, pos, header, idOffset, sec, bytes_written, pc, next, events,
          switches, dumped>>

(* ------------------------------ files ----------------------------------- *)

Hole == [k |-> "hole"]
Id(v, i) == [k |-> "id", v |-> v, i |-> i]
Attr(v, off) == [k |-> "attr", v |-> v, off |-> off, nr |-> Ids[v]]
Event(n) == [k |-> "event", n |-> n]
Section(off, size) == [k |-> "sec", off |-> off, size |-> size]
Part(f, i) == [k |-> "feat", f |-> f, i |-> i]

(* log: history, the events recorded into this file *)
Empty == [cells |-> [p \in Positions |-> Hole], log |-> <<>>]

(* do_write() of a sequence of cells at the file position *)
Written(file, p, s) ==
  [file EXCEPT !.cells = [q \in Positions |-> IF q \in p .. (p + Len(s) - 1)
                                              THEN s[q - p + 1] ELSE @[q]]]

Write(s) == now' = Written(now, pos, s) /\ pos' = pos + Len(s)

(* The set bits below f, and f: a section has no name, only its rank. *)
Rank(f, bits) == Cardinality({g \in bits : g <= f})

(* ----------------------------- the writer ------------------------------- *)

(* record__init_features() and the features cleared before the first header *)
Init ==
  /\ now = Empty /\ old = Empty /\ dumps = <<>>
  /\ pos = 1
  /\ header \in [feats : SUBSET Features, data_offset : {0}, data_size : {0},
                 feat_offset : {0}, attr_offset : {0}, at_exit : {FALSE}]
  /\ idOffset = [v \in Evsels |-> 0]
  /\ sec = <<>> /\ bytes_written = 0
  /\ pc = "ids" /\ next = 1
  /\ events = 0 /\ switches = 0
  /\ dumped = {}

(* perf_session__write_header(): the ids of all events *)
WriteIds ==
  /\ pc = "ids"
  /\ IF next \in Evsels
       THEN /\ Write([i \in 1 .. Ids[next] |-> Id(next, i)])
            /\ idOffset' = [idOffset EXCEPT ![next] = pos]
            /\ next' = next + 1
            /\ UNCHANGED <<pc, header>>
       ELSE /\ header' = [header EXCEPT !.attr_offset = pos]
            /\ pc' = "attrs" /\ next' = 1
            /\ UNCHANGED <<now, pos, idOffset>>
  /\ UNCHANGED <<old, dumps, sec, bytes_written, events, switches, dumped>>

DataOffset(h) == IF h.data_offset = 0 THEN pos ELSE h.data_offset

FeatOffset(h) == DataOffset(h) + h.data_size

(* The attributes; then where the data and, behind it, the features are. *)
WriteAttrs ==
  /\ pc = "attrs"
  /\ IF next \in Evsels
       THEN /\ Write(<<Attr(next, idOffset[next])>>)
            /\ next' = next + 1
            /\ UNCHANGED <<pc, header, sec>>
       ELSE /\ header' = [header EXCEPT !.data_offset = DataOffset(header),
                                        !.feat_offset = FeatOffset(header)]
            /\ IF header.at_exit /\ header.feats # {}
                 THEN /\ pos' = FeatOffset(header) + Cardinality(header.feats)
                      /\ pc' = "feats" /\ next' = 1
                 ELSE /\ pos' = 0
                      /\ pc' = "head" /\ next' = 0
            /\ sec' = <<>>
            /\ UNCHANGED now
  /\ UNCHANGED <<old, dumps, idOffset, bytes_written, events, switches, dumped>>

(* for_each_set_bit: the next bit that is set *)
NextFeat(f) == f \in header.feats /\ \A g \in header.feats : g < next \/ f <= g

(* do_write_feat(): the section counts once the feature is written. *)
WriteFeat ==
  /\ pc = "feats"
  /\ \E f \in Features :
       /\ f >= next /\ NextFeat(f)
       /\ Write([i \in 1 .. FeatLen[f] |-> Part(f, i)])
       /\ sec' = Append(sec, Section(pos, FeatLen[f]))
       /\ next' = f + 1
  /\ UNCHANGED <<old, dumps, header, idOffset, bytes_written, pc, events, switches, dumped>>

(* Mutant: a dropped feature has a section *)
Undone_Counted == pos' = pos /\ sec' = Append(sec, Section(pos, 0))

Undone == pos' = pos /\ sec' = sec

(* A feature that is not available, or of which only a part was written: *)
(* its bit is cleared, for the rest of the recording.                     *)
DropFeat ==
  /\ pc = "feats"
  /\ \E f \in Features :
       /\ f >= next /\ NextFeat(f)
       /\ \E n \in 0 .. FeatLen[f] - 1 :
            now' = Written(now, pos, [i \in 1 .. n |-> Part(f, i)])
       /\ Undone
       /\ header' = [header EXCEPT !.feats = @ \ {f}]
       /\ next' = f + 1
  /\ UNCHANGED <<old, dumps, idOffset, bytes_written, pc, events, switches, dumped>>

SectionsAt(h) == h.feat_offset

(* The table, as long as it was before features were dropped: what is *)
(* behind the sections written is zero.                                *)
WriteSections ==
  /\ pc = "feats"
  /\ \A f \in header.feats : f < next
  /\ now' = Written(now, SectionsAt(header), sec)
  /\ pos' = 0
  /\ pc' = "head" /\ next' = 0
  /\ UNCHANGED <<old, dumps, header, idOffset, sec, bytes_written, events, switches, dumped>>

FileHeader ==
  [k |-> "header", feats |-> header.feats,
   attrs |-> Section(header.attr_offset, Len(Ids)),
   data |-> Section(header.data_offset, header.data_size)]

(* The header comes last, and the file position goes behind the data. *)
WriteFileHeader ==
  /\ pc = "head"
  /\ now' = Written(now, 0, <<FileHeader>>)
  /\ pos' = header.data_offset + header.data_size
  /\ pc' = IF header.at_exit THEN "finished" ELSE "synthesize"
  /\ dumped' = IF header.at_exit THEN dumped \cup {now.log} ELSE dumped
  /\ UNCHANGED <<old, dumps, header, idOffset, sec, bytes_written, next, events, switches>>

(* A write of the header that fails: the recording does not start, but *)
(* record__finish_output() does not look at the result.                *)
WriteFails ==
  /\ WriteMayFail
  /\ \/ pc \in {"ids", "attrs"} /\ next \in Evsels
     \/ pc = "feats" /\ \A f \in header.feats : f < next
     \/ pc = "head"
  /\ pc' = IF header.at_exit THEN "finished" ELSE "stopped"
  /\ UNCHANGED <<now, old, dumps, pos, header, idOffset, sec, bytes_written, next, events,
                 switches, dumped>>

(* record__write() of an event *)
AppendEvent ==
  /\ now' = [Written(now, pos, <<Event(events + 1)>>) EXCEPT !.log = Append(@, events + 1)]
  /\ pos' = pos + 1
  /\ bytes_written' = bytes_written + 1
  /\ events' = events + 1
  /\ UNCHANGED <<old, dumps, header, idOffset, sec, next, switches, dumped>>

(* record__synthesize(): every file begins with events about what is *)
(* running already.                                                   *)
Synthesize ==
  /\ pc = "synthesize" /\ pc' = "record"
  /\ AppendEvent

(* record__mmap_read_all(), and the events synthesized at the tail *)
Record ==
  /\ pc = "record" /\ pc' = pc
  /\ events + (MaxSwitches - switches) < MaxEvents
  /\ AppendEvent

RecordFails ==
  /\ WriteMayFail
  /\ pc \in {"record", "synthesize"} /\ pc' = "stopped"
  /\ UNCHANGED <<now, old, dumps, pos, header, idOffset, sec, bytes_written, next, events,
                 switches, dumped>>

(* record__finish_output(): the header and the features are written over *)
(* what the start of the recording wrote, at the end or for a switch.    *)
Finish ==
  /\ pc = "record"
  /\ header' = [header EXCEPT !.data_size = @ + bytes_written, !.at_exit = TRUE]
  /\ pos' = 1
  /\ pc' = "ids" /\ next' = 1
  /\ UNCHANGED <<now, old, dumps, idOffset, sec, bytes_written, events, switches, dumped>>

(* open_file_write(): what is at the path becomes perf.data.old. *)
Backup(renamed) == old' = IF renamed THEN old ELSE now

Kept(renamed) == dumps' = IF renamed THEN Append(dumps, now) ELSE dumps

(* The sizes start anew, the place of the data is the same in every file. *)
Reset ==
  /\ bytes_written' = 0
  /\ header' = [header EXCEPT !.data_size = 0, !.at_exit = FALSE]

(* perf_data_file__switch() while recording: the file is renamed and a new *)
(* one is opened, without a header.                                         *)
Switch ==
  /\ pc = "finished" /\ switches < MaxSwitches
  /\ \E renamed \in {TRUE, ~RenameMayFail} : Kept(renamed) /\ Backup(renamed)
  /\ now' = Empty
  /\ pos' = header.data_offset
  /\ Reset
  /\ switches' = switches + 1
  /\ pc' = "synthesize"
  /\ UNCHANGED <<idOffset, sec, next, events, dumped>>

(* The new file cannot be opened: recording ends. *)
SwitchFails ==
  /\ WriteMayFail
  /\ pc = "finished" /\ switches < MaxSwitches
  /\ \E renamed \in {TRUE, ~RenameMayFail} : Kept(renamed) /\ Backup(renamed)
  /\ now' = Empty
  /\ pc' = "stopped"
  /\ UNCHANGED <<pos, header, idOffset, sec, bytes_written, next, events, switches, dumped>>

(* The end of perf record *)
Exit ==
  /\ pc = "finished" /\ pc' = "stopped"
  /\ \E renamed \in {Timestamp, Timestamp /\ ~RenameMayFail} :
       /\ dumps' = IF renamed THEN Append(dumps, now) ELSE dumps
       /\ now' = IF renamed THEN Empty ELSE now
  /\ UNCHANGED <<old, pos, header, idOffset, sec, bytes_written, next, events, switches,
                 dumped>>

(* SIGKILL, or the machine stops: what is written is written. *)
Killed ==
  /\ pc # "stopped" /\ pc' = "stopped"
  /\ UNCHANGED <<now, old, dumps, pos, header, idOffset, sec, bytes_written, next, events,
                 switches, dumped>>

Next ==
  \/ WriteIds \/ WriteAttrs \/ WriteFeat \/ DropFeat \/ WriteSections \/ WriteFileHeader
  \/ WriteFails \/ Synthesize \/ Record \/ RecordFails \/ Finish \/ Switch \/ SwitchFails
  \/ Exit \/ Killed

Spec == Init /\ [][Next]_vars

(* ----------------------------- the reader ------------------------------- *)

(* perf_file_header__read(): without a header the file is refused. *)
Readable(file) == file.cells[0].k = "header"

Cells(file, s) == [i \in 1 .. s.size |-> file.cells[s.off + i - 1]]

(* __perf_session__process_events(): no size, no events *)
ReadEvents(file) == Cells(file, file.cells[0].data)

(* perf_session__read_header(): an attribute and, where it says, its ids *)
ReadAttrs(file) ==
  [i \in 1 .. file.cells[0].attrs.size |->
     LET a == file.cells[file.cells[0].attrs.off + i - 1]
     IN [v |-> a.v, ids |-> Cells(file, Section(a.off, a.nr))]]

(* perf_header__process_sections(): a section for each bit that is set *)
SectionOf(file, f) ==
  LET h == file.cells[0]
  IN file.cells[h.data.off + h.data.size + Rank(f, h.feats) - 1]

ReadFeat(file, f) == Cells(file, SectionOf(file, f))

(* ----------------------------- properties ------------------------------- *)

Files == {now, old} \cup {dumps[i] : i \in 1 .. Len(dumps)}

(* The shape of the state, and that everything fits the bounds *)
TypeOK ==
  /\ pos \in 0 .. MaxPos + 1
  /\ header.feats \subseteq Features
  /\ header.data_size \in 0 .. MaxEvents
  /\ bytes_written \in 0 .. MaxEvents
  /\ Len(sec) <= Cardinality(Features)
  /\ pc \in {"ids", "attrs", "feats", "head", "synthesize", "record", "finished", "stopped"}

Complete(file) ==
  /\ ReadEvents(file) = [i \in 1 .. Len(file.log) |-> Event(file.log[i])]
  /\ ReadAttrs(file) = [v \in Evsels |-> [v |-> v, ids |-> [i \in 1 .. Ids[v] |-> Id(v, i)]]]
  /\ \A f \in file.cells[0].feats :
       ReadFeat(file, f) = [i \in 1 .. FeatLen[f] |-> Part(f, i)]

(* Whenever perf record is killed and whatever write fails: a file whose    *)
(* header has a data size, of which the reader gives no warning, is read as *)
(* it was recorded, its events, its attributes with their ids, and behind   *)
(* every bit the feature it stands for (perf_session__write_header() writes *)
(* the header last; dropped features shift no section).                     *)
SizedIsComplete ==
  \A file \in Files : Readable(file) /\ file.cells[0].data.size # 0 => Complete(file)

(* What was recorded into a finished file is on the disk under some name, *)
(* and can be read, whatever happens later (perf_data_file__switch()).    *)
NoDumpLost ==
  \A log \in dumped :
    \E file \in Files : Readable(file) /\ file.log = log /\ Len(ReadEvents(file)) = Len(log)

(* What the comment in perf_session__read_header() says of a file without a *)
(* data size: it is processed as far as possible.                           *)
PartialIsProcessed ==
  \A file \in Files : Readable(file) /\ file.log # <<>> => ReadEvents(file) # <<>>
=============================================================================
