----------------------------- MODULE MmapRing -----------------------------
(***************************************************************************)
(* What is in one ring buffer and how it is read: one event at a time      *)
(* (perf_mmap__read(), evlist.c) or all at once into the file              *)
(* (record__mmap_read(), builtin-record.c), forward or backward, while the *)
(* kernel writes.                                                          *)
(*                                                                         *)
(* The unit is the word of 8 bytes: records are made of words, and the     *)
(* header is one.  Positions are unsigned and wrap at their width, which   *)
(* is small here; so does the int that perf_mmap__read() keeps a distance  *)
(* in.                                                                     *)
(***************************************************************************)
EXTENDS Integers, Sequences

CONSTANTS
  RingSize,     \* md->mask + 1
  Kind,         \* "forward", "overwrite" (forward, never full) or "backward"
  Reader,       \* "read": perf_mmap__read_*(); "record": record__mmap_read()
  Sizes,        \* sizes of records, header included
  EventMax,     \* sizeof(union perf_event)
  PosBits,      \* width of a position: 64
  IntBits,      \* width of an int: 32
  MaxRecords,   \* bound: records the kernel writes
  MaxReads,     \* bound: dumps of a backward buffer
  WriteMayFail  \* may record__write() fail?

VARIABLES
  (* shared with the kernel *)
  data, head, tail, khead,
  paused,
  records,     \* history: the sizes of the records written
  (* struct perf_mmap *)
  prev, event_copy,
  (* the reader *)
  pc, start, end,
  loaded,      \* the head as it was when the read began
  event,       \* what perf_mmap__read() returned: a pointer and a size
  out,         \* what the tool saw, or what is in the file
  nreads

kernelVars == <<data, head, tail, khead, paused, records>>
readerVars == <<prev, event_copy, pc, start, end, loaded, event, out, nreads>>
vars == <<kernelVars, readerVars>>

(* Mutant: positions that do not wrap. *)
U64_Wide(n) == n

(* u64 and int. *)
Pos == 0 .. (2 ^ PosBits - 1)
U64(n) == n % (2 ^ PosBits)
ToInt(n) == LET r == n % (2 ^ IntBits)
            IN  IF r >= 2 ^ (IntBits - 1) THEN r - 2 ^ IntBits ELSE r

(* The k-th word of the i-th record, and of memory never written. *)
Word(i, k, size) == [record |-> i, offset |-> k, size |-> size]
Blank == Word(0, 0, 0)
RecordWords(i) == [k \in 1 .. records[i] |-> Word(i, k - 1, records[i])]

(* pos & md->mask *)
Index(pos) == pos % RingSize

At(pos) == data[Index(pos)]
ReadWords(pos, n) == [k \in 1 .. n |-> At(pos + k - 1)]

Init ==
  /\ data = [k \in 0 .. (RingSize - 1) |-> Blank]
  /\ head = 0 /\ tail = 0 /\ khead = 0
  /\ paused = FALSE
  /\ records = <<>>
  /\ prev = 0
  /\ event_copy = [k \in 1 .. RingSize |-> Blank]
  /\ pc = "idle" /\ start = 0 /\ end = 0 /\ loaded = 0
  /\ event = [copied |-> FALSE, at |-> 0, size |-> 0]
  /\ out = <<>>
  /\ nreads = 0

----------------------------------------------------------------------------
(* The kernel, external.  It writes a record, then publishes the position; *)
(* a forward buffer that has no room for a record loses it.                *)

Fill(size) ==
  LET i == Len(records) + 1
      pos == IF Kind = "backward" THEN U64(khead - size) ELSE khead
  IN  /\ ~paused /\ khead = head
      /\ Len(records) < MaxRecords
      /\ Kind = "forward" => U64(khead - tail) + size < RingSize
      /\ data' = [k \in DOMAIN data |->
                    IF Index(k - pos) < size
                    THEN Word(i, Index(k - pos), size) ELSE data[k]]
      /\ khead' = IF Kind = "backward" THEN pos ELSE U64(khead + size)
      /\ records' = Append(records, size)
      /\ UNCHANGED <<head, tail, paused, readerVars>>

Publish ==
  /\ khead # head
  /\ head' = khead
  /\ UNCHANGED <<data, tail, khead, paused, records, readerVars>>

----------------------------------------------------------------------------
(* One event at a time.                                                    *)

(* perf_mmap__consume(): what was read is given back to the kernel, unless *)
(* the buffer is mapped read only.                                         *)
perf_mmap__consume(overwrite) ==
  IF overwrite THEN UNCHANGED tail ELSE tail' = prev'

(* perf_mmap__read_forward(): the head is loaded ... *)
perf_mmap__read_forward ==
  /\ Reader = "read" /\ Kind # "backward"
  /\ pc = "idle"
  /\ start' = prev /\ end' = head
  /\ pc' = "read"
  /\ UNCHANGED <<kernelVars, prev, event_copy, loaded, event, out, nreads>>

(* "If we're further behind than half the buffer", or ahead of its end,    *)
(* restart at the end.                                                     *)
Restart(diff) == Kind = "overwrite" /\ (2 * diff >= RingSize \/ diff < 0)

(* A size read from the middle of a record is any number. *)
HeaderSize(pos) ==
  IF At(pos).offset = 0 THEN {At(pos).size} ELSE 0 .. RingSize

Straddles(pos, size) == Index(pos) + size # Index(U64(pos + size))

(* The copy of an event that straddles the end of the buffer: no more than *)
(* sizeof(union perf_event) of it.                                         *)
CopyEvent(pos, size) ==
  [k \in DOMAIN event_copy |->
     IF k <= size /\ k <= EventMax THEN At(pos + k - 1) ELSE event_copy[k]]

(* Mutant: an event that ends at the head counts as incomplete. *)
perf_mmap__read_LastWord ==
  LET diff == ToInt(end - start)
  IN  /\ pc = "read"
      /\ \E size \in HeaderSize(start) :
           IF ~Restart(diff) /\ diff >= 1 /\ size >= 1 /\ diff > size
           THEN /\ prev' = U64(start + size)
                /\ event' = [copied |-> Straddles(start, size), at |-> start, size |-> size]
                /\ event_copy' = IF Straddles(start, size) THEN CopyEvent(start, size)
                                 ELSE event_copy
                /\ pc' = "event"
           ELSE /\ prev' = start
                /\ pc' = IF Kind = "backward" THEN "dumped" ELSE "idle"
                /\ UNCHANGED <<event, event_copy>>
      /\ UNCHANGED <<kernelVars, start, end, loaded, out, nreads>>

(* ... and the event at the old position is looked at: there is none, or   *)
(* it is returned where it lies, or as a copy.                             *)
perf_mmap__read ==
  LET diff == ToInt(end - start)
  IN  /\ pc = "read"
      /\ \E size \in HeaderSize(start) :
           IF ~Restart(diff) /\ diff >= 1 /\ size >= 1 /\ diff >= size
           THEN /\ prev' = U64(start + size)
                /\ event' = [copied |-> Straddles(start, size), at |-> start, size |-> size]
                /\ event_copy' = IF Straddles(start, size) THEN CopyEvent(start, size)
                                 ELSE event_copy
                /\ pc' = "event"
           ELSE /\ prev' = IF Restart(diff) THEN end ELSE start
                /\ pc' = IF Kind = "backward" THEN "dumped" ELSE "idle"
                /\ UNCHANGED <<event, event_copy>>
      /\ UNCHANGED <<kernelVars, start, end, loaded, out, nreads>>

(* What the returned pointer points to. *)
EventWords == IF event.copied THEN SubSeq(event_copy, 1, event.size)
                              ELSE ReadWords(event.at, event.size)

(* The tool looks at the event, then lets go of it. *)
UseEvent ==
  /\ pc = "event"
  /\ out' = Append(out, EventWords)
  /\ UNCHANGED prev
  /\ perf_mmap__consume(Kind # "forward")
  /\ pc' = IF Kind = "backward" THEN "backward" ELSE "idle"
  /\ UNCHANGED <<data, head, khead, paused, records, event_copy, start, end, loaded, event, nreads>>

----------------------------------------------------------------------------
(* A backward buffer is paused before it is read, and resumed behind that. *)

Pause ==
  /\ Kind = "backward" /\ pc = "idle"
  /\ khead = head
  /\ nreads < MaxReads
  /\ nreads' = nreads + 1
  /\ paused' = TRUE
  /\ out' = <<>>
  /\ pc' = IF Reader = "read" THEN "catchup" ELSE "find"
  /\ UNCHANGED <<data, head, tail, khead, records, prev, event_copy, start, end, loaded, event>>

(* perf_mmap__read_catchup() *)
perf_mmap__read_catchup ==
  /\ pc = "catchup"
  /\ prev' = head
  /\ pc' = "backward"
  /\ UNCHANGED <<kernelVars, event_copy, start, end, loaded, event, out, nreads>>

(* perf_mmap__read_backward(): the head is negative, and the end is what   *)
(* was written first, or a buffer behind the head.                         *)
perf_mmap__read_backward ==
  /\ pc = "backward"
  /\ start' = prev
  /\ end' = IF U64(-head) < RingSize THEN 0 ELSE U64(head + RingSize)
  /\ pc' = IF head = 0 THEN "dumped" ELSE "read"
  /\ UNCHANGED <<kernelVars, prev, event_copy, loaded, event, out, nreads>>

Resume ==
  /\ pc = "dumped"
  /\ paused' = FALSE
  /\ pc' = "idle"
  /\ UNCHANGED <<data, head, tail, khead, records, prev, event_copy, start, end, loaded, event,
                 out, nreads>>

----------------------------------------------------------------------------
(* All at once.                                                            *)

(* Mutant: the record that was half overwritten is kept. *)
backward_rb_find_range_KeepHalf ==
  LET walk[n \in 0 .. RingSize] ==
        IF n = RingSize \/ At(head + n).size = 0 THEN n
        ELSE LET next == n + At(head + n).size
             IN  IF next > RingSize THEN RingSize ELSE walk[next]
  IN  U64(head + walk[0])

(* backward_rb_find_range(): from record to record until a whole buffer    *)
(* was seen, or memory that was never written; a record that reaches       *)
(* behind the buffer was overwritten in part.                              *)
backward_rb_find_range ==
  LET walk[n \in 0 .. RingSize] ==
        IF n = RingSize \/ At(head + n).size = 0 THEN n
        ELSE LET next == n + At(head + n).size
             IN  IF next > RingSize THEN n ELSE walk[next]
  IN  U64(head + walk[0])

(* Mutant: an event that arrives meanwhile is skipped. *)
FinishRead_LateHead ==
  /\ pc = "finish"
  /\ prev' = head
  /\ perf_mmap__consume(Kind # "forward")
  /\ pc' = IF Kind = "backward" THEN "dumped" ELSE "idle"
  /\ UNCHANGED <<data, head, khead, paused, records, event_copy, start, end, loaded, event, out, nreads>>

(* record__mmap_read(): nothing to read, too much, or something. *)
FindRange ==
  LET from == IF Kind = "backward" THEN head ELSE prev
      to   == IF Kind = "backward" THEN backward_rb_find_range ELSE head
      size == U64(to - from)
  IN  /\ Reader = "record"
      /\ pc = IF Kind = "backward" THEN "find" ELSE "idle"
      /\ start' = from /\ end' = to
      /\ loaded' = head
      /\ IF from = to \/ size > RingSize
         THEN /\ prev' = IF from = to THEN prev ELSE head
              /\ IF from = to THEN UNCHANGED tail ELSE perf_mmap__consume(Kind # "forward")
              /\ pc' = IF Kind = "backward" THEN "dumped" ELSE "idle"
         ELSE /\ pc' = IF Index(from) + size # Index(to) THEN "first" ELSE "second"
              /\ UNCHANGED <<prev, tail>>
      /\ UNCHANGED <<data, head, khead, paused, records, event_copy, event, out, nreads>>

(* Up to the end of the buffer ... *)
WriteFirst ==
  LET size == RingSize - Index(start)
  IN  /\ pc = "first"
      /\ out' = out \o ReadWords(start, size)
      /\ start' = U64(start + size)
      /\ pc' = "second"
      /\ UNCHANGED <<kernelVars, prev, event_copy, end, loaded, event, nreads>>

(* ... and the rest. *)
WriteSecond ==
  LET size == U64(end - start)
  IN  /\ pc = "second"
      /\ out' = out \o ReadWords(start, size)
      /\ start' = U64(start + size)
      /\ pc' = "finish"
      /\ UNCHANGED <<kernelVars, prev, event_copy, end, loaded, event, nreads>>

(* record__write() fails: perf record gives up. *)
WriteFails ==
  /\ WriteMayFail
  /\ pc \in {"first", "second"}
  /\ pc' = "error"
  /\ UNCHANGED <<kernelVars, prev, event_copy, start, end, loaded, event, out, nreads>>

(* The head that was loaded first becomes the old position. *)
FinishRead ==
  /\ pc = "finish"
  /\ prev' = loaded
  /\ perf_mmap__consume(Kind # "forward")
  /\ pc' = IF Kind = "backward" THEN "dumped" ELSE "idle"
  /\ UNCHANGED <<data, head, khead, paused, records, event_copy, start, end, loaded, event, out, nreads>>

ReadStep ==
  \/ perf_mmap__read_forward \/ perf_mmap__read \/ UseEvent
  \/ Pause \/ perf_mmap__read_catchup \/ perf_mmap__read_backward \/ Resume
  \/ FindRange \/ WriteFirst \/ WriteSecond \/ WriteFails \/ FinishRead

Next == (\E size \in Sizes : Fill(size)) \/ Publish \/ ReadStep

Spec == Init /\ [][Next]_vars

(* The reader is scheduled, and the kernel publishes what it wrote. *)
FairSpec == Spec /\ WF_vars(ReadStep) /\ WF_vars(Publish)

----------------------------------------------------------------------------
(* Properties.                                                             *)

TypeOK ==
  /\ {head, tail, khead, prev, start, end, loaded, event.at} \subseteq Pos
  /\ pc \in {"idle", "read", "event", "catchup", "backward", "dumped", "find", "first",
             "second", "finish", "error"}
  /\ {paused, event.copied} \subseteq BOOLEAN
  /\ records \in Seq(Sizes)
  /\ event.size \in 0 .. RingSize

Concat(n) ==
  LET cat[i \in 0 .. n] == IF i = 0 THEN <<>> ELSE cat[i - 1] \o RecordWords(i)
  IN  cat[n]

(* The tool sees the records the kernel wrote, each of them, in order and  *)
(* whole, however the kernel goes on writing while it looks at one.        *)
EventsIntact ==
  /\ Len(out) <= Len(records)
  /\ \A i \in 1 .. Len(out) : out[i] = RecordWords(i)

(* Between two reads the file holds the records the kernel wrote, in      *)
(* order and without a gap, up to the old position of the buffer.          *)
FileIntact ==
  pc = "idle" =>
    \E n \in 0 .. Len(records) : out = Concat(n) /\ prev = U64(Len(Concat(n)))

(* A record that is in a buffer is read sooner or later. *)
EverythingRead ==
  \A i \in 1 .. MaxRecords : (Len(records) >= i) ~> (Len(out) >= i)

(* The newest records that fit into the buffer whole, newest first. *)
Newest ==
  LET size[i \in 0 .. Len(records)] ==   \* of the newest i records
        IF i = 0 THEN 0 ELSE size[i - 1] + records[Len(records) + 1 - i]
  IN  CHOOSE n \in 0 .. Len(records) :
        /\ size[n] <= RingSize
        /\ n = Len(records) \/ size[n + 1] > RingSize

NewestWords ==
  LET cat[i \in 0 .. Newest] ==
        IF i = 0 THEN <<>> ELSE cat[i - 1] \o RecordWords(Len(records) + 1 - i)
  IN  cat[Newest]

(* A dump of a backward buffer has exactly the newest records the buffer   *)
(* holds whole, whether or not it has ever been full and however the       *)
(* records lie across its end.                                             *)
DumpIsNewest == pc = "dumped" => out = NewestWords

(* Reading a backward buffer event by event finds the same records.        *)
BackwardReadsNewest ==
  pc = "dumped" =>
    /\ Len(out) = Newest
    /\ \A i \in 1 .. Newest : out[i] = RecordWords(Len(records) + 1 - i)

(* What the check for half the buffer is worth: an event of a buffer that  *)
(* the kernel may overwrite is whole when the tool looks at it, unless the *)
(* kernel has written more than the other half since the head was loaded.  *)
HalfBufferSurvives ==
  Kind = "overwrite" /\ pc = "event" /\ 2 * U64(khead - end) <= RingSize =>
    \E i \in 1 .. Len(records) : EventWords = RecordWords(i)

(* "If we're further behind than half the buffer [...] truncate and        *)
(* restart at 'end'": no event is taken from the old position then.        *)
BehindRestarts ==
  [][Kind = "overwrite" /\ pc = "read" /\ 2 * U64(end - start) > RingSize
       => pc' # "event"]_vars
----------------------------------------------------------------------------
(* The inductive invariants of the proofs, which are about forward         *)
(* buffers.  Record i starts at word off[i] of all that was written; these *)
(* numbers never wrap.                                                     *)

(* Buffers and integers are powers of two, so a buffer and the range of an *)
(* int divide the range of positions; a distance within the buffer fits an *)
(* int.                                                                    *)
ForwardRing ==
  /\ Kind = "forward"
  /\ RingSize \in Nat /\ RingSize > 0
  /\ 2 ^ PosBits \in Nat /\ 2 ^ IntBits \in Nat /\ 2 ^ (IntBits - 1) \in Nat
  /\ \E q \in 1 .. 2 ^ PosBits : 2 ^ PosBits = RingSize * q
  /\ \E q \in 1 .. 2 ^ PosBits : 2 ^ PosBits = 2 ^ IntBits * q
  /\ 2 ^ IntBits = 2 * 2 ^ (IntBits - 1)
  /\ RingSize <= 2 ^ (IntBits - 1)
  /\ Sizes \subseteq Nat \ {0}

(* perf_mmap__read_forward() needs room in its copy for any record. *)
EventReader ==
  /\ ForwardRing /\ Reader = "read"
  /\ EventMax \in Nat /\ Sizes \subseteq 1 .. EventMax

FileReader == ForwardRing /\ Reader = "record"

(* Where the records start. *)
Starts ==
  LET off[i \in 1 .. Len(records) + 1] ==
        IF i = 1 THEN 0 ELSE off[i - 1] + records[i - 1]
  IN  off

Words == [record : Nat, offset : Nat, size : Nat]

OffsetsInv(off) ==
  /\ off \in [1 .. Len(records) + 1 -> Nat]
  /\ off[1] = 0
  /\ \A i \in 1 .. Len(records) : off[i + 1] = off[i] + records[i]
  /\ \A i, j \in 1 .. Len(records) + 1 : i <= j => off[i] <= off[j]

(* The first c records were given back.  The others fit into the buffer,   *)
(* and their words are where a reader looks for them.                      *)
Stored(off, c) ==
  /\ records \in Seq(Sizes)
  /\ data \in [0 .. RingSize - 1 -> Words]
  /\ OffsetsInv(off)
  /\ c \in 0 .. Len(records)
  /\ off[Len(records) + 1] - off[c + 1] < RingSize
  /\ khead = U64(off[Len(records) + 1])
  /\ tail = U64(off[c + 1])
  /\ \A i \in c + 1 .. Len(records) : \A k \in 0 .. records[i] - 1 :
       data[Index(off[i] + k)] = Word(i, k, records[i])

(* Event by event: the positions of the reader are those of records, and a *)
(* copied event has all its words.                                         *)
ReaderInv(off) ==
  LET n == Len(records)
      d == Len(out)
  IN  /\ pc \in {"idle", "read", "event"}
      /\ ~paused
      /\ \E h \in d .. n :
           /\ head = U64(off[h + 1])
           /\ pc = "read" => \E e \in d .. h : end = U64(off[e + 1])
           /\ pc = "event" => h > d
      /\ pc # "event" => prev = U64(off[d + 1])
      /\ pc = "read" => start = U64(off[d + 1])
      /\ pc = "event" =>
           /\ prev = U64(off[d + 2])
           /\ event.at = U64(off[d + 1])
           /\ event.size = records[d + 1]
           /\ event.copied =>
                \A k \in 1 .. event.size : event_copy[k] = Word(d + 1, k - 1, event.size)

(* All of it, for a reader of events. *)
Placed(off) ==
  /\ event_copy \in Seq(Words) /\ Len(event_copy) = RingSize
  /\ out \in Seq(Seq(Words))
  /\ Stored(off, Len(out))
  /\ ReaderInv(off)
  /\ EventsIntact

(* The inductive invariant of a reader of events, and of a copier. *)
RingInv == \E off \in [1 .. Len(records) + 1 -> Nat] : Placed(off)

(* All at once: the words of the file are those that were written, from    *)
(* the first on.                                                           *)
Copied(off) ==
  /\ Len(out) <= off[Len(records) + 1]
  /\ \A i \in 1 .. Len(records) : \A k \in 0 .. records[i] - 1 :
       off[i] + k < Len(out) => out[off[i] + k + 1] = Word(i, k, records[i])

(* A read copies up to record e, where the head was when it was loaded;    *)
(* what it has not copied yet is still in the buffer.                      *)
Copying(off, c, e) ==
  /\ end = U64(off[e + 1]) /\ loaded = end
  /\ start = U64(Len(out))
  /\ Len(out) \in off[c + 1] .. off[e + 1]
  /\ pc = "first" => Index(Len(out)) + (off[e + 1] - Len(out)) >= RingSize
  /\ pc = "second" => Index(Len(out)) + (off[e + 1] - Len(out)) < RingSize
  /\ pc = "finish" => Len(out) = off[e + 1]

CopierInv(off, c) ==
  /\ pc \in {"idle", "first", "second", "finish", "error"}
  /\ ~paused
  /\ prev = U64(off[c + 1])
  /\ pc = "idle" => Len(out) = off[c + 1]
  /\ \E h \in c .. Len(records) :
       /\ head = U64(off[h + 1])
       /\ pc \in {"first", "second", "finish"} => \E e \in c .. h : Copying(off, c, e)

(* All of it, for a copier. *)
FilePlaced(off, c) ==
  /\ out \in Seq(Words)
  /\ Stored(off, c)
  /\ CopierInv(off, c)
  /\ Copied(off)

FileInv ==
  \E off \in [1 .. Len(records) + 1 -> Nat], c \in 0 .. Len(records) : FilePlaced(off, c)

(* At any time the file holds a beginning of what the kernel wrote, and    *)
(* between two reads whole records, up to the old position of the buffer.  *)
FilePrefix(off) ==
  /\ OffsetsInv(off)
  /\ Copied(off)
  /\ pc = "idle" =>
       \E c \in 0 .. Len(records) : Len(out) = off[c + 1] /\ prev = U64(off[c + 1])

(* The starts of the records are determined by OffsetsInv(). *)
FileIsPrefix == \E off \in [1 .. Len(records) + 1 -> Nat] : FilePrefix(off)

(* Neither of the two copies of a read runs past the end of the buffer, or *)
(* past the head that was loaded.                                          *)
CopyInside ==
  LET left == U64(end - start)
  IN  /\ pc = "first" => RingSize - Index(start) <= left
      /\ pc = "second" => Index(start) + left < RingSize
=============================================================================
