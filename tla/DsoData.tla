------------------------------- MODULE DsoData ------------------------------
(* The data files of DSOs (tools/perf/util/dso.c): descriptors that stay    *)
(* open up to half of RLIMIT_NOFILE, the oldest one closed for a new one,   *)
(* all under dso__data_open_lock; and the chunks of a file that were read,  *)
(* in a tree under the lock of the DSO.  Threads read data, borrow the      *)
(* descriptor between dso__data_get_fd() and dso__data_put_fd(), and close. *)
EXTENDS Integers, Sequences, FiniteSets

CONSTANTS
  Threads, Dsos,
  Size,            \* length of the data file of a DSO; -1 if there is none
  ChunkSize,       \* DSO__DATA_CACHE_SIZE
  RLIMIT_NOFILE,
  MaxOthers,       \* bound: other descriptors the process has open
  Reads,           \* the <<offset, size>> that threads ask for
  Uses             \* what they do beside: a subset of {"get_fd", "close"}

VARIABLES
  data,      \* the descriptors: dso__data_open, the oldest first, and of
             \* every DSO whether data.fd >= 0, data.status, data.file_size
  others,    \* other descriptors of the process
  lock,      \* holder of dso__data_open_lock, or Nobody
  cache,     \* size of the chunk at an offset, per DSO; 0 if it is not cached
  freed,     \* chunks in the tree whose memory was freed
  pc, op     \* of each thread: where it is, and what it does

vars == <<data, others, lock, cache, freed, pc, op>>

Nobody == "nobody"
fd_limit == RLIMIT_NOFILE \div 2
Chunk(offset) == ChunkSize * (offset \div ChunkSize)
Chunks(d) == {Chunk(o) : o \in 0 .. Size[d]}
min(a, b) == IF a < b THEN a ELSE b

NoOp == [dso |-> CHOOSE d \in Dsos : TRUE, offset |-> 0, size |-> 0, ret |-> 0]

Init ==
  /\ data = [list |-> <<>>,
             fd |-> [d \in Dsos |-> FALSE],
             status |-> [d \in Dsos |-> "UNKNOWN"],
             file_size |-> [d \in Dsos |-> 0]]
  /\ others = 0
  /\ lock = Nobody
  /\ cache = [d \in Dsos |-> [o \in Chunks(d) |-> 0]]
  /\ freed = [d \in Dsos |-> {}]
  /\ pc = [t \in Threads |-> "idle"]
  /\ op = [t \in Threads |-> NoOp]

Goto(t, l) == pc' = [pc EXCEPT ![t] = l]

-----------------------------------------------------------------------------
(* Under dso__data_open_lock *)

(* list_del() of the entry of a DSO *)
Without(list, d) ==
  LET i == CHOOSE i \in 1 .. Len(list) : list[i] = d
  IN [j \in 1 .. Len(list) - 1 |-> IF j < i THEN list[j] ELSE list[j + 1]]

(* close_data_fd(): the descriptor, the size and the place in the list go. *)
close_dso(g, d) ==
  IF ~g.fd[d] THEN g
  ELSE [g EXCEPT !.fd[d] = FALSE, !.file_size[d] = 0, !.list = Without(@, d)]

close_first_dso(g) == close_dso(g, Head(g.list))

(* The k oldest, one after the other *)
close_oldest(g, k) ==
  LET oldest == {g.list[i] : i \in 1 .. k}
  IN [g EXCEPT !.fd = [d \in Dsos |-> g.fd[d] /\ d \notin oldest],
               !.file_size = [d \in Dsos |-> IF d \in oldest THEN 0 ELSE g.file_size[d]],
               !.list = [i \in 1 .. Len(g.list) - k |-> g.list[i + k]]]

(* do_open(): a file that is there opens when a descriptor is left; on     *)
(* EMFILE the oldest DSO is closed for it, and the next, while there is one. *)
NrOpen(g) == Cardinality({d \in Dsos : g.fd[d]})
MakeRoom(g) ==
  LET excess == NrOpen(g) + others + 1 - RLIMIT_NOFILE
  IN IF excess <= 0 THEN g ELSE close_oldest(g, min(excess, Len(g.list)))

check_data_close(g) == IF fd_limit > Len(g.list) THEN g ELSE close_first_dso(g)

(* open_dso(): the DSO is listed before its descriptor is stored, and      *)
(* check_data_close() closes the oldest at the limit; a new DSO that is     *)
(* alone on the list has no descriptor to close yet.                        *)
open_dso_NoCheck(g, d) == [g EXCEPT !.list = Append(@, d), !.fd[d] = TRUE]

open_dso(g, d) ==
  [check_data_close([g EXCEPT !.list = Append(@, d)]) EXCEPT !.fd[d] = TRUE]

(* try_to_open_dso(): the binary types it tries in turn are one attempt.   *)
try_to_open_dso(d) ==
  LET room == IF Size[d] < 0 THEN data ELSE MakeRoom(data)
      opens == Size[d] >= 0 /\ NrOpen(room) + others < RLIMIT_NOFILE
  IN IF data.fd[d] THEN data
     ELSE IF opens THEN [open_dso(room, d) EXCEPT !.status[d] = "OK"]
     ELSE [room EXCEPT !.status[d] = "ERROR"]

(* The rest of the process opens and closes files. *)
OtherFiles ==
  /\ \/ /\ others < MaxOthers /\ NrOpen(data) + others < RLIMIT_NOFILE
        /\ others' = others + 1
     \/ others > 0 /\ others' = others - 1
  /\ UNCHANGED <<data, lock, cache, freed, pc, op>>

-----------------------------------------------------------------------------
(* dso__data_read_offset() *)

Return(t, ret) ==
  /\ Goto(t, "returned")
  /\ op' = [op EXCEPT ![t].ret = ret]

dso__data_read_offset(t, d, r) ==
  /\ pc[t] = "idle"
  /\ op' = [op EXCEPT ![t] = [dso |-> d, offset |-> r[1], size |-> r[2],
                              ret |-> IF data.status[d] = "ERROR" THEN -1 ELSE 0]]
  /\ Goto(t, IF data.status[d] = "ERROR" THEN "returned" ELSE "size")
  /\ UNCHANGED <<data, others, lock, cache, freed>>

(* data_file_size(): done when the size is known; else open and fstat().    *)
data_file_size(t) ==
  LET d == op[t].dso
  IN /\ pc[t] = "size"
     /\ \/ data.file_size[d] # 0 /\ Goto(t, "check") /\ UNCHANGED op
        \/ data.file_size[d] = 0 /\ data.status[d] = "ERROR" /\ Return(t, -1)
        \/ data.file_size[d] = 0 /\ data.status[d] # "ERROR" /\ Goto(t, "stat") /\ UNCHANGED op
     /\ UNCHANGED <<data, others, lock, cache, freed>>

fstat(t) ==
  LET d == op[t].dso
      opened == try_to_open_dso(d)
  IN /\ pc[t] = "stat" /\ lock = Nobody
     /\ IF opened.fd[d]
        THEN data' = [opened EXCEPT !.file_size[d] = Size[d]] /\ Goto(t, "check") /\ UNCHANGED op
        ELSE data' = opened /\ Return(t, -1)
     /\ UNCHANGED <<others, lock, cache, freed>>

(* data_read_offset(): "Check the offset sanity", against the size as it   *)
(* is now.                                                                  *)
CheckOffset_Retry(t) ==
  /\ pc[t] = "check"
  /\ Goto(t, IF op[t].offset > data.file_size[op[t].dso] THEN "size" ELSE "read")
  /\ UNCHANGED <<data, others, lock, cache, freed, op>>

CheckOffset(t) ==
  /\ pc[t] = "check"
  /\ IF op[t].offset > data.file_size[op[t].dso]
     THEN Return(t, -1)
     ELSE Goto(t, "read") /\ UNCHANGED op
  /\ UNCHANGED <<data, others, lock, cache, freed>>

(* dso_cache__memcpy() and the loop of cached_read(): the rest of the chunk, *)
(* and on to the next one; nothing is left at the end of the file.           *)
Copied(t, csize) == min(csize - (op[t].offset - Chunk(op[t].offset)), op[t].size)

CopyChunk_Once(t, csize) ==
  LET n == Copied(t, csize)
      o == [op[t] EXCEPT !.offset = @ + n, !.size = @ - n, !.ret = @ + n]
  IN /\ op' = [op EXCEPT ![t] = o]
     /\ Goto(t, "returned")

CopyChunk(t, csize) ==
  LET n == Copied(t, csize)
      o == [op[t] EXCEPT !.offset = @ + n, !.size = @ - n, !.ret = @ + n]
  IN /\ op' = [op EXCEPT ![t] = o]
     /\ Goto(t, IF n = 0 \/ o.size = 0 THEN "returned" ELSE "read")

(* dso_cache_read(): a chunk that is cached is copied without the lock of   *)
(* the descriptors.                                                         *)
CacheFind(t) ==
  LET d == op[t].dso
      c == Chunk(op[t].offset)
  IN /\ pc[t] = "read"
     /\ IF cache[d][c] # 0
        THEN CopyChunk(t, cache[d][c])
        ELSE Goto(t, "pread") /\ UNCHANGED op
     /\ UNCHANGED <<data, others, lock, cache, freed>>

(* dso_cache__read(): open again if need be, and read the chunk.  Nothing   *)
(* to read at the end of the file ends cached_read().                       *)
Pread(t) ==
  LET d == op[t].dso
      opened == try_to_open_dso(d)
  IN /\ pc[t] = "pread" /\ lock = Nobody
     /\ data' = opened
     /\ IF ~opened.fd[d] THEN Return(t, -1)
        ELSE IF Chunk(op[t].offset) >= Size[d] THEN Return(t, op[t].ret)
        ELSE Goto(t, "insert") /\ UNCHANGED op
     /\ UNCHANGED <<others, lock, cache, freed>>

(* dso_cache__insert(), which another thread may have won, and the copy;    *)
(* a copy of nothing frees the chunk it came from.                          *)
dso_cache__insert(d, c, csize) == [cache EXCEPT ![d][c] = csize]

CacheInsert(t) ==
  LET d == op[t].dso
      c == Chunk(op[t].offset)
      csize == min(ChunkSize, Size[d] - c)
  IN /\ pc[t] = "insert"
     /\ cache' = dso_cache__insert(d, c, csize)
     /\ CopyChunk(t, csize)
     /\ freed' = [freed EXCEPT ![d] = IF Copied(t, csize) = 0 THEN @ \union {c} ELSE @]
     /\ UNCHANGED <<data, others, lock>>

-----------------------------------------------------------------------------
(* dso__data_get_fd(), dso__data_put_fd() and dso__data_close() *)

dso__data_get_fd(t, d) ==
  /\ pc[t] = "idle" /\ "get_fd" \in Uses
  /\ op' = [op EXCEPT ![t] = [NoOp EXCEPT !.dso = d]]
  /\ Goto(t, IF data.status[d] = "ERROR" THEN "idle" ELSE "get")
  /\ UNCHANGED <<data, others, lock, cache, freed>>

GetFdLocked(t) ==
  LET d == op[t].dso
      opened == try_to_open_dso(d)
  IN /\ pc[t] = "get" /\ lock = Nobody
     /\ data' = opened
     /\ IF opened.fd[d] THEN lock' = t /\ Goto(t, "has_fd")
        ELSE lock' = lock /\ Goto(t, "no_fd")
     /\ UNCHANGED <<others, cache, freed, op>>

(* The lock is free again, and then dso->data.fd is read for the result. *)
ReturnFd(t) ==
  /\ pc[t] = "no_fd"
  /\ Goto(t, IF data.fd[op[t].dso] THEN "has_fd" ELSE "idle")
  /\ UNCHANGED <<data, others, lock, cache, freed, op>>

dso__data_put_fd(t) ==
  /\ pc[t] = "has_fd"
  /\ lock' = Nobody
  /\ Goto(t, "idle")
  /\ UNCHANGED <<data, others, cache, freed, op>>

dso__data_close(t, d) ==
  /\ pc[t] = "idle" /\ lock = Nobody /\ "close" \in Uses
  /\ data' = close_dso(data, d)
  /\ UNCHANGED <<others, lock, cache, freed, pc, op>>

(* The caller of dso__data_read_offset() looks at the result and goes on. *)
Consume(t) ==
  /\ pc[t] = "returned"
  /\ op' = [op EXCEPT ![t] = NoOp]
  /\ Goto(t, "idle")
  /\ UNCHANGED <<data, others, lock, cache, freed>>

ReadStep(t) ==
  \/ data_file_size(t) \/ fstat(t) \/ CheckOffset(t)
  \/ CacheFind(t) \/ Pread(t) \/ CacheInsert(t)

Next ==
  \/ OtherFiles
  \/ \E t \in Threads :
       \/ \E d \in Dsos, r \in Reads : dso__data_read_offset(t, d, r)
       \/ ReadStep(t) \/ Consume(t)
       \/ \E d \in Dsos : dso__data_get_fd(t, d)
       \/ GetFdLocked(t) \/ ReturnFd(t) \/ dso__data_put_fd(t)
       \/ \E d \in Dsos : dso__data_close(t, d)

Spec == Init /\ [][Next]_vars

(* Threads go on. *)
LiveSpec == Spec /\ \A t \in Threads : WF_vars(ReadStep(t))

-----------------------------------------------------------------------------

TypeOK ==
  /\ data.list \in Seq(Dsos)
  /\ data.fd \in [Dsos -> BOOLEAN]
  /\ data.status \in [Dsos -> {"UNKNOWN", "OK", "ERROR"}]
  /\ data.file_size \in [Dsos -> Nat]
  /\ others \in 0 .. MaxOthers
  /\ lock \in Threads \union {Nobody}
  /\ \A t \in Threads : op[t].offset \in Nat /\ op[t].size \in Nat

(* "DSO data fd counter out of bounds": the list holds the open DSOs, each  *)
(* once, whatever was closed for what; a size is known of open ones only.   *)
ListsOpen(g) ==
  /\ \A d \in Dsos : g.fd[d] <=> \E i \in 1 .. Len(g.list) : g.list[i] = d
  /\ \A i, j \in 1 .. Len(g.list) : g.list[i] = g.list[j] => i = j
  /\ \A d \in Dsos : g.file_size[d] # 0 => g.fd[d]

ListIsOpen == ListsOpen(data)

(* dso.h: "Each time new DSO data file is opened, the limit                 *)
(* (RLIMIT_NOFILE/2) is checked": that many descriptors are never open, or  *)
(* just one when the limit is one.                                          *)
DescriptorsBounded ==
  NrOpen(data) < fd_limit \/ NrOpen(data) <= 1

(* A read that does not fail returns all there is: up to the size asked for *)
(* and up to the end of the file, over chunks that other threads cached or  *)
(* files that other threads closed in between.                              *)
ReadsWhole ==
  \A t \in Threads : pc[t] = "returned" /\ op[t].ret >= 0 =>
    op[t].size = 0 \/ op[t].offset = Size[op[t].dso]

(* Every read ends, unless a thread keeps the descriptor it borrowed, and   *)
(* with it the lock.                                                        *)
ReadsEnd == \A t \in Threads : pc[t] = "size" ~> pc[t] = "returned"

(* dso.h: the limit is checked and the oldest DSO closed, and dso.c opens   *)
(* it again where "dso->data.fd might be closed if other thread opened      *)
(* another file": a read within a file that can be opened succeeds.         *)
ReadsSucceed ==
  \A t \in Threads : pc[t] = "returned" /\ Size[op[t].dso] >= op[t].offset => op[t].ret >= 0

(* dso.c: "Any read to already cached data is served by cached data": what  *)
(* is in the tree is memory that was not freed.                             *)
ServedByCache == \A d \in Dsos : freed[d] = {}

(* dso.c of dso__data_get_fd(): "It should be paired with                   *)
(* dso__data_put_fd() if it returns non-negative value": whoever is to put   *)
(* holds the lock.                                                          *)
FdWithLock == \A t \in Threads : pc[t] = "has_fd" => lock = t

(* All of it: ServedByCache where no read is of nothing or begins at the    *)
(* end of a file, FdWithLock where the rest of the process leaves one       *)
(* descriptor.                                                              *)
WithinFiles == \A r \in Reads : r[2] > 0 /\ \A d \in Dsos : r[1] # Size[d]
DescriptorLeft == MaxOthers < RLIMIT_NOFILE

DsoReads ==
  /\ TypeOK /\ ListIsOpen /\ DescriptorsBounded /\ ReadsWhole
  /\ WithinFiles => ServedByCache
  /\ DescriptorLeft => FdWithLock

-----------------------------------------------------------------------------
(* What the proofs need.                                                    *)

DsoConstants ==
  /\ Dsos # {} /\ Nobody \notin Threads
  /\ Size \in [Dsos -> Int] /\ \A d \in Dsos : Size[d] >= -1
  /\ ChunkSize \in Nat \ {0} /\ RLIMIT_NOFILE \in Nat /\ MaxOthers \in Nat
  /\ Reads \subseteq Nat \X Nat

(* The descriptors: open are files that exist, fewer than the limit. *)
DataType == [list : Seq(Dsos), fd : [Dsos -> BOOLEAN], file_size : [Dsos -> Nat],
             status : [Dsos -> {"UNKNOWN", "OK", "ERROR"}]]

DataOK(g) ==
  /\ g \in DataType
  /\ ListsOpen(g)
  /\ \A d \in Dsos : /\ g.fd[d] => Size[d] >= 0
                     /\ g.file_size[d] \in {0, Size[d]}
  /\ Len(g.list) < fd_limit \/ Len(g.list) <= 1

(* A chunk is cached whole. *)
ChunkLen(d, c) == min(ChunkSize, Size[d] - c)

CacheOK ==
  /\ DOMAIN cache = Dsos
  /\ \A d \in Dsos : /\ DOMAIN cache[d] = Chunks(d)
                     /\ \A c \in Chunks(d) : cache[d][c] \in {0, ChunkLen(d, c)}

Reading == {"check", "read", "pread", "insert"}

(* Where a read is in its file. *)
ReadOK(at, o) ==
  /\ at \in {"size", "stat"} \union Reading => o.ret >= 0
  /\ at \in Reading => Size[o.dso] >= 0
  /\ at \in Reading \ {"check"} => o.offset <= Size[o.dso]
  /\ at = "insert" => Chunk(o.offset) < Size[o.dso]
  /\ at = "returned" /\ o.ret >= 0 => o.size = 0 \/ o.offset = Size[o.dso]

(* A read that comes to the end of the file has cached the last chunk. *)
EndCached(at, o, size, chunks) ==
  /\ at \in {"size", "stat"} \union Reading => o.size > 0
  /\ at \in {"size", "stat", "check"} => o.offset # size
  /\ at = "read" /\ o.offset = size /\ Chunk(size) < size => chunks[o.dso][Chunk(size)] # 0
  /\ at = "pread" /\ o.offset = size => Chunk(size) >= size
  /\ at = "insert" => o.offset < size

(* Who has the lock; who found no file finds none later. *)
LockOK(t, at, o) ==
  /\ at = "has_fd" => lock = t
  /\ at = "no_fd" => Size[o.dso] < 0

OpType == [dso : Dsos, offset : Nat, size : Nat, ret : Int]
Places == {"idle", "size", "stat", "returned", "get", "has_fd", "no_fd"} \union Reading

DsoInv ==
  /\ DataOK(data)
  /\ others \in 0 .. MaxOthers /\ lock \in Threads \union {Nobody}
  /\ op \in [Threads -> OpType] /\ pc \in [Threads -> Places]
  /\ CacheOK
  /\ \A t \in Threads : ReadOK(pc[t], op[t])
  /\ WithinFiles =>
       ServedByCache /\ \A t \in Threads : EndCached(pc[t], op[t], Size[op[t].dso], cache)
  /\ DescriptorLeft => \A t \in Threads : LockOK(t, pc[t], op[t])
=============================================================================
