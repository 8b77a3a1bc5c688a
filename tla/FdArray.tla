------------------------------ MODULE FdArray -------------------------------
(* The poll array of an evlist: struct fdarray of tools/lib/api/fd/array.c, *)
(* filled by perf_evlist__mmap_per_evsel() with one entry per event         *)
(* descriptor, polled by the loops of perf record and perf trace, and       *)
(* thinned by perf_evlist__filter_pollfd(), which gives up the reference on *)
(* the ring buffer of every descriptor that hung up.                        *)
(* The array is two blocks of memory, entries and priv, and grows by        *)
(* realloc(): what a block holds behind nr is whatever the memory held.     *)
EXTENDS Naturals, Sequences, FiniteSets

CONSTANTS
  Fds,           \* event descriptors
  Maps,          \* ring buffers
  MapOf,         \* the ring buffer a descriptor writes to
  Nfds,          \* what perf_evlist__alloc_pollfd() counts
  NrAutogrow,    \* fdarray__init(&evlist->pollfd, 64)
  EntriesFail,   \* may realloc(fda->entries) fail?
  PrivFail       \* may realloc(fda->priv) fail?

VARIABLES
  pc,            \* "new", "setup", "loop", "polled", "failed", "gone"
  nr,
  entries, priv, \* what the blocks hold, up to nr_alloc; <<>> for NULL
  dangling,      \* fda->entries points to memory that was freed
  refcnt,        \* of the ring buffers
  hup            \* descriptors whose event is gone

vars == <<pc, nr, entries, priv, dangling, refcnt, hup>>

nr_alloc == Len(priv)

NoFd == "nofd"
NoMap == "nomap"
(* POLLHUP | POLLERR, or nothing perf record asks for *)
Revents == {"hup", "none"}
Entry == [fd : Fds \union {NoFd}, revents : Revents]

(* perf_evlist__init(): fdarray__init() *)
Init ==
  /\ pc = "new" /\ nr = 0
  /\ entries = <<>> /\ priv = <<>> /\ dangling = FALSE
  /\ refcnt = [m \in Maps |-> 0]
  /\ hup = {}

(* realloc() keeps what was there; the rest is uninitialised memory *)
Realloc(block, n, Junk) ==
  {block \o new : new \in [1 .. n - Len(block) -> Junk]}

(* fdarray__grow(): both blocks grow, or the first realloc() fails and     *)
(* nothing happens, or the second fails: the first one is freed, and       *)
(* fda->entries still points to what realloc() gave back.                  *)
fdarray__grow(n) ==
  Realloc(entries, nr_alloc + n, [fd : {NoFd}, revents : Revents])
    \X Realloc(priv, nr_alloc + n, {NoMap})

GrowFails_Frees ==
  /\ EntriesFail \/ PrivFail
  /\ dangling' = (entries # <<>>)
  /\ entries' = <<>>
  /\ UNCHANGED priv

GrowFails ==
  \/ EntriesFail /\ UNCHANGED <<entries, priv, dangling>>
  \/ /\ PrivFail
     /\ dangling' = (entries # <<>>)
     /\ entries' = <<>>
     /\ UNCHANGED priv

(* perf_evlist__alloc_pollfd(), behind the test for NULL of               *)
(* perf_evlist__mmap_ex()                                                   *)
perf_evlist__alloc_pollfd ==
  /\ pc = "new"
  /\ \/ /\ \E grown \in fdarray__grow(Nfds) : entries' = grown[1] /\ priv' = grown[2]
        /\ pc' = "setup"
        /\ UNCHANGED dangling
     \/ GrowFails /\ pc' = "failed"
  /\ UNCHANGED <<nr, refcnt, hup>>

(* fdarray__add() where a slot is left or the array grew: the descriptor   *)
(* and its ring buffer go to slot nr, whose revents stay as they are.      *)
Store(fd, map, e, p) ==
  /\ entries' = [e EXCEPT ![nr + 1].fd = fd]
  /\ priv' = [p EXCEPT ![nr + 1] = map]
  /\ nr' = nr + 1
  /\ UNCHANGED dangling

(* perf_mmap__mmap() sets two references, for the descriptor and for the   *)
(* reader; perf_mmap__get() adds one.                                       *)
Referenced(map) == [refcnt EXCEPT ![map] = IF @ = 0 THEN 2 ELSE @ + 1]

(* One descriptor of perf_evlist__mmap_per_evsel(): map it or share the    *)
(* ring buffer of another, and __perf_evlist__add_pollfd(), whose failure   *)
(* puts the reference and ends the setup.                                   *)
perf_evlist__mmap_per_evsel(fd) ==
  /\ pc = "setup"
  /\ \A i \in 1 .. nr : entries[i].fd # fd
  /\ \/ /\ nr < nr_alloc
        /\ Store(fd, MapOf[fd], entries, priv)
        /\ refcnt' = Referenced(MapOf[fd])
        /\ pc' = pc
     \/ /\ nr = nr_alloc
        /\ \E grown \in fdarray__grow(NrAutogrow) :
             Store(fd, MapOf[fd], grown[1], grown[2])
        /\ refcnt' = Referenced(MapOf[fd])
        /\ pc' = pc
     \/ /\ nr = nr_alloc
        /\ GrowFails
        /\ refcnt' = [Referenced(MapOf[fd]) EXCEPT ![MapOf[fd]] = @ - 1]
        /\ pc' = "failed"
        /\ UNCHANGED nr
  /\ UNCHANGED hup

SetUp ==
  /\ pc = "setup" /\ nr > 0
  /\ pc' = "loop"
  /\ UNCHANGED <<nr, entries, priv, dangling, refcnt, hup>>

(* The kernel closes an event: the thread it counted exited. *)
HangUp(fd) ==
  /\ fd \notin hup
  /\ hup' = hup \union {fd}
  /\ UNCHANGED <<pc, nr, entries, priv, dangling, refcnt>>

(* fdarray__poll(): poll() writes the revents of the first nr entries, also *)
(* when a signal ends it.                                                   *)
fdarray__poll_Last ==
  /\ pc = "loop"
  /\ entries' = [i \in DOMAIN entries |->
       IF i < nr THEN [entries[i] EXCEPT !.revents = IF entries[i].fd \in hup THEN "hup" ELSE "none"]
       ELSE entries[i]]
  /\ pc' = "polled"
  /\ UNCHANGED <<nr, priv, dangling, refcnt, hup>>

fdarray__poll ==
  /\ pc = "loop"
  /\ entries' = [i \in DOMAIN entries |->
       IF i <= nr THEN [entries[i] EXCEPT !.revents = IF entries[i].fd \in hup THEN "hup" ELSE "none"]
       ELSE entries[i]]
  /\ pc' = "polled"
  /\ UNCHANGED <<nr, priv, dangling, refcnt, hup>>

Stays(i) == entries[i].revents # "hup"

(* fdarray__filter(): the entries that stay move to the front, with their  *)
(* priv; what is behind the new nr stays where it was.                     *)
Front(block, kept) ==
  [i \in DOMAIN block |-> IF i \in DOMAIN kept THEN block[kept[i]] ELSE block[i]]

Staying == {i \in 1 .. nr : Stays(i)}

(* The places of those that stay, one behind the other. *)
Kept(T) ==
  {kept \in [1 .. Cardinality(T) -> T] :
     /\ \A a, b \in DOMAIN kept : a < b => kept[a] < kept[b]
     /\ \A i \in T : \E a \in DOMAIN kept : kept[a] = i}

(* perf_evlist__filter_pollfd(): perf_evlist__munmap_filtered() puts the   *)
(* ring buffer of each entry that leaves.                                   *)
perf_evlist__filter_pollfd_NoPriv ==
  /\ pc = "polled"
  /\ \E kept \in Kept(Staying) : entries' = Front(entries, kept)
  /\ nr' = Cardinality(Staying)
  /\ refcnt' = [m \in Maps |->
       refcnt[m] - Cardinality({i \in 1 .. nr : ~Stays(i) /\ priv[i] = m})]
  /\ pc' = "loop"
  /\ UNCHANGED <<priv, dangling, hup>>

perf_evlist__filter_pollfd ==
  /\ pc = "polled"
  /\ \E kept \in Kept(Staying) : entries' = Front(entries, kept) /\ priv' = Front(priv, kept)
  /\ nr' = Cardinality(Staying)
  /\ refcnt' = [m \in Maps |->
       refcnt[m] - Cardinality({i \in 1 .. nr : ~Stays(i) /\ priv[i] = m})]
  /\ pc' = "loop"
  /\ UNCHANGED <<dangling, hup>>

(* perf_evlist__exit(): fdarray__exit() frees both blocks and starts over; *)
(* free() of a dangling pointer aborts the program and is no step.         *)
fdarray__exit ==
  /\ pc \in {"setup", "loop", "failed"}
  /\ ~dangling
  /\ pc' = "gone" /\ nr' = 0 /\ entries' = <<>> /\ priv' = <<>>
  /\ UNCHANGED <<dangling, refcnt, hup>>

Terminated == pc = "gone" /\ UNCHANGED vars

Next ==
  \/ perf_evlist__alloc_pollfd \/ SetUp
  \/ \E fd \in Fds : perf_evlist__mmap_per_evsel(fd)
  \/ \E fd \in Fds : HangUp(fd)
  \/ fdarray__poll \/ perf_evlist__filter_pollfd
  \/ fdarray__exit \/ Terminated

Spec == Init /\ [][Next]_vars

(* The loops of perf record and perf trace poll and filter again and again. *)
LiveSpec == Spec /\ WF_vars(fdarray__poll) /\ WF_vars(perf_evlist__filter_pollfd)

-----------------------------------------------------------------------------

(* Types, and nr within the slots there are. *)
TypeOK ==
  /\ pc \in {"new", "setup", "loop", "polled", "failed", "gone"}
  /\ entries \in Seq(Entry)
  /\ priv \in Seq(Maps \union {NoMap})
  /\ dangling \in BOOLEAN
  /\ nr \in 0 .. nr_alloc
  /\ refcnt \in [Maps -> Nat]
  /\ hup \subseteq Fds

(* array.h: priv is "kept in synch with @entries, being realloc'ed": the    *)
(* two blocks exist together and have the same slots, whichever allocation  *)
(* failed in fdarray__grow().                                               *)
KeptInSynch ==
  ~dangling /\ Len(entries) = Len(priv)

(* A ring buffer that was mapped has the reader's reference and one for     *)
(* every entry of the poll array that is still its: fdarray__filter() puts  *)
(* each one once, and none of a descriptor that stays.  (An array that was  *)
(* deleted lets go of the entries; perf_evlist__munmap() clears the rest.)  *)
OneReferencePerEntry ==
  pc \in {"setup", "loop", "polled"} =>
    \A m \in Maps :
      refcnt[m] # 0 =>
        refcnt[m] = 1 + Cardinality({i \in 1 .. nr : priv[i] = m})

(* What the slots below nr hold, as the list that PollList describes. *)
listView == [i \in 1 .. nr |-> <<entries[i].fd, priv[i]>>]

(* What the proofs need of the constants.  Both blocks grow or none does:   *)
(* where the second realloc() of fdarray__grow() fails, entries is gone.    *)
FdArrayConstants ==
  /\ MapOf \in [Fds -> Maps] /\ Nfds \in Nat /\ NrAutogrow \in Nat \ {0}
  /\ ~PrivFail

(* A descriptor is polled once. *)
PolledOnce == \A i, j \in 1 .. nr : entries[i].fd = entries[j].fd => i = j

(* What perf_evlist__filter_pollfd() takes for dead is dead. *)
HupIsTrue ==
  pc = "polled" => \A i \in 1 .. nr : entries[i].revents = "hup" => entries[i].fd \in hup

(* A ring buffer that is not mapped has no entry. *)
EntriesAreMapped ==
  pc \in {"setup", "loop", "polled"} => \A i \in 1 .. nr : priv[i] \in Maps /\ refcnt[priv[i]] # 0

(* The inductive invariant behind the references and the list. *)
FdArrayInv ==
  /\ TypeOK /\ KeptInSynch
  /\ PolledOnce /\ HupIsTrue
  /\ EntriesAreMapped /\ OneReferencePerEntry
  /\ pc = "new" => nr = 0 /\ \A m \in Maps : refcnt[m] = 0

(* The array is a PollList: growing, adding and filtering keep the order    *)
(* and the ring buffer of every descriptor, and only dead descriptors leave *)
(* although revents are not initialised by fdarray__add().                  *)
IsPollList == INSTANCE PollList WITH list <- listView, dead <- hup

PollListSpec == IsPollList!Spec

(* Once every event is gone, a loop that goes on empties the array: that is *)
(* how perf record and perf trace come to drain and stop.                   *)
EmptiesWhenAllHungUp ==
  (pc \in {"loop", "polled"} /\ hup = Fds) ~> (nr = 0)

=============================================================================
