--------------------------- MODULE ProgramProofs ---------------------------
(***************************************************************************)
(* What the programs do around their events, for any number of events,     *)
(* CPUs and ring buffers.  One part for each component of Programs: the    *)
(* poll array, the opening of events, the workload, and the loop of perf   *)
(* trace; then what they promise together.                                 *)
(***************************************************************************)
EXTENDS Programs, Integers, Sequences, FiniteSetTheorems, TLAPS


-----------------------------------------------------------------------------
(* The poll array *)

(* The same cardinality *)
LEMMA PollCounts ==
  ASSUME NEW S
  PROVE  Poll!Cardinality(S) = Cardinality(S)
BY DEF Poll!Cardinality, Cardinality

----------------------------------------------------------------------------
(* Counting the entries of a ring buffer.                                  *)

(* What has a property below a bound can be counted. *)
LEMMA CountIsNat ==
  ASSUME NEW n \in Nat, NEW T \in SUBSET (1 .. n)
  PROVE  IsFiniteSet(T) /\ Cardinality(T) \in Nat /\ (Cardinality(T) = 0 <=> T = {})
<1>1. IsFiniteSet(1 .. n)
  BY FS_Interval
<1>2. IsFiniteSet(T)
  BY <1>1, FS_Subset
<1> QED
  BY <1>2, FS_CardinalityType, FS_EmptySet

(* The slots of a ring buffer among the first n. *)
SlotsOf(p, n, m) == Cardinality({i \in 1 .. n : p[i] = m})

(* The first n slots are the same. *)
SameSlots(p, q, n) == \A i \in 1 .. n : q[i] = p[i]

(* One more entry: its ring buffer has one more, the others have not. *)
LEMMA CountAdd ==
  ASSUME NEW n \in Nat, NEW p, NEW q, SameSlots(p, q, n)
  PROVE  \A m : SlotsOf(q, n + 1, m) = SlotsOf(p, n, m) + (IF q[n + 1] = m THEN 1 ELSE 0)
<1> TAKE m
<1> DEFINE T == {i \in 1 .. n : p[i] = m}
<1> DEFINE U == {i \in 1 .. n + 1 : q[i] = m}
<1>1. IsFiniteSet(T) /\ Cardinality(T) \in Nat
  BY CountIsNat
<1>2. n + 1 \notin T
  OBVIOUS
<1>3. CASE q[n + 1] = m
  <2>1. U = T \cup {n + 1}
    BY <1>3 DEF SameSlots
  <2>2. Cardinality(T \cup {n + 1}) = Cardinality(T) + 1
    BY <1>1, <1>2, FS_AddElement
  <2> QED BY <1>3, <2>1, <2>2 DEF SlotsOf
<1>4. CASE q[n + 1] # m
  <2>1. U = T
    BY <1>4 DEF SameSlots
  <2>2. Cardinality(T) = Cardinality(T) + 0
    BY <1>1
  <2> QED BY <1>4, <2>1, <2>2 DEF SlotsOf
<1> QED BY <1>3, <1>4

(* The c places of S, a part of the first n, one behind the other. *)
Enumerates(kept, c, S, n) ==
  /\ S \in SUBSET (1 .. n) /\ c <= n /\ kept \in [1 .. c -> S]
  /\ \A a, b \in 1 .. c : a < b => kept[a] < kept[b]
  /\ \A i \in S : \E a \in 1 .. c : kept[a] = i

Moved(p, q, kept, c) == \A a \in 1 .. c : q[a] = p[kept[a]]

(* The slots of a ring buffer that are not in S. *)
GoneOf(p, n, S, m) == Cardinality({i \in 1 .. n : i \notin S /\ p[i] = m})

(* Filtered: the entries of a ring buffer are the ones it had without the  *)
(* ones that left.                                                         *)
LEMMA CountFiltered ==
  ASSUME NEW n \in Nat, NEW c \in Nat, NEW S, NEW kept, Enumerates(kept, c, S, n),
         NEW p, NEW q, Moved(p, q, kept, c)
  PROVE  \A m : SlotsOf(q, c, m) = SlotsOf(p, n, m) - GoneOf(p, n, S, m)
<1> TAKE m
<1> USE DEF Enumerates, Moved
<1> DEFINE All == {i \in 1 .. n : p[i] = m}
<1> DEFINE Gone == {i \in 1 .. n : i \notin S /\ p[i] = m}
<1> DEFINE Stay == {i \in S : p[i] = m}
<1> DEFINE New == {a \in 1 .. c : q[a] = m}
<1> DEFINE f == [a \in New |-> kept[a]]
<1>1. IsFiniteSet(New) /\ IsFiniteSet(Stay) /\ IsFiniteSet(Gone) /\ IsFiniteSet(All)
  BY CountIsNat
<1>2. f \in Bijection(New, Stay)
  <2>1. f \in [New -> Stay]
    OBVIOUS
  <2>2. \A a, b \in New : f[a] = f[b] => a = b
    <3> SUFFICES ASSUME NEW a \in New, NEW b \in New, kept[a] = kept[b] PROVE a = b
      OBVIOUS
    <3>1. a \in 1 .. c /\ b \in 1 .. c /\ kept[a] \in 1 .. n
      OBVIOUS
    <3>2. ~(kept[a] < kept[b]) /\ ~(kept[b] < kept[a])
      BY <3>1
    <3>3. ~(a < b) /\ ~(b < a)
      BY <3>1, <3>2
    <3> QED BY <3>1, <3>3
  <2>3. \A t \in Stay : \E a \in New : f[a] = t
    OBVIOUS
  <2> QED BY <2>1, <2>2, <2>3 DEF Bijection, Injection, Surjection, IsInjective
<1>3. Cardinality(Stay) = Cardinality(New)
  BY <1>1, <1>2, FS_Bijection DEF ExistsBijection
<1>4. All = Stay \cup Gone /\ Stay \cap Gone = {}
  OBVIOUS
<1>5. Cardinality(All) = Cardinality(Stay) + Cardinality(Gone) - Cardinality(Stay \cap Gone)
  BY <1>1, <1>4, FS_Union
<1>6. Cardinality(Stay \cap Gone) = 0
  BY <1>4, FS_EmptySet
<1>7. Cardinality(All) \in Nat /\ Cardinality(Stay) \in Nat /\ Cardinality(Gone) \in Nat
  BY <1>1, FS_CardinalityType
<1> HIDE DEF All, Gone, Stay, New
<1> QED BY <1>3, <1>5, <1>6, <1>7 DEF All, Gone, New, SlotsOf, GoneOf

----------------------------------------------------------------------------
(* Growing and storing.                                                    *)

(* realloc() keeps what a block held. *)
LEMMA ReallocKeeps ==
  ASSUME NEW S, NEW J \in SUBSET S, NEW block \in Seq(S), NEW n \in Nat, n >= Len(block),
         NEW b \in Poll!Realloc(block, n, J)
  PROVE  b \in Seq(S) /\ Len(b) = n /\ \A i \in 1 .. Len(block) : b[i] = block[i]
<1>1. PICK new \in [1 .. n - Len(block) -> J] : b = block \o new
  BY DEF Poll!Realloc
<1>2. PICK k \in Nat : k = n - Len(block)
  OBVIOUS
<1>3. new \in [1 .. k -> S]
  BY <1>1, <1>2
<1>4. new \in Seq(S) /\ Len(new) = k
  BY <1>2, <1>3
<1>5. Len(block) \in Nat
  OBVIOUS
<1>6. b \in Seq(S) /\ Len(b) = Len(block) + k
  BY <1>1, <1>4
<1>7. \A i \in 1 .. Len(block) : b[i] = block[i]
  BY <1>1, <1>4
<1> QED BY <1>2, <1>5, <1>6, <1>7

(* fdarray__grow() keeps both blocks and gives them the same slots. *)
LEMMA GrowKeeps ==
  ASSUME Poll!TypeOK, Poll!KeptInSynch, NEW n \in Nat, NEW grown \in Poll!fdarray__grow(n)
  PROVE  /\ grown[1] \in Seq(Poll!Entry) /\ grown[2] \in Seq(Maps \union {Poll!NoMap})
         /\ Len(grown[1]) = Len(priv) + n /\ Len(grown[2]) = Len(priv) + n
         /\ \A i \in 1 .. Len(priv) : grown[1][i] = poll_entries[i] /\ grown[2][i] = priv[i]
<1>1. Len(priv) \in Nat /\ Len(poll_entries) = Len(priv)
  BY DEF Poll!TypeOK, Poll!KeptInSynch
<1>2. PICK k \in Nat : k = Poll!nr_alloc + n
  BY <1>1 DEF Poll!nr_alloc
<1>3. /\ grown[1] \in Poll!Realloc(poll_entries, k, [fd : {Poll!NoFd}, revents : Poll!Revents])
      /\ grown[2] \in Poll!Realloc(priv, k, {Poll!NoMap})
  BY <1>2 DEF Poll!fdarray__grow
<1>4. k >= Len(priv) /\ k >= Len(poll_entries)
  BY <1>1, <1>2 DEF Poll!nr_alloc
<1>5. [fd : {Poll!NoFd}, revents : Poll!Revents] \in SUBSET Poll!Entry
  BY DEF Poll!Entry
<1>6. {Poll!NoMap} \in SUBSET (Maps \union {Poll!NoMap})
  OBVIOUS
<1>7. poll_entries \in Seq(Poll!Entry) /\ priv \in Seq(Maps \union {Poll!NoMap})
  BY DEF Poll!TypeOK
<1>8. /\ grown[1] \in Seq(Poll!Entry) /\ Len(grown[1]) = k
      /\ \A i \in 1 .. Len(poll_entries) : grown[1][i] = poll_entries[i]
  <2>1. PICK S, J, block, b : /\ S = Poll!Entry /\ J = [fd : {Poll!NoFd}, revents : Poll!Revents]
                              /\ block = poll_entries /\ b = grown[1]
    OBVIOUS
  <2>2. J \in SUBSET S /\ block \in Seq(S) /\ k >= Len(block) /\ b \in Poll!Realloc(block, k, J)
    BY <1>3, <1>4, <1>5, <1>7, <2>1
  <2>3. b \in Seq(S) /\ Len(b) = k /\ \A i \in 1 .. Len(block) : b[i] = block[i]
    BY <2>2, ReallocKeeps
  <2> QED BY <2>1, <2>3
<1>9. /\ grown[2] \in Seq(Maps \union {Poll!NoMap}) /\ Len(grown[2]) = k
      /\ \A i \in 1 .. Len(priv) : grown[2][i] = priv[i]
  <2>1. PICK S, J, block, b : /\ S = Maps \union {Poll!NoMap} /\ J = {Poll!NoMap}
                              /\ block = priv /\ b = grown[2]
    OBVIOUS
  <2>2. J \in SUBSET S /\ block \in Seq(S) /\ k >= Len(block) /\ b \in Poll!Realloc(block, k, J)
    BY <1>3, <1>4, <1>6, <1>7, <2>1
  <2>3. b \in Seq(S) /\ Len(b) = k /\ \A i \in 1 .. Len(block) : b[i] = block[i]
    BY <2>2, ReallocKeeps
  <2> QED BY <2>1, <2>3
<1> QED BY <1>1, <1>2, <1>8, <1>9 DEF Poll!nr_alloc

(* fdarray__add() into a slot that is there: a step of the array on which  *)
(* everything else depends only through the blocks e and p.                *)
LEMMA StoreKeeps ==
  ASSUME Poll!FdArrayConstants, Poll!FdArrayInv, NEW fd \in Fds, poll_pc = "setup",
         poll_pc' = poll_pc, hup' = hup,
         \A i \in 1 .. nr : poll_entries[i].fd # fd,
         NEW e \in Seq(Poll!Entry), NEW p \in Seq(Maps \union {Poll!NoMap}), Len(e) = Len(p),
         nr < Len(p),
         \A i \in 1 .. nr : e[i] = poll_entries[i] /\ p[i] = priv[i],
         Poll!Store(fd, MapOf[fd], e, p), refcnt' = Poll!Referenced(MapOf[fd])
  PROVE  Poll!FdArrayInv' /\ Poll!listView' = Append(Poll!listView, <<fd, MapOf[fd]>>)
<1> DEFINE map == MapOf[fd]
<1>1. map \in Maps /\ nr \in Nat /\ refcnt \in [Maps -> Nat] /\ ~dangling
  BY DEF Poll!FdArrayConstants, Poll!FdArrayInv, Poll!TypeOK, Poll!KeptInSynch
<1> HIDE DEF map
<1>2. /\ poll_entries' = [e EXCEPT ![nr + 1].fd = fd]
      /\ priv' = [p EXCEPT ![nr + 1] = map]
      /\ nr' = nr + 1
      /\ dangling' = dangling
  BY DEF Poll!Store, map
<1>3. refcnt' = [refcnt EXCEPT ![map] = IF refcnt[map] = 0 THEN 2 ELSE refcnt[map] + 1]
  BY DEF Poll!Referenced, map
<1>4. Len(p) \in Nat /\ nr + 1 \in 1 .. Len(p)
  BY <1>1
<1>5. /\ poll_entries' \in Seq(Poll!Entry) /\ Len(poll_entries') = Len(e)
      /\ \A i \in 1 .. nr : poll_entries'[i] = poll_entries[i]
      /\ poll_entries'[nr + 1].fd = fd
  <2>1. e \in [1 .. Len(e) -> Poll!Entry]
    OBVIOUS
  <2>2. e[nr + 1] \in Poll!Entry
    BY <1>4
  <2>3. [e[nr + 1] EXCEPT !.fd = fd] \in Poll!Entry
    BY <2>2 DEF Poll!Entry
  <2>4. poll_entries' = [e EXCEPT ![nr + 1] = [e[nr + 1] EXCEPT !.fd = fd]]
    BY <1>2
  <2>5. [e[nr + 1] EXCEPT !.fd = fd].fd = fd
    BY <2>2 DEF Poll!Entry
  <2>6. poll_entries' \in Seq(Poll!Entry) /\ Len(poll_entries') = Len(e)
    <3>1. PICK x \in Poll!Entry : x = [e[nr + 1] EXCEPT !.fd = fd]
      BY <2>3
    <3>2. poll_entries' = [e EXCEPT ![nr + 1] = x]
      BY <2>4, <3>1
    <3> QED BY <1>4, <3>2
  <2>7. \A i \in 1 .. nr : i # nr + 1 /\ i \in 1 .. Len(e)
    BY <1>1, <1>4
  <2>8. \A i \in 1 .. nr : poll_entries'[i] = e[i]
    BY <2>1, <2>4, <2>7
  <2>9. poll_entries'[nr + 1].fd = fd
    BY <1>4, <2>1, <2>4, <2>5
  <2> QED BY <2>6, <2>8, <2>9
<1>6. /\ priv' \in Seq(Maps \union {Poll!NoMap}) /\ Len(priv') = Len(p)
      /\ \A i \in 1 .. nr : priv'[i] = priv[i]
      /\ priv'[nr + 1] = map
  <2>1. p \in [1 .. Len(p) -> Maps \union {Poll!NoMap}]
    OBVIOUS
  <2>2. priv' \in Seq(Maps \union {Poll!NoMap}) /\ Len(priv') = Len(p)
    BY <1>1, <1>2
  <2>3. \A i \in 1 .. nr : i # nr + 1 /\ i \in 1 .. Len(p)
    BY <1>1, <1>4
  <2>4. \A i \in 1 .. nr : priv'[i] = p[i]
    BY <1>2, <2>1, <2>3
  <2>5. priv'[nr + 1] = map
    BY <1>2, <1>4, <2>1
  <2> QED BY <2>2, <2>4, <2>5
<1>7. refcnt' \in [Maps -> Nat] /\ \A m \in Maps : refcnt[m] # 0 => refcnt'[m] # 0
  BY <1>1, <1>3
<1>8. refcnt'[map] # 0
  BY <1>1, <1>3
<1>9. 1 .. nr' = (1 .. nr) \cup {nr + 1}
  BY <1>1, <1>2
<1>10. Poll!TypeOK' /\ Poll!KeptInSynch'
  <2>1. nr' \in 0 .. Len(priv')
    BY <1>2, <1>4, <1>6
  <2>2. hup \subseteq Fds
    BY DEF Poll!FdArrayInv, Poll!TypeOK
  <2>3. Poll!KeptInSynch'
    BY <1>1, <1>2, <1>5, <1>6 DEF Poll!KeptInSynch
  <2>4. dangling' \in BOOLEAN
    BY <1>2 DEF Poll!FdArrayInv, Poll!TypeOK
  <2>5. hup' \subseteq Fds /\ poll_pc' \in {"new", "setup", "loop", "polled", "failed", "gone"}
    BY <2>2
  <2> QED BY <1>5, <1>6, <1>7, <2>1, <2>3, <2>4, <2>5 DEF Poll!TypeOK, Poll!nr_alloc
<1>11. Poll!PolledOnce'
  <2>1. Poll!PolledOnce
    BY DEF Poll!FdArrayInv
  <2> QED BY <1>5, <1>9, <2>1 DEF Poll!PolledOnce
<1>12. Poll!HupIsTrue'
  BY DEF Poll!HupIsTrue
<1>13. Poll!EntriesAreMapped'
  <2>1. \A i \in 1 .. nr : priv[i] \in Maps /\ refcnt[priv[i]] # 0
    BY DEF Poll!FdArrayInv, Poll!EntriesAreMapped
  <2> QED BY <1>1, <1>6, <1>7, <1>8, <1>9, <2>1 DEF Poll!EntriesAreMapped
<1>14. Poll!OneReferencePerEntry'
  <2> SUFFICES ASSUME NEW m \in Maps, refcnt'[m] # 0
               PROVE  refcnt'[m] = 1 + SlotsOf(priv', nr', m)
    BY PollCounts DEF Poll!OneReferencePerEntry, SlotsOf
  <2> DEFINE n == SlotsOf(priv, nr, m)
  <2>1. n \in Nat
    BY <1>1, CountIsNat DEF SlotsOf
  <2>2. SlotsOf(priv', nr + 1, m) = n + (IF priv'[nr + 1] = m THEN 1 ELSE 0)
    <3>1. \A i \in 1 .. nr : priv'[i] = priv[i]
      BY <1>6
    <3>2. SameSlots(priv, priv', nr)
      BY <3>1 DEF SameSlots
    <3> QED BY <1>1, <3>2, CountAdd
  <2>3. refcnt[m] # 0 => refcnt[m] = 1 + n
    BY PollCounts DEF Poll!FdArrayInv, Poll!OneReferencePerEntry, SlotsOf
  <2>4. refcnt[m] = 0 => n = 0
    <3> SUFFICES ASSUME refcnt[m] = 0 PROVE {i \in 1 .. nr : priv[i] = m} = {}
      BY FS_EmptySet DEF SlotsOf
    <3> QED BY DEF Poll!FdArrayInv, Poll!EntriesAreMapped
  <2> HIDE DEF n
  <2>5. CASE m = map
    <3>1. refcnt'[m] = IF refcnt[m] = 0 THEN 2 ELSE refcnt[m] + 1
      BY <1>1, <1>3, <2>5
    <3>2. refcnt'[m] = n + 2
      BY <2>1, <2>3, <2>4, <3>1
    <3> QED BY <1>2, <1>6, <2>1, <2>2, <2>5, <3>2
  <2>6. CASE m # map
    <3>1. refcnt'[m] = refcnt[m]
      BY <1>1, <1>3, <2>6
    <3> QED BY <1>2, <1>6, <2>1, <2>2, <2>3, <2>6, <3>1
  <2> QED BY <2>5, <2>6
<1>15. Poll!listView' = Append(Poll!listView, <<fd, MapOf[fd]>>)
  <2> DEFINE l == [i \in 1 .. nr |-> <<poll_entries[i].fd, priv[i]>>]
  <2>1. Len(l) = nr
    BY <1>1
  <2>2. Append(l, <<fd, map>>) = [i \in 1 .. nr + 1 |-> IF i <= nr THEN l[i] ELSE <<fd, map>>]
    BY <1>1, <2>1
  <2>3. [i \in 1 .. nr + 1 |-> <<poll_entries'[i].fd, priv'[i]>>]
          = [i \in 1 .. nr + 1 |-> IF i <= nr THEN l[i] ELSE <<fd, map>>]
    BY <1>1, <1>5, <1>6
  <2> QED BY <1>2, <2>2, <2>3 DEF Poll!listView, map
<1>16. (poll_pc = "new" => nr = 0 /\ \A m \in Maps : refcnt[m] = 0)'
  OBVIOUS
<1> QED
  BY <1>10, <1>11, <1>12, <1>13, <1>14, <1>15, <1>16 DEF Poll!FdArrayInv

----------------------------------------------------------------------------
(* Filtering.                                                              *)

(* fdarray__filter() moves a block's entries to the front. *)
LEMMA FrontMoves ==
  ASSUME NEW S, NEW block \in Seq(S), NEW n \in Nat, n <= Len(block),
         NEW c \in Nat, NEW T, NEW kept, Enumerates(kept, c, T, n)
  PROVE  /\ Poll!Front(block, kept) \in Seq(S) /\ Len(Poll!Front(block, kept)) = Len(block)
         /\ Moved(block, Poll!Front(block, kept), kept, c)
<1> USE DEF Enumerates
<1>1. PICK l \in Nat : l = Len(block)
  OBVIOUS
<1>2. block \in [1 .. l -> S] /\ DOMAIN block = 1 .. l /\ DOMAIN kept = 1 .. c
  BY <1>1
<1>3. \A a \in 1 .. c : a \in 1 .. l /\ kept[a] \in 1 .. l
  <2> TAKE a \in 1 .. c
  <2>1. kept[a] \in T
    OBVIOUS
  <2>2. kept[a] \in 1 .. n
    BY <2>1
  <2>3. l \in Int /\ c \in Int /\ n \in Int /\ c <= n /\ n <= l
    BY <1>1
  <2> QED BY <2>2, <2>3
<1>4. Poll!Front(block, kept) = [i \in 1 .. l |-> IF i \in 1 .. c THEN block[kept[i]] ELSE block[i]]
  BY <1>2 DEF Poll!Front
<1>5. Poll!Front(block, kept) \in [1 .. l -> S]
  BY <1>2, <1>3, <1>4
<1>6. Poll!Front(block, kept) \in Seq(S) /\ Len(Poll!Front(block, kept)) = l
  BY <1>5
<1>7. \A a \in 1 .. c : Poll!Front(block, kept)[a] = block[kept[a]]
  BY <1>3, <1>4
<1> QED BY <1>1, <1>6, <1>7 DEF Moved

(* perf_evlist__filter_pollfd(), for the places that stay.                 *)
LEMMA FilterKeeps ==
  ASSUME Poll!FdArrayConstants, Poll!FdArrayInv, Poll!perf_evlist__filter_pollfd
  PROVE  Poll!FdArrayInv' /\ \E S \in SUBSET hup : Poll!IsPollList!Drop(S)
<1>1. /\ nr \in Nat /\ nr <= Len(priv) /\ Len(poll_entries) = Len(priv) /\ Len(priv) \in Nat
      /\ poll_entries \in Seq(Poll!Entry) /\ priv \in Seq(Maps \union {Poll!NoMap})
      /\ refcnt \in [Maps -> Nat] /\ ~dangling
  BY DEF Poll!FdArrayInv, Poll!TypeOK, Poll!KeptInSynch, Poll!nr_alloc
<1>2. /\ poll_pc = "polled" /\ poll_pc' = "loop" /\ dangling' = dangling /\ hup' = hup
      /\ nr' = Cardinality(Poll!Staying)
      /\ refcnt' = [m \in Maps |->
           refcnt[m] - Cardinality({i \in 1 .. nr : ~Poll!Stays(i) /\ priv[i] = m})]
  BY PollCounts DEF Poll!perf_evlist__filter_pollfd
<1>3. PICK kept \in Poll!Kept(Poll!Staying) : poll_entries' = Poll!Front(poll_entries, kept)
      /\ priv' = Poll!Front(priv, kept)
  BY PollCounts DEF Poll!perf_evlist__filter_pollfd
<1>4. PICK T : T = Poll!Staying
  OBVIOUS
<1>5. T \in SUBSET (1 .. nr) /\ \A i \in 1 .. nr : i \in T <=> Poll!Stays(i)
  BY <1>4 DEF Poll!Staying
<1>6. IsFiniteSet(T) /\ Cardinality(T) \in Nat /\ Cardinality(T) <= nr
  <2>1. IsFiniteSet(1 .. nr) /\ Cardinality(1 .. nr) = nr
    BY <1>1, FS_Interval
  <2> QED BY <1>5, <2>1, FS_Subset, FS_CardinalityType
<1>7. PICK c \in Nat : c = Cardinality(T)
  BY <1>6
<1>8. /\ kept \in [1 .. c -> T]
      /\ \A a, b \in 1 .. c : a < b => kept[a] < kept[b]
      /\ \A i \in T : \E a \in 1 .. c : kept[a] = i
  <2>1. kept \in [1 .. c -> T]
    BY <1>3, <1>4, <1>7, PollCounts DEF Poll!Kept
  <2>2. DOMAIN kept = 1 .. c
    BY <2>1
  <2>3. /\ \A a, b \in DOMAIN kept : a < b => kept[a] < kept[b]
        /\ \A i \in T : \E a \in DOMAIN kept : kept[a] = i
    BY <1>3, <1>4 DEF Poll!Kept
  <2> QED BY <2>1, <2>2, <2>3
<1>9. c <= nr /\ nr' = c
  BY <1>2, <1>4, <1>6, <1>7
<1>10. Enumerates(kept, c, T, nr)
  BY <1>5, <1>8, <1>9 DEF Enumerates
<1>11. /\ poll_entries' \in Seq(Poll!Entry) /\ Len(poll_entries') = Len(priv)
       /\ Moved(poll_entries, poll_entries', kept, c)
  <2>1. nr <= Len(poll_entries)
    BY <1>1
  <2>2. /\ Poll!Front(poll_entries, kept) \in Seq(Poll!Entry)
           /\ Len(Poll!Front(poll_entries, kept)) = Len(poll_entries)
        /\ Moved(poll_entries, Poll!Front(poll_entries, kept), kept, c)
    BY <1>1, <1>10, <2>1, FrontMoves
  <2> QED BY <1>1, <1>3, <2>2
<1>12. /\ priv' \in Seq(Maps \union {Poll!NoMap}) /\ Len(priv') = Len(priv)
       /\ Moved(priv, priv', kept, c)
  <2>1. PICK S : S = Maps \union {Poll!NoMap}
    OBVIOUS
  <2>2. priv \in Seq(S) /\ nr <= Len(priv)
    BY <1>1, <2>1
  <2>3. /\ Poll!Front(priv, kept) \in Seq(S) /\ Len(Poll!Front(priv, kept)) = Len(priv)
        /\ Moved(priv, Poll!Front(priv, kept), kept, c)
    BY <1>1, <1>10, <2>2, FrontMoves
  <2> QED BY <1>3, <2>1, <2>3
<1>0. /\ \A a \in 1 .. c : kept[a] \in 1 .. nr /\ poll_entries'[a] = poll_entries[kept[a]]
      /\ \A a \in 1 .. c : priv'[a] = priv[kept[a]]
  BY <1>5, <1>8, <1>11, <1>12 DEF Moved
<1>100. \A m : SlotsOf(priv', c, m) = SlotsOf(priv, nr, m) - GoneOf(priv, nr, T, m)
  BY <1>1, <1>10, <1>12, CountFiltered
<1>13. \A m \in Maps : /\ SlotsOf(priv, nr, m) \in Nat
                       /\ SlotsOf(priv', c, m) \in Nat
                       /\ refcnt'[m] = refcnt[m] - (SlotsOf(priv, nr, m) - SlotsOf(priv', c, m))
                       /\ refcnt[m] # 0 => refcnt[m] = 1 + SlotsOf(priv, nr, m)
                       /\ refcnt[m] = 0 => SlotsOf(priv, nr, m) = 0
  <2> TAKE m \in Maps
  <2> DEFINE gone == {i \in 1 .. nr : ~Poll!Stays(i) /\ priv[i] = m}
  <2>1. gone = {i \in 1 .. nr : i \notin T /\ priv[i] = m}
    BY <1>5
  <2>2. SlotsOf(priv', c, m) = SlotsOf(priv, nr, m) - Cardinality(gone)
    BY <1>100, <2>1 DEF GoneOf
  <2>3. SlotsOf(priv, nr, m) \in Nat /\ SlotsOf(priv', c, m) \in Nat /\ Cardinality(gone) \in Nat
    BY <1>1, CountIsNat DEF SlotsOf
  <2>4. refcnt'[m] = refcnt[m] - Cardinality(gone)
    BY <1>2
  <2>5. refcnt[m] # 0 => refcnt[m] = 1 + SlotsOf(priv, nr, m)
    BY <1>2, PollCounts DEF Poll!FdArrayInv, Poll!OneReferencePerEntry, SlotsOf
  <2>6. refcnt[m] = 0 => SlotsOf(priv, nr, m) = 0
    <3> SUFFICES ASSUME refcnt[m] = 0 PROVE {i \in 1 .. nr : priv[i] = m} = {}
      BY FS_EmptySet DEF SlotsOf
    <3> QED BY <1>2 DEF Poll!FdArrayInv, Poll!EntriesAreMapped
  <2>7. refcnt[m] \in Nat
    BY <1>1
  <2> HIDE DEF gone
  <2> QED BY <2>2, <2>3, <2>4, <2>5, <2>6, <2>7
<1>14. \A m \in Maps : /\ refcnt'[m] \in Nat
                       /\ refcnt'[m] # 0 => refcnt'[m] = 1 + SlotsOf(priv', c, m)
                       /\ refcnt'[m] = 0 => refcnt[m] = 0
  <2> TAKE m \in Maps
  <2>1. \A r, s, t \in Nat : \A u \in Int :
           /\ u = r - (s - t)
           /\ r # 0 => r = 1 + s
           /\ r = 0 => s = 0
           => t >= 0 /\ (r # 0 => u = 1 + t) /\ (r = 0 => u = t)
    OBVIOUS
  <2>2. SlotsOf(priv', c, m) <= SlotsOf(priv, nr, m)
    <3>1. GoneOf(priv, nr, T, m) \in Nat
      BY <1>1, CountIsNat DEF GoneOf
    <3> QED BY <1>100, <1>13, <3>1
  <2> QED BY <1>1, <1>13, <2>1, <2>2
<1>15. refcnt' \in [Maps -> Nat]
  BY <1>2, <1>14
<1>16. Poll!TypeOK' /\ Poll!KeptInSynch'
  <2>1. nr' \in 0 .. Len(priv')
    BY <1>1, <1>9, <1>12
  <2>2. hup' \subseteq Fds /\ dangling' \in BOOLEAN
    BY <1>2 DEF Poll!FdArrayInv, Poll!TypeOK
  <2>3. Poll!KeptInSynch'
    BY <1>1, <1>2, <1>11, <1>12 DEF Poll!KeptInSynch
  <2> QED BY <1>2, <1>11, <1>12, <1>15, <2>1, <2>2, <2>3 DEF Poll!TypeOK, Poll!nr_alloc
<1>17. Poll!PolledOnce'
  <2> SUFFICES ASSUME NEW a \in 1 .. c, NEW b \in 1 .. c, poll_entries'[a].fd = poll_entries'[b].fd
               PROVE  a = b
    BY <1>9 DEF Poll!PolledOnce
  <2>1. kept[a] = kept[b]
    BY <1>0 DEF Poll!FdArrayInv, Poll!PolledOnce
  <2>2. kept[a] \in Nat /\ kept[b] \in Nat
    BY <1>0
  <2>3. ~(a < b) /\ ~(b < a)
    BY <1>8, <2>1, <2>2
  <2> QED BY <2>3
<1>18. Poll!HupIsTrue'
  BY <1>2 DEF Poll!HupIsTrue
<1>19. Poll!EntriesAreMapped'
  <2>1. \A i \in 1 .. nr : priv[i] \in Maps /\ refcnt[priv[i]] # 0
    BY <1>2 DEF Poll!FdArrayInv, Poll!EntriesAreMapped
  <2>2. \A a \in 1 .. c : priv'[a] \in Maps /\ refcnt'[priv'[a]] # 0
    BY <1>0, <1>14, <2>1
  <2> QED BY <1>9, <2>2 DEF Poll!EntriesAreMapped
<1>20. Poll!OneReferencePerEntry'
  BY <1>9, <1>14, PollCounts DEF Poll!OneReferencePerEntry, SlotsOf
<1>21. Poll!FdArrayInv'
  BY <1>2, <1>16, <1>17, <1>18, <1>19, <1>20 DEF Poll!FdArrayInv
<1>22. \E S \in SUBSET hup : Poll!IsPollList!Drop(S)
  <2> DEFINE S == {poll_entries[i].fd : i \in {j \in 1 .. nr : ~Poll!Stays(j)}}
  <2>1. S \in SUBSET hup
    BY <1>2 DEF Poll!FdArrayInv, Poll!HupIsTrue, Poll!Stays
  <2>2. \A i \in 1 .. nr : poll_entries[i].fd \notin S <=> i \in T
    BY <1>5 DEF Poll!FdArrayInv, Poll!PolledOnce
  <2> HIDE DEF S
  <2>3. DOMAIN Poll!listView = 1 .. nr
        /\ \A i \in 1 .. nr : Poll!listView[i] = <<poll_entries[i].fd, priv[i]>>
    BY DEF Poll!listView
  <2>4. {i \in DOMAIN Poll!listView : Poll!listView[i][1] \notin S} = T
    <3>1. \A i \in 1 .. nr : Poll!listView[i][1] = poll_entries[i].fd
      BY <2>3
    <3>2. \A i : i \in {j \in DOMAIN Poll!listView : Poll!listView[j][1] \notin S} <=> i \in T
      BY <1>5, <2>2, <2>3, <3>1
    <3> QED BY <3>2
  <2>5. DOMAIN kept = 1 .. c
    BY <1>8
  <2>6. Poll!listView' = [a \in 1 .. c |-> <<poll_entries'[a].fd, priv'[a]>>]
    BY <1>9 DEF Poll!listView
  <2>7. Poll!listView' = [a \in DOMAIN kept |-> Poll!listView[kept[a]]]
    BY <1>0, <2>3, <2>5, <2>6
  <2>8. Poll!IsPollList!Drop(S)
    <3>1. Len(Poll!listView) = nr
      BY <1>1, <2>3 DEF Poll!listView
    <3>2. Poll!IsPollList!InOrder(kept, T)
      BY <1>8, <2>5 DEF Poll!IsPollList!InOrder
    <3>3. c \in 0 .. Len(Poll!listView) /\ kept \in [1 .. c -> 1 .. Len(Poll!listView)]
      <4>1. c \in 0 .. nr
        BY <1>1, <1>9
      <4>2. kept \in [1 .. c -> 1 .. nr]
        BY <1>5, <1>8
      <4> QED BY <3>1, <4>1, <4>2
    <3>4. {i \in 1 .. Len(Poll!listView) : Poll!listView[i][1] \notin S} = T
      BY <2>3, <2>4, <3>1
    <3>5. Poll!listView' = [a \in 1 .. c |-> Poll!listView[kept[a]]]
      BY <2>5, <2>7
    <3> QED BY <1>2, <3>2, <3>3, <3>4, <3>5 DEF Poll!IsPollList!Drop
  <2> QED BY <2>1, <2>8
<1> QED BY <1>21, <1>22

----------------------------------------------------------------------------
(* The other steps.                                                        *)

(* The empty array is an empty list. *)
LEMMA InitFdArray == Poll!Init => Poll!FdArrayInv /\ Poll!IsPollList!Init
<1> SUFFICES ASSUME Poll!Init PROVE Poll!FdArrayInv /\ Poll!IsPollList!Init
  OBVIOUS
<1>1. poll_entries = <<>> /\ priv = <<>> /\ Len(<<>>) = 0 /\ nr = 0 /\ 1 .. nr = {}
  BY DEF Poll!Init
<1>2. poll_entries \in Seq(Poll!Entry) /\ priv \in Seq(Maps \union {Poll!NoMap})
  BY <1>1
<1>3. Poll!TypeOK
  <2>1. nr \in 0 .. Len(priv)
    BY <1>1
  <2>2. refcnt \in [Maps -> Nat]
    BY DEF Poll!Init
  <2> QED BY <1>2, <2>1, <2>2 DEF Poll!Init, Poll!TypeOK, Poll!nr_alloc
<1>4. Poll!FdArrayInv
  BY <1>1, <1>3 DEF Poll!Init, Poll!FdArrayInv, Poll!KeptInSynch, Poll!PolledOnce, Poll!HupIsTrue,
     Poll!EntriesAreMapped,
                    Poll!OneReferencePerEntry
<1>5. Poll!listView = <<>>
  BY <1>1 DEF Poll!listView
<1> QED BY <1>4, <1>5 DEF Poll!Init, Poll!IsPollList!Init

(* The blocks change and nothing below nr does. *)
LEMMA SlotsStay ==
  ASSUME Poll!FdArrayInv, nr' = nr, refcnt' = refcnt, hup' = hup, dangling' = dangling,
         poll_entries' \in Seq(Poll!Entry), priv' \in Seq(Maps \union {Poll!NoMap}),
         Len(poll_entries') = Len(priv'), nr <= Len(priv'),
         \A i \in 1 .. nr : poll_entries'[i] = poll_entries[i] /\ priv'[i] = priv[i],
         poll_pc' \in {"setup", "loop", "failed"},
         poll_pc' = "failed" \/ poll_pc \in {"new", "setup"}
  PROVE  Poll!FdArrayInv' /\ Poll!listView' = Poll!listView
<1>1. nr \in Nat /\ refcnt \in [Maps -> Nat] /\ hup \subseteq Fds /\ ~dangling
      /\ dangling \in BOOLEAN
  BY DEF Poll!FdArrayInv, Poll!TypeOK, Poll!KeptInSynch
<1>2. Poll!TypeOK' /\ Poll!KeptInSynch'
  <2>1. Len(priv') \in Nat
    OBVIOUS
  <2>2. nr' \in 0 .. Len(priv')
    BY <1>1, <2>1
  <2>3. refcnt' \in [Maps -> Nat] /\ hup' \subseteq Fds /\ dangling' \in BOOLEAN
    BY <1>1
  <2>4. Poll!KeptInSynch'
    BY <1>1 DEF Poll!KeptInSynch
  <2>5. poll_pc' \in {"new", "setup", "loop", "polled", "failed", "gone"}
    OBVIOUS
  <2> QED BY <2>2, <2>3, <2>4, <2>5 DEF Poll!TypeOK, Poll!nr_alloc
<1>3. Poll!PolledOnce' /\ Poll!HupIsTrue'
  <2>1. Poll!PolledOnce
    BY DEF Poll!FdArrayInv
  <2> QED BY <2>1 DEF Poll!PolledOnce, Poll!HupIsTrue
<1>4. poll_pc = "new" => nr = 0 /\ \A m \in Maps : refcnt[m] = 0
  BY DEF Poll!FdArrayInv
<1>5. Poll!EntriesAreMapped'
  <2>1. Poll!EntriesAreMapped
    BY DEF Poll!FdArrayInv
  <2>2. CASE poll_pc = "new"
    BY <1>4, <2>2 DEF Poll!EntriesAreMapped
  <2>3. CASE poll_pc = "setup"
    BY <2>1, <2>3 DEF Poll!EntriesAreMapped
  <2>4. CASE poll_pc' = "failed"
    BY <2>4 DEF Poll!EntriesAreMapped
  <2> QED BY <2>2, <2>3, <2>4
<1>6. Poll!OneReferencePerEntry'
  <2>1. Poll!OneReferencePerEntry
    BY DEF Poll!FdArrayInv
  <2>2. \A m : {i \in 1 .. nr' : priv'[i] = m} = {i \in 1 .. nr : priv[i] = m}
    OBVIOUS
  <2>3. CASE poll_pc = "new"
    BY <1>4, <2>3 DEF Poll!OneReferencePerEntry
  <2>4. CASE poll_pc = "setup"
    BY <2>1, <2>2, <2>4 DEF Poll!OneReferencePerEntry
  <2>5. CASE poll_pc' = "failed"
    BY <2>5 DEF Poll!OneReferencePerEntry
  <2> QED BY <2>3, <2>4, <2>5
<1>7. Poll!listView' = Poll!listView
  BY DEF Poll!listView
<1> QED BY <1>2, <1>3, <1>5, <1>6, <1>7 DEF Poll!FdArrayInv

(* perf_evlist__alloc_pollfd(): the array has slots, or is as it was. *)
LEMMA AllocKeeps ==
  ASSUME Poll!FdArrayConstants, Poll!FdArrayInv, Poll!perf_evlist__alloc_pollfd
  PROVE  Poll!FdArrayInv' /\ Poll!listView' = Poll!listView /\ hup' = hup
<1>1. poll_pc = "new" /\ nr' = nr /\ refcnt' = refcnt /\ hup' = hup
  BY DEF Poll!perf_evlist__alloc_pollfd
<1>2. /\ nr \in Nat /\ Len(priv) \in Nat /\ nr <= Len(priv) /\ Len(poll_entries) = Len(priv)
      /\ poll_entries \in Seq(Poll!Entry) /\ priv \in Seq(Maps \union {Poll!NoMap})
      /\ Poll!TypeOK /\ Poll!KeptInSynch /\ Nfds \in Nat /\ ~PrivFail
  BY DEF Poll!FdArrayInv, Poll!TypeOK, Poll!KeptInSynch, Poll!nr_alloc, Poll!FdArrayConstants
<1>3. CASE Poll!GrowFails /\ poll_pc' = "failed"
  <2>1. poll_entries' = poll_entries /\ priv' = priv /\ dangling' = dangling
    BY <1>2, <1>3 DEF Poll!GrowFails
  <2> QED BY <1>1, <1>2, <1>3, <2>1, SlotsStay
<1>4. ASSUME NEW grown \in Poll!fdarray__grow(Nfds), poll_entries' = grown[1], priv' = grown[2],
             poll_pc' = "setup", dangling' = dangling
      PROVE  Poll!FdArrayInv' /\ Poll!listView' = Poll!listView
  <2>1. /\ poll_entries' \in Seq(Poll!Entry) /\ priv' \in Seq(Maps \union {Poll!NoMap})
        /\ Len(poll_entries') = Len(priv) + Nfds /\ Len(priv') = Len(priv) + Nfds
        /\ \A i \in 1 .. Len(priv) : poll_entries'[i] = poll_entries[i] /\ priv'[i] = priv[i]
    BY <1>2, <1>4, GrowKeeps
  <2>2. nr <= Len(priv') /\ Len(poll_entries') = Len(priv')
    BY <1>2, <2>1
  <2>3. \A i \in 1 .. nr : poll_entries'[i] = poll_entries[i] /\ priv'[i] = priv[i]
    BY <1>2, <2>1
  <2> QED BY <1>1, <1>4, <2>1, <2>2, <2>3, SlotsStay
<1> QED BY <1>1, <1>3, <1>4 DEF Poll!perf_evlist__alloc_pollfd

(* perf_evlist__mmap_per_evsel(): one descriptor more, or a failure. *)
LEMMA MmapKeeps ==
  ASSUME Poll!FdArrayConstants, Poll!FdArrayInv, NEW fd \in Fds,
         Poll!perf_evlist__mmap_per_evsel(fd)
  PROVE  /\ Poll!FdArrayInv' /\ hup' = hup
         /\ \/ Poll!listView' = Poll!listView
            \/ Poll!IsPollList!Add(fd, MapOf[fd])
<1>1. poll_pc = "setup" /\ hup' = hup /\ \A i \in 1 .. nr : poll_entries[i].fd # fd
  BY DEF Poll!perf_evlist__mmap_per_evsel
<1>2. /\ nr \in Nat /\ Len(priv) \in Nat /\ nr <= Len(priv) /\ Len(poll_entries) = Len(priv)
      /\ poll_entries \in Seq(Poll!Entry) /\ priv \in Seq(Maps \union {Poll!NoMap})
      /\ Poll!TypeOK /\ Poll!KeptInSynch /\ NrAutogrow \in Nat /\ NrAutogrow > 0 /\ ~PrivFail
      /\ MapOf[fd] \in Maps /\ refcnt \in [Maps -> Nat]
  BY DEF Poll!FdArrayInv, Poll!TypeOK, Poll!KeptInSynch, Poll!nr_alloc, Poll!FdArrayConstants
<1>3. ASSUME Poll!listView' = Append(Poll!listView, <<fd, MapOf[fd]>>)
      PROVE  Poll!IsPollList!Add(fd, MapOf[fd])
  <2>1. \A i \in DOMAIN Poll!listView : Poll!listView[i][1] # fd
    BY <1>1 DEF Poll!listView
  <2> QED BY <1>1, <1>3, <2>1 DEF Poll!IsPollList!Add
<1>4. CASE /\ nr < Poll!nr_alloc /\ Poll!Store(fd, MapOf[fd], poll_entries, priv)
           /\ refcnt' = Poll!Referenced(MapOf[fd]) /\ poll_pc' = poll_pc
  <2>1. nr < Len(priv)
    BY <1>4 DEF Poll!nr_alloc
  <2>2. Poll!FdArrayInv' /\ Poll!listView' = Append(Poll!listView, <<fd, MapOf[fd]>>)
    BY <1>1, <1>2, <1>4, <2>1, StoreKeeps
  <2> QED BY <1>1, <1>3, <2>2
<1>5. ASSUME NEW grown \in Poll!fdarray__grow(NrAutogrow),
             Poll!Store(fd, MapOf[fd], grown[1], grown[2]),
             refcnt' = Poll!Referenced(MapOf[fd]), poll_pc' = poll_pc
      PROVE  Poll!FdArrayInv' /\ Poll!listView' = Append(Poll!listView, <<fd, MapOf[fd]>>)
  <2>1. PICK e, p : e = grown[1] /\ p = grown[2]
    OBVIOUS
  <2>2. /\ e \in Seq(Poll!Entry) /\ p \in Seq(Maps \union {Poll!NoMap})
        /\ Len(e) = Len(priv) + NrAutogrow /\ Len(p) = Len(priv) + NrAutogrow
        /\ \A i \in 1 .. Len(priv) : e[i] = poll_entries[i] /\ p[i] = priv[i]
    BY <1>2, <2>1, GrowKeeps
  <2>3. nr < Len(p) /\ Len(e) = Len(p)
    BY <1>2, <2>2
  <2>4. \A i \in 1 .. nr : e[i] = poll_entries[i] /\ p[i] = priv[i]
    BY <1>2, <2>2
  <2>5. Poll!Store(fd, MapOf[fd], e, p)
    BY <1>5, <2>1
  <2> QED BY <1>1, <1>5, <2>2, <2>3, <2>4, <2>5, StoreKeeps
<1>6. CASE /\ Poll!GrowFails /\ nr' = nr /\ poll_pc' = "failed"
           /\ refcnt' = [Poll!Referenced(MapOf[fd]) EXCEPT ![MapOf[fd]] = @ - 1]
  <2>1. poll_entries' = poll_entries /\ priv' = priv /\ dangling' = dangling
    BY <1>2, <1>6 DEF Poll!GrowFails
  <2>2. refcnt' \in [Maps -> Nat]
    BY <1>2, <1>6 DEF Poll!Referenced
  <2>3. Poll!listView' = Poll!listView
    BY <1>6, <2>1 DEF Poll!listView
  <2>4. Poll!TypeOK' /\ Poll!KeptInSynch'
    BY <1>1, <1>2, <1>6, <2>1, <2>2 DEF Poll!TypeOK, Poll!KeptInSynch, Poll!nr_alloc
  <2>5. Poll!PolledOnce'
    BY <1>6, <2>1 DEF Poll!FdArrayInv, Poll!PolledOnce
  <2>6. Poll!HupIsTrue' /\ Poll!EntriesAreMapped' /\ Poll!OneReferencePerEntry' /\ poll_pc' # "new"
    BY <1>6 DEF Poll!HupIsTrue, Poll!EntriesAreMapped, Poll!OneReferencePerEntry
  <2> QED BY <1>1, <2>3, <2>4, <2>5, <2>6 DEF Poll!FdArrayInv
<1> QED BY <1>1, <1>3, <1>4, <1>5, <1>6 DEF Poll!perf_evlist__mmap_per_evsel

(* fdarray__poll() changes revents below nr. *)
LEMMA PollKeeps ==
  ASSUME Poll!FdArrayInv, Poll!fdarray__poll
  PROVE  Poll!FdArrayInv' /\ Poll!listView' = Poll!listView /\ hup' = hup
<1>1. /\ poll_pc = "loop" /\ poll_pc' = "polled" /\ nr' = nr /\ priv' = priv /\ dangling' = dangling
      /\ refcnt' = refcnt /\ hup' = hup
  BY DEF Poll!fdarray__poll
<1>2. /\ nr \in Nat /\ nr <= Len(priv) /\ Len(poll_entries) = Len(priv) /\ ~dangling
      /\ poll_entries \in Seq(Poll!Entry)
  BY DEF Poll!FdArrayInv, Poll!TypeOK, Poll!KeptInSynch, Poll!nr_alloc
<1>3. PICK l \in Nat : l = Len(poll_entries)
  BY <1>2
<1>4. poll_entries \in [1 .. l -> Poll!Entry] /\ DOMAIN poll_entries = 1 .. l
  BY <1>2, <1>3
<1> DEFINE seen(i) == IF i <= nr
                      THEN [poll_entries[i] EXCEPT !.revents = IF poll_entries[i].fd \in hup
                      THEN "hup" ELSE "none"]
                      ELSE poll_entries[i]
<1>5. poll_entries' = [i \in 1 .. l |-> seen(i)]
  BY <1>4 DEF Poll!fdarray__poll
<1>6. \A i \in 1 .. l : /\ seen(i) \in Poll!Entry /\ seen(i).fd = poll_entries[i].fd
                        /\ i <= nr => (seen(i).revents = "hup" <=> poll_entries[i].fd \in hup)
  <2> TAKE i \in 1 .. l
  <2>1. poll_entries[i] \in [fd : Fds \union {Poll!NoFd}, revents : Poll!Revents]
    BY <1>4 DEF Poll!Entry
  <2>2. {"hup", "none"} = Poll!Revents
    BY DEF Poll!Revents
  <2> QED BY <2>1, <2>2 DEF Poll!Entry
<1> HIDE DEF seen
<1>7. poll_entries' \in [1 .. l -> Poll!Entry]
  BY <1>5, <1>6
<1>8. poll_entries' \in Seq(Poll!Entry) /\ Len(poll_entries') = l
  BY <1>7
<1>9. \A i \in 1 .. nr : /\ poll_entries'[i].fd = poll_entries[i].fd
                         /\ poll_entries'[i].revents = "hup" => poll_entries[i].fd \in hup
  <2>1. \A i \in 1 .. nr : i \in 1 .. l /\ i <= nr
    BY <1>2, <1>3
  <2> QED BY <1>5, <1>6, <2>1
<1>10. Poll!TypeOK' /\ Poll!KeptInSynch'
  <2>1. Poll!KeptInSynch'
    BY <1>1, <1>2, <1>3, <1>8 DEF Poll!KeptInSynch
  <2> QED BY <1>1, <1>8, <2>1 DEF Poll!FdArrayInv, Poll!TypeOK, Poll!nr_alloc
<1>11. Poll!PolledOnce' /\ Poll!HupIsTrue'
  BY <1>1, <1>9 DEF Poll!FdArrayInv, Poll!PolledOnce, Poll!HupIsTrue
<1>12. Poll!EntriesAreMapped' /\ Poll!OneReferencePerEntry'
  BY <1>1 DEF Poll!FdArrayInv, Poll!EntriesAreMapped, Poll!OneReferencePerEntry
<1>13. Poll!listView' = Poll!listView
  BY <1>1, <1>9 DEF Poll!listView
<1> QED BY <1>1, <1>10, <1>11, <1>12, <1>13 DEF Poll!FdArrayInv

(* Every step keeps the invariant and is a step of the list, or none.      *)
LEMMA FdArrayStep ==
  ASSUME Poll!FdArrayConstants, Poll!FdArrayInv, [Poll!Next]_Poll!vars
  PROVE  Poll!FdArrayInv' /\ [Poll!IsPollList!Next]_<<Poll!listView, hup>>
<1>1. CASE Poll!perf_evlist__alloc_pollfd
  BY <1>1, AllocKeeps
<1>2. CASE Poll!SetUp
  <2>1. /\ poll_pc = "setup" /\ poll_pc' = "loop" /\ nr' = nr /\ poll_entries' = poll_entries
           /\ priv' = priv
        /\ dangling' = dangling /\ refcnt' = refcnt /\ hup' = hup
    BY <1>2 DEF Poll!SetUp
  <2>2. /\ poll_entries \in Seq(Poll!Entry) /\ priv \in Seq(Maps \union {Poll!NoMap})
        /\ Len(poll_entries) = Len(priv) /\ nr <= Len(priv)
    BY DEF Poll!FdArrayInv, Poll!TypeOK, Poll!KeptInSynch, Poll!nr_alloc
  <2>3. Poll!FdArrayInv' /\ Poll!listView' = Poll!listView
    BY <2>1, <2>2, SlotsStay
  <2> QED BY <2>1, <2>3
<1>3. ASSUME NEW fd \in Fds, Poll!perf_evlist__mmap_per_evsel(fd)
      PROVE  Poll!FdArrayInv' /\ [Poll!IsPollList!Next]_<<Poll!listView, hup>>
  <2>1. MapOf[fd] \in Maps
    BY DEF Poll!FdArrayConstants
  <2>2. /\ Poll!FdArrayInv' /\ hup' = hup
        /\ Poll!listView' = Poll!listView \/ Poll!IsPollList!Add(fd, MapOf[fd])
    BY <1>3, MmapKeeps
  <2> QED BY <2>1, <2>2 DEF Poll!IsPollList!Next
<1>4. ASSUME NEW fd \in Fds, Poll!HangUp(fd)
      PROVE  Poll!FdArrayInv' /\ [Poll!IsPollList!Next]_<<Poll!listView, hup>>
  <2>1. /\ hup' = hup \union {fd} /\ poll_pc' = poll_pc /\ nr' = nr /\ poll_entries' = poll_entries
           /\ priv' = priv
        /\ dangling' = dangling /\ refcnt' = refcnt
    BY <1>4 DEF Poll!HangUp
  <2>2. Poll!listView' = Poll!listView
    BY <2>1 DEF Poll!listView
  <2>3. Poll!IsPollList!HangUp(fd)
    BY <2>1, <2>2 DEF Poll!IsPollList!HangUp
  <2>4. Poll!TypeOK' /\ Poll!KeptInSynch'
    BY <2>1 DEF Poll!FdArrayInv, Poll!TypeOK, Poll!KeptInSynch, Poll!nr_alloc
  <2>5. Poll!PolledOnce' /\ Poll!HupIsTrue' /\ Poll!EntriesAreMapped' /\ Poll!OneReferencePerEntry'
    BY <2>1 DEF Poll!FdArrayInv, Poll!PolledOnce, Poll!HupIsTrue, Poll!EntriesAreMapped,
       Poll!OneReferencePerEntry
  <2>6. (poll_pc = "new" => nr = 0 /\ \A m \in Maps : refcnt[m] = 0)'
    BY <2>1 DEF Poll!FdArrayInv
  <2> QED BY <2>3, <2>4, <2>5, <2>6 DEF Poll!FdArrayInv, Poll!IsPollList!Next
<1>5. CASE Poll!fdarray__poll
  BY <1>5, PollKeeps
<1>6. CASE Poll!perf_evlist__filter_pollfd
  <2>1. Poll!FdArrayInv' /\ \E S \in SUBSET hup : Poll!IsPollList!Drop(S)
    BY <1>6, FilterKeeps
  <2> QED BY <2>1 DEF Poll!IsPollList!Next
<1>7. CASE Poll!fdarray__exit
  <2>1. /\ poll_pc' = "gone" /\ nr' = 0 /\ poll_entries' = <<>> /\ priv' = <<>>
           /\ dangling' = dangling
        /\ refcnt' = refcnt /\ hup' = hup
    BY <1>7 DEF Poll!fdarray__exit
  <2>2. Poll!listView' = <<>>
    BY <2>1 DEF Poll!listView
  <2>3. Poll!IsPollList!Delete
    BY <2>1, <2>2 DEF Poll!IsPollList!Delete
  <2>4. poll_entries' \in Seq(Poll!Entry) /\ priv' \in Seq(Maps \union {Poll!NoMap})
        /\ Len(poll_entries') = 0 /\ Len(priv') = 0
    BY <2>1
  <2>5. Poll!KeptInSynch'
    BY <2>1, <2>4 DEF Poll!FdArrayInv, Poll!KeptInSynch
  <2>6. Poll!TypeOK'
    BY <2>1, <2>4 DEF Poll!FdArrayInv, Poll!TypeOK, Poll!nr_alloc
  <2>7. Poll!PolledOnce' /\ Poll!HupIsTrue' /\ Poll!EntriesAreMapped' /\ Poll!OneReferencePerEntry'
        /\ poll_pc' # "new"
    BY <2>1 DEF Poll!PolledOnce, Poll!HupIsTrue, Poll!EntriesAreMapped, Poll!OneReferencePerEntry
  <2> QED BY <2>3, <2>5, <2>6, <2>7 DEF Poll!FdArrayInv, Poll!IsPollList!Next
<1>8. CASE UNCHANGED Poll!vars
  <2>1. /\ poll_pc' = poll_pc /\ nr' = nr /\ poll_entries' = poll_entries /\ priv' = priv
           /\ dangling' = dangling
        /\ refcnt' = refcnt /\ hup' = hup
    BY <1>8 DEF Poll!vars
  <2>2. Poll!listView' = Poll!listView
    BY <2>1 DEF Poll!listView
  <2>3. Poll!TypeOK' /\ Poll!KeptInSynch'
    BY <2>1 DEF Poll!FdArrayInv, Poll!TypeOK, Poll!KeptInSynch, Poll!nr_alloc
  <2>4. Poll!PolledOnce' /\ Poll!HupIsTrue' /\ Poll!EntriesAreMapped' /\ Poll!OneReferencePerEntry'
    BY <2>1 DEF Poll!FdArrayInv, Poll!PolledOnce, Poll!HupIsTrue, Poll!EntriesAreMapped,
       Poll!OneReferencePerEntry
  <2>5. (poll_pc = "new" => nr = 0 /\ \A m \in Maps : refcnt[m] = 0)'
    BY <2>1 DEF Poll!FdArrayInv
  <2> QED BY <2>1, <2>2, <2>3, <2>4, <2>5 DEF Poll!FdArrayInv
<1> QED
  BY <1>1, <1>2, <1>3, <1>4, <1>5, <1>6, <1>7, <1>8 DEF Poll!Next, Poll!Terminated

----------------------------------------------------------------------------

(* The two blocks of the array stay in step, and every ring buffer has the *)
(* reader's reference and one for each of its entries, for any number of   *)
(* descriptors and ring buffers, however the array grows and is filtered.  *)
THEOREM PollArrayCounted ==
  ASSUME Poll!FdArrayConstants
  PROVE  Poll!Spec => [](Poll!KeptInSynch /\ Poll!OneReferencePerEntry)
<1>1. Poll!Init => Poll!FdArrayInv
  BY InitFdArray
<1>2. Poll!FdArrayInv /\ [Poll!Next]_Poll!vars => Poll!FdArrayInv'
  BY FdArrayStep
<1>3. Poll!FdArrayInv => Poll!KeptInSynch /\ Poll!OneReferencePerEntry
  BY DEF Poll!FdArrayInv
<1> QED BY <1>1, <1>2, <1>3, PTL DEF Poll!Spec

(* The poll array implements the list an evlist expects: what is added is  *)
(* behind the rest with its ring buffer, and only dead descriptors leave.  *)
LEMMA ArrayIsList ==
  ASSUME Poll!FdArrayConstants
  PROVE  Poll!Spec => Poll!PollListSpec
<1>1. Poll!Init => Poll!FdArrayInv /\ Poll!IsPollList!Init
  BY InitFdArray
<1>2. Poll!FdArrayInv /\ [Poll!Next]_Poll!vars => Poll!FdArrayInv'
      /\ [Poll!IsPollList!Next]_<<Poll!listView, hup>>
  BY FdArrayStep
<1> QED BY <1>1, <1>2, PTL DEF Poll!Spec, Poll!PollListSpec, Poll!IsPollList!Spec

-----------------------------------------------------------------------------
(* perf_evsel__open() *)

(* The same cardinality *)
LEMMA OpenCounts ==
  ASSUME NEW S
  PROVE  Open!Cardinality(S) = Cardinality(S)
BY DEF Open!Cardinality, Cardinality

(* The tables have finitely many files. *)
LEMMA TableFinite ==
  ASSUME Open!EvselOpenConstants
  PROVE  /\ IsFiniteSet(Open!InTable) /\ Cardinality(Open!InTable) \in Nat
         /\ \A T : T \subseteq Open!Slots => IsFiniteSet(T) /\ Cardinality(T) \in Nat
<1>1. Len(Asks) \in Nat /\ NrSlots \in Nat
  BY DEF Open!EvselOpenConstants
<1>2. IsFiniteSet(Open!Evsels) /\ IsFiniteSet(Open!Slots)
  BY <1>1, FS_Interval DEF Open!Evsels, Open!Slots
<1>3. IsFiniteSet(Open!Evsels \X Open!Slots)
  BY <1>2, FS_Product
<1>4. Open!InTable \in SUBSET (Open!Evsels \X Open!Slots)
  BY DEF Open!InTable
<1>5. IsFiniteSet(Open!InTable)
  BY <1>3, <1>4, FS_Subset
<1>6. ASSUME NEW T, T \subseteq Open!Slots PROVE IsFiniteSet(T)
  BY <1>2, <1>6, FS_Subset
<1> QED
  BY <1>5, <1>6, FS_CardinalityType

(* A step that opens and closes nothing. *)
LEMMA TableSame ==
  ASSUME UNCHANGED FD
  PROVE  Open!InTable' = Open!InTable
BY DEF Open!InTable

(* Opening a file adds one pair to the tables. *)
LEMMA TableOpened ==
  ASSUME Open!EvselOpenConstants, Open!TablesOK, evsel \in Open!Evsels, slot \in Open!Slots,
         FD[evsel][slot] = Open!Closed, NEW x,
         FD' = [FD EXCEPT ![evsel][slot] = {x}]
  PROVE  Cardinality(Open!InTable') = Cardinality(Open!InTable) + 1
<1>1. <<evsel, slot>> \notin Open!InTable
  BY DEF Open!InTable
<1>2. FD'[evsel][slot] # Open!Closed
  BY DEF Open!TablesOK, Open!Closed
<1>3. \A v \in Open!Evsels, s \in Open!Slots : <<v, s>> # <<evsel, slot>> => FD'[v][s] = FD[v][s]
  BY DEF Open!TablesOK
<1>4. Open!InTable' = Open!InTable \cup {<<evsel, slot>>}
  <2>1. ASSUME NEW p \in Open!Evsels \X Open!Slots
        PROVE  p \in Open!InTable' <=> p \in Open!InTable \cup {<<evsel, slot>>}
    <3>1. PICK v \in Open!Evsels, s \in Open!Slots : p = <<v, s>>
      OBVIOUS
    <3>2. p[1] = v /\ p[2] = s
      BY <3>1
    <3>3. CASE p = <<evsel, slot>>
      BY <3>3, <3>1, <3>2, <1>2 DEF Open!InTable
    <3>4. CASE p # <<evsel, slot>>
      BY <3>4, <3>1, <3>2, <1>3 DEF Open!InTable
    <3> QED
      BY <3>3, <3>4
  <2>2. Open!InTable' \subseteq Open!Evsels \X Open!Slots
        /\ Open!InTable \cup {<<evsel, slot>>} \subseteq Open!Evsels \X Open!Slots
    BY DEF Open!InTable
  <2> QED
    BY <2>1, <2>2
<1>5. IsFiniteSet(Open!InTable) /\ Cardinality(Open!InTable) \in Nat
  BY TableFinite
<1>6. Cardinality(Open!InTable \cup {<<evsel, slot>>}) = Cardinality(Open!InTable) + 1
  BY <1>1, <1>5, FS_AddElement
<1> QED
  BY <1>4, <1>6

(* Closing takes the files of one event that are open out of the tables. *)
LEMMA TableClosed ==
  ASSUME Open!EvselOpenConstants, Open!TablesOK, evsel \in Open!Evsels,
         FD' = [FD EXCEPT ![evsel] = [s \in Open!Slots |-> IF s \in Open!Behind THEN Open!Closed
         ELSE @[s]]]
  PROVE  Cardinality(Open!InTable') =
           Cardinality(Open!InTable) - Cardinality({s \in Open!Behind : FD[evsel][s] # Open!Closed})
<1> DEFINE B == {s \in Open!Behind : FD[evsel][s] # Open!Closed}
<1>0. B \subseteq Open!Slots
  BY DEF Open!Behind
<1>1. FD'[evsel] = [s \in Open!Slots |-> IF s \in Open!Behind THEN Open!Closed ELSE FD[evsel][s]]
  BY DEF Open!TablesOK
<1>2. \A v \in Open!Evsels : v # evsel => FD'[v] = FD[v]
  BY DEF Open!TablesOK
<1>3. Open!InTable' = Open!InTable \ ({evsel} \X B)
  <2>1. ASSUME NEW p \in Open!Evsels \X Open!Slots
        PROVE  p \in Open!InTable' <=> p \in Open!InTable \ ({evsel} \X B)
    <3>1. PICK v \in Open!Evsels, s \in Open!Slots : p = <<v, s>>
      OBVIOUS
    <3>2. p[1] = v /\ p[2] = s
      BY <3>1
    <3>3. p \in {evsel} \X B <=> v = evsel /\ s \in B
      BY <3>1
    <3>4. CASE v = evsel
      <4>1. p \in Open!InTable' <=> FD'[evsel][s] # Open!Closed
        BY <3>1, <3>2, <3>4 DEF Open!InTable
      <4>2. p \in Open!InTable <=> FD[evsel][s] # Open!Closed
        BY <3>1, <3>2, <3>4 DEF Open!InTable
      <4>3. s \in B <=> s \in Open!Behind /\ FD[evsel][s] # Open!Closed
        OBVIOUS
      <4> QED
        BY <4>1, <4>2, <4>3, <3>3, <3>4, <1>1
    <3>5. CASE v # evsel
      BY <3>5, <3>2, <3>3, <1>2 DEF Open!InTable
    <3> QED
      BY <3>4, <3>5
  <2>2. Open!InTable' \subseteq Open!Evsels \X Open!Slots
        /\ Open!InTable \subseteq Open!Evsels \X Open!Slots
    BY DEF Open!InTable
  <2> QED
    BY <2>1, <2>2
<1>4. {evsel} \X B \subseteq Open!InTable
  BY <1>0 DEF Open!InTable
<1>5. IsFiniteSet(Open!InTable) /\ Cardinality(Open!InTable) \in Nat /\ IsFiniteSet(B)
      /\ Cardinality(B) \in Nat
  BY <1>0, TableFinite
<1>6. Cardinality({evsel} \X B) = Cardinality(B)
  <2>1. IsFiniteSet({evsel}) /\ Cardinality({evsel}) = 1
    BY FS_Singleton
  <2>2. Cardinality({evsel} \X B) = 1 * Cardinality(B)
    BY <2>1, <1>5, FS_Product
  <2> QED
    BY <2>2, <1>5
<1>7. Open!InTable \cap ({evsel} \X B) = {evsel} \X B
  BY <1>4
<1>8. Cardinality(Open!InTable \ ({evsel} \X B)) = Cardinality(Open!InTable) - Cardinality({evsel} \X B)
  <2> DEFINE P == {evsel} \X B
  <2>1. Open!InTable \cap P = P
    BY <1>7
  <2> HIDE DEF P
  <2>2. Cardinality(Open!InTable \ P) = Cardinality(Open!InTable) - Cardinality(Open!InTable \cap P)
    BY <1>5, FS_Difference
  <2> QED
    BY <2>1, <2>2 DEF P
<1> QED
  BY <1>3, <1>6, <1>8

(* At first the tables are empty. *)
LEMMA OpenInitInv ==
  ASSUME Open!EvselOpenConstants, Open!Init
  PROVE  Open!OpenInv
<1> USE DEF Open!Init, Open!EvselOpenConstants
<1>0. Len(Asks) \in Nat \ {0} /\ evsel \in Open!Evsels /\ slot \in Open!Slots
  BY DEF Open!Evsels, Open!Slots
<1>1. Open!TypeOK
  BY <1>0 DEF Open!TypeOK
<1>2. Open!TablesOK
  BY <1>0 DEF Open!TablesOK, Open!AttrOf
<1>3. Open!TablesFilled
  BY <1>0 DEF Open!TablesFilled, Open!Looping
<1>4. \A v \in Open!Evsels : attr[v].clock = Open!AttrOf(Asks[v]).clock
  OBVIOUS
<1>5. Open!ClocksKept
  BY <1>0, <1>4 DEF Open!ClocksKept, Open!Looping, Open!Evsels
<1>6. Open!NoLeak
  <2>1. Open!InTable = {}
    BY DEF Open!InTable
  <2> QED
    BY <2>1, FS_EmptySet, OpenCounts DEF Open!NoLeak
<1>7. Open!LimitsKept /\ Open!LimitExhausted
  BY DEF Open!LimitsKept, Open!LimitExhausted, Open!Looping
<1> QED
  BY <1>1, <1>2, <1>3, <1>5, <1>6, <1>7 DEF Open!OpenInv

(* The limits are about few of the variables. *)
LEMMA OpenEnter ==
  ASSUME Open!EvselOpenConstants, Open!OpenInv, Open!Enter
  PROVE  Open!OpenInv'
<1> USE DEF Open!Enter, Open!OpenInv, Open!EvselOpenConstants
<1>1. Open!TypeOK'
  BY DEF Open!TypeOK
<1>2. Open!TablesOK'
  BY DEF Open!TablesOK
<1>3. Open!TablesFilled'
  BY DEF Open!TablesFilled, Open!Looping
<1>4. Open!ClocksKept'
  BY DEF Open!ClocksKept, Open!Looping, Open!ClockKilled
<1>5. Open!NoLeak'
  BY TableSame DEF Open!NoLeak
<1>6. Open!LimitsKept' /\ Open!LimitExhausted'
  BY DEF Open!LimitsKept, Open!LimitExhausted, Open!Looping
<1> QED
  BY <1>1, <1>2, <1>3, <1>4, <1>5, <1>6

(* What is missing is given up while no file of the event is open. *)
LEMMA OpenFallback ==
  ASSUME Open!EvselOpenConstants, Open!OpenInv, Open!Fallback
  PROVE  Open!OpenInv'
<1> USE DEF Open!Fallback, Open!OpenInv, Open!EvselOpenConstants
<1>0. 1 \in Open!Slots
  BY DEF Open!Slots
<1>1. Open!TypeOK'
  BY <1>0 DEF Open!TypeOK
<1>2. Open!TablesOK'
  BY DEF Open!TablesOK, Open!Dropped
<1>3. Open!TablesFilled'
  BY <1>0 DEF Open!TablesFilled, Open!Looping, Open!Slots
<1>4. ~Open!ClockKilled => Open!Dropped(attr[evsel]).clock = attr[evsel].clock
  BY DEF Open!Dropped, Open!ClockKilled, Open!TablesOK, Open!TypeOK
<1>5. \A v \in Open!Evsels : ~Open!ClockKilled => attr'[v].clock = attr[v].clock
  BY <1>4 DEF Open!TablesOK
<1>6. Open!ClockKilled' = Open!ClockKilled
  BY DEF Open!ClockKilled
<1>7. Open!ClocksKept'
  BY <1>5, <1>6 DEF Open!ClocksKept, Open!Looping
<1>8. Open!NoLeak'
  BY TableSame DEF Open!NoLeak
<1>9. Open!LimitsKept' /\ Open!LimitExhausted'
  BY DEF Open!LimitsKept, Open!LimitExhausted, Open!Looping
<1> QED
  BY <1>1, <1>2, <1>3, <1>7, <1>8, <1>9

(* A call that fails leaves the tables as they are. *)
LEMMA OpenNotOpened ==
  ASSUME Open!EvselOpenConstants, Open!OpenInv, Open!NotOpened
  PROVE  Open!OpenInv'
<1> USE DEF Open!NotOpened, Open!OpenInv, Open!EvselOpenConstants
<1>0. /\ Open!Refused \in {"ok", "EINVAL", "EACCES", "EMFILE", "ENOENT"}
      /\ Open!Refused = "EMFILE" => nopen >= soft
  BY DEF Open!Refused
<1>1. Open!TypeOK'
  BY <1>0 DEF Open!TypeOK
<1>2. Open!TablesOK'
  BY DEF Open!TablesOK
<1>3. Open!TablesFilled'
  BY DEF Open!TablesFilled, Open!Looping
<1>4. Open!ClocksKept'
  BY DEF Open!ClocksKept, Open!Looping, Open!ClockKilled
<1>5. Open!NoLeak'
  BY TableSame DEF Open!NoLeak
<1>6. Open!LimitsKept' /\ Open!LimitExhausted'
  BY <1>0 DEF Open!LimitsKept, Open!LimitExhausted, Open!Looping
<1> QED
  BY <1>1, <1>2, <1>3, <1>4, <1>5, <1>6

(* The soft limit is raised to the hard one. *)
LEMMA OpenRaiseLimit ==
  ASSUME Open!EvselOpenConstants, Open!OpenInv, Open!RaiseLimit
  PROVE  Open!OpenInv'
<1> USE DEF Open!RaiseLimit, Open!OpenInv, Open!EvselOpenConstants, Open!CanRaise
<1>1. Open!TypeOK'
  BY DEF Open!TypeOK
<1>2. Open!TablesOK'
  BY DEF Open!TablesOK
<1>3. Open!TablesFilled'
  BY DEF Open!TablesFilled, Open!Looping
<1>4. Open!ClocksKept'
  BY DEF Open!ClocksKept, Open!Looping, Open!ClockKilled
<1>5. Open!NoLeak'
  BY TableSame DEF Open!NoLeak
<1>6. Open!LimitsKept' /\ Open!LimitExhausted'
  BY DEF Open!LimitsKept, Open!LimitExhausted, Open!Looping, Open!TypeOK
<1> QED
  BY <1>1, <1>2, <1>3, <1>4, <1>5, <1>6

(* The first probe of the chain exists when one applies. *)
(* The features, the newest first *)
LEMMA AgeIs ==
  /\ Open!Age[1] = "write_backward" /\ Open!Age[2] = "lbr_flags" /\ Open!Age[3] = "clockid"
  /\ Open!Age[4] = "cloexec" /\ Open!Age[5] = "mmap2" /\ Open!Age[6] = "exclude_guest"
  /\ Open!Age[7] = "sample_id_all" /\ Len(Open!Age) = 7
  /\ Open!Features = {"write_backward", "lbr_flags", "clockid", "cloexec", "mmap2", "exclude_guest",
                 "sample_id_all"}
<1>1. /\ Open!Age[1] = "write_backward" /\ Open!Age[2] = "lbr_flags" /\ Open!Age[3] = "clockid"
      /\ Open!Age[4] = "cloexec" /\ Open!Age[5] = "mmap2" /\ Open!Age[6] = "exclude_guest"
      /\ Open!Age[7] = "sample_id_all" /\ Len(Open!Age) = 7
  BY DEF Open!Age
<1>2. \A i \in 1 .. 7 : i = 1 \/ i = 2 \/ i = 3 \/ i = 4 \/ i = 5 \/ i = 6 \/ i = 7
  OBVIOUS
<1>3. ASSUME NEW x PROVE x \in Open!Features <=> x \in {"write_backward", "lbr_flags", "clockid",
        "cloexec", "mmap2", "exclude_guest", "sample_id_all"}
  <2>1. x \in Open!Features <=> \E i \in 1 .. 7 : x = Open!Age[i]
    BY <1>1 DEF Open!Features
  <2>2. (\E i \in 1 .. 7 : x = Open!Age[i]) <=>
          x = Open!Age[1] \/ x = Open!Age[2] \/ x = Open!Age[3] \/ x = Open!Age[4] \/ x = Open!Age[5] \/ x = Open!Age[6]
          \/ x = Open!Age[7]
    BY <1>2
  <2> QED
    BY <2>1, <2>2, <1>1
<1> QED
  BY <1>1, <1>3

(* The chain of probes takes the first one that applies. *)
LEMMA LeastCandidate ==
  ASSUME Open!Candidates # {}
  PROVE  \E k \in 1 .. 8 : /\ k \in Open!Candidates /\ \A j \in Open!Candidates : k <= j
                           /\ k = CHOOSE i \in Open!Candidates : \A j \in Open!Candidates : i <= j
<1>1. Open!Candidates \subseteq 1 .. 8
  BY DEF Open!Candidates, Open!Probes
<1>2. \E i \in Open!Candidates : \A j \in Open!Candidates : i <= j
  <2>1. ASSUME NEW k \in 1 .. 8, k \in Open!Candidates, \A j \in 1 .. 8 : j < k
               => j \notin Open!Candidates
        PROVE  \A j \in Open!Candidates : k <= j
    BY <1>1, <2>1
  <2>2. \E k \in 1 .. 8 : k \in Open!Candidates /\ \A j \in 1 .. 8 : j < k
        => j \notin Open!Candidates
    <3> DEFINE C(k) == k \in Open!Candidates
    <3>1. C(1) \/ C(2) \/ C(3) \/ C(4) \/ C(5) \/ C(6) \/ C(7) \/ C(8)
      <4>1. PICK k \in 1 .. 8 : C(k)
        BY <1>1
      <4>2. k = 1 \/ k = 2 \/ k = 3 \/ k = 4 \/ k = 5 \/ k = 6 \/ k = 7 \/ k = 8
        OBVIOUS
      <4> QED
        BY <4>1, <4>2
    <3>2. (\A k \in 1 .. 8 : C(k) => \E j \in 1 .. 8 : j < k /\ C(j)) => FALSE
      BY <3>1
    <3> QED
      BY <3>2
  <2> QED
    BY <2>1, <2>2
<1> QED
  BY <1>1, <1>2

(* A probe is for a feature. *)
LEMMA ProbedFeature ==
  ASSUME Open!Candidates # {}
  PROVE  Open!Probes[CHOOSE i \in Open!Candidates : \A j \in Open!Candidates : i <= j][1]
           \in Open!Features \cup {"clockid_wrong"}
<1>1. (CHOOSE i \in Open!Candidates : \A j \in Open!Candidates : i <= j) \in 1 .. 8
  BY LeastCandidate
<1>2. \A k \in 1 .. 8 : Open!Probes[k][1] \in Open!Features \cup {"clockid_wrong"}
  <2>1. \A k \in 1 .. 8 : Open!Probes[k][1] \in {"write_backward", "lbr_flags", "clockid",
        "cloexec",
          "mmap2", "exclude_guest", "sample_id_all", "clockid_wrong"}
    BY DEF Open!Probes
  <2> QED
    BY <2>1, AgeIs
<1> QED
  BY <1>1, <1>2

(* A feature that is given up is given up for all events from now on. *)
LEMMA OpenProbe ==
  ASSUME Open!EvselOpenConstants, Open!OpenInv, Open!Probe
  PROVE  Open!OpenInv'
<1> USE DEF Open!OpenInv, Open!EvselOpenConstants
<1> DEFINE feature == Open!Probes[CHOOSE i \in Open!Candidates : \A j \in Open!Candidates : i <= j][1]
<1>0. /\ open_pc = "try_fallback" /\ open_err = "EINVAL" /\ slot = 1
      /\ missing' = missing \cup {feature}
      /\ open_pc' \in {"close", "fallback"}
      /\ UNCHANGED <<kernel, attr, flags, FD, nopen, soft, hard, set_rlimit, evsel, slot, open_err>>
  BY DEF Open!Probe, Open!MayProbe, Open!Probed
<1>00. feature \in Open!Features \cup {"clockid_wrong"}
  BY ProbedFeature DEF Open!Probe, Open!MayProbe
<1> HIDE DEF feature
<1>1. Open!TypeOK'
  BY <1>0, <1>00 DEF Open!TypeOK
<1>2. Open!TablesOK'
  BY <1>0 DEF Open!TablesOK
<1>3. Open!TablesFilled'
  BY <1>0 DEF Open!TablesFilled, Open!Looping, Open!Slots, Open!Behind, Open!TypeOK
<1>4. Open!ClocksKept'
  BY <1>0 DEF Open!ClocksKept, Open!Looping, Open!ClockKilled
<1>5. Open!NoLeak'
  BY <1>0, TableSame DEF Open!NoLeak
<1>6. Open!LimitsKept' /\ Open!LimitExhausted'
  BY <1>0 DEF Open!LimitsKept, Open!LimitExhausted, Open!Looping
<1> QED
  BY <1>1, <1>2, <1>3, <1>4, <1>5, <1>6

(* Nothing is left to give up: what was opened is closed next. *)
LEMMA OpenNoFallback ==
  ASSUME Open!EvselOpenConstants, Open!OpenInv, Open!NoFallback
  PROVE  Open!OpenInv'
<1> USE DEF Open!NoFallback, Open!OpenInv, Open!EvselOpenConstants
<1>1. Open!TypeOK'
  BY DEF Open!TypeOK
<1>2. Open!TablesOK'
  BY DEF Open!TablesOK
<1>3. Open!TablesFilled'
  BY DEF Open!TablesFilled, Open!Looping, Open!TypeOK, Open!Slots
<1>4. Open!ClocksKept'
  BY DEF Open!ClocksKept, Open!Looping, Open!ClockKilled
<1>5. Open!NoLeak'
  BY TableSame DEF Open!NoLeak
<1>6. Open!LimitsKept'
  BY DEF Open!LimitsKept, Open!Looping
<1>7. Open!LimitExhausted'
  <2>1. CASE open_err = "EMFILE"
    <3>1. set_rlimit \in {0, 1, 2} /\ nopen \in Nat /\ soft \in Nat
      BY DEF Open!TypeOK
    <3>2. nopen >= soft
      BY <2>1 DEF Open!LimitsKept
    <3>3. set_rlimit # 2
      BY <3>1, <3>2 DEF Open!LimitsKept, Open!Looping
    <3>4. set_rlimit = 1 /\ ~kernel.root
      BY <3>1, <3>3, <2>1 DEF Open!CanRaise
    <3> QED
      BY <3>4 DEF Open!LimitExhausted, Open!LimitsKept
  <2>2. CASE open_err # "EMFILE"
    BY <2>2 DEF Open!LimitExhausted
  <2> QED
    BY <2>1, <2>2
<1> QED
  BY <1>1, <1>2, <1>3, <1>4, <1>5, <1>6, <1>7

(* A file that is opened is in the table of its event, opened as the others of it. *)
LEMMA OpenOpened ==
  ASSUME Open!EvselOpenConstants, Open!OpenInv, Open!Opened
  PROVE  Open!OpenInv'
<1> USE DEF Open!OpenInv, Open!EvselOpenConstants
<1> DEFINE file == [attr |-> attr[evsel], cloexec |-> flags]
<1>0. /\ open_pc = "syscall" /\ Open!Refused = "ok"
      /\ FD' = [FD EXCEPT ![evsel][slot] = {file}]
      /\ nopen' = nopen + 1
      /\ \/ attr[evsel].bpf /\ Open!GiveUp
         \/ Open!ClockKilled /\ Open!GiveUp
         \/ ~Open!ClockKilled /\ Open!Proceed
      /\ UNCHANGED <<missing, kernel, attr, flags, soft, hard, evsel>>
  BY DEF Open!Opened
<1>1. /\ evsel \in Open!Evsels /\ slot \in Open!Slots /\ nopen \in Nat /\ soft \in Nat
         /\ hard \in Nat
      /\ nopen < soft
  BY <1>0 DEF Open!Refused, Open!TypeOK
<1>2. /\ \A v \in Open!Evsels : v # evsel => FD'[v] = FD[v]
      /\ \A s \in Open!Slots : FD'[evsel][s] = IF s = slot THEN {file} ELSE FD[evsel][s]
      /\ DOMAIN FD' = Open!Evsels /\ \A v \in Open!Evsels : DOMAIN FD'[v] = Open!Slots
  BY <1>0, <1>1 DEF Open!TablesOK
<1>3. \A s \in Open!Slots : FD[evsel][s] = IF s < slot THEN {file} ELSE Open!Closed
  BY <1>0 DEF Open!TablesFilled, Open!Looping
<1>31. ASSUME NEW s \in Open!Slots
       PROVE  /\ s <= slot => FD'[evsel][s] = {file}
              /\ s > slot => FD'[evsel][s] = Open!Closed
  <2>1. s \in Nat /\ slot \in Nat
    BY <1>1 DEF Open!Slots, Open!TypeOK
  <2>2. FD'[evsel][s] = IF s = slot THEN {file} ELSE FD[evsel][s]
    BY <1>2
  <2>3. FD[evsel][s] = IF s < slot THEN {file} ELSE Open!Closed
    BY <1>3
  <2> HIDE DEF file
  <2> QED
    BY <2>1, <2>2, <2>3
<1>32. {file} # Open!Closed
  BY DEF Open!Closed
<1>33. Open!ClockKilled' = Open!ClockKilled
  BY <1>0 DEF Open!ClockKilled
<1>34. file' = file
  BY <1>0
<1> HIDE DEF file
<1>4. Open!NoLeak'
  <2>1. FD[evsel][slot] = Open!Closed
    BY <1>1, <1>3 DEF Open!Slots
  <2>2. Cardinality(Open!InTable') = Cardinality(Open!InTable) + 1
    BY <2>1, <1>0, <1>1, TableOpened
  <2> QED
    BY <2>2, <1>0, OpenCounts DEF Open!NoLeak
<1>5. CASE Open!GiveUp
  <2>1. /\ open_err' = "EINVAL" /\ open_pc' = "close" /\ set_rlimit' = set_rlimit /\ slot' = slot
        /\ Open!ClockKilled \/ attr[evsel].bpf
    BY <1>5, <1>0 DEF Open!GiveUp, Open!Proceed
  <2>2. Open!TypeOK' /\ Open!TablesOK'
    BY <2>1, <1>0, <1>1, <1>2 DEF Open!TypeOK, Open!TablesOK
  <2>3. Open!TablesFilled'
    <3>1. \A v \in Open!Evsels : v > evsel => FD'[v] = FD[v]
      BY <1>1, <1>2 DEF Open!Evsels
    <3>2. \A s \in Open!Slots : s > slot => FD'[evsel][s] = Open!Closed
      BY <1>31, <1>1 DEF Open!Slots
    <3> QED
      BY <3>1, <3>2, <2>1, <1>0, <1>33 DEF Open!TablesFilled, Open!Looping
  <2>4. Open!ClocksKept'
    <3>1. \A v \in Open!Evsels : v < evsel => FD'[v] = FD[v]
      BY <1>1, <1>2 DEF Open!Evsels
    <3>2. evsel' = evsel /\ attr' = attr
      BY <1>0
    <3>3. \A v \in Open!Evsels : v < evsel' =>
            /\ \A s \in Open!Slots : FD'[v][s] # Open!Closed /\ FD'[v][s] = FD'[v][1]
            /\ \A f \in FD'[v][1] : f.attr.clock = Open!AttrOf(Asks[v]).clock
      BY <3>1, <3>2 DEF Open!ClocksKept
    <3>4. ~Open!ClockKilled' => \A v \in Open!Evsels : v >= evsel'
          => attr'[v].clock = Open!AttrOf(Asks[v]).clock
      BY <3>2, <1>33 DEF Open!ClocksKept
    <3> QED
      BY <3>3, <3>4, <2>1, <1>33 DEF Open!ClocksKept, Open!Looping
  <2>5. Open!LimitsKept' /\ Open!LimitExhausted'
    BY <2>1, <1>0, <1>1 DEF Open!LimitsKept, Open!LimitExhausted, Open!Looping
  <2> QED
    BY <2>2, <2>3, <2>4, <2>5, <1>4
<1>6. CASE ~Open!ClockKilled /\ Open!Proceed
  <2>1. /\ set_rlimit' = 0 /\ open_err' = open_err /\ ~Open!ClockKilled
        /\ slot' = IF slot < NrSlots THEN slot + 1 ELSE slot
        /\ open_pc' = IF slot < NrSlots THEN "syscall" ELSE "next"
    BY <1>6 DEF Open!Proceed
  <2>2. slot' \in Open!Slots
    BY <2>1, <1>1 DEF Open!Slots
  <2>3. Open!TypeOK' /\ Open!TablesOK'
    BY <2>1, <2>2, <1>0, <1>1, <1>2 DEF Open!TypeOK, Open!TablesOK
  <2>4. Open!TablesFilled'
    <3>1. \A v \in Open!Evsels : v > evsel => FD'[v] = FD[v]
      BY <1>1, <1>2 DEF Open!Evsels
    <3>2. ASSUME open_pc' = "syscall", NEW s \in Open!Slots
          PROVE  FD'[evsel][s] = IF s < slot' THEN {file} ELSE Open!Closed
      <4>1. s \in Nat /\ slot \in Nat /\ slot' = slot + 1
        BY <3>2, <2>1, <1>1 DEF Open!Slots
      <4>2. s < slot' <=> s <= slot
        BY <4>1
      <4>3. ~(s <= slot) => s > slot
        BY <4>1
      <4>4. CASE s <= slot
        BY <4>2, <4>4, <1>31
      <4>5. CASE ~(s <= slot)
        BY <4>2, <4>3, <4>5, <1>31
      <4> QED
        BY <4>4, <4>5
    <3>3. open_pc' = "next" => \A s \in Open!Slots : FD'[evsel][s] = {file}
      BY <2>1, <1>31, <1>1 DEF Open!Slots
    <3> QED
      <4>1. \A v \in Open!Evsels : v > evsel => \A s \in Open!Slots : FD'[v][s] = Open!Closed
        BY <3>1 DEF Open!TablesFilled
      <4>2. file = [attr |-> attr'[evsel'], cloexec |-> flags']
        BY <1>0 DEF file
      <4>3. evsel' = evsel
        BY <1>0
      <4> QED
        BY <4>1, <4>2, <4>3, <3>2, <3>3, <2>1 DEF Open!TablesFilled, Open!Looping
  <2>5. Open!ClocksKept'
    <3>1. \A v \in Open!Evsels : v < evsel => FD'[v] = FD[v]
      BY <1>1, <1>2 DEF Open!Evsels
    <3>2. evsel' = evsel /\ attr' = attr
      BY <1>0
    <3>3. \A v \in Open!Evsels : v < evsel' =>
            /\ \A s \in Open!Slots : FD'[v][s] # Open!Closed /\ FD'[v][s] = FD'[v][1]
            /\ \A f \in FD'[v][1] : f.attr.clock = Open!AttrOf(Asks[v]).clock
      BY <3>1, <3>2 DEF Open!ClocksKept
    <3>4. ~Open!ClockKilled' => \A v \in Open!Evsels : v >= evsel'
          => attr'[v].clock = Open!AttrOf(Asks[v]).clock
      BY <3>2, <1>33 DEF Open!ClocksKept
    <3> QED
      BY <3>3, <3>4, <2>1, <1>33 DEF Open!ClocksKept, Open!Looping
  <2>6. Open!LimitsKept' /\ Open!LimitExhausted'
    BY <2>1, <1>0, <1>1 DEF Open!LimitsKept, Open!LimitExhausted, Open!Looping
  <2> QED
    BY <2>3, <2>4, <2>5, <2>6, <1>4
<1> QED
  BY <1>5, <1>6, <1>0

(* All files of the event that are behind are closed. *)
LEMMA OpenClose ==
  ASSUME Open!EvselOpenConstants, Open!OpenInv, Open!Close
  PROVE  Open!OpenInv'
<1> USE DEF Open!OpenInv, Open!EvselOpenConstants
<1>0. /\ open_pc = "close" /\ open_pc' = "error"
      /\ FD' = [FD EXCEPT ![evsel] = [s \in Open!Slots |-> IF s \in Open!Behind THEN Open!Closed
         ELSE @[s]]]
      /\ nopen' = nopen - Cardinality({s \in Open!Behind : FD[evsel][s] # Open!Closed})
      /\ UNCHANGED <<missing, kernel, attr, flags, soft, hard, set_rlimit, evsel, slot, open_err>>
  BY OpenCounts DEF Open!Close
<1>1. /\ evsel \in Open!Evsels /\ slot \in Open!Slots /\ nopen \in Nat /\ soft \in Nat
         /\ hard \in Nat
  BY DEF Open!TypeOK
<1>2. /\ \A v \in Open!Evsels : v # evsel => FD'[v] = FD[v]
      /\ \A s \in Open!Slots : FD'[evsel][s] = IF s \in Open!Behind THEN Open!Closed
         ELSE FD[evsel][s]
      /\ DOMAIN FD' = Open!Evsels /\ \A v \in Open!Evsels : DOMAIN FD'[v] = Open!Slots
  BY <1>0, <1>1 DEF Open!TablesOK
<1>3. Open!NoLeak'
  <2>1. Cardinality(Open!InTable') =
           Cardinality(Open!InTable) - Cardinality({s \in Open!Behind : FD[evsel][s] # Open!Closed})
    BY <1>0, <1>1, TableClosed
  <2> QED
    BY <2>1, <1>0, OpenCounts DEF Open!NoLeak
<1>4. nopen' \in Nat /\ nopen' <= nopen
  <2>1. Cardinality({s \in Open!Behind : FD[evsel][s] # Open!Closed}) \in Nat
    BY TableFinite DEF Open!Behind
  <2>2. nopen' \in Nat
    <3>1. IsFiniteSet(Open!InTable)'
      BY TableFinite, PTL
    <3> QED
      BY <3>1, <1>3, FS_CardinalityType, OpenCounts DEF Open!NoLeak
  <2> QED
    BY <2>1, <2>2, <1>0, <1>1
<1>5. Open!ClockKilled' = Open!ClockKilled /\ Open!Behind' = Open!Behind
  BY <1>0 DEF Open!ClockKilled, Open!Behind
<1>6. Open!TypeOK' /\ Open!TablesOK'
  BY <1>0, <1>1, <1>2, <1>4 DEF Open!TypeOK, Open!TablesOK
<1>7. Open!TablesFilled'
  <2>1. \A v \in Open!Evsels : v > evsel => FD'[v] = FD[v]
    BY <1>1, <1>2 DEF Open!Evsels
  <2>2. slot \notin Open!Behind
    BY <1>1 DEF Open!Behind, Open!Slots
  <2> QED
    <3>1. evsel' = evsel /\ slot' = slot /\ open_err' = open_err /\ attr' = attr
          /\ open_pc' = "error"
      BY <1>0
    <3>2. \A v \in Open!Evsels : v > evsel => \A s \in Open!Slots : FD'[v][s] = Open!Closed
      BY <2>1 DEF Open!TablesFilled
    <3>3. \A s \in Open!Slots : s > slot => FD'[evsel][s] = Open!Closed
      BY <1>0, <1>2 DEF Open!TablesFilled
    <3>4. FD'[evsel][slot] # Open!Closed => open_err = "EINVAL"
          /\ (Open!ClockKilled \/ attr[evsel].bpf)
      BY <1>0, <1>1, <1>2, <2>2 DEF Open!TablesFilled
    <3>5. \A s \in Open!Behind : FD'[evsel][s] = Open!Closed
      BY <1>2 DEF Open!Behind
    <3> QED
      BY <3>1, <3>2, <3>3, <3>4, <3>5, <1>5 DEF Open!TablesFilled, Open!Looping
<1>8. Open!ClocksKept'
  <2>1. \A v \in Open!Evsels : v < evsel => FD'[v] = FD[v]
    BY <1>1, <1>2 DEF Open!Evsels
  <2>2. evsel' = evsel /\ attr' = attr
    BY <1>0
  <2>3. \A v \in Open!Evsels : v < evsel' =>
            /\ \A s \in Open!Slots : FD'[v][s] # Open!Closed /\ FD'[v][s] = FD'[v][1]
            /\ \A f \in FD'[v][1] : f.attr.clock = Open!AttrOf(Asks[v]).clock
    BY <2>1, <2>2 DEF Open!ClocksKept
  <2>4. ~Open!ClockKilled' => \A v \in Open!Evsels : v >= evsel'
        => attr'[v].clock = Open!AttrOf(Asks[v]).clock
    BY <2>2, <1>5 DEF Open!ClocksKept
  <2> QED
    BY <2>3, <2>4, <1>0 DEF Open!ClocksKept, Open!Looping
<1>9. Open!LimitsKept' /\ Open!LimitExhausted'
  BY <1>0, <1>1, <1>4 DEF Open!LimitsKept, Open!LimitExhausted, Open!Looping
<1> QED
  BY <1>3, <1>6, <1>7, <1>8, <1>9

(* An event is tried again only when all its files are closed. *)
LEMMA OpenTryAgain ==
  ASSUME Open!EvselOpenConstants, Open!OpenInv, Open!TryAgain
  PROVE  Open!OpenInv'
<1> USE DEF Open!OpenInv, Open!EvselOpenConstants
<1>0. /\ open_pc = "error" /\ open_pc' = "open" /\ open_err \in {"ENOENT", "EACCES"}
      /\ \/ attr' = [attr EXCEPT ![evsel].cycles = FALSE]
         \/ attr' = [attr EXCEPT ![evsel].excl = TRUE]
      /\ UNCHANGED <<missing, kernel, flags, FD, nopen, soft, hard, set_rlimit, evsel, slot,
         open_err>>
  BY DEF Open!TryAgain
<1>1. Open!TypeOK'
  BY <1>0 DEF Open!TypeOK
<1>2. /\ DOMAIN attr' = Open!Evsels
      /\ \A v \in Open!Evsels : /\ DOMAIN attr'[v] = DOMAIN attr[v]
                                /\ attr'[v].clock = attr[v].clock
  BY <1>0 DEF Open!TablesOK
<1>3. Open!TablesOK'
  BY <1>0, <1>2 DEF Open!TablesOK
<1>4. Open!TablesFilled'
  <2>1. ASSUME NEW s \in Open!Slots PROVE FD[evsel][s] = Open!Closed
    <3>1. s \in Nat /\ slot \in Nat /\ (s < slot \/ s = slot \/ s > slot)
      BY DEF Open!TypeOK, Open!Slots
    <3> QED
      BY <3>1, <1>0 DEF Open!TablesFilled, Open!Behind
  <2> QED
    BY <2>1, <1>0 DEF Open!TablesFilled, Open!Looping
<1>5. Open!ClockKilled' = Open!ClockKilled
  BY <1>0 DEF Open!ClockKilled
<1>6. Open!ClocksKept'
  BY <1>0, <1>2, <1>5 DEF Open!ClocksKept, Open!Looping
<1>7. Open!NoLeak'
  BY <1>0, TableSame DEF Open!NoLeak
<1>8. Open!LimitsKept' /\ Open!LimitExhausted'
  BY <1>0 DEF Open!LimitsKept, Open!LimitExhausted, Open!Looping
<1> QED
  BY <1>1, <1>3, <1>4, <1>6, <1>7, <1>8

(* An error ends the loop over the events. *)
LEMMA OpenFail ==
  ASSUME Open!EvselOpenConstants, Open!OpenInv, Open!Fail
  PROVE  Open!OpenInv'
<1> USE DEF Open!OpenInv, Open!EvselOpenConstants, Open!Fail
<1>1. Open!TypeOK'
  BY DEF Open!TypeOK
<1>2. Open!TablesOK'
  BY DEF Open!TablesOK
<1>3. Open!TablesFilled'
  BY DEF Open!TablesFilled, Open!Looping, Open!Behind, Open!ClockKilled
<1>4. Open!ClocksKept'
  BY DEF Open!ClocksKept, Open!Looping, Open!ClockKilled
<1>5. Open!NoLeak'
  BY TableSame DEF Open!NoLeak
<1>6. Open!LimitsKept' /\ Open!LimitExhausted'
  BY DEF Open!LimitsKept, Open!LimitExhausted, Open!Looping
<1> QED
  BY <1>1, <1>2, <1>3, <1>4, <1>5, <1>6

(* On to the next event, or done. *)
LEMMA OpenNextEvsel ==
  ASSUME Open!EvselOpenConstants, Open!OpenInv, Open!NextEvsel
  PROVE  Open!OpenInv'
<1> USE DEF Open!OpenInv, Open!EvselOpenConstants
<1>0. /\ open_pc = "next"
      /\ IF evsel = Len(Asks) THEN open_pc' = "opened" /\ UNCHANGED evsel ELSE open_pc' = "open"
         /\ evsel' = evsel + 1
      /\ UNCHANGED <<missing, kernel, attr, flags, FD, nopen, soft, hard, set_rlimit, slot,
         open_err>>
  BY DEF Open!NextEvsel
<1>1. Len(Asks) \in Nat /\ evsel \in Open!Evsels /\ evsel' \in Open!Evsels /\ evsel \in Nat
  BY <1>0 DEF Open!TypeOK, Open!Evsels
<1>2. Open!TypeOK' /\ Open!TablesOK'
  BY <1>0, <1>1 DEF Open!TypeOK, Open!TablesOK
<1>3. Open!ClockKilled' = Open!ClockKilled
  BY <1>0 DEF Open!ClockKilled
<1>4. Open!NoLeak'
  BY <1>0, TableSame DEF Open!NoLeak
<1>5. Open!LimitsKept' /\ Open!LimitExhausted'
  BY <1>0 DEF Open!LimitsKept, Open!LimitExhausted, Open!Looping
<1>6. CASE evsel = Len(Asks)
  <2>1. Open!TablesFilled'
    BY <1>6, <1>0 DEF Open!TablesFilled, Open!Looping
  <2>2. Open!ClocksKept'
    BY <1>6, <1>0, <1>3 DEF Open!ClocksKept, Open!Looping
  <2> QED
    BY <2>1, <2>2, <1>2, <1>4, <1>5
<1>7. CASE evsel # Len(Asks)
  <2>0. open_pc' = "open" /\ evsel' = evsel + 1
    BY <1>0, <1>7
  <2>1. \A v \in Open!Evsels : (v > evsel' => v > evsel) /\ (v >= evsel' => v >= evsel)
        /\ (v < evsel' => v < evsel \/ v = evsel)
    BY <2>0, <1>1 DEF Open!Evsels
  <2>2. evsel' > evsel
    BY <2>0, <1>1
  <2>3. Open!TablesFilled'
    BY <2>0, <2>1, <2>2, <1>0, <1>1 DEF Open!TablesFilled, Open!Looping
  <2>4. /\ \A s \in Open!Slots : FD[evsel][s] # Open!Closed /\ FD[evsel][s] = FD[evsel][1]
        /\ \A f \in FD[evsel][1] : f.attr.clock = Open!AttrOf(Asks[evsel]).clock
    <3> DEFINE file == [attr |-> attr[evsel], cloexec |-> flags]
    <3>1. \A s \in Open!Slots : FD[evsel][s] = {file}
      BY <1>0 DEF Open!TablesFilled
    <3>2. 1 \in Open!Slots
      BY DEF Open!Slots
    <3>3. file.attr.clock = Open!AttrOf(Asks[evsel]).clock
      BY <1>0, <1>1 DEF Open!ClocksKept
    <3> HIDE DEF file
    <3> QED
      BY <3>1, <3>2, <3>3 DEF Open!Closed
  <2>5. Open!ClocksKept'
    BY <2>0, <2>1, <2>4, <1>0, <1>3 DEF Open!ClocksKept, Open!Looping
  <2> QED
    BY <2>3, <2>5, <1>2, <1>4, <1>5
<1> QED
  BY <1>6, <1>7

(* Every step keeps the invariant. *)
LEMMA OpenStep ==
  ASSUME Open!EvselOpenConstants, Open!OpenInv, [Open!Next]_Open!vars
  PROVE  Open!OpenInv'
<1>1. CASE UNCHANGED Open!vars
  <2> USE <1>1 DEF Open!vars, Open!OpenInv
  <2>1. Open!NoLeak'
    BY TableSame DEF Open!NoLeak
  <2>2. Open!TypeOK' /\ Open!TablesOK'
    BY DEF Open!TypeOK, Open!TablesOK
  <2>3. Open!TablesFilled'
    BY DEF Open!TablesFilled, Open!ClockKilled, Open!Behind
  <2>4. Open!ClocksKept'
    BY DEF Open!ClocksKept, Open!ClockKilled
  <2>5. Open!LimitsKept' /\ Open!LimitExhausted'
    BY DEF Open!LimitsKept, Open!LimitExhausted
  <2> QED
    BY <2>1, <2>2, <2>3, <2>4, <2>5
<1> QED
  BY <1>1, OpenEnter, OpenFallback, OpenOpened, OpenNotOpened, OpenRaiseLimit, OpenProbe,
     OpenNoFallback, OpenClose, OpenTryAgain, OpenFail, OpenNextEvsel DEF Open!Next

(* The invariant is what is promised, and more. *)
LEMMA OpenInvImplies ==
  ASSUME Open!EvselOpenConstants, Open!OpenInv
  PROVE  Open!NoLeak /\ Open!OpenedAlike /\ Open!RefusedIsClosed /\ Open!LimitExhausted
<1>1. Open!OpenedAlike
  <2>1. ASSUME NEW v \in Open!Evsels, v < evsel
        PROVE  /\ \A s \in Open!Slots : FD[v][s] # Open!Closed /\ FD[v][s] = FD[v][1]
               /\ \A f \in FD[v][1] : f.attr.clock = Open!AttrOf(Asks[v]).clock
    BY <2>1 DEF Open!OpenInv, Open!ClocksKept
  <2>2. ASSUME open_pc \in {"next", "opened"}
        PROVE  /\ \A s \in Open!Slots : FD[evsel][s] # Open!Closed /\ FD[evsel][s] = FD[evsel][1]
               /\ \A f \in FD[evsel][1] : f.attr.clock = Open!AttrOf(Asks[evsel]).clock
    <3> DEFINE file == [attr |-> attr[evsel], cloexec |-> flags]
    <3>1. \A s \in Open!Slots : FD[evsel][s] = {file}
      BY <2>2 DEF Open!OpenInv, Open!TablesFilled
    <3>2. 1 \in Open!Slots
      BY DEF Open!Slots, Open!EvselOpenConstants
    <3>3. file.attr.clock = Open!AttrOf(Asks[evsel]).clock
      BY <2>2 DEF Open!OpenInv, Open!ClocksKept, Open!TypeOK, Open!Evsels
    <3> HIDE DEF file
    <3> QED
      BY <3>1, <3>2, <3>3 DEF Open!Closed
  <2> QED
    BY <2>1, <2>2 DEF Open!OpenedAlike
<1>2. Open!RefusedIsClosed
  <2>1. ASSUME open_pc = "failed", NEW s \in Open!Slots, FD[evsel][s] # Open!Closed
        PROVE  s = slot /\ (Open!ClockKilled \/ attr[evsel].bpf)
    <3>1. s \in Nat /\ slot \in Nat /\ (s < slot \/ s = slot \/ s > slot)
      BY DEF Open!OpenInv, Open!TypeOK, Open!Slots
    <3> QED
      BY <3>1, <2>1 DEF Open!OpenInv, Open!TablesFilled, Open!Behind
  <2> QED
    BY <2>1 DEF Open!RefusedIsClosed
<1> QED
  BY <1>1, <1>2 DEF Open!OpenInv

(* What is given up when events ask in order is missing. *)
LEMMA ProbeIsMissing ==
  ASSUME Open!EvselOpenConstants, Open!OpenInv, Open!AskedInOrder, Open!DropsKept, Open!Probe,
         NEW feature,
         feature = Open!Probes[CHOOSE i \in Open!Candidates : \A j \in Open!Candidates : i <= j][1]
  PROVE  \/ feature \in kernel.lacks
         \/ feature = "clockid_wrong" /\ ~(kernel.clock /\ "clockid" \notin kernel.lacks)
<1> DEFINE uses == attr[evsel].uses
<1> DEFINE L == kernel.lacks
<1>0. open_pc = "try_fallback" /\ open_err = "EINVAL" /\ slot = 1 /\ Open!Candidates # {}
  BY DEF Open!Probe, Open!MayProbe
<1>1. PICK k \in 1 .. 8 : k \in Open!Candidates /\ (\A j \in Open!Candidates : k <= j)
      /\ feature = Open!Probes[k][1]
  BY <1>0, LeastCandidate
<1>2. /\ evsel \in Open!Evsels /\ uses \subseteq Open!Features /\ "lbr_flags" \notin uses
      /\ ~("write_backward" \in uses /\ "clockid" \in uses)
      /\ "write_backward" \notin missing /\ uses \cap missing = {} /\ "cloexec" \notin uses
      /\ flags => "cloexec" \notin missing
      /\ attr[evsel].clock = "asked" => "clockid_wrong" \notin missing
  <2>1. evsel \in Open!Evsels /\ Asks[evsel] \in SUBSET (STRING \ {"cloexec"})
    BY DEF Open!OpenInv, Open!TypeOK, Open!EvselOpenConstants, Open!Evsels
  <2>2. "lbr_flags" \notin Asks[evsel] /\ ~({"write_backward", "clockid"} \subseteq Asks[evsel])
    <3>1. evsel \in 1 .. evsel
      BY <2>1 DEF Open!EvselOpenConstants, Open!Evsels
    <3> QED
      BY <3>1 DEF Open!AskedInOrder
  <2> QED
    BY <1>0, <2>1, <2>2 DEF Open!DropsKept, Open!Looping, Open!ClockKilled
<1>3. /\ 1 \in Open!Candidates <=> "write_backward" \in uses
      /\ 2 \in Open!Candidates <=> "clockid_wrong" \notin missing /\ "clockid" \in uses
      /\ 3 \in Open!Candidates <=> "clockid" \in uses
      /\ 4 \in Open!Candidates <=> flags
      /\ 5 \in Open!Candidates <=> "mmap2" \in uses
      /\ 6 \in Open!Candidates <=> "exclude_guest" \in uses
      /\ 7 \in Open!Candidates <=> "sample_id_all" \notin missing
      /\ 8 \notin Open!Candidates
  <2>1. Len(Open!Probes) = 8
    BY DEF Open!Probes
  <2>2. \A i \in 1 .. 8 : i \in Open!Candidates <=> Open!Probes[i][1] \notin missing
        /\ Open!Probes[i][2]
    BY <2>1 DEF Open!Candidates
  <2>3. /\ Open!Probes[1][1] = "write_backward" /\ Open!Probes[2][1] = "clockid_wrong"
        /\ Open!Probes[3][1] = "clockid" /\ Open!Probes[4][1] = "cloexec"
           /\ Open!Probes[5][1] = "mmap2"
        /\ Open!Probes[6][1] = "exclude_guest" /\ Open!Probes[7][1] = "sample_id_all"
        /\ Open!Probes[8][1] = "lbr_flags"
    BY DEF Open!Probes
  <2>4. /\ Open!Probes[1][2] <=> "write_backward" \in uses
        /\ Open!Probes[2][2] <=> "clockid" \in uses
        /\ Open!Probes[3][2] <=> "clockid" \in uses
        /\ Open!Probes[4][2] <=> flags
    BY DEF Open!Probes
  <2>5. /\ Open!Probes[5][2] <=> "mmap2" \in uses
        /\ Open!Probes[6][2] <=> "exclude_guest" \in uses
        /\ Open!Probes[7][2]
        /\ Open!Probes[8][2] <=> "lbr_flags" \in uses
    BY DEF Open!Probes
  <2> HIDE DEF uses
  <2> QED
    BY <1>2, <2>2, <2>3, <2>4, <2>5
<1>4. /\ Open!Probes[1][1] = "write_backward" /\ Open!Probes[2][1] = "clockid_wrong"
      /\ Open!Probes[3][1] = "clockid" /\ Open!Probes[4][1] = "cloexec"
         /\ Open!Probes[5][1] = "mmap2"
      /\ Open!Probes[6][1] = "exclude_guest" /\ Open!Probes[7][1] = "sample_id_all"
  BY DEF Open!Probes
<1>5. /\ "sample_id_all" \in L => "exclude_guest" \in L
      /\ "exclude_guest" \in L => "mmap2" \in L
      /\ "mmap2" \in L => "cloexec" \in L
      /\ "cloexec" \in L => "clockid" \in L
      /\ "clockid" \in L => "write_backward" \in L
  BY AgeIs DEF Open!DropsKept
<1>6. \/ \E f \in L : f \in uses \/ (f = "cloexec" /\ flags)
      \/ "clockid" \in uses /\ attr[evsel].clock = "asked" /\ ~kernel.clock
  BY <1>0 DEF Open!DropsKept, Open!Refused, Open!Uses
<1>7. k = 1 \/ k = 2 \/ k = 3 \/ k = 4 \/ k = 5 \/ k = 6 \/ k = 7
  BY <1>1, <1>3
<1>8. CASE \E f \in L : f \in uses \/ (f = "cloexec" /\ flags)
  <2>1. PICK f \in L : f \in uses \/ (f = "cloexec" /\ flags)
    BY <1>8
  <2>2. f \in {"write_backward", "clockid", "cloexec", "mmap2", "exclude_guest", "sample_id_all"}
    BY <2>1, <1>2, AgeIs
  <2> HIDE DEF uses, L
  <2>3. CASE f = "write_backward"
    <3>1. k = 1
      BY <2>1, <2>3, <1>1, <1>3
    <3> QED
      BY <3>1, <2>1, <2>3, <1>1, <1>4 DEF L
  <2>4. CASE f = "clockid"
    <3>1. k \in {1, 2, 3}
      BY <2>1, <2>4, <1>1, <1>3
    <3> QED
      BY <3>1, <2>1, <2>4, <1>1, <1>4, <1>5 DEF L
  <2>5. CASE f = "cloexec"
    <3>1. k \in {1, 2, 3, 4}
      <4>1. flags \/ "cloexec" \in uses
        BY <2>1, <2>5
      <4> QED
        BY <4>1, <1>1, <1>2, <1>3
    <3> QED
      BY <3>1, <2>1, <2>5, <1>1, <1>4, <1>5 DEF L
  <2>6. CASE f = "mmap2"
    <3>1. k \in {1, 2, 3, 4, 5}
      BY <2>1, <2>6, <1>1, <1>3
    <3> QED
      BY <3>1, <2>1, <2>6, <1>1, <1>4, <1>5 DEF L
  <2>7. CASE f = "exclude_guest"
    <3>1. k \in {1, 2, 3, 4, 5, 6}
      BY <2>1, <2>7, <1>1, <1>3
    <3> QED
      BY <3>1, <2>1, <2>7, <1>1, <1>4, <1>5 DEF L
  <2>8. CASE f = "sample_id_all"
    BY <1>7, <2>1, <2>8, <1>1, <1>4, <1>5 DEF L
  <2> QED
    BY <2>2, <2>3, <2>4, <2>5, <2>6, <2>7, <2>8
<1>9. CASE "clockid" \in uses /\ attr[evsel].clock = "asked" /\ ~kernel.clock
  <2>1. k = 2
    BY <1>9, <1>1, <1>2, <1>3
  <2> QED
    BY <2>1, <1>9, <1>1, <1>4
<1> QED
  BY <1>6, <1>8, <1>9

(* At first nothing is given up. *)
LEMMA DropsInit ==
  ASSUME Open!EvselOpenConstants, Open!AskedInOrder, Open!Init
  PROVE  Open!DropsKept
<1>1. kernel.bad = {} /\ \E i \in 0 .. Len(Open!Age) : kernel.lacks = {Open!Age[j] : j \in 1 .. i}
  BY DEF Open!Init, Open!AskedInOrder
<1>2. PICK n \in 0 .. Len(Open!Age) : kernel.lacks = {Open!Age[j] : j \in 1 .. n}
  BY <1>1
<1>3. kernel.lacks \subseteq Open!Features
  BY <1>2 DEF Open!Features
<1>4. \A i, j \in 1 .. 7 : Open!Age[i] = Open!Age[j] => i = j
  <2>1. \A i \in 1 .. 7 : i = 1 \/ i = 2 \/ i = 3 \/ i = 4 \/ i = 5 \/ i = 6 \/ i = 7
    OBVIOUS
  <2> QED
    BY <2>1, AgeIs
<1>5. ASSUME NEW i \in 1 .. Len(Open!Age), NEW j \in 1 .. Len(Open!Age), i <= j,
             Open!Age[j] \in kernel.lacks
      PROVE  Open!Age[i] \in kernel.lacks
  <2>0. Len(Open!Age) = 7
    BY AgeIs
  <2>1. PICK m \in 1 .. n : Open!Age[j] = Open!Age[m]
    BY <1>2, <1>5
  <2>2. j = m
    BY <2>0, <2>1, <1>4
  <2>3. i \in 1 .. n
    BY <2>0, <2>2, <1>5
  <2> QED
    BY <2>3, <1>2
<1>6. \A v \in Open!Evsels : attr[v].uses \subseteq Asks[v] \cap Open!Features
  BY DEF Open!Init, Open!AttrOf
<1>7. missing = {} /\ open_pc = "open"
  BY DEF Open!Init
<1> QED
  BY <1>1, <1>3, <1>5, <1>6, <1>7 DEF Open!DropsKept, Open!OnlyMissingDropped, Open!Looping

(* A step that gives nothing up and leaves the event as it is. *)
LEMMA DropsSame ==
  ASSUME Open!DropsKept, UNCHANGED <<missing, kernel, attr>>,
         open_pc' \in Open!Looping => open_pc \in Open!Looping /\ UNCHANGED <<evsel, flags>>,
         open_pc' = "try_fallback" => open_err' = Open!Refused',
         "write_backward" \in missing => open_pc' \in {"close", "error", "failed"}
         /\ open_err' = "EINVAL"
  PROVE  Open!DropsKept'
<1>1. Open!OnlyMissingDropped' /\ Open!ClockKilled' = Open!ClockKilled
  BY DEF Open!DropsKept, Open!OnlyMissingDropped, Open!ClockKilled
<1> QED
  BY <1>1 DEF Open!DropsKept

(* Every step gives up only what is missing. *)
LEMMA DropsStep ==
  ASSUME Open!EvselOpenConstants, Open!OpenInv, Open!AskedInOrder, Open!DropsKept,
         [Open!Next]_Open!vars
  PROVE  Open!DropsKept'
<1>0. evsel \in Open!Evsels /\ DOMAIN attr = Open!Evsels
      /\ \A v \in Open!Evsels : DOMAIN attr[v] = {"uses", "bpf", "clock", "cycles", "excl"}
  BY DEF Open!OpenInv, Open!TypeOK, Open!TablesOK
<1>1. CASE UNCHANGED Open!vars
  <2>1. Open!Refused' = Open!Refused
    BY <1>1 DEF Open!vars, Open!Refused, Open!Uses
  <2> QED
    BY <1>1, <2>1, DropsSame DEF Open!vars, Open!DropsKept
<1>2. CASE Open!Enter
  BY <1>2, DropsSame DEF Open!Enter, Open!DropsKept, Open!Looping
<1>3. CASE Open!Fallback
  <2>1. /\ attr'[evsel].uses = attr[evsel].uses \ (missing \ {"write_backward"})
        /\ attr'[evsel].clock = IF "clockid" \in missing THEN "none"
                            ELSE IF "clockid_wrong" \in missing THEN "monotonic"
                            ELSE attr[evsel].clock
        /\ \A v \in Open!Evsels : v # evsel => attr'[v] = attr[v]
    BY <1>0, <1>3 DEF Open!Fallback, Open!Dropped
  <2>2. /\ UNCHANGED <<missing, kernel, evsel, open_err>> /\ open_pc' = "syscall"
           /\ open_pc = "fallback"
        /\ flags' = (flags /\ "cloexec" \notin missing)
    BY <1>3 DEF Open!Fallback
  <2>3. "write_backward" \notin missing
    BY <2>2 DEF Open!DropsKept
  <2>4. \A v \in Open!Evsels : attr'[v].uses \subseteq Asks[v] \cap Open!Features
    BY <2>1 DEF Open!DropsKept
  <2>5. Open!OnlyMissingDropped'
    BY <2>2 DEF Open!DropsKept, Open!OnlyMissingDropped
  <2>6. attr'[evsel].uses \cap missing = {} /\ (attr'[evsel].clock = "asked" => ~Open!ClockKilled)
    BY <2>1, <2>3 DEF Open!ClockKilled
  <2>7. Open!ClockKilled' = Open!ClockKilled
    BY <2>2 DEF Open!ClockKilled
  <2> QED
    BY <2>2, <2>3, <2>4, <2>5, <2>6, <2>7 DEF Open!DropsKept
<1>4. CASE Open!Opened
  BY <1>4, DropsSame DEF Open!Opened, Open!GiveUp, Open!Proceed, Open!DropsKept, Open!Looping
<1>5. CASE Open!NotOpened
  <2>1. Open!Refused' = Open!Refused
    BY <1>5 DEF Open!NotOpened, Open!Refused, Open!Uses
  <2> QED
    BY <1>5, <2>1, DropsSame DEF Open!NotOpened, Open!DropsKept, Open!Looping
<1>6. CASE Open!RaiseLimit
  BY <1>6, DropsSame DEF Open!RaiseLimit, Open!DropsKept, Open!Looping
<1>7. CASE Open!Probe
  <2> DEFINE feature == Open!Probes[CHOOSE i \in Open!Candidates : \A j \in Open!Candidates : i <= j][1]
  <2>1. \/ feature \in kernel.lacks
        \/ feature = "clockid_wrong" /\ ~(kernel.clock /\ "clockid" \notin kernel.lacks)
    BY <1>7, ProbeIsMissing
  <2>2. /\ missing' = missing \cup {feature}
        /\ open_pc' = IF feature = "write_backward" THEN "close" ELSE "fallback"
        /\ UNCHANGED <<kernel, attr, flags, evsel, open_err>> /\ open_err = "EINVAL"
           /\ open_pc = "try_fallback"
    BY <1>7 DEF Open!Probe, Open!Probed, Open!MayProbe
  <2> HIDE DEF feature
  <2>3. "write_backward" \notin missing
    BY <2>2 DEF Open!DropsKept
  <2>4. Open!OnlyMissingDropped'
    BY <2>1, <2>2 DEF Open!DropsKept, Open!OnlyMissingDropped
  <2>5. open_pc' \notin Open!Looping /\ open_pc' # "try_fallback"
    BY <2>2 DEF Open!Looping
  <2>6. "write_backward" \in missing' => open_pc' = "close" /\ open_err' = "EINVAL"
    BY <2>2, <2>3
  <2> QED
    BY <2>2, <2>4, <2>5, <2>6 DEF Open!DropsKept
<1>8. CASE Open!NoFallback
  BY <1>8, DropsSame DEF Open!NoFallback, Open!DropsKept, Open!Looping
<1>9. CASE Open!Close
  BY <1>9, DropsSame DEF Open!Close, Open!DropsKept, Open!Looping
<1>10. CASE Open!TryAgain
  <2>1. /\ UNCHANGED <<missing, kernel>> /\ open_pc' = "open" /\ open_pc = "error"
           /\ open_err # "EINVAL"
        /\ DOMAIN attr' = Open!Evsels
        /\ \A v \in Open!Evsels : attr'[v].uses = attr[v].uses
    BY <1>0, <1>10 DEF Open!TryAgain
  <2>2. Open!OnlyMissingDropped'
    BY <2>1 DEF Open!DropsKept, Open!OnlyMissingDropped
  <2> QED
    BY <2>1, <2>2 DEF Open!DropsKept, Open!Looping
<1>11. CASE Open!Fail
  BY <1>11, DropsSame DEF Open!Fail, Open!DropsKept, Open!Looping
<1>12. CASE Open!NextEvsel
  BY <1>12, DropsSame DEF Open!NextEvsel, Open!DropsKept, Open!Looping
<1> QED
  BY <1>1, <1>2, <1>3, <1>4, <1>5, <1>6, <1>7, <1>8, <1>9, <1>10, <1>11, <1>12 DEF Open!Next,
     Open!Done

(* For any events, any number of CPUs and threads, any limit and any kernel: *)
(* a file is open exactly if it is in the table of its event, the files of   *)
(* an event were opened alike, an event that was refused has none open, and  *)
(* the limit was used up before it is complained about; and where events ask *)
(* in order nothing is given up that the kernel has.                         *)
THEOREM OpenedIsKept ==
  ASSUME Open!EvselOpenConstants
  PROVE  Open!Spec => []Open!DescriptorsKept
<1>1. Open!Init => Open!OpenInv /\ (Open!AskedInOrder => Open!DropsKept)
  BY OpenInitInv, DropsInit
<1>2. Open!OpenInv /\ (Open!AskedInOrder => Open!DropsKept) /\ [Open!Next]_Open!vars
        => (Open!OpenInv /\ (Open!AskedInOrder => Open!DropsKept))'
  <2> SUFFICES ASSUME Open!OpenInv, Open!AskedInOrder => Open!DropsKept, [Open!Next]_Open!vars
               PROVE  Open!OpenInv' /\ (Open!AskedInOrder => Open!DropsKept)'
    OBVIOUS
  <2>1. Open!AskedInOrder' => Open!AskedInOrder
    <3>1. evsel \in Nat /\ kernel' = kernel /\ (evsel' = evsel \/ evsel' = evsel + 1)
      BY DEF Open!OpenInv, Open!TypeOK, Open!Evsels, Open!Next, Open!vars, Open!Enter,
         Open!Fallback, Open!Opened, Open!NotOpened, Open!RaiseLimit,
             Open!Probe, Open!NoFallback, Open!Close, Open!TryAgain, Open!Fail, Open!NextEvsel
    <3>2. 1 .. evsel \subseteq 1 .. evsel'
      BY <3>1
    <3> QED
      BY <3>1, <3>2 DEF Open!AskedInOrder
  <2> QED
    BY <2>1, OpenStep, DropsStep
<1>3. Open!OpenInv /\ (Open!AskedInOrder => Open!DropsKept) => Open!DescriptorsKept
  BY OpenInvImplies DEF Open!DescriptorsKept, Open!DropsKept
<1> QED
  BY <1>1, <1>2, <1>3, PTL DEF Open!Spec

-----------------------------------------------------------------------------
(* perf_evlist__prepare_workload() and what follows *)

(* The step ChildSettles keeps the invariant. *)
LEMMA ChildSettlesInv ==
  ASSUME Start!WorkloadConstants, Start!WorkloadInv, tool' = tool, Start!ChildSettles
  PROVE  Start!WorkloadInv'
<1> USE DEF Start!WorkloadConstants, Start!WorkloadInv, Start!ChildSettles, Start!pipeVars,
            Start!childVars, Start!flagVars, Start!perfVars, Start!historyVars
<1>1. Start!TypeOK'
  BY DEF Start!TypeOK
<1>2. Start!PhasesOK'
  BY DEF Start!TypeOK, Start!PhasesOK, Start!Preparing, Start!Leaving
<1>3. Start!HeldBack'
  BY DEF Start!TypeOK, Start!PhasesOK, Start!HeldBack, Start!Preparing, Start!Leaving
<1>4. Start!SignalsTrue'
  BY DEF Start!TypeOK, Start!PhasesOK, Start!HeldBack, Start!SignalsTrue, Start!Preparing,
     Start!Leaving
<1>5. Start!FailuresKept'
  BY DEF Start!TypeOK, Start!PhasesOK, Start!HeldBack, Start!SignalsTrue, Start!FailuresKept,
     Start!Preparing, Start!Leaving
<1>6. Start!KillsChild'
  BY DEF Start!TypeOK, Start!PhasesOK, Start!HeldBack, Start!SignalsTrue, Start!KillsChild,
     Start!Preparing, Start!Leaving, Start!PerfGone, Start!Pid, Start!NoPid
<1> QED
  BY <1>1, <1>2, <1>3, <1>4, <1>5, <1>6

(* The step ChildCancelled keeps the invariant. *)
LEMMA ChildCancelledInv ==
  ASSUME Start!WorkloadConstants, Start!WorkloadInv, tool' = tool, Start!ChildCancelled
  PROVE  Start!WorkloadInv'
<1> USE DEF Start!WorkloadConstants, Start!WorkloadInv, Start!ChildCancelled, Start!Exits,
            Start!PerfGone, Start!pipeVars,
            Start!childVars, Start!flagVars, Start!perfVars, Start!historyVars
<1>1. Start!TypeOK'
  BY DEF Start!TypeOK
<1>2. Start!PhasesOK'
  BY DEF Start!TypeOK, Start!PhasesOK, Start!Preparing, Start!Leaving
<1>3. Start!HeldBack'
  BY DEF Start!TypeOK, Start!PhasesOK, Start!HeldBack, Start!Preparing, Start!Leaving
<1>4. Start!SignalsTrue'
  BY DEF Start!TypeOK, Start!PhasesOK, Start!HeldBack, Start!SignalsTrue, Start!Preparing,
     Start!Leaving
<1>5. Start!FailuresKept'
  BY DEF Start!TypeOK, Start!PhasesOK, Start!HeldBack, Start!SignalsTrue, Start!FailuresKept,
     Start!Preparing, Start!Leaving
<1>6. Start!KillsChild'
  BY DEF Start!TypeOK, Start!PhasesOK, Start!HeldBack, Start!SignalsTrue, Start!KillsChild,
     Start!Preparing, Start!Leaving, Start!PerfGone, Start!Pid, Start!NoPid
<1> QED
  BY <1>1, <1>2, <1>3, <1>4, <1>5, <1>6

(* The step ChildTold keeps the invariant. *)
LEMMA ChildToldInv ==
  ASSUME Start!WorkloadConstants, Start!WorkloadInv, tool' = tool, Start!ChildTold
  PROVE  Start!WorkloadInv'
<1> USE DEF Start!WorkloadConstants, Start!WorkloadInv, Start!ChildTold, Start!pipeVars,
            Start!childVars, Start!flagVars, Start!perfVars, Start!historyVars
<1>1. Start!TypeOK'
  BY DEF Start!TypeOK
<1>2. Start!PhasesOK'
  BY DEF Start!TypeOK, Start!PhasesOK, Start!Preparing, Start!Leaving
<1>3. Start!HeldBack'
  BY DEF Start!TypeOK, Start!PhasesOK, Start!HeldBack, Start!Preparing, Start!Leaving
<1>4. Start!SignalsTrue'
  BY DEF Start!TypeOK, Start!PhasesOK, Start!HeldBack, Start!SignalsTrue, Start!Preparing,
     Start!Leaving
<1>5. Start!FailuresKept'
  BY DEF Start!TypeOK, Start!PhasesOK, Start!HeldBack, Start!SignalsTrue, Start!FailuresKept,
     Start!Preparing, Start!Leaving
<1>6. Start!KillsChild'
  BY DEF Start!TypeOK, Start!PhasesOK, Start!HeldBack, Start!SignalsTrue, Start!KillsChild,
     Start!Preparing, Start!Leaving, Start!PerfGone, Start!Pid, Start!NoPid
<1> QED
  BY <1>1, <1>2, <1>3, <1>4, <1>5, <1>6

(* The step ChildExecs keeps the invariant. *)
LEMMA ChildExecsInv ==
  ASSUME Start!WorkloadConstants, Start!WorkloadInv, tool' = tool, Start!ChildExecs
  PROVE  Start!WorkloadInv'
<1> USE DEF Start!WorkloadConstants, Start!WorkloadInv, Start!ChildExecs, Start!pipeVars,
            Start!childVars, Start!flagVars, Start!perfVars, Start!historyVars
<1>1. Start!TypeOK'
  BY DEF Start!TypeOK
<1>2. Start!PhasesOK'
  BY DEF Start!TypeOK, Start!PhasesOK, Start!Preparing, Start!Leaving
<1>3. Start!HeldBack'
  BY DEF Start!TypeOK, Start!PhasesOK, Start!HeldBack, Start!Preparing, Start!Leaving
<1>4. Start!SignalsTrue'
  BY DEF Start!TypeOK, Start!PhasesOK, Start!HeldBack, Start!SignalsTrue, Start!Preparing,
     Start!Leaving
<1>5. Start!FailuresKept'
  BY DEF Start!TypeOK, Start!PhasesOK, Start!HeldBack, Start!SignalsTrue, Start!FailuresKept,
     Start!Preparing, Start!Leaving
<1>6. Start!KillsChild'
  BY DEF Start!TypeOK, Start!PhasesOK, Start!HeldBack, Start!SignalsTrue, Start!KillsChild,
     Start!Preparing, Start!Leaving, Start!PerfGone, Start!Pid, Start!NoPid
<1> QED
  BY <1>1, <1>2, <1>3, <1>4, <1>5, <1>6

(* The step ChildExecFails keeps the invariant. *)
LEMMA ChildExecFailsInv ==
  ASSUME Start!WorkloadConstants, Start!WorkloadInv, tool' = tool, Start!ChildExecFails
  PROVE  Start!WorkloadInv'
<1> USE DEF Start!WorkloadConstants, Start!WorkloadInv, Start!ChildExecFails, Start!PerfGone,
            Start!pipeVars,
            Start!childVars, Start!flagVars, Start!perfVars, Start!historyVars
<1>1. Start!TypeOK'
  BY DEF Start!TypeOK
<1>2. Start!PhasesOK'
  BY DEF Start!TypeOK, Start!PhasesOK, Start!Preparing, Start!Leaving
<1>3. Start!HeldBack'
  BY DEF Start!TypeOK, Start!PhasesOK, Start!HeldBack, Start!Preparing, Start!Leaving
<1>4. Start!SignalsTrue'
  BY DEF Start!TypeOK, Start!PhasesOK, Start!HeldBack, Start!SignalsTrue, Start!Preparing,
     Start!Leaving
<1>5. Start!FailuresKept'
  BY DEF Start!TypeOK, Start!PhasesOK, Start!HeldBack, Start!SignalsTrue, Start!FailuresKept,
     Start!Preparing, Start!Leaving
<1>6. Start!KillsChild'
  BY DEF Start!TypeOK, Start!PhasesOK, Start!HeldBack, Start!SignalsTrue, Start!KillsChild,
     Start!Preparing, Start!Leaving, Start!PerfGone, Start!Pid, Start!NoPid
<1> QED
  BY <1>1, <1>2, <1>3, <1>4, <1>5, <1>6

(* The step ChildExits keeps the invariant. *)
LEMMA ChildExitsInv ==
  ASSUME Start!WorkloadConstants, Start!WorkloadInv, tool' = tool, Start!ChildExits
  PROVE  Start!WorkloadInv'
<1> USE DEF Start!WorkloadConstants, Start!WorkloadInv, Start!ChildExits, Start!Exits,
            Start!PerfGone, Start!pipeVars,
            Start!childVars, Start!flagVars, Start!perfVars, Start!historyVars
<1>1. Start!TypeOK'
  BY DEF Start!TypeOK
<1>2. Start!PhasesOK'
  BY DEF Start!TypeOK, Start!PhasesOK, Start!Preparing, Start!Leaving
<1>3. Start!HeldBack'
  BY DEF Start!TypeOK, Start!PhasesOK, Start!HeldBack, Start!Preparing, Start!Leaving
<1>4. Start!SignalsTrue'
  BY DEF Start!TypeOK, Start!PhasesOK, Start!HeldBack, Start!SignalsTrue, Start!Preparing,
     Start!Leaving
<1>5. Start!FailuresKept'
  BY DEF Start!TypeOK, Start!PhasesOK, Start!HeldBack, Start!SignalsTrue, Start!FailuresKept,
     Start!Preparing, Start!Leaving
<1>6. Start!KillsChild'
  BY DEF Start!TypeOK, Start!PhasesOK, Start!HeldBack, Start!SignalsTrue, Start!KillsChild,
     Start!Preparing, Start!Leaving, Start!PerfGone, Start!Pid, Start!NoPid
<1> QED
  BY <1>1, <1>2, <1>3, <1>4, <1>5, <1>6

(* The step ChildKilled keeps the invariant. *)
LEMMA ChildKilledInv ==
  ASSUME Start!WorkloadConstants, Start!WorkloadInv, tool' = tool, Start!ChildKilled
  PROVE  Start!WorkloadInv'
<1> USE DEF Start!WorkloadConstants, Start!WorkloadInv, Start!ChildKilled, Start!Exits,
            Start!PerfGone, Start!Alive, Start!pipeVars,
            Start!childVars, Start!flagVars, Start!perfVars, Start!historyVars
<1>1. Start!TypeOK'
  BY DEF Start!TypeOK
<1>2. Start!PhasesOK'
  BY DEF Start!TypeOK, Start!PhasesOK, Start!Preparing, Start!Leaving
<1>3. Start!HeldBack'
  BY DEF Start!TypeOK, Start!PhasesOK, Start!HeldBack, Start!Preparing, Start!Leaving
<1>4. Start!SignalsTrue'
  BY DEF Start!TypeOK, Start!PhasesOK, Start!HeldBack, Start!SignalsTrue, Start!Preparing,
     Start!Leaving
<1>5. Start!FailuresKept'
  BY DEF Start!TypeOK, Start!PhasesOK, Start!HeldBack, Start!SignalsTrue, Start!FailuresKept,
     Start!Preparing, Start!Leaving
<1>6. Start!KillsChild'
  BY DEF Start!TypeOK, Start!PhasesOK, Start!HeldBack, Start!SignalsTrue, Start!KillsChild,
     Start!Preparing, Start!Leaving, Start!PerfGone, Start!Pid, Start!NoPid
<1> QED
  BY <1>1, <1>2, <1>3, <1>4, <1>5, <1>6

(* The step Sigint keeps the invariant. *)
LEMMA StartSigintInv ==
  ASSUME Start!WorkloadConstants, Start!WorkloadInv, Start!Sigint
  PROVE  Start!WorkloadInv'
<1> USE DEF Start!WorkloadConstants, Start!WorkloadInv, Start!Sigint, Start!PerfGone,
            Start!pipeVars,
            Start!childVars, Start!flagVars, Start!perfVars, Start!historyVars
<1>1. Start!TypeOK'
  BY DEF Start!TypeOK
<1>2. Start!PhasesOK'
  BY DEF Start!TypeOK, Start!PhasesOK, Start!Preparing, Start!Leaving
<1>3. Start!HeldBack'
  BY DEF Start!TypeOK, Start!PhasesOK, Start!HeldBack, Start!Preparing, Start!Leaving
<1>4. Start!SignalsTrue'
  BY DEF Start!TypeOK, Start!PhasesOK, Start!HeldBack, Start!SignalsTrue, Start!Preparing,
     Start!Leaving
<1>5. Start!FailuresKept'
  BY DEF Start!TypeOK, Start!PhasesOK, Start!HeldBack, Start!SignalsTrue, Start!FailuresKept,
     Start!Preparing, Start!Leaving
<1>6. Start!KillsChild'
  BY DEF Start!TypeOK, Start!PhasesOK, Start!HeldBack, Start!SignalsTrue, Start!KillsChild,
     Start!Preparing, Start!Leaving, Start!PerfGone, Start!Pid, Start!NoPid
<1> QED
  BY <1>1, <1>2, <1>3, <1>4, <1>5, <1>6

(* The step Crash keeps the invariant. *)
LEMMA CrashInv ==
  ASSUME Start!WorkloadConstants, Start!WorkloadInv, Start!Crash
  PROVE  Start!WorkloadInv'
<1> USE DEF Start!WorkloadConstants, Start!WorkloadInv, Start!Crash, Start!ProcessEnds, Start!Goto,
            Start!PerfGone, Start!pipeVars,
            Start!childVars, Start!flagVars, Start!perfVars, Start!historyVars
<1>1. Start!TypeOK'
  BY DEF Start!TypeOK
<1>2. Start!PhasesOK'
  BY DEF Start!TypeOK, Start!PhasesOK, Start!Preparing, Start!Leaving
<1>3. Start!HeldBack'
  BY DEF Start!TypeOK, Start!PhasesOK, Start!HeldBack, Start!Preparing, Start!Leaving
<1>4. Start!SignalsTrue'
  BY DEF Start!TypeOK, Start!PhasesOK, Start!HeldBack, Start!SignalsTrue, Start!Preparing,
     Start!Leaving
<1>5. Start!FailuresKept'
  BY DEF Start!TypeOK, Start!PhasesOK, Start!HeldBack, Start!SignalsTrue, Start!FailuresKept,
     Start!Preparing, Start!Leaving
<1>6. Start!KillsChild'
  BY DEF Start!TypeOK, Start!PhasesOK, Start!HeldBack, Start!SignalsTrue, Start!KillsChild,
     Start!Preparing, Start!Leaving, Start!PerfGone, Start!Pid, Start!NoPid
<1> QED
  BY <1>1, <1>2, <1>3, <1>4, <1>5, <1>6

(* The step Fork keeps the invariant. *)
LEMMA ForkInv ==
  ASSUME Start!WorkloadConstants, Start!WorkloadInv, tool' = tool, Start!Fork
  PROVE  Start!WorkloadInv'
<1> USE DEF Start!WorkloadConstants, Start!WorkloadInv, Start!Fork, Start!At, Start!Deliverable,
            Start!Goto, Start!pipeVars,
            Start!childVars, Start!flagVars, Start!perfVars, Start!historyVars
<1>1. Start!TypeOK'
  BY DEF Start!TypeOK
<1>2. Start!PhasesOK'
  BY DEF Start!TypeOK, Start!PhasesOK, Start!Preparing, Start!Leaving
<1>3. Start!HeldBack'
  BY DEF Start!TypeOK, Start!PhasesOK, Start!HeldBack, Start!Preparing, Start!Leaving
<1>4. Start!SignalsTrue'
  BY DEF Start!TypeOK, Start!PhasesOK, Start!HeldBack, Start!SignalsTrue, Start!Preparing,
     Start!Leaving
<1>5. Start!FailuresKept'
  BY DEF Start!TypeOK, Start!PhasesOK, Start!HeldBack, Start!SignalsTrue, Start!FailuresKept,
     Start!Preparing, Start!Leaving
<1>6. Start!KillsChild'
  BY DEF Start!TypeOK, Start!PhasesOK, Start!HeldBack, Start!SignalsTrue, Start!KillsChild,
     Start!Preparing, Start!Leaving, Start!PerfGone, Start!Pid, Start!NoPid
<1> QED
  BY <1>1, <1>2, <1>3, <1>4, <1>5, <1>6

(* The step ForkFails keeps the invariant. *)
LEMMA ForkFailsInv ==
  ASSUME Start!WorkloadConstants, Start!WorkloadInv, tool' = tool, Start!ForkFails
  PROVE  Start!WorkloadInv'
<1> USE DEF Start!WorkloadConstants, Start!WorkloadInv, Start!ForkFails, Start!At,
            Start!Deliverable, Start!Goto, Start!pipeVars,
            Start!childVars, Start!flagVars, Start!perfVars, Start!historyVars
<1>1. Start!TypeOK'
  BY DEF Start!TypeOK
<1>2. Start!PhasesOK'
  BY DEF Start!TypeOK, Start!PhasesOK, Start!Preparing, Start!Leaving
<1>3. Start!HeldBack'
  BY DEF Start!TypeOK, Start!PhasesOK, Start!HeldBack, Start!Preparing, Start!Leaving
<1>4. Start!SignalsTrue'
  BY DEF Start!TypeOK, Start!PhasesOK, Start!HeldBack, Start!SignalsTrue, Start!Preparing,
     Start!Leaving
<1>5. Start!FailuresKept'
  BY DEF Start!TypeOK, Start!PhasesOK, Start!HeldBack, Start!SignalsTrue, Start!FailuresKept,
     Start!Preparing, Start!Leaving
<1>6. Start!KillsChild'
  BY DEF Start!TypeOK, Start!PhasesOK, Start!HeldBack, Start!SignalsTrue, Start!KillsChild,
     Start!Preparing, Start!Leaving, Start!PerfGone, Start!Pid, Start!NoPid
<1> QED
  BY <1>1, <1>2, <1>3, <1>4, <1>5, <1>6

(* The step CloseReadyPipe keeps the invariant. *)
LEMMA CloseReadyPipeInv ==
  ASSUME Start!WorkloadConstants, Start!WorkloadInv, tool' = tool, Start!CloseReadyPipe
  PROVE  Start!WorkloadInv'
<1> USE DEF Start!WorkloadConstants, Start!WorkloadInv, Start!CloseReadyPipe, Start!At,
            Start!Deliverable, Start!Goto, Start!pipeVars,
            Start!childVars, Start!flagVars, Start!perfVars, Start!historyVars
<1>1. Start!TypeOK'
  BY DEF Start!TypeOK
<1>2. Start!PhasesOK'
  BY DEF Start!TypeOK, Start!PhasesOK, Start!Preparing, Start!Leaving
<1>3. Start!HeldBack'
  BY DEF Start!TypeOK, Start!PhasesOK, Start!HeldBack, Start!Preparing, Start!Leaving
<1>4. Start!SignalsTrue'
  BY DEF Start!TypeOK, Start!PhasesOK, Start!HeldBack, Start!SignalsTrue, Start!Preparing,
     Start!Leaving
<1>5. Start!FailuresKept'
  BY DEF Start!TypeOK, Start!PhasesOK, Start!HeldBack, Start!SignalsTrue, Start!FailuresKept,
     Start!Preparing, Start!Leaving
<1>6. Start!KillsChild'
  BY DEF Start!TypeOK, Start!PhasesOK, Start!HeldBack, Start!SignalsTrue, Start!KillsChild,
     Start!Preparing, Start!Leaving, Start!PerfGone, Start!Pid, Start!NoPid
<1> QED
  BY <1>1, <1>2, <1>3, <1>4, <1>5, <1>6

(* The step WaitForChild keeps the invariant. *)
LEMMA WaitForChildInv ==
  ASSUME Start!WorkloadConstants, Start!WorkloadInv, tool' = tool, Start!WaitForChild
  PROVE  Start!WorkloadInv'
<1> USE DEF Start!WorkloadConstants, Start!WorkloadInv, Start!WaitForChild, Start!At,
            Start!Deliverable, Start!Goto, Start!pipeVars,
            Start!childVars, Start!flagVars, Start!perfVars, Start!historyVars
<1>1. Start!TypeOK'
  BY DEF Start!TypeOK
<1>2. Start!PhasesOK'
  BY DEF Start!TypeOK, Start!PhasesOK, Start!Preparing, Start!Leaving
<1>3. Start!HeldBack'
  BY DEF Start!TypeOK, Start!PhasesOK, Start!HeldBack, Start!Preparing, Start!Leaving
<1>4. Start!SignalsTrue'
  BY DEF Start!TypeOK, Start!PhasesOK, Start!HeldBack, Start!SignalsTrue, Start!Preparing,
     Start!Leaving
<1>5. Start!FailuresKept'
  BY DEF Start!TypeOK, Start!PhasesOK, Start!HeldBack, Start!SignalsTrue, Start!FailuresKept,
     Start!Preparing, Start!Leaving
<1>6. Start!KillsChild'
  BY DEF Start!TypeOK, Start!PhasesOK, Start!HeldBack, Start!SignalsTrue, Start!KillsChild,
     Start!Preparing, Start!Leaving, Start!PerfGone, Start!Pid, Start!NoPid
<1> QED
  BY <1>1, <1>2, <1>3, <1>4, <1>5, <1>6

(* The step RecordSetupFails keeps the invariant. *)
LEMMA RecordSetupFailsInv ==
  ASSUME Start!WorkloadConstants, Start!WorkloadInv, tool' = tool, Start!RecordSetupFails
  PROVE  Start!WorkloadInv'
<1> USE DEF Start!WorkloadConstants, Start!WorkloadInv, Start!RecordSetupFails, Start!At,
            Start!Deliverable, Start!Goto, Start!pipeVars,
            Start!childVars, Start!flagVars, Start!perfVars, Start!historyVars
<1>1. Start!TypeOK'
  BY DEF Start!TypeOK
<1>2. Start!PhasesOK'
  BY DEF Start!TypeOK, Start!PhasesOK, Start!Preparing, Start!Leaving
<1>3. Start!HeldBack'
  BY DEF Start!TypeOK, Start!PhasesOK, Start!HeldBack, Start!Preparing, Start!Leaving
<1>4. Start!SignalsTrue'
  BY DEF Start!TypeOK, Start!PhasesOK, Start!HeldBack, Start!SignalsTrue, Start!Preparing,
     Start!Leaving
<1>5. Start!FailuresKept'
  BY DEF Start!TypeOK, Start!PhasesOK, Start!HeldBack, Start!SignalsTrue, Start!FailuresKept,
     Start!Preparing, Start!Leaving
<1>6. Start!KillsChild'
  BY DEF Start!TypeOK, Start!PhasesOK, Start!HeldBack, Start!SignalsTrue, Start!KillsChild,
     Start!Preparing, Start!Leaving, Start!PerfGone, Start!Pid, Start!NoPid
<1> QED
  BY <1>1, <1>2, <1>3, <1>4, <1>5, <1>6

(* The step StatSetupFails keeps the invariant. *)
LEMMA StatSetupFailsInv ==
  ASSUME Start!WorkloadConstants, Start!WorkloadInv, tool' = tool, Start!StatSetupFails
  PROVE  Start!WorkloadInv'
<1> USE DEF Start!WorkloadConstants, Start!WorkloadInv, Start!StatSetupFails, Start!At,
            Start!Deliverable, Start!Goto, Start!pipeVars,
            Start!childVars, Start!flagVars, Start!perfVars, Start!historyVars
<1>1. Start!TypeOK'
  BY DEF Start!TypeOK
<1>2. Start!PhasesOK'
  BY DEF Start!TypeOK, Start!PhasesOK, Start!Preparing, Start!Leaving
<1>3. Start!HeldBack'
  BY DEF Start!TypeOK, Start!PhasesOK, Start!HeldBack, Start!Preparing, Start!Leaving
<1>4. Start!SignalsTrue'
  BY DEF Start!TypeOK, Start!PhasesOK, Start!HeldBack, Start!SignalsTrue, Start!Preparing,
     Start!Leaving
<1>5. Start!FailuresKept'
  BY DEF Start!TypeOK, Start!PhasesOK, Start!HeldBack, Start!SignalsTrue, Start!FailuresKept,
     Start!Preparing, Start!Leaving
<1>6. Start!KillsChild'
  BY DEF Start!TypeOK, Start!PhasesOK, Start!HeldBack, Start!SignalsTrue, Start!KillsChild,
     Start!Preparing, Start!Leaving, Start!PerfGone, Start!Pid, Start!NoPid
<1> QED
  BY <1>1, <1>2, <1>3, <1>4, <1>5, <1>6

(* The step perf_evlist__start_workload keeps the invariant. *)
LEMMA perf_evlist__start_workloadInv ==
  ASSUME Start!WorkloadConstants, Start!WorkloadInv, tool' = tool, Start!perf_evlist__start_workload
  PROVE  Start!WorkloadInv'
<1> USE DEF Start!WorkloadConstants, Start!WorkloadInv, Start!perf_evlist__start_workload, Start!At,
            Start!Deliverable, Start!Goto, Start!pipeVars,
            Start!childVars, Start!flagVars, Start!perfVars, Start!historyVars
<1>1. Start!TypeOK'
  BY DEF Start!TypeOK
<1>2. Start!PhasesOK'
  BY DEF Start!TypeOK, Start!PhasesOK, Start!Preparing, Start!Leaving
<1>3. Start!HeldBack'
  BY DEF Start!TypeOK, Start!PhasesOK, Start!HeldBack, Start!Preparing, Start!Leaving
<1>4. Start!SignalsTrue'
  BY DEF Start!TypeOK, Start!PhasesOK, Start!HeldBack, Start!SignalsTrue, Start!Preparing,
     Start!Leaving
<1>5. Start!FailuresKept'
  BY DEF Start!TypeOK, Start!PhasesOK, Start!HeldBack, Start!SignalsTrue, Start!FailuresKept,
     Start!Preparing, Start!Leaving
<1>6. Start!KillsChild'
  BY DEF Start!TypeOK, Start!PhasesOK, Start!HeldBack, Start!SignalsTrue, Start!KillsChild,
     Start!Preparing, Start!Leaving, Start!PerfGone, Start!Pid, Start!NoPid
<1> QED
  BY <1>1, <1>2, <1>3, <1>4, <1>5, <1>6

(* The step LeaveLoop keeps the invariant. *)
LEMMA LeaveLoopInv ==
  ASSUME Start!WorkloadConstants, Start!WorkloadInv, tool' = tool, Start!LeaveLoop
  PROVE  Start!WorkloadInv'
<1> USE DEF Start!WorkloadConstants, Start!WorkloadInv, Start!LeaveLoop, Start!At,
            Start!Deliverable, Start!Goto, Start!Alive, Start!pipeVars,
            Start!childVars, Start!flagVars, Start!perfVars, Start!historyVars
<1>1. Start!TypeOK'
  BY DEF Start!TypeOK
<1>2. Start!PhasesOK'
  BY DEF Start!TypeOK, Start!PhasesOK, Start!Preparing, Start!Leaving
<1>3. Start!HeldBack'
  BY DEF Start!TypeOK, Start!PhasesOK, Start!HeldBack, Start!Preparing, Start!Leaving
<1>4. Start!SignalsTrue'
  BY DEF Start!TypeOK, Start!PhasesOK, Start!HeldBack, Start!SignalsTrue, Start!Preparing,
     Start!Leaving
<1>5. Start!FailuresKept'
  BY DEF Start!TypeOK, Start!PhasesOK, Start!HeldBack, Start!SignalsTrue, Start!FailuresKept,
     Start!Preparing, Start!Leaving
<1>6. Start!KillsChild'
  BY DEF Start!TypeOK, Start!PhasesOK, Start!HeldBack, Start!SignalsTrue, Start!KillsChild,
     Start!Preparing, Start!Leaving, Start!PerfGone, Start!Pid, Start!NoPid
<1> QED
  BY <1>1, <1>2, <1>3, <1>4, <1>5, <1>6

(* The step OutChild keeps the invariant. *)
LEMMA OutChildInv ==
  ASSUME Start!WorkloadConstants, Start!WorkloadInv, tool' = tool, Start!OutChild
  PROVE  Start!WorkloadInv'
<1> USE DEF Start!WorkloadConstants, Start!WorkloadInv, Start!OutChild, Start!At, Start!Deliverable,
            Start!Goto, Start!pipeVars,
            Start!childVars, Start!flagVars, Start!perfVars, Start!historyVars
<1>1. Start!TypeOK'
  BY DEF Start!TypeOK
<1>2. Start!PhasesOK'
  BY DEF Start!TypeOK, Start!PhasesOK, Start!Preparing, Start!Leaving
<1>3. Start!HeldBack'
  BY DEF Start!TypeOK, Start!PhasesOK, Start!HeldBack, Start!Preparing, Start!Leaving
<1>4. Start!SignalsTrue'
  BY DEF Start!TypeOK, Start!PhasesOK, Start!HeldBack, Start!SignalsTrue, Start!Preparing,
     Start!Leaving
<1>5. Start!FailuresKept'
  BY DEF Start!TypeOK, Start!PhasesOK, Start!HeldBack, Start!SignalsTrue, Start!FailuresKept,
     Start!Preparing, Start!Leaving
<1>6. Start!KillsChild'
  BY DEF Start!TypeOK, Start!PhasesOK, Start!HeldBack, Start!SignalsTrue, Start!KillsChild,
     Start!Preparing, Start!Leaving, Start!PerfGone, Start!Pid, Start!NoPid
<1> QED
  BY <1>1, <1>2, <1>3, <1>4, <1>5, <1>6

(* The step KillWorkload keeps the invariant. *)
LEMMA KillWorkloadInv ==
  ASSUME Start!WorkloadConstants, Start!WorkloadInv, tool' = tool, Start!KillWorkload
  PROVE  Start!WorkloadInv'
<1> USE DEF Start!WorkloadConstants, Start!WorkloadInv, Start!KillWorkload, Start!At,
            Start!Deliverable, Start!Goto, Start!Kill, Start!Alive, Start!pipeVars,
            Start!childVars, Start!flagVars, Start!perfVars, Start!historyVars
<1>1. Start!TypeOK'
  BY DEF Start!TypeOK
<1>2. Start!PhasesOK'
  BY DEF Start!TypeOK, Start!PhasesOK, Start!Preparing, Start!Leaving
<1>3. Start!HeldBack'
  BY DEF Start!TypeOK, Start!PhasesOK, Start!HeldBack, Start!Preparing, Start!Leaving
<1>4. Start!SignalsTrue'
  BY DEF Start!TypeOK, Start!PhasesOK, Start!HeldBack, Start!SignalsTrue, Start!Preparing,
     Start!Leaving
<1>5. Start!FailuresKept'
  BY DEF Start!TypeOK, Start!PhasesOK, Start!HeldBack, Start!SignalsTrue, Start!FailuresKept,
     Start!Preparing, Start!Leaving
<1>6. Start!KillsChild'
  BY DEF Start!TypeOK, Start!PhasesOK, Start!HeldBack, Start!SignalsTrue, Start!KillsChild,
     Start!Preparing, Start!Leaving, Start!PerfGone, Start!Pid, Start!NoPid
<1> QED
  BY <1>1, <1>2, <1>3, <1>4, <1>5, <1>6

(* The step CheckChildPid keeps the invariant. *)
LEMMA CheckChildPidInv ==
  ASSUME Start!WorkloadConstants, Start!WorkloadInv, tool' = tool, Start!CheckChildPid
  PROVE  Start!WorkloadInv'
<1> USE DEF Start!WorkloadConstants, Start!WorkloadInv, Start!CheckChildPid, Start!Deliverable,
            Start!Goto, Start!pipeVars,
            Start!childVars, Start!flagVars, Start!perfVars, Start!historyVars
<1>1. Start!TypeOK'
  BY DEF Start!TypeOK
<1>2. Start!PhasesOK'
  BY DEF Start!TypeOK, Start!PhasesOK, Start!Preparing, Start!Leaving
<1>3. Start!HeldBack'
  BY DEF Start!TypeOK, Start!PhasesOK, Start!HeldBack, Start!Preparing, Start!Leaving
<1>4. Start!SignalsTrue'
  BY DEF Start!TypeOK, Start!PhasesOK, Start!HeldBack, Start!SignalsTrue, Start!Preparing,
     Start!Leaving
<1>5. Start!FailuresKept'
  BY DEF Start!TypeOK, Start!PhasesOK, Start!HeldBack, Start!SignalsTrue, Start!FailuresKept,
     Start!Preparing, Start!Leaving
<1>6. Start!KillsChild'
  BY DEF Start!TypeOK, Start!PhasesOK, Start!HeldBack, Start!SignalsTrue, Start!KillsChild,
     Start!Preparing, Start!Leaving, Start!PerfGone, Start!Pid, Start!NoPid
<1> QED
  BY <1>1, <1>2, <1>3, <1>4, <1>5, <1>6

(* The step KillChildPid keeps the invariant. *)
LEMMA KillChildPidInv ==
  ASSUME Start!WorkloadConstants, Start!WorkloadInv, tool' = tool, Start!KillChildPid
  PROVE  Start!WorkloadInv'
<1> USE DEF Start!WorkloadConstants, Start!WorkloadInv, Start!KillChildPid, Start!Deliverable,
            Start!Goto, Start!Kill, Start!Alive, Start!pipeVars,
            Start!childVars, Start!flagVars, Start!perfVars, Start!historyVars
<1>1. Start!TypeOK'
  BY DEF Start!TypeOK
<1>2. Start!PhasesOK'
  BY DEF Start!TypeOK, Start!PhasesOK, Start!Preparing, Start!Leaving
<1>3. Start!HeldBack'
  BY DEF Start!TypeOK, Start!PhasesOK, Start!HeldBack, Start!Preparing, Start!Leaving
<1>4. Start!SignalsTrue'
  BY DEF Start!TypeOK, Start!PhasesOK, Start!HeldBack, Start!SignalsTrue, Start!Preparing,
     Start!Leaving
<1>5. Start!FailuresKept'
  BY DEF Start!TypeOK, Start!PhasesOK, Start!HeldBack, Start!SignalsTrue, Start!FailuresKept,
     Start!Preparing, Start!Leaving
<1>6. Start!KillsChild'
  BY DEF Start!TypeOK, Start!PhasesOK, Start!HeldBack, Start!SignalsTrue, Start!KillsChild,
     Start!Preparing, Start!Leaving, Start!PerfGone, Start!Pid, Start!NoPid
<1> QED
  BY <1>1, <1>2, <1>3, <1>4, <1>5, <1>6

(* The step sig_atexit keeps the invariant. *)
LEMMA sig_atexitInv ==
  ASSUME Start!WorkloadConstants, Start!WorkloadInv, tool' = tool, Start!sig_atexit
  PROVE  Start!WorkloadInv'
<1> USE DEF Start!WorkloadConstants, Start!WorkloadInv, Start!sig_atexit, Start!At,
            Start!Deliverable, Start!Goto, Start!pipeVars,
            Start!childVars, Start!flagVars, Start!perfVars, Start!historyVars
<1>1. Start!TypeOK'
  BY DEF Start!TypeOK
<1>2. Start!PhasesOK'
  BY DEF Start!TypeOK, Start!PhasesOK, Start!Preparing, Start!Leaving
<1>3. Start!HeldBack'
  BY DEF Start!TypeOK, Start!PhasesOK, Start!HeldBack, Start!Preparing, Start!Leaving
<1>4. Start!SignalsTrue'
  BY DEF Start!TypeOK, Start!PhasesOK, Start!HeldBack, Start!SignalsTrue, Start!Preparing,
     Start!Leaving
<1>5. Start!FailuresKept'
  BY DEF Start!TypeOK, Start!PhasesOK, Start!HeldBack, Start!SignalsTrue, Start!FailuresKept,
     Start!Preparing, Start!Leaving
<1>6. Start!KillsChild'
  BY DEF Start!TypeOK, Start!PhasesOK, Start!HeldBack, Start!SignalsTrue, Start!KillsChild,
     Start!Preparing, Start!Leaving, Start!PerfGone, Start!Pid, Start!NoPid
<1> QED
  BY <1>1, <1>2, <1>3, <1>4, <1>5, <1>6

(* The step EndAtexit keeps the invariant. *)
LEMMA EndAtexitInv ==
  ASSUME Start!WorkloadConstants, Start!WorkloadInv, tool' = tool, Start!EndAtexit
  PROVE  Start!WorkloadInv'
<1> USE DEF Start!WorkloadConstants, Start!WorkloadInv, Start!EndAtexit, Start!At,
            Start!Deliverable, Start!Goto, Start!pipeVars,
            Start!childVars, Start!flagVars, Start!perfVars, Start!historyVars
<1>1. Start!TypeOK'
  BY DEF Start!TypeOK
<1>2. Start!PhasesOK'
  BY DEF Start!TypeOK, Start!PhasesOK, Start!Preparing, Start!Leaving
<1>3. Start!HeldBack'
  BY DEF Start!TypeOK, Start!PhasesOK, Start!HeldBack, Start!Preparing, Start!Leaving
<1>4. Start!SignalsTrue'
  BY DEF Start!TypeOK, Start!PhasesOK, Start!HeldBack, Start!SignalsTrue, Start!Preparing,
     Start!Leaving
<1>5. Start!FailuresKept'
  BY DEF Start!TypeOK, Start!PhasesOK, Start!HeldBack, Start!SignalsTrue, Start!FailuresKept,
     Start!Preparing, Start!Leaving
<1>6. Start!KillsChild'
  BY DEF Start!TypeOK, Start!PhasesOK, Start!HeldBack, Start!SignalsTrue, Start!KillsChild,
     Start!Preparing, Start!Leaving, Start!PerfGone, Start!Pid, Start!NoPid
<1> QED
  BY <1>1, <1>2, <1>3, <1>4, <1>5, <1>6

(* The step Wait keeps the invariant. *)
LEMMA WaitInv ==
  ASSUME Start!WorkloadConstants, Start!WorkloadInv, tool' = tool, Start!Wait
  PROVE  Start!WorkloadInv'
<1> USE DEF Start!WorkloadConstants, Start!WorkloadInv, Start!Wait, Start!At, Start!Deliverable,
            Start!Goto, Start!WaitStatus, Start!Signaled, Start!pipeVars,
            Start!childVars, Start!flagVars, Start!perfVars, Start!historyVars
<1>1. Start!TypeOK'
  BY DEF Start!TypeOK
<1>2. Start!PhasesOK'
  BY DEF Start!TypeOK, Start!PhasesOK, Start!Preparing, Start!Leaving
<1>3. Start!HeldBack'
  BY DEF Start!TypeOK, Start!PhasesOK, Start!HeldBack, Start!Preparing, Start!Leaving
<1>4. Start!SignalsTrue'
  BY DEF Start!TypeOK, Start!PhasesOK, Start!HeldBack, Start!SignalsTrue, Start!Preparing,
     Start!Leaving
<1>5. Start!FailuresKept'
  BY DEF Start!TypeOK, Start!PhasesOK, Start!HeldBack, Start!SignalsTrue, Start!FailuresKept,
     Start!Preparing, Start!Leaving
<1>6. Start!KillsChild'
  BY DEF Start!TypeOK, Start!PhasesOK, Start!HeldBack, Start!SignalsTrue, Start!KillsChild,
     Start!Preparing, Start!Leaving, Start!PerfGone, Start!Pid, Start!NoPid
<1> QED
  BY <1>1, <1>2, <1>3, <1>4, <1>5, <1>6

(* The step Exit keeps the invariant. *)
LEMMA ExitInv ==
  ASSUME Start!WorkloadConstants, Start!WorkloadInv, tool' = tool, Start!Exit
  PROVE  Start!WorkloadInv'
<1> USE DEF Start!WorkloadConstants, Start!WorkloadInv, Start!Exit, Start!At, Start!Deliverable,
            Start!Goto, Start!pipeVars,
            Start!childVars, Start!flagVars, Start!perfVars, Start!historyVars
<1>1. Start!TypeOK'
  BY DEF Start!TypeOK
<1>2. Start!PhasesOK'
  BY DEF Start!TypeOK, Start!PhasesOK, Start!Preparing, Start!Leaving
<1>3. Start!HeldBack'
  BY DEF Start!TypeOK, Start!PhasesOK, Start!HeldBack, Start!Preparing, Start!Leaving
<1>4. Start!SignalsTrue'
  BY DEF Start!TypeOK, Start!PhasesOK, Start!HeldBack, Start!SignalsTrue, Start!Preparing,
     Start!Leaving
<1>5. Start!FailuresKept'
  BY DEF Start!TypeOK, Start!PhasesOK, Start!HeldBack, Start!SignalsTrue, Start!FailuresKept,
     Start!Preparing, Start!Leaving
<1>6. Start!KillsChild'
  BY DEF Start!TypeOK, Start!PhasesOK, Start!HeldBack, Start!SignalsTrue, Start!KillsChild,
     Start!Preparing, Start!Leaving, Start!PerfGone, Start!Pid, Start!NoPid
<1> QED
  BY <1>1, <1>2, <1>3, <1>4, <1>5, <1>6

(* The step End keeps the invariant. *)
LEMMA EndInv ==
  ASSUME Start!WorkloadConstants, Start!WorkloadInv, tool' = tool, Start!End
  PROVE  Start!WorkloadInv'
<1> USE DEF Start!WorkloadConstants, Start!WorkloadInv, Start!End, Start!At, Start!Deliverable,
            Start!Goto, Start!ProcessEnds, Start!pipeVars,
            Start!childVars, Start!flagVars, Start!perfVars, Start!historyVars
<1>1. Start!TypeOK'
  BY DEF Start!TypeOK
<1>2. Start!PhasesOK'
  BY DEF Start!TypeOK, Start!PhasesOK, Start!Preparing, Start!Leaving
<1>3. Start!HeldBack'
  BY DEF Start!TypeOK, Start!PhasesOK, Start!HeldBack, Start!Preparing, Start!Leaving
<1>4. Start!SignalsTrue'
  BY DEF Start!TypeOK, Start!PhasesOK, Start!HeldBack, Start!SignalsTrue, Start!Preparing,
     Start!Leaving
<1>5. Start!FailuresKept'
  BY DEF Start!TypeOK, Start!PhasesOK, Start!HeldBack, Start!SignalsTrue, Start!FailuresKept,
     Start!Preparing, Start!Leaving
<1>6. Start!KillsChild'
  BY DEF Start!TypeOK, Start!PhasesOK, Start!HeldBack, Start!SignalsTrue, Start!KillsChild,
     Start!Preparing, Start!Leaving, Start!PerfGone, Start!Pid, Start!NoPid
<1> QED
  BY <1>1, <1>2, <1>3, <1>4, <1>5, <1>6


(* The handlers of the signals keep the invariant. *)
LEMMA HandleInv ==
  ASSUME Start!WorkloadConstants, Start!WorkloadInv, tool' = tool,
         NEW sig \in {"CHLD", "USR1", "INT"}, Start!Handle(sig)
  PROVE  Start!WorkloadInv'
<1> USE DEF Start!WorkloadInv, Start!pipeVars, Start!childVars, Start!historyVars
<1>1. /\ sig \in start_pending /\ sig \notin blocked /\ ~Start!PerfGone
         /\ start_pending' = start_pending \ {sig}
      /\ UNCHANGED <<Start!pipeVars, Start!childVars, start_pc, blocked, start_err, status,
         start_interrupted, Start!historyVars>>
  BY DEF Start!Handle, Start!Deliverable
<1>2. \/ sig = "USR1" /\ Start!workload_exec_failed_signal
      \/ tool = "record" /\ sig \in {"CHLD", "INT"} /\ Start!sig_handler(sig)
      \/ tool = "stat" /\ sig \in {"CHLD", "INT"} /\ Start!skip_signal(sig)
  BY DEF Start!Handle, Start!TypeOK
<1> USE <1>1, <1>2 DEF Start!workload_exec_failed_signal, Start!sig_handler, Start!skip_signal
<1>3. Start!TypeOK'
  BY DEF Start!TypeOK, Start!Pid, Start!NoPid
<1>4. Start!PhasesOK' /\ Start!HeldBack'
  BY DEF Start!PhasesOK, Start!HeldBack
<1>5. Start!SignalsTrue'
  BY DEF Start!TypeOK, Start!SignalsTrue, Start!PerfGone
<1>6. Start!FailuresKept'
  BY DEF Start!TypeOK, Start!FailuresKept, Start!Leaving, Start!Signaled
<1>7. Start!KillsChild'
  BY DEF Start!TypeOK, Start!PhasesOK, Start!HeldBack, Start!SignalsTrue, Start!KillsChild,
     Start!Preparing, Start!PerfGone, Start!Pid, Start!NoPid
<1> QED
  BY <1>3, <1>4, <1>5, <1>6, <1>7

(* At first there is no child, no signal and no history. *)
LEMMA WorkloadInitInv ==
  ASSUME Start!WorkloadConstants, Start!Init
  PROVE  Start!WorkloadInv
BY DEF Start!WorkloadConstants, Start!Init, Start!WorkloadInv, Start!TypeOK, Start!PhasesOK,
   Start!HeldBack, Start!SignalsTrue, Start!FailuresKept,
       Start!KillsChild, Start!Preparing, Start!Leaving, Start!PerfGone, Start!Pid, Start!NoPid

(* Every step keeps the invariant. *)
LEMMA WorkloadStep ==
  ASSUME Start!WorkloadConstants, Start!WorkloadInv, [Start!Next]_Start!vars
  PROVE  Start!WorkloadInv'
<1>1. CASE UNCHANGED Start!vars
  BY <1>1 DEF Start!vars, Start!pipeVars, Start!childVars, Start!flagVars, Start!perfVars,
     Start!historyVars, Start!WorkloadInv, Start!TypeOK,
              Start!PhasesOK, Start!HeldBack, Start!SignalsTrue, Start!FailuresKept,
              Start!KillsChild, Start!Preparing, Start!Leaving, Start!PerfGone
<1>2. CASE Start!Child
  BY <1>2, ChildSettlesInv, ChildCancelledInv, ChildToldInv, ChildExecsInv, ChildExecFailsInv,
     ChildExitsInv, ChildKilledInv DEF Start!Child
<1>3. CASE Start!Perf
  BY <1>3, ForkInv, ForkFailsInv, CloseReadyPipeInv, WaitForChildInv, RecordSetupFailsInv,
     StatSetupFailsInv, perf_evlist__start_workloadInv, LeaveLoopInv, OutChildInv, KillWorkloadInv,
     CheckChildPidInv, KillChildPidInv, sig_atexitInv, EndAtexitInv, WaitInv, ExitInv, EndInv,
     HandleInv DEF Start!Perf
<1>4. CASE Start!Sigint
  BY <1>4, StartSigintInv
<1>5. CASE Start!Crash
  BY <1>5, CrashInv
<1> QED
  BY <1>1, <1>2, <1>3, <1>4, <1>5 DEF Start!Next, Start!Finished

(* For perf record and perf stat, with -I and without, with SIGINT and kill  *)
(* at any moment: the workload runs only if perf let it, an exec that failed *)
(* is reported, and SIGTERM is sent to nobody but the workload, in perf stat *)
(* unless the user interrupts it.                                            *)
THEOREM StartIsSafe ==
  ASSUME Start!WorkloadConstants
  PROVE  Start!Spec => []Start!WorkloadSafe
<1>1. Start!Init => Start!WorkloadInv
  BY WorkloadInitInv
<1>2. Start!WorkloadInv /\ [Start!Next]_Start!vars => Start!WorkloadInv'
  BY WorkloadStep
<1>3. Start!WorkloadInv => Start!WorkloadSafe
  BY DEF Start!WorkloadInv, Start!WorkloadSafe, Start!RunsOnlyIfStarted, Start!FailedExecReported,
     Start!NoRandomKill, Start!HeldBack,
         Start!FailuresKept, Start!KillsChild, Start!Leaving
<1> QED
  BY <1>1, <1>2, <1>3, PTL DEF Start!Spec

-----------------------------------------------------------------------------
(* trace__run() *)

(* The step Event keeps the invariant. *)
LEMMA EventInv ==
  ASSUME Trace!TraceLoopConstants, Trace!TraceInv, NEW m \in Trace!Mmaps, Trace!Event(m)
  PROVE  Trace!TraceInv'
<1> USE DEF Trace!TraceLoopConstants, Trace!TraceInv, Trace!Event, Trace!target, Trace!loop,
            Trace!Mmaps, Trace!Hup
<1>1. Trace!TypeOK'
  BY DEF Trace!TypeOK
<1>2. Trace!DueIsUnread'
  BY DEF Trace!TypeOK, Trace!DueIsUnread
<1>3. Trace!DrainsAtEnd'
  BY DEF Trace!TypeOK, Trace!DrainsAtEnd
<1>4. Trace!PassIsClean'
  BY DEF Trace!TypeOK, Trace!DueIsUnread, Trace!DrainsAtEnd, Trace!PassIsClean, Trace!Passed
<1>5. Trace!NothingUnread'
  BY DEF Trace!TypeOK, Trace!DueIsUnread, Trace!PassIsClean, Trace!Passed, Trace!NothingUnread,
     Trace!Total
<1> QED
  BY <1>1, <1>2, <1>3, <1>4, <1>5

(* The step Daemon keeps the invariant. *)
LEMMA DaemonInv ==
  ASSUME Trace!TraceLoopConstants, Trace!TraceInv, Trace!Daemon
  PROVE  Trace!TraceInv'
<1> USE DEF Trace!TraceLoopConstants, Trace!TraceInv, Trace!Daemon, Trace!target, Trace!loop,
            Trace!Mmaps, Trace!Hup
<1>1. Trace!TypeOK'
  BY DEF Trace!TypeOK
<1>2. Trace!DueIsUnread'
  BY DEF Trace!TypeOK, Trace!DueIsUnread
<1>3. Trace!DrainsAtEnd'
  BY DEF Trace!TypeOK, Trace!DrainsAtEnd
<1>4. Trace!PassIsClean'
  BY DEF Trace!TypeOK, Trace!DueIsUnread, Trace!DrainsAtEnd, Trace!PassIsClean, Trace!Passed
<1>5. Trace!NothingUnread'
  BY DEF Trace!TypeOK, Trace!DueIsUnread, Trace!PassIsClean, Trace!Passed, Trace!NothingUnread,
     Trace!Total
<1> QED
  BY <1>1, <1>2, <1>3, <1>4, <1>5

(* The step DaemonExit keeps the invariant. *)
LEMMA DaemonExitInv ==
  ASSUME Trace!TraceLoopConstants, Trace!TraceInv, Trace!DaemonExit
  PROVE  Trace!TraceInv'
<1> USE DEF Trace!TraceLoopConstants, Trace!TraceInv, Trace!DaemonExit, Trace!target, Trace!loop,
            Trace!Mmaps, Trace!Hup
<1>1. Trace!TypeOK'
  BY DEF Trace!TypeOK
<1>2. Trace!DueIsUnread'
  BY DEF Trace!TypeOK, Trace!DueIsUnread
<1>3. Trace!DrainsAtEnd'
  BY DEF Trace!TypeOK, Trace!DrainsAtEnd
<1>4. Trace!PassIsClean'
  BY DEF Trace!TypeOK, Trace!DueIsUnread, Trace!DrainsAtEnd, Trace!PassIsClean, Trace!Passed
<1>5. Trace!NothingUnread'
  BY DEF Trace!TypeOK, Trace!DueIsUnread, Trace!PassIsClean, Trace!Passed, Trace!NothingUnread,
     Trace!Total
<1> QED
  BY <1>1, <1>2, <1>3, <1>4, <1>5

(* The step WorkloadExit keeps the invariant. *)
LEMMA WorkloadExitInv ==
  ASSUME Trace!TraceLoopConstants, Trace!TraceInv, Trace!WorkloadExit
  PROVE  Trace!TraceInv'
<1> USE DEF Trace!TraceLoopConstants, Trace!TraceInv, Trace!WorkloadExit, Trace!target, Trace!loop,
            Trace!Mmaps, Trace!Hup
<1>1. Trace!TypeOK'
  BY DEF Trace!TypeOK
<1>2. Trace!DueIsUnread'
  BY DEF Trace!TypeOK, Trace!DueIsUnread
<1>3. Trace!DrainsAtEnd'
  BY DEF Trace!TypeOK, Trace!DrainsAtEnd
<1>4. Trace!PassIsClean'
  BY DEF Trace!TypeOK, Trace!DueIsUnread, Trace!DrainsAtEnd, Trace!PassIsClean, Trace!Passed
<1>5. Trace!NothingUnread'
  BY DEF Trace!TypeOK, Trace!DueIsUnread, Trace!PassIsClean, Trace!Passed, Trace!NothingUnread,
     Trace!Total
<1> QED
  BY <1>1, <1>2, <1>3, <1>4, <1>5

(* The step Sigchld keeps the invariant. *)
LEMMA SigchldInv ==
  ASSUME Trace!TraceLoopConstants, Trace!TraceInv, Trace!Sigchld
  PROVE  Trace!TraceInv'
<1> USE DEF Trace!TraceLoopConstants, Trace!TraceInv, Trace!Sigchld, Trace!sig_handler, Trace!Ready,
            Trace!Total, Trace!target, Trace!loop, Trace!Mmaps, Trace!Hup
<1>1. Trace!TypeOK'
  BY DEF Trace!TypeOK
<1>2. Trace!DueIsUnread'
  BY DEF Trace!TypeOK, Trace!DueIsUnread
<1>3. Trace!DrainsAtEnd'
  BY DEF Trace!TypeOK, Trace!DrainsAtEnd
<1>4. Trace!PassIsClean'
  BY DEF Trace!TypeOK, Trace!DueIsUnread, Trace!DrainsAtEnd, Trace!PassIsClean, Trace!Passed
<1>5. Trace!NothingUnread'
  BY DEF Trace!TypeOK, Trace!DueIsUnread, Trace!PassIsClean, Trace!Passed, Trace!NothingUnread,
     Trace!Total
<1> QED
  BY <1>1, <1>2, <1>3, <1>4, <1>5

(* The step Sigint keeps the invariant. *)
LEMMA TraceSigintInv ==
  ASSUME Trace!TraceLoopConstants, Trace!TraceInv, Trace!Sigint
  PROVE  Trace!TraceInv'
<1> USE DEF Trace!TraceLoopConstants, Trace!TraceInv, Trace!Sigint, Trace!sig_handler, Trace!Ready,
            Trace!Total, Trace!target, Trace!loop, Trace!Mmaps, Trace!Hup
<1>1. Trace!TypeOK'
  BY DEF Trace!TypeOK
<1>2. Trace!DueIsUnread'
  BY DEF Trace!TypeOK, Trace!DueIsUnread
<1>3. Trace!DrainsAtEnd'
  BY DEF Trace!TypeOK, Trace!DrainsAtEnd
<1>4. Trace!PassIsClean'
  BY DEF Trace!TypeOK, Trace!DueIsUnread, Trace!DrainsAtEnd, Trace!PassIsClean, Trace!Passed
<1>5. Trace!NothingUnread'
  BY DEF Trace!TypeOK, Trace!DueIsUnread, Trace!PassIsClean, Trace!Passed, Trace!NothingUnread,
     Trace!Total
<1> QED
  BY <1>1, <1>2, <1>3, <1>4, <1>5

(* The step ReadEvent keeps the invariant. *)
LEMMA ReadEventInv ==
  ASSUME Trace!TraceLoopConstants, Trace!TraceInv, Trace!ReadEvent
  PROVE  Trace!TraceInv'
<1> USE DEF Trace!TraceLoopConstants, Trace!TraceInv, Trace!ReadEvent, Trace!target, Trace!loop,
            Trace!Mmaps, Trace!Hup
<1>1. Trace!TypeOK'
  <2>1. unread' \in [Trace!Mmaps -> 0..Cap] /\ due' \in [Trace!Mmaps -> 0..Cap]
        /\ mmap' \in Trace!Mmaps
    BY SMTT(30) DEF Trace!TypeOK
  <2>2. {enabled, trace_done, trace_interrupted, trace_new, forever, fds,
        draining}' \subseteq BOOLEAN
    BY DEF Trace!TypeOK
  <2>3. trace_pc' \in {"read", "out"} /\ workload' = workload /\ others' = others
    BY DEF Trace!TypeOK
  <2> QED
    BY <2>1, <2>2, <2>3 DEF Trace!TypeOK
<1>2. Trace!DueIsUnread'
  BY DEF Trace!TypeOK, Trace!DueIsUnread
<1>3. Trace!DrainsAtEnd'
  BY DEF Trace!TypeOK, Trace!DrainsAtEnd
<1>4. Trace!PassIsClean'
  BY DEF Trace!TypeOK, Trace!DueIsUnread, Trace!DrainsAtEnd, Trace!PassIsClean, Trace!Passed
<1>5. Trace!NothingUnread'
  BY DEF Trace!TypeOK, Trace!DueIsUnread, Trace!PassIsClean, Trace!Passed, Trace!NothingUnread,
     Trace!Total
<1> QED
  BY <1>1, <1>2, <1>3, <1>4, <1>5

(* The step NextMmap keeps the invariant. *)
LEMMA NextMmapInv ==
  ASSUME Trace!TraceLoopConstants, Trace!TraceInv, Trace!NextMmap
  PROVE  Trace!TraceInv'
<1> USE DEF Trace!TraceLoopConstants, Trace!TraceInv, Trace!NextMmap, Trace!target, Trace!loop,
            Trace!Mmaps, Trace!Hup
<1>1. Trace!TypeOK'
  BY DEF Trace!TypeOK
<1>2. Trace!DueIsUnread'
  BY DEF Trace!TypeOK, Trace!DueIsUnread
<1>3. Trace!DrainsAtEnd'
  BY DEF Trace!TypeOK, Trace!DrainsAtEnd
<1>4. Trace!PassIsClean'
  BY DEF Trace!TypeOK, Trace!DueIsUnread, Trace!DrainsAtEnd, Trace!PassIsClean, Trace!Passed
<1>5. Trace!NothingUnread'
  BY DEF Trace!TypeOK, Trace!DueIsUnread, Trace!PassIsClean, Trace!Passed, Trace!NothingUnread,
     Trace!Total
<1> QED
  BY <1>1, <1>2, <1>3, <1>4, <1>5

(* The step Check keeps the invariant. *)
LEMMA CheckInv ==
  ASSUME Trace!TraceLoopConstants, Trace!TraceInv, Trace!Check
  PROVE  Trace!TraceInv'
<1> USE DEF Trace!TraceLoopConstants, Trace!TraceInv, Trace!Check, Trace!target, Trace!loop,
            Trace!Mmaps, Trace!Hup
<1>1. Trace!TypeOK'
  BY DEF Trace!TypeOK
<1>2. Trace!DueIsUnread'
  BY DEF Trace!TypeOK, Trace!DueIsUnread
<1>3. Trace!DrainsAtEnd'
  BY DEF Trace!TypeOK, Trace!DrainsAtEnd
<1>4. Trace!PassIsClean'
  BY DEF Trace!TypeOK, Trace!DueIsUnread, Trace!DrainsAtEnd, Trace!PassIsClean, Trace!Passed
<1>5. Trace!NothingUnread'
  BY DEF Trace!TypeOK, Trace!DueIsUnread, Trace!PassIsClean, Trace!Passed, Trace!NothingUnread,
     Trace!Total
<1> QED
  BY <1>1, <1>2, <1>3, <1>4, <1>5

(* The step PollEnter keeps the invariant. *)
LEMMA PollEnterInv ==
  ASSUME Trace!TraceLoopConstants, Trace!TraceInv, Trace!PollEnter
  PROVE  Trace!TraceInv'
<1> USE DEF Trace!TraceLoopConstants, Trace!TraceInv, Trace!PollEnter, Trace!target, Trace!loop,
            Trace!Mmaps, Trace!Hup
<1>1. Trace!TypeOK'
  BY DEF Trace!TypeOK
<1>2. Trace!DueIsUnread'
  BY DEF Trace!TypeOK, Trace!DueIsUnread
<1>3. Trace!DrainsAtEnd'
  BY DEF Trace!TypeOK, Trace!DrainsAtEnd
<1>4. Trace!PassIsClean'
  BY DEF Trace!TypeOK, Trace!DueIsUnread, Trace!DrainsAtEnd, Trace!PassIsClean, Trace!Passed
<1>5. Trace!NothingUnread'
  BY DEF Trace!TypeOK, Trace!DueIsUnread, Trace!PassIsClean, Trace!Passed, Trace!NothingUnread,
     Trace!Total
<1> QED
  BY <1>1, <1>2, <1>3, <1>4, <1>5

(* The step PollReady keeps the invariant. *)
LEMMA PollReadyInv ==
  ASSUME Trace!TraceLoopConstants, Trace!TraceInv, Trace!PollReady
  PROVE  Trace!TraceInv'
<1> USE DEF Trace!TraceLoopConstants, Trace!TraceInv, Trace!PollReady, Trace!Ready, Trace!target,
            Trace!loop, Trace!Mmaps, Trace!Hup
<1>1. Trace!TypeOK'
  BY DEF Trace!TypeOK
<1>2. Trace!DueIsUnread'
  BY DEF Trace!TypeOK, Trace!DueIsUnread
<1>3. Trace!DrainsAtEnd'
  BY DEF Trace!TypeOK, Trace!DrainsAtEnd
<1>4. Trace!PassIsClean'
  BY DEF Trace!TypeOK, Trace!DueIsUnread, Trace!DrainsAtEnd, Trace!PassIsClean, Trace!Passed
<1>5. Trace!NothingUnread'
  BY DEF Trace!TypeOK, Trace!DueIsUnread, Trace!PassIsClean, Trace!Passed, Trace!NothingUnread,
     Trace!Total
<1> QED
  BY <1>1, <1>2, <1>3, <1>4, <1>5

(* The step PollTimeout keeps the invariant. *)
LEMMA PollTimeoutInv ==
  ASSUME Trace!TraceLoopConstants, Trace!TraceInv, Trace!PollTimeout
  PROVE  Trace!TraceInv'
<1> USE DEF Trace!TraceLoopConstants, Trace!TraceInv, Trace!PollTimeout, Trace!Ready, Trace!Total,
            Trace!target, Trace!loop, Trace!Mmaps, Trace!Hup
<1>1. Trace!TypeOK'
  BY DEF Trace!TypeOK
<1>2. Trace!DueIsUnread'
  BY DEF Trace!TypeOK, Trace!DueIsUnread
<1>3. Trace!DrainsAtEnd'
  BY DEF Trace!TypeOK, Trace!DrainsAtEnd
<1>4. Trace!PassIsClean'
  BY DEF Trace!TypeOK, Trace!DueIsUnread, Trace!DrainsAtEnd, Trace!PassIsClean, Trace!Passed
<1>5. Trace!NothingUnread'
  BY DEF Trace!TypeOK, Trace!DueIsUnread, Trace!PassIsClean, Trace!Passed, Trace!NothingUnread,
     Trace!Total
<1> QED
  BY <1>1, <1>2, <1>3, <1>4, <1>5

(* At first no pass over the buffers has been made. *)
LEMMA TraceInitInv ==
  ASSUME Trace!TraceLoopConstants, Trace!Init
  PROVE  Trace!TraceInv
<1> USE DEF Trace!TraceLoopConstants, Trace!Init, Trace!Mmaps
<1>1. Trace!TypeOK
  <2>1. unread \in [Trace!Mmaps -> 0..Cap] /\ due \in [Trace!Mmaps -> 0..Cap]
        /\ mmap \in Trace!Mmaps
    OBVIOUS
  <2>2. {enabled, trace_done, trace_interrupted, trace_new, forever, fds,
        draining} \subseteq BOOLEAN
    OBVIOUS
  <2> QED
    BY <2>1, <2>2 DEF Trace!TypeOK
<1>2. Trace!DueIsUnread /\ Trace!DrainsAtEnd
  BY DEF Trace!DueIsUnread, Trace!DrainsAtEnd
<1>3. Trace!PassIsClean /\ Trace!NothingUnread
  BY DEF Trace!PassIsClean, Trace!NothingUnread
<1> QED
  BY <1>1, <1>2, <1>3 DEF Trace!TraceInv

(* Every step keeps the invariant. *)
LEMMA TraceStep ==
  ASSUME Trace!TraceLoopConstants, Trace!TraceInv, [Trace!Next]_Trace!vars
  PROVE  Trace!TraceInv'
<1>1. CASE UNCHANGED Trace!vars
  BY <1>1 DEF Trace!vars, Trace!TraceInv, Trace!TypeOK, Trace!DueIsUnread, Trace!DrainsAtEnd,
     Trace!PassIsClean, Trace!Passed, Trace!NothingUnread,
              Trace!Total, Trace!Hup
<1> QED
  BY <1>1, EventInv, DaemonInv, DaemonExitInv, WorkloadExitInv, SigchldInv, TraceSigintInv,
     ReadEventInv,
     NextMmapInv, CheckInv, PollEnterInv, PollReadyInv, PollTimeoutInv DEF Trace!Next, Trace!Loop

(* For any number of ring buffers of any size: when perf trace leaves its    *)
(* loop by itself, no buffer has an event from before the end of its target. *)
THEOREM TraceShowsAll ==
  ASSUME Trace!TraceLoopConstants
  PROVE  Trace!Spec => [](Trace!TypeOK /\ Trace!NothingUnread)
<1>1. Trace!Init => Trace!TraceInv
  BY TraceInitInv
<1>2. Trace!TraceInv /\ [Trace!Next]_Trace!vars => Trace!TraceInv'
  BY TraceStep
<1>3. Trace!TraceInv => Trace!TypeOK /\ Trace!NothingUnread
  BY DEF Trace!TraceInv
<1> QED
  BY <1>1, <1>2, <1>3, PTL DEF Trace!Spec

-----------------------------------------------------------------------------
(* Together *)

(* For any events, CPUs, limits and kernels, and any descriptors and ring    *)
(* buffers: what DescriptorsKept says of perf_event_open() and of the poll   *)
(* array.                                                                    *)
THEOREM DescriptorsAreKept == Open!Spec /\ Poll!Spec => []DescriptorsKept
<1>1. Open!Spec => []Open!DescriptorsKept
  BY OpenedIsKept, ProgramsAssumption
<1>2. Poll!Spec => [](Poll!KeptInSynch /\ Poll!OneReferencePerEntry)
  BY PollArrayCounted, ProgramsAssumption
<1>3. Open!DescriptorsKept /\ Poll!KeptInSynch /\ Poll!OneReferencePerEntry => DescriptorsKept
  BY DEF DescriptorsKept
<1> QED
  BY <1>1, <1>2, <1>3, PTL

(* The poll array implements the list an evlist expects: what is added is    *)
(* behind the rest with its ring buffer, and only dead descriptors leave.    *)
THEOREM PollArrayIsList == Poll!Spec => PollListSpec
BY ArrayIsList, ProgramsAssumption DEF PollListSpec

(* Whatever signals come and whoever is killed, and for any number of ring   *)
(* buffers of any size: what WorkloadSafe says of the workload of perf       *)
(* record and perf stat and of the loop of perf trace.                       *)
THEOREM WorkloadIsSafe == Start!Spec /\ Trace!Spec => []WorkloadSafe
<1>1. Start!Spec => []Start!WorkloadSafe
  BY StartIsSafe, ProgramsAssumption
<1>2. Trace!Spec => [](Trace!TypeOK /\ Trace!NothingUnread)
  BY TraceShowsAll, ProgramsAssumption
<1>3. Start!WorkloadSafe /\ Trace!TypeOK /\ Trace!NothingUnread => WorkloadSafe
  BY DEF WorkloadSafe
<1> QED
  BY <1>1, <1>2, <1>3, PTL
=============================================================================
