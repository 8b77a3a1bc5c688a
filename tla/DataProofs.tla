----------------------------- MODULE DataProofs -----------------------------
(***************************************************************************)
(* The stores of data: the auxtrace_cache (AuxCache) for every limit, the  *)
(* data of DSOs (DsoData) for any number of threads, DSOs and reads, the   *)
(* histogram of perf top (HistsTop) for any keys and any number of         *)
(* samples, and perf kvm stat live (KvmLive) for any number of buffers.    *)
(***************************************************************************)
EXTENDS AuxCache, Stores, Integers, FiniteSetTheorems, TLAPS

-----------------------------------------------------------------------------
(* auxtrace_cache *)

(* auxtrace_cache__add() keeps a cache a cache. *)
LEMMA AddType ==
  ASSUME NEW c \in [entries : Seq(Entry), cnt : Nat], NEW entry \in Entry
  PROVE  auxtrace_cache__add(c, entry) \in [entries : Seq(Entry), cnt : Nat]
<1>1. auxtrace_cache__drop(c) \in [entries : Seq(Entry), cnt : Nat]
  <2>1. << >> \in Seq(Entry)
    OBVIOUS
  <2> QED BY <2>1 DEF auxtrace_cache__drop
<1>2. [c EXCEPT !.cnt = @ + 1] \in [entries : Seq(Entry), cnt : Nat]
  OBVIOUS
<1>3. ASSUME NEW d \in [entries : Seq(Entry), cnt : Nat]
      PROVE  [d EXCEPT !.entries = <<entry>> \o @] \in [entries : Seq(Entry), cnt : Nat]
  <2>1. <<entry>> \o d.entries \in Seq(Entry)
    OBVIOUS
  <2> QED BY <2>1
<1> QED BY <1>1, <1>2, <1>3 DEF auxtrace_cache__add

(* What auxtrace_cache__add() does to the number of entries and to cnt: one *)
(* more of both, or one entry and a count of zero.                          *)
LEMMA AddLength ==
  ASSUME NEW c \in [entries : Seq(Entry), cnt : Nat], NEW entry \in Entry, limit # 0
  PROVE  LET d == auxtrace_cache__add(c, entry)
         IN \/ /\ c.cnt + 1 <= limit
               /\ d.cnt = c.cnt + 1
               /\ Len(d.entries) = Len(c.entries) + 1
            \/ d.cnt = 0 /\ Len(d.entries) = 1
<1> DEFINE d == auxtrace_cache__add(c, entry)
<1>1. CASE c.cnt + 1 > limit
  <2>1. d = [auxtrace_cache__drop(c) EXCEPT !.entries = <<entry>> \o @]
    BY <1>1 DEF auxtrace_cache__add
  <2>2. d.cnt = 0 /\ d.entries = <<entry>> \o << >>
    BY <2>1 DEF auxtrace_cache__drop
  <2>3. Len(<<entry>> \o << >>) = 1
    OBVIOUS
  <2> QED BY <2>2, <2>3
<1>2. CASE c.cnt + 1 <= limit
  <2>1. d = [[c EXCEPT !.cnt = @ + 1] EXCEPT !.entries = <<entry>> \o @]
    <3> DEFINE counted == [c EXCEPT !.cnt = @ + 1]
    <3>1. counted.cnt = c.cnt + 1
      OBVIOUS
    <3>2. ~(counted.cnt > limit)
      BY <1>2, <3>1, LimitAssumption
    <3> QED BY <3>2 DEF auxtrace_cache__add
  <2>2. d.cnt = c.cnt + 1 /\ d.entries = <<entry>> \o c.entries
    BY <2>1
  <2>3. Len(<<entry>> \o c.entries) = Len(c.entries) + 1
    OBVIOUS
  <2> QED BY <1>2, <2>2, <2>3
<1> QED BY <1>1, <1>2, LimitAssumption

(* The state of a cache has its type, whatever is added to it. *)
THEOREM CacheTypes == Spec => []TypeOK
<1>1. Init => TypeOK
  BY DEF Init, TypeOK, NewCache
<1>2. TypeOK /\ [Next]_cache => TypeOK'
  BY AddType DEF TypeOK, Next, Add
<1> QED BY <1>1, <1>2, PTL DEF Spec

(* cnt is at most the limit, and there is at most one entry more than cnt. *)
THEOREM CountBehind == Spec => []CountBehindByOne
<1>1. Init => CountBehindByOne
  BY LimitAssumption DEF Init, NewCache, CountBehindByOne
<1>2. TypeOK /\ CountBehindByOne /\ [Next]_cache => CountBehindByOne'
  <2> SUFFICES ASSUME TypeOK, CountBehindByOne, [Next]_cache, limit # 0
               PROVE  cache'.cnt <= limit /\ Len(cache'.entries) <= cache'.cnt + 1
    BY DEF CountBehindByOne
  <2>1. CASE UNCHANGED cache
    BY <2>1 DEF CountBehindByOne
  <2>2. ASSUME NEW entry \in Entry, Add(entry)
        PROVE  cache'.cnt <= limit /\ Len(cache'.entries) <= cache'.cnt + 1
    <3>1. cache \in [entries : Seq(Entry), cnt : Nat]
      BY DEF TypeOK
    <3>2. cache' = auxtrace_cache__add(cache, entry)
      BY <2>2 DEF Add
    <3>3. cache.cnt <= limit /\ Len(cache.entries) <= cache.cnt + 1
      BY DEF CountBehindByOne
    <3>4. Len(cache.entries) \in Nat /\ cache.cnt \in Nat
      BY <3>1
    <3>5. \/ /\ cache.cnt + 1 <= limit
             /\ cache'.cnt = cache.cnt + 1
             /\ Len(cache'.entries) = Len(cache.entries) + 1
          \/ cache'.cnt = 0 /\ Len(cache'.entries) = 1
      BY <3>1, <3>2, AddLength
    <3>6. ASSUME NEW n \in Nat, NEW k \in Nat, NEW n2, NEW k2, k <= limit, n <= k + 1,
                 (k + 1 <= limit /\ k2 = k + 1 /\ n2 = n + 1) \/ (k2 = 0 /\ n2 = 1)
          PROVE  k2 <= limit /\ n2 <= k2 + 1
      BY <3>6, LimitAssumption
    <3> QED BY <3>3, <3>4, <3>5, <3>6
  <2> QED BY <2>1, <2>2 DEF Next
<1> QED BY <1>1, <1>2, CacheTypes, PTL DEF Spec

(* A cache with a limit never holds more than one entry above it. *)
THEOREM Bounded == Spec => []CacheBounded
<1>1. TypeOK /\ CountBehindByOne => CacheBounded
  <2> SUFFICES ASSUME TypeOK, CountBehindByOne, limit # 0
               PROVE  Len(cache.entries) <= limit + 1
    BY DEF CacheBounded
  <2>1. Len(cache.entries) \in Nat /\ cache.cnt \in Nat
    BY DEF TypeOK
  <2> QED BY <2>1, LimitAssumption DEF CountBehindByOne
<1> QED BY <1>1, CacheTypes, CountBehind, PTL

-----------------------------------------------------------------------------
(* The data of DSOs *)

(* The same cardinality *)
LEMMA DsoCounts ==
  ASSUME NEW S
  PROVE  Dso!Cardinality(S) = Cardinality(S)
BY DEF Dso!Cardinality, Cardinality

(* An offset is in its chunk, and in no other. *)
LEMMA ChunkBounds ==
  ASSUME Dso!DsoConstants, NEW o \in Nat
  PROVE  Dso!Chunk(o) \in Nat /\ Dso!Chunk(o) <= o /\ o < Dso!Chunk(o) + ChunkSize
<1> DEFINE q == o \div ChunkSize
<1> DEFINE r == o % ChunkSize
<1>0. ChunkSize \in Nat /\ ChunkSize > 0
  BY DEF Dso!DsoConstants
<1>1. r \in 0 .. ChunkSize - 1 /\ q \in Nat /\ o = ChunkSize * q + r
  BY <1>0
<1>2. Dso!Chunk(o) = ChunkSize * q
  BY DEF Dso!Chunk
<1> HIDE DEF q, r
<1>3. ChunkSize * q \in Nat
  BY <1>0, <1>1
<1> QED
  BY <1>0, <1>1, <1>2, <1>3

(* Between -n and n there is no multiple of n but 0. *)
LEMMA NoMultipleBetween ==
  ASSUME NEW n \in Nat, NEW z \in Int, z * n < n, -n < z * n
  PROVE  z = 0
<1>1. CASE z >= 1
  <2>1. (z - 1) * n >= 0
    BY <1>1
  <2> QED
    BY <2>1
<1>2. CASE z <= -1
  <2>1. (-1 - z) * n >= 0
    BY <1>2
  <2> QED
    BY <2>1
<1> QED
  BY <1>1, <1>2

(* What is between the ends of a chunk is in that chunk. *)
LEMMA ChunkUnique ==
  ASSUME Dso!DsoConstants, NEW o \in Nat, NEW p \in Nat, Dso!Chunk(o) <= p,
         p < Dso!Chunk(o) + ChunkSize
  PROVE  Dso!Chunk(p) = Dso!Chunk(o)
<1> DEFINE q == o \div ChunkSize
<1> DEFINE u == p \div ChunkSize
<1>0. ChunkSize \in Nat /\ ChunkSize > 0
  BY DEF Dso!DsoConstants
<1>1. q \in Int /\ u \in Int
  BY <1>0
<1>2. Dso!Chunk(o) = ChunkSize * q /\ Dso!Chunk(p) = ChunkSize * u
  BY DEF Dso!Chunk
<1>3. Dso!Chunk(p) \in Nat /\ Dso!Chunk(p) <= p /\ p < Dso!Chunk(p) + ChunkSize
      /\ Dso!Chunk(o) \in Nat
  BY ChunkBounds
<1> HIDE DEF q, u
<1>4. (u - q) * ChunkSize = Dso!Chunk(p) - Dso!Chunk(o)
  BY <1>0, <1>1, <1>2
<1>5. (u - q) * ChunkSize < ChunkSize /\ -ChunkSize < (u - q) * ChunkSize
  BY <1>0, <1>3, <1>4
<1>6. u - q = 0
  BY <1>0, <1>1, <1>5, NoMultipleBetween
<1> QED
  BY <1>1, <1>2, <1>6

(* The chunk behind a whole one begins at its end. *)
LEMMA ChunkNext ==
  ASSUME Dso!DsoConstants, NEW o \in Nat
  PROVE  Dso!Chunk(Dso!Chunk(o) + ChunkSize) = Dso!Chunk(o) + ChunkSize
<1> DEFINE q == o \div ChunkSize
<1>0. ChunkSize \in Nat /\ ChunkSize > 0 /\ q \in Nat
  BY DEF Dso!DsoConstants
<1> DEFINE p == Dso!Chunk(o) + ChunkSize
<1> DEFINE u == p \div ChunkSize
<1>1. Dso!Chunk(o) = ChunkSize * q /\ Dso!Chunk(o) \in Nat /\ p \in Nat
  BY <1>0, ChunkBounds DEF Dso!Chunk
<1>2. p = ChunkSize * (q + 1)
  BY <1>0, <1>1
<1>3. Dso!Chunk(p) \in Nat /\ Dso!Chunk(p) <= p /\ p < Dso!Chunk(p) + ChunkSize
  BY <1>1, ChunkBounds
<1>4. Dso!Chunk(p) = ChunkSize * u /\ u \in Int
  BY <1>0, <1>1 DEF Dso!Chunk
<1> HIDE DEF p, q, u
<1>5. (u - (q + 1)) * ChunkSize = Dso!Chunk(p) - p
  BY <1>0, <1>2, <1>4
<1>6. u - (q + 1) = 0
  BY <1>0, <1>1, <1>3, <1>4, <1>5, NoMultipleBetween
<1>7. Dso!Chunk(p) = p
  BY <1>0, <1>2, <1>4, <1>6
<1> QED
  BY <1>7 DEF p

(* The list is the open DSOs: as many as it is long. *)
LEMMA NrOpenIsLen ==
  ASSUME NEW g, Dso!DataOK(g)
  PROVE  Dso!NrOpen(g) = Len(g.list) /\ Len(g.list) \in Nat
<1> DEFINE S == {d \in Dsos : g.fd[d]}
<1> DEFINE f == g.list
<1>1. f \in Seq(Dsos) /\ Len(f) \in Nat
  BY DEF Dso!DataOK, Dso!DataType
<1>2. /\ \A d \in Dsos : d \in S <=> \E i \in 1 .. Len(f) : f[i] = d
      /\ \A i, j \in 1 .. Len(f) : f[i] = f[j] => i = j
  BY DEF Dso!DataOK, Dso!ListsOpen
<1>3. f \in [1 .. Len(f) -> Dsos]
  BY <1>1
<1>4. S \subseteq Dsos
  OBVIOUS
<1> HIDE DEF S, f
<1>5. f \in Bijection(1 .. Len(f), S)
  <2>1. f \in [1 .. Len(f) -> S]
    BY <1>2, <1>3
  <2>2. \A d \in S : \E i \in 1 .. Len(f) : f[i] = d
    BY <1>2, <1>4
  <2> QED
    BY <2>1, <2>2, <1>2 DEF Bijection, Injection, Surjection, IsInjective
<1>6. Cardinality(S) = Len(f)
  <2>1. ExistsBijection(1 .. Len(f), S)
    BY <1>5 DEF ExistsBijection
  <2> QED
    BY <2>1, <1>1, FS_CountingElements
<1> QED
  BY <1>1, <1>6, DsoCounts DEF Dso!NrOpen, S, f

(* Closing takes a DSO out of the list and keeps the rest. *)
LEMMA CloseDso ==
  ASSUME Dso!DsoConstants, NEW g, Dso!DataOK(g), NEW d \in Dsos
  PROVE  Dso!DataOK(Dso!close_dso(g, d))
<1>1. CASE ~g.fd[d]
  BY <1>1 DEF Dso!close_dso
<1>2. CASE g.fd[d]
  <2> DEFINE h == [g EXCEPT !.fd[d] = FALSE, !.file_size[d] = 0, !.list = Dso!Without(@, d)]
  <2> DEFINE n == Len(g.list)
  <2>0. Dso!close_dso(g, d) = h
    BY <1>2 DEF Dso!close_dso
  <2>1. /\ g.list \in Seq(Dsos) /\ g.fd \in [Dsos -> BOOLEAN] /\ g.file_size \in [Dsos -> Nat]
        /\ g.status \in [Dsos -> {"UNKNOWN", "OK", "ERROR"}]
        /\ g \in Dso!DataType
    BY DEF Dso!DataOK, Dso!DataType
  <2>2. /\ h.fd = [g.fd EXCEPT ![d] = FALSE] /\ h.file_size = [g.file_size EXCEPT ![d] = 0]
        /\ h.list = Dso!Without(g.list, d) /\ h.status = g.status
        /\ h.list \in Seq(Dsos) =>
             h \in Dso!DataType
    <3>1. /\ h.fd = [g.fd EXCEPT ![d] = FALSE] /\ h.file_size = [g.file_size EXCEPT ![d] = 0]
          /\ h.status = g.status
      BY <2>1
    <3>2. h.list = Dso!Without(g.list, d)
      BY <2>1
    <3>3. Dso!Without(g.list, d) \in Seq(Dsos) =>
             h \in Dso!DataType
      BY <2>1 DEF Dso!DataType
    <3> QED
      BY <3>1, <3>2, <3>3
  <2>3. PICK k \in 1 .. n : /\ g.list[k] = d
                            /\ h.list = [j \in 1 .. n - 1 |-> IF j < k THEN g.list[j]
                               ELSE g.list[j + 1]]
    <3>1. \E k \in 1 .. n : g.list[k] = d
      BY <1>2 DEF Dso!DataOK, Dso!ListsOpen
    <3> DEFINE k0 == CHOOSE i \in 1 .. Len(g.list) : g.list[i] = d
    <3>2. k0 \in 1 .. n /\ g.list[k0] = d
      BY <3>1
    <3>3. Dso!Without(g.list, d) =
            [j \in 1 .. n - 1 |-> IF j < k0 THEN g.list[j] ELSE g.list[j + 1]]
      BY DEF Dso!Without
    <3> HIDE DEF k0, h, n
    <3> QED
      BY <3>2, <3>3, <2>2
  <2>4. /\ \A i, j \in 1 .. n : g.list[i] = g.list[j] => i = j
        /\ \A e \in Dsos : g.fd[e] <=> \E i \in 1 .. n : g.list[i] = e
    BY DEF Dso!DataOK, Dso!ListsOpen
  <2>5. n \in Nat /\ \A j \in 1 .. n : g.list[j] \in Dsos
    BY <2>1
  <2> HIDE DEF h, n
  <2>6. h.list \in Seq(Dsos) /\ Len(h.list) = n - 1
    <3>1. n - 1 \in Nat
      BY <2>3, <2>5
    <3>2. \A j \in 1 .. n - 1 : (IF j < k THEN g.list[j] ELSE g.list[j + 1]) \in Dsos
      BY <2>3, <2>5
    <3> QED
      BY <3>1, <3>2, <2>3
  <2>7. Dso!ListsOpen(h)
    <3>1. ASSUME NEW e \in Dsos PROVE h.fd[e] <=> \E i \in 1 .. Len(h.list) : h.list[i] = e
      <4>1. CASE e = d
        <5>1. ~h.fd[e]
          BY <4>1, <2>1, <2>2
        <5>2. ASSUME NEW i \in 1 .. n - 1 PROVE h.list[i] # d
          BY <2>3, <2>4, <2>5
        <5> QED
          BY <4>1, <5>1, <5>2, <2>6
      <4>2. CASE e # d
        <5>1. h.fd[e] <=> g.fd[e]
          BY <4>2, <2>1, <2>2
        <5>2. ASSUME NEW i \in 1 .. n, g.list[i] = e
              PROVE  \E j \in 1 .. n - 1 : h.list[j] = e
          <6>1. i # k
            BY <5>2, <4>2, <2>3
          <6>2. CASE i < k
            <7>1. i \in 1 .. n - 1 /\ h.list[i] = g.list[i]
              BY <6>2, <2>3, <2>5
            <7> QED
              BY <7>1, <5>2
          <6>3. CASE i > k
            <7>1. i - 1 \in 1 .. n - 1 /\ h.list[i - 1] = g.list[i]
              BY <6>3, <2>3, <2>5
            <7> QED
              BY <7>1, <5>2
          <6> QED
            BY <6>1, <6>2, <6>3, <2>5
        <5>3. ASSUME NEW j \in 1 .. n - 1, h.list[j] = e
              PROVE  \E i \in 1 .. n : g.list[i] = e
          <6>1. CASE j < k
            BY <6>1, <5>3, <2>3, <2>5
          <6>2. CASE j >= k
            <7>1. j + 1 \in 1 .. n /\ g.list[j + 1] = e
              BY <6>2, <5>3, <2>3, <2>5
            <7> QED
              BY <7>1
          <6> QED
            BY <6>1, <6>2, <2>3, <2>5
        <5> QED
          BY <5>1, <5>2, <5>3, <2>4, <2>6
      <4> QED
        BY <4>1, <4>2
    <3>2. ASSUME NEW i \in 1 .. n - 1, NEW j \in 1 .. n - 1, h.list[i] = h.list[j] PROVE i = j
      <4>1. PICK u \in 1 .. n : u = (IF i < k THEN i ELSE i + 1) /\ h.list[i] = g.list[u]
        BY <2>3, <2>5
      <4>2. PICK w \in 1 .. n : w = (IF j < k THEN j ELSE j + 1) /\ h.list[j] = g.list[w]
        BY <2>3, <2>5
      <4>3. g.list[u] = g.list[w]
        BY <4>1, <4>2, <3>2
      <4>4. u = w
        BY <4>3, <2>4
      <4> QED
        BY <4>1, <4>2, <4>4, <2>3, <2>5
    <3>3. ASSUME NEW e \in Dsos, h.file_size[e] # 0 PROVE h.fd[e]
      <4>1. e # d /\ h.file_size[e] = g.file_size[e] /\ h.fd[e] = g.fd[e]
        BY <3>3, <2>1, <2>2
      <4> QED
        BY <4>1, <3>3 DEF Dso!DataOK, Dso!ListsOpen
    <3> QED
      BY <3>1, <3>2, <3>3, <2>6 DEF Dso!ListsOpen
  <2>8. \A e \in Dsos : (h.fd[e] => g.fd[e]) /\ h.file_size[e] \in {0, g.file_size[e]}
    BY <2>1, <2>2
  <2>9. h.fd \in [Dsos -> BOOLEAN] /\ h.file_size \in [Dsos -> Nat]
    BY <2>1, <2>2
  <2>10. Len(h.list) < Dso!fd_limit \/ Len(h.list) <= 1
    <3>1. n < Dso!fd_limit \/ n <= 1
      BY DEF Dso!DataOK, n
    <3>2. Dso!fd_limit \in Nat
      BY DEF Dso!fd_limit, Dso!DsoConstants
    <3> QED
      BY <3>1, <3>2, <2>5, <2>6
  <2>11. Dso!DataOK(h)
    <3>1. h \in Dso!DataType
      BY <2>1, <2>2, <2>6, <2>9
    <3>2. \A e \in Dsos : /\ h.fd[e] => Size[e] >= 0
                          /\ h.file_size[e] \in {0, Size[e]}
      BY <2>8 DEF Dso!DataOK
    <3> QED
      BY <3>1, <3>2, <2>7, <2>10 DEF Dso!DataOK
  <2> QED
    BY <2>0, <2>11
<1> QED
  BY <1>1, <1>2

(* The types of the parts of the descriptors. *)
LEMMA DataFields ==
  ASSUME NEW g, g \in Dso!DataType
  PROVE  /\ g.list \in Seq(Dsos) /\ Len(g.list) \in Nat
         /\ g.fd \in [Dsos -> BOOLEAN] /\ g.file_size \in [Dsos -> Nat]
         /\ g.status \in [Dsos -> {"UNKNOWN", "OK", "ERROR"}]
BY DEF Dso!DataType

(* A file that was opened goes to the end of the list. *)
LEMMA Listed ==
  ASSUME Dso!DsoConstants, NEW g, Dso!DataOK(g), NEW d \in Dsos, ~g.fd[d], Size[d] >= 0,
         Len(g.list) + 1 < Dso!fd_limit \/ Len(g.list) = 0,
         NEW h \in Dso!DataType, h.list = Append(g.list, d), h.fd = [g.fd EXCEPT ![d] = TRUE],
         h.file_size = g.file_size
  PROVE  Dso!DataOK(h)
<1> DEFINE n == Len(g.list)
<1>1. /\ g.list \in Seq(Dsos) /\ n \in Nat /\ \A i \in 1 .. n : g.list[i] \in Dsos
      /\ g.fd \in [Dsos -> BOOLEAN]
  BY DataFields DEF Dso!DataOK
<1>2. /\ \A i, j \in 1 .. n : g.list[i] = g.list[j] => i = j
      /\ \A e \in Dsos : g.fd[e] <=> \E i \in 1 .. n : g.list[i] = e
      /\ \A e \in Dsos : g.file_size[e] # 0 => g.fd[e]
  BY DEF Dso!DataOK, Dso!ListsOpen
<1>3. /\ Len(h.list) = n + 1 /\ h.list[n + 1] = d
      /\ \A i \in 1 .. n : h.list[i] = g.list[i]
  BY <1>1
<1>4. \A e \in Dsos : h.fd[e] <=> g.fd[e] \/ e = d
  BY <1>1
<1> HIDE DEF n
<1>5. Dso!ListsOpen(h)
  <2>1. \A i \in 1 .. n + 1 : i \in 1 .. n \/ i = n + 1
    BY <1>1
  <2>2. n + 1 \in 1 .. n + 1 /\ \A i \in 1 .. n : i \in 1 .. n + 1
    BY <1>1
  <2>3. ASSUME NEW e \in Dsos PROVE h.fd[e] <=> \E i \in 1 .. Len(h.list) : h.list[i] = e
    BY <2>1, <2>2, <1>2, <1>3, <1>4
  <2>4. \A i \in 1 .. n : h.list[i] # d
    BY <1>2, <1>3
  <2>5. ASSUME NEW i \in 1 .. n + 1, NEW j \in 1 .. n + 1, h.list[i] = h.list[j] PROVE i = j
    BY <2>1, <2>4, <2>5, <1>2, <1>3
  <2> QED
    BY <2>3, <2>5, <1>2, <1>3, <1>4 DEF Dso!ListsOpen
<1>6. Len(h.list) < Dso!fd_limit \/ Len(h.list) <= 1
  BY <1>1, <1>3 DEF n
<1>7. \A e \in Dsos : (h.fd[e] => Size[e] >= 0) /\ h.file_size[e] \in {0, Size[e]}
  BY <1>4 DEF Dso!DataOK
<1> QED
  BY <1>5, <1>6, <1>7 DEF Dso!DataOK

(* The k oldest are closed. *)
LEMMA CloseOldest ==
  ASSUME Dso!DsoConstants, NEW g, Dso!DataOK(g), NEW k \in 0 .. Len(g.list)
  PROVE  /\ Dso!DataOK(Dso!close_oldest(g, k))
         /\ Len(Dso!close_oldest(g, k).list) = Len(g.list) - k
         /\ \A d \in Dsos : Dso!close_oldest(g, k).fd[d] => g.fd[d]
<1> DEFINE n == Len(g.list)
<1> DEFINE oldest == {g.list[i] : i \in 1 .. k}
<1> DEFINE h == Dso!close_oldest(g, k)
<1>1. /\ g.list \in Seq(Dsos) /\ n \in Nat /\ \A i \in 1 .. n : g.list[i] \in Dsos
      /\ g.fd \in [Dsos -> BOOLEAN] /\ g.file_size \in [Dsos -> Nat]
      /\ g \in Dso!DataType
  BY DataFields DEF Dso!DataOK
<1>2. /\ \A i, j \in 1 .. n : g.list[i] = g.list[j] => i = j
      /\ \A e \in Dsos : g.fd[e] <=> \E i \in 1 .. n : g.list[i] = e
      /\ \A e \in Dsos : g.file_size[e] # 0 => g.fd[e]
  BY DEF Dso!DataOK, Dso!ListsOpen
<1>3. /\ h.fd = [d \in Dsos |-> g.fd[d] /\ d \notin oldest]
      /\ h.file_size = [d \in Dsos |-> IF d \in oldest THEN 0 ELSE g.file_size[d]]
  BY <1>1 DEF Dso!close_oldest, Dso!DataType
<1>4. h.list = [i \in 1 .. n - k |-> g.list[i + k]]
  BY <1>1 DEF Dso!close_oldest, Dso!DataType
<1>5. k \in Nat /\ n - k \in Nat
  BY <1>1
<1>6. h.list \in Seq(Dsos) /\ Len(h.list) = n - k /\ \A i \in 1 .. n - k : h.list[i] = g.list[i + k]
  <2>1. \A i \in 1 .. n - k : i + k \in 1 .. n
    BY <1>1, <1>5
  <2>2. \A i \in 1 .. n - k : g.list[i + k] \in Dsos
    BY <2>1, <1>1
  <2> HIDE DEF h, n
  <2> QED
    BY <2>2, <1>4, <1>5
<1>7. \A d \in Dsos : d \in oldest <=> \E i \in 1 .. k : g.list[i] = d
  OBVIOUS
<1>8. h \in Dso!DataType
  <2>1. [d \in Dsos |-> g.fd[d] /\ d \notin oldest] \in [Dsos -> BOOLEAN]
    OBVIOUS
  <2>2. [d \in Dsos |-> IF d \in oldest THEN 0 ELSE g.file_size[d]] \in [Dsos -> Nat]
    BY <1>1
  <2>3. [i \in 1 .. n - k |-> g.list[i + k]] \in Seq(Dsos)
    BY <1>4, <1>6
  <2> QED
    BY <2>1, <2>2, <2>3, <1>1 DEF Dso!close_oldest, Dso!DataType
<1> HIDE DEF h, n, oldest
<1>9. Dso!ListsOpen(h)
  <2>1. ASSUME NEW e \in Dsos PROVE h.fd[e] <=> \E i \in 1 .. Len(h.list) : h.list[i] = e
    <3>1. ASSUME h.fd[e] PROVE \E i \in 1 .. n - k : h.list[i] = e
      <4>1. PICK i \in 1 .. n : g.list[i] = e
        BY <3>1, <1>2, <1>3
      <4>2. i \notin 1 .. k
        BY <3>1, <4>1, <1>3, <1>7
      <4>3. i - k \in 1 .. n - k /\ (i - k) + k = i
        BY <4>2, <1>1, <1>5
      <4> QED
        BY <4>1, <4>3, <1>6
    <3>2. ASSUME NEW i \in 1 .. n - k, h.list[i] = e PROVE h.fd[e]
      <4>1. i + k \in 1 .. n /\ g.list[i + k] = e
        BY <3>2, <1>1, <1>5, <1>6, SMTT(30)
      <4>2. g.fd[e]
        BY <4>1, <1>2
      <4>3. ASSUME NEW j \in 1 .. k, g.list[j] = e PROVE FALSE
        <5>1. j \in 1 .. n /\ j # i + k
          BY <1>1, <1>5
        <5> QED
          BY <5>1, <4>1, <4>3, <1>2
      <4> QED
        BY <4>2, <4>3, <1>3, <1>7
    <3> QED
      BY <3>1, <3>2, <1>6
  <2>2. ASSUME NEW i \in 1 .. n - k, NEW j \in 1 .. n - k, h.list[i] = h.list[j] PROVE i = j
    <3>1. i + k \in 1 .. n /\ j + k \in 1 .. n
      BY <1>1, <1>5
    <3>2. g.list[i + k] = g.list[j + k]
      BY <2>2, <1>6
    <3>3. i + k = j + k
      BY <3>1, <3>2, <1>2
    <3> QED
      BY <3>3, <1>5
  <2>3. ASSUME NEW e \in Dsos, h.file_size[e] # 0 PROVE h.fd[e]
    <3>1. e \notin oldest /\ h.file_size[e] = g.file_size[e]
      BY <2>3, <1>3
    <3>2. g.fd[e]
      BY <2>3, <3>1, <1>2
    <3> QED
      BY <3>1, <3>2, <1>3
  <2> QED
    BY <2>1, <2>2, <2>3, <1>6 DEF Dso!ListsOpen
<1>10. Len(h.list) < Dso!fd_limit \/ Len(h.list) <= 1
  <2>1. n < Dso!fd_limit \/ n <= 1
    BY DEF Dso!DataOK, n
  <2>2. Dso!fd_limit \in Nat
    BY DEF Dso!fd_limit, Dso!DsoConstants
  <2> QED
    BY <2>1, <2>2, <1>1, <1>5, <1>6
<1>11. \A e \in Dsos : (h.fd[e] => g.fd[e]) /\ h.file_size[e] \in {0, g.file_size[e]}
  BY <1>3
<1>12. \A e \in Dsos : (h.fd[e] => Size[e] >= 0) /\ h.file_size[e] \in {0, Size[e]}
  BY <1>11 DEF Dso!DataOK
<1>13. Dso!DataOK(h)
  BY <1>8, <1>9, <1>10, <1>12 DEF Dso!DataOK
<1> QED
  BY <1>13, <1>6, <1>11 DEF h, n

(* Listing a DSO and then closing the oldest is closing the oldest and then *)
(* listing the DSO.                                                         *)
LEMMA WithoutAppend ==
  ASSUME NEW g, Dso!DataOK(g), NEW d \in Dsos, ~g.fd[d], NEW f \in Dsos, g.fd[f]
  PROVE  Dso!Without(Append(g.list, d), f) = Append(Dso!Without(g.list, f), d)
<1> DEFINE n == Len(g.list)
<1> DEFINE a == Append(g.list, d)
<1>1. /\ g.list \in Seq(Dsos) /\ n \in Nat
  BY DataFields DEF Dso!DataOK
<1>2. /\ \A i, j \in 1 .. n : g.list[i] = g.list[j] => i = j
      /\ \A e \in Dsos : g.fd[e] <=> \E i \in 1 .. n : g.list[i] = e
  BY DEF Dso!DataOK, Dso!ListsOpen
<1>3. /\ Len(a) = n + 1 /\ a[n + 1] = d /\ \A i \in 1 .. n : a[i] = g.list[i]
  BY <1>1
<1> DEFINE k == CHOOSE i \in 1 .. Len(g.list) : g.list[i] = f
<1> DEFINE m == CHOOSE i \in 1 .. Len(a) : a[i] = f
<1>4. k \in 1 .. n /\ g.list[k] = f
  BY <1>2
<1>5. m \in 1 .. n + 1 /\ a[m] = f
  <2> HIDE DEF k, a, n
  <2>1. k \in 1 .. Len(a) /\ a[k] = f
    BY <1>1, <1>3, <1>4
  <2> QED
    BY <2>1, <1>3
<1>6. /\ Dso!Without(g.list, f) = [j \in 1 .. n - 1 |-> IF j < k THEN g.list[j] ELSE g.list[j + 1]]
      /\ Dso!Without(a, f) = [j \in 1 .. Len(a) - 1 |-> IF j < m THEN a[j] ELSE a[j + 1]]
  BY DEF Dso!Without
<1> HIDE DEF k, m, a, n
<1>7. m = k
  <2>1. m # n + 1
    BY <1>2, <1>3, <1>4, <1>5
  <2>2. m \in 1 .. n
    BY <2>1, <1>1, <1>5
  <2> QED
    BY <2>2, <1>2, <1>3, <1>4, <1>5
<1> DEFINE w == Dso!Without(g.list, f)
<1>8. w \in Seq(Dsos) /\ Len(w) = n - 1
  <2>1. n - 1 \in Nat
    BY <1>1, <1>4
  <2>2. \A j \in 1 .. n - 1 : (IF j < k THEN g.list[j] ELSE g.list[j + 1]) \in Dsos
    BY <1>1, <1>4 DEF n
  <2> QED
    BY <2>1, <2>2, <1>6
<1>9. \A j \in 1 .. n - 1 : w[j] = IF j < k THEN g.list[j] ELSE g.list[j + 1]
  BY <1>6
<1>10. Dso!Without(a, f) = [j \in 1 .. n |-> IF j < k THEN a[j] ELSE a[j + 1]]
  BY <1>1, <1>3, <1>6, <1>7
<1> HIDE DEF w
<1>11. Append(w, d) = [j \in 1 .. n |-> IF j = n THEN d ELSE w[j]]
  <2>1. Len(w) + 1 = n /\ Len(w) \in Nat
    BY <1>1, <1>4, <1>8
  <2>2. Append(w, d) \in Seq(Dsos) /\ Len(Append(w, d)) = n
    BY <2>1, <1>8
  <2>3. Append(w, d) \in [1 .. n -> Dsos]
    <3>1. PICK l \in Seq(Dsos) : l = Append(w, d) /\ Len(l) = n
      BY <2>2
    <3>2. l \in [1 .. Len(l) -> Dsos]
      OBVIOUS
    <3> QED
      BY <3>1, <3>2
  <2>4. \A j \in 1 .. n : Append(w, d)[j] = IF j = n THEN d ELSE w[j]
    BY <2>1, <1>8
  <2> QED
    BY <2>3, <2>4
<1>12. \A j \in 1 .. n : (IF j < k THEN a[j] ELSE a[j + 1]) = (IF j = n THEN d ELSE w[j])
  <2> TAKE j \in 1 .. n
  <2>1. CASE j = n
    BY <2>1, <1>1, <1>3, <1>4
  <2>2. CASE j # n
    <3>1. j \in 1 .. n - 1 /\ j + 1 \in 1 .. n
      BY <2>2, <1>1
    <3> QED
      BY <3>1, <2>2, <1>3, <1>9
  <2> QED
    BY <2>1, <2>2
<1> QED
  BY <1>10, <1>11, <1>12 DEF w, a

(* A file that exists is opened, at the limit in place of the oldest. *)
LEMMA OpenDso ==
  ASSUME Dso!DsoConstants, NEW g, Dso!DataOK(g), NEW d \in Dsos, ~g.fd[d], Size[d] >= 0
  PROVE  Dso!DataOK(Dso!open_dso(g, d)) /\ Dso!open_dso(g, d).fd[d]
<1> DEFINE n == Len(g.list)
<1> DEFINE a == [g EXCEPT !.list = Append(@, d)]
<1> DEFINE h == Dso!open_dso(g, d)
<1>0. Dso!fd_limit \in Nat
  BY DEF Dso!fd_limit, Dso!DsoConstants
<1>1. /\ g.list \in Seq(Dsos) /\ n \in Nat /\ g.fd \in [Dsos -> BOOLEAN] /\ g \in Dso!DataType
      /\ g.file_size \in [Dsos -> Nat] /\ (n < Dso!fd_limit \/ n <= 1)
  BY DataFields DEF Dso!DataOK
<1>2. /\ a \in Dso!DataType /\ a.list = Append(g.list, d) /\ a.fd = g.fd
         /\ a.file_size = g.file_size
      /\ a.status = g.status /\ Len(a.list) = n + 1
  <2>0. Append(g.list, d) \in Seq(Dsos) /\ Len(Append(g.list, d)) = n + 1
    BY <1>1
  <2>1. PICK l \in Seq(Dsos) : l = Append(g.list, d) /\ Len(l) = n + 1
    BY <2>0
  <2>2. a = [g EXCEPT !.list = l]
    BY <2>1
  <2> HIDE DEF a
  <2> QED
    BY <2>1, <2>2, <1>1 DEF Dso!DataType
<1>3. h = [Dso!check_data_close(a) EXCEPT !.fd[d] = TRUE]
  BY DEF Dso!open_dso
<1>4. CASE Dso!check_data_close(a) = a /\ (Dso!fd_limit > n + 1 \/ n = 0)
  <2>1. h = [a EXCEPT !.fd[d] = TRUE]
    BY <1>3, <1>4
  <2> HIDE DEF a
  <2>2. /\ h \in Dso!DataType /\ h.list = a.list /\ h.fd = [a.fd EXCEPT ![d] = TRUE]
        /\ h.file_size = a.file_size
    BY <2>1, <1>2, ZenonT(30) DEF Dso!DataType
  <2>3. h.fd[d]
    BY <2>2, <1>1, <1>2
  <2>4. Len(g.list) + 1 < Dso!fd_limit \/ Len(g.list) = 0
    BY <1>0, <1>1, <1>4
  <2> HIDE DEF h
  <2>5. Dso!DataOK(h)
    BY <2>2, <2>4, <1>2, Listed
  <2> QED
    BY <2>3, <2>5 DEF h
<1>5. CASE Dso!fd_limit > n + 1
  <2>1. Dso!check_data_close(a) = a
    BY <1>2, <1>5 DEF Dso!check_data_close
  <2> QED
    BY <2>1, <1>4, <1>5
<1>6. CASE ~(Dso!fd_limit > n + 1) /\ n = 0
  <2>1. Head(a.list) = d
    BY <1>1, <1>2, <1>6
  <2>2. Dso!check_data_close(a) = Dso!close_dso(a, d)
    BY <2>1, <1>2, <1>6 DEF Dso!check_data_close, Dso!close_first_dso
  <2>3. Dso!check_data_close(a) = a
    BY <2>2, <1>2 DEF Dso!close_dso
  <2> QED
    BY <2>3, <1>4, <1>6
<1>7. CASE ~(Dso!fd_limit > n + 1) /\ n # 0
  <2> DEFINE f == g.list[1]
  <2> DEFINE b == Dso!close_dso(g, f)
  <2> DEFINE c == Dso!close_dso(a, f)
  <2>1. f \in Dsos /\ Head(a.list) = f
    BY <1>1, <1>2, <1>7
  <2>2. g.fd[f]
    BY <2>1, <1>1, <1>7 DEF Dso!DataOK, Dso!ListsOpen
  <2>3. Dso!check_data_close(a) = c
    BY <2>1, <1>2, <1>7 DEF Dso!check_data_close, Dso!close_first_dso
  <2>4. Dso!DataOK(b)
    BY <2>1, CloseDso
  <2>5. /\ b.fd = [g.fd EXCEPT ![f] = FALSE] /\ b.file_size = [g.file_size EXCEPT ![f] = 0]
        /\ b.list = Dso!Without(g.list, f)
    BY <2>1, <2>2, <1>1 DEF Dso!close_dso, Dso!DataType
  <2>6. c = [a EXCEPT !.fd[f] = FALSE, !.file_size[f] = 0, !.list = Dso!Without(@, f)]
    BY <2>2, <1>2 DEF Dso!close_dso
  <2> HIDE DEF a, f
  <2>7. /\ c.fd = [a.fd EXCEPT ![f] = FALSE] /\ c.file_size = [a.file_size EXCEPT ![f] = 0]
        /\ c.list = Dso!Without(a.list, f)
    BY <2>6, <1>2 DEF Dso!DataType
  <2>8. Dso!Without(a.list, f) = Append(b.list, d)
    BY <2>1, <2>2, <2>5, <1>2, WithoutAppend
  <2>9. b.list \in Seq(Dsos) /\ Append(b.list, d) \in Seq(Dsos)
    BY <2>4, DataFields DEF Dso!DataOK
  <2>10. c \in Dso!DataType
    <3>1. PICK l \in Seq(Dsos) : l = Dso!Without(a.list, f)
      BY <2>8, <2>9
    <3>2. c = [a EXCEPT !.fd[f] = FALSE, !.file_size[f] = 0, !.list = l]
      BY <2>6, <3>1
    <3> HIDE DEF c
    <3> QED
      BY <3>2, <2>1, <1>2 DEF Dso!DataType
  <2> HIDE DEF b, c
  <2>11. /\ h \in Dso!DataType /\ h.list = c.list /\ h.fd = [c.fd EXCEPT ![d] = TRUE]
         /\ h.file_size = c.file_size
    <3>1. h = [c EXCEPT !.fd[d] = TRUE]
      BY <2>3, <1>3
    <3> HIDE DEF h
    <3> QED
      BY <3>1, <2>10 DEF Dso!DataType
  <2>12. Len(b.list) + 1 < Dso!fd_limit \/ Len(b.list) = 0
    <3>1. Len(Dso!Without(g.list, f)) = n - 1
      <4>1. n - 1 \in Nat
        BY <1>1, <1>7
      <4> QED
        BY <4>1 DEF Dso!Without
    <3> QED
      BY <3>1, <2>5, <1>0, <1>1, <1>7
  <2>13. ~b.fd[d]
    BY <2>5, <1>1, <2>1
  <2> HIDE DEF h
  <2>14. Dso!DataOK(h)
    <3>1. h.list = Append(b.list, d)
      BY <2>7, <2>8, <2>11
    <3>2. h.fd = [b.fd EXCEPT ![d] = TRUE] /\ h.file_size = b.file_size
      BY <2>5, <2>7, <2>11, <1>2
    <3> QED
      BY <3>1, <3>2, <2>4, <2>11, <2>12, <2>13, Listed
  <2>15. h.fd[d]
    BY <2>5, <2>7, <2>11, <1>1, <1>2
  <2> QED
    BY <2>14, <2>15 DEF h
<1> QED
  BY <1>5, <1>6, <1>7

(* try_to_open_dso() keeps the list, and succeeds if a descriptor is left. *)
LEMMA TryToOpen ==
  ASSUME Dso!DsoConstants, Dso!DataOK(dso_data), others \in 0 .. MaxOthers, NEW d \in Dsos
  PROVE  /\ Dso!DataOK(Dso!try_to_open_dso(d))
         /\ Dso!DescriptorLeft /\ Size[d] >= 0 => Dso!try_to_open_dso(d).fd[d]
<1> DEFINE room == IF Size[d] < 0 THEN dso_data ELSE Dso!MakeRoom(dso_data)
<1> DEFINE opens == Size[d] >= 0 /\ Dso!NrOpen(room) + others < RLIMIT_NOFILE
<1> DEFINE r == Dso!try_to_open_dso(d)
<1>1. r = IF dso_data.fd[d] THEN dso_data
          ELSE IF opens THEN [Dso!open_dso(room, d) EXCEPT !.status[d] = "OK"]
          ELSE [room EXCEPT !.status[d] = "ERROR"]
  BY DEF Dso!try_to_open_dso
<1>2. Size[d] \in Int /\ RLIMIT_NOFILE \in Nat /\ others \in Nat /\ others <= MaxOthers
      /\ MaxOthers \in Nat
  BY DEF Dso!DsoConstants
<1>3. /\ Dso!DataOK(room) /\ (~dso_data.fd[d] => ~room.fd[d])
      /\ Dso!DescriptorLeft /\ Size[d] >= 0 => Dso!NrOpen(room) + others < RLIMIT_NOFILE
  <2>1. CASE Size[d] < 0
    BY <2>1, <1>2
  <2>2. CASE Size[d] >= 0
    <3> DEFINE excess == Dso!NrOpen(dso_data) + others + 1 - RLIMIT_NOFILE
    <3> DEFINE n == Len(dso_data.list)
    <3>0. room = IF excess <= 0 THEN dso_data ELSE Dso!close_oldest(dso_data, Dso!min(excess, n))
      BY <2>2, <1>2 DEF Dso!MakeRoom
    <3>1. Dso!NrOpen(dso_data) = n /\ n \in Nat
      BY NrOpenIsLen
    <3>2. excess \in Int /\ excess = n + others + 1 - RLIMIT_NOFILE
      BY <3>1, <1>2
    <3> HIDE DEF excess, room, n
    <3>3. CASE excess <= 0
      <4>1. room = dso_data
        BY <3>0, <3>3
      <4> QED
        BY <4>1, <3>1, <3>2, <3>3, <1>2
    <3>4. CASE excess > 0
      <4>1. PICK k \in 0 .. n : k = Dso!min(excess, n)
        BY <3>1, <3>2, <3>4 DEF Dso!min
      <4>2. room = Dso!close_oldest(dso_data, k)
        BY <3>0, <3>2, <3>4, <4>1
      <4>3. Dso!DataOK(room) /\ Len(room.list) = n - k /\ \A e \in Dsos : room.fd[e]
            => dso_data.fd[e]
        BY <4>1, <4>2, CloseOldest DEF n
      <4>4. Dso!NrOpen(room) = n - k
        BY <4>3, NrOpenIsLen
      <4>5. Dso!DescriptorLeft => n - k + others < RLIMIT_NOFILE
        BY <4>1, <3>1, <3>2, <1>2 DEF Dso!min, Dso!DescriptorLeft
      <4> QED
        BY <4>3, <4>4, <4>5
    <3> QED
      BY <3>2, <3>3, <3>4
  <2> QED
    BY <2>1, <2>2, <1>2
<1> HIDE DEF room
<1>4. ASSUME NEW g, Dso!DataOK(g), NEW s \in {"UNKNOWN", "OK", "ERROR"}
      PROVE  Dso!DataOK([g EXCEPT !.status[d] = s]) /\ [g EXCEPT !.status[d] = s].fd = g.fd
  <2> DEFINE h == [g EXCEPT !.status[d] = s]
  <2>1. h \in Dso!DataType /\ h.list = g.list /\ h.fd = g.fd /\ h.file_size = g.file_size
    BY <1>4 DEF Dso!DataOK, Dso!DataType
  <2> HIDE DEF h
  <2>2. Dso!DataOK(h)
    BY <2>1, <1>4 DEF Dso!DataOK, Dso!ListsOpen
  <2> QED
    BY <2>1, <2>2 DEF h
<1>5. CASE dso_data.fd[d]
  BY <1>1, <1>5
<1>6. CASE ~dso_data.fd[d] /\ opens
  <2>1. Dso!DataOK(Dso!open_dso(room, d)) /\ Dso!open_dso(room, d).fd[d]
    BY <1>3, <1>6, OpenDso
  <2>2. r = [Dso!open_dso(room, d) EXCEPT !.status[d] = "OK"]
    BY <1>1, <1>6
  <2> QED
    BY <2>1, <2>2, <1>4
<1>7. CASE ~dso_data.fd[d] /\ ~opens
  <2>1. r = [room EXCEPT !.status[d] = "ERROR"]
    BY <1>1, <1>7
  <2>2. ~(Dso!DescriptorLeft /\ Size[d] >= 0)
    BY <1>3, <1>7
  <2>3. Dso!DataOK(r)
    BY <2>1, <1>3, <1>4
  <2> QED
    BY <2>2, <2>3
<1> QED
  BY <1>5, <1>6, <1>7

-----------------------------------------------------------------------------
(* A step of one thread leaves what is said of the others as it was.        *)
LEMMA ThreadStep ==
  ASSUME Dso!DsoConstants, Dso!DsoInv, NEW t \in Threads, NEW at \in Dso!Places,
         NEW o \in Dso!OpType,
         dso_pc' = [dso_pc EXCEPT ![t] = at], op' = [op EXCEPT ![t] = o],
         Dso!DataOK(dso_data'), others' \in 0 .. MaxOthers,
         dso_lock' \in Threads \union {Dso!Nobody}, Dso!CacheOK',
         \A d \in Dsos : \A c \in Dso!Chunks(d) : dso_cache[d][c] # 0 => dso_cache'[d][c] # 0,
         Dso!ReadOK(at, o),
         Dso!WithinFiles => Dso!ServedByCache' /\ Dso!EndCached(at, o, Size[o.dso], dso_cache'),
         Dso!DescriptorLeft => /\ at = "has_fd" => dso_lock' = t
                               /\ at = "no_fd" => Size[o.dso] < 0
                               /\ \A u \in Threads : u # t /\ dso_pc[u] = "has_fd" => dso_lock' = u
  PROVE  Dso!DsoInv'
<1>1. /\ op \in [Threads -> Dso!OpType] /\ dso_pc \in [Threads -> Dso!Places]
      /\ op' \in [Threads -> Dso!OpType] /\ dso_pc' \in [Threads -> Dso!Places]
      /\ dso_pc'[t] = at /\ op'[t] = o
      /\ \A u \in Threads : u # t => dso_pc'[u] = dso_pc[u] /\ op'[u] = op[u]
  BY DEF Dso!DsoInv
<1>2. \A u \in Threads : Dso!ReadOK(dso_pc'[u], op'[u])
  BY <1>1 DEF Dso!DsoInv
<1>3. ASSUME Dso!WithinFiles, NEW u \in Threads, u # t
      PROVE  Dso!EndCached(dso_pc'[u], op'[u], Size[op'[u].dso], dso_cache')
  <2> DEFINE w == op[u]
  <2> DEFINE size == Size[w.dso]
  <2>1. Dso!EndCached(dso_pc[u], w, size, dso_cache)
    BY <1>3 DEF Dso!DsoInv
  <2>2. w \in Dso!OpType /\ w.dso \in Dsos /\ w.offset \in Nat
    BY <1>1 DEF Dso!OpType
  <2>3. dso_pc[u] = "read" /\ w.offset = size => Dso!Chunk(size) \in Dso!Chunks(w.dso)
    <3>1. size \in Int
      BY <2>2 DEF Dso!DsoConstants
    <3> QED
      BY <3>1, <2>2 DEF Dso!Chunks
  <2>4. dso_pc'[u] = dso_pc[u] /\ op'[u] = w
    BY <1>1, <1>3
  <2> HIDE DEF w, size
  <2>5. Dso!EndCached(dso_pc[u], w, size, dso_cache')
    BY <2>1, <2>2, <2>3 DEF Dso!EndCached
  <2>6. Size[w.dso] = size
    BY DEF size
  <2> QED
    BY <2>4, <2>5, <2>6
<1>4. Dso!WithinFiles
      => \A u \in Threads : Dso!EndCached(dso_pc'[u], op'[u], Size[op'[u].dso], dso_cache')
  BY <1>1, <1>3
<1>5. Dso!DescriptorLeft => \A u \in Threads : Dso!LockOK(u, dso_pc[u], op[u])'
  BY <1>1 DEF Dso!DsoInv, Dso!LockOK
<1> QED
  BY <1>1, <1>2, <1>4, <1>5 DEF Dso!DsoInv

(* What a copy from a chunk that is cached whole does to a read. *)
LEMMA CopyOfChunk ==
  ASSUME Dso!DsoConstants, NEW d \in Dsos, NEW x \in Nat, NEW s \in Nat, x <= Size[d], NEW n,
         n = Dso!min(Dso!ChunkLen(d, Dso!Chunk(x)) - (x - Dso!Chunk(x)), s)
  PROVE  /\ n \in Nat /\ n <= s /\ x + n <= Size[d]
         /\ n = 0 => s = 0 \/ x = Size[d]
         /\ x < Size[d] /\ s > 0 => n > 0
         /\ x + n = Size[d] /\ Dso!Chunk(Size[d]) < Size[d] => Dso!Chunk(Size[d]) = Dso!Chunk(x)
<1> DEFINE c == Dso!Chunk(x)
<1> DEFINE z == Size[d]
<1>1. c \in Nat /\ c <= x /\ x < c + ChunkSize /\ ChunkSize \in Nat /\ z \in Nat
  BY ChunkBounds DEF Dso!DsoConstants
<1>2. Dso!ChunkLen(d, c) = IF ChunkSize < z - c THEN ChunkSize ELSE z - c
  BY DEF Dso!ChunkLen, Dso!min
<1> DEFINE m == Dso!ChunkLen(d, c)
<1>3. n = IF m - (x - c) < s THEN m - (x - c) ELSE s
  BY DEF Dso!min
<1>4. ASSUME x + n = z, Dso!Chunk(z) < z PROVE Dso!Chunk(z) = c
  <2>1. z <= c + ChunkSize
    <3> HIDE DEF m, c, z
    <3> QED
      BY <1>1, <1>2, <1>3, <1>4 DEF m
  <2>2. CASE z < c + ChunkSize
    BY <2>2, <1>1, ChunkUnique
  <2>3. CASE z = c + ChunkSize
    BY <2>3, <1>1, <1>4, ChunkNext
  <2> QED
    BY <2>1, <2>2, <2>3, <1>1
<1>5. /\ n \in Nat /\ n <= s /\ x + n <= z
      /\ n = 0 => s = 0 \/ x = z
      /\ x < z /\ s > 0 => n > 0
  <2> HIDE DEF m, c, z
  <2> QED
    BY <1>1, <1>2, <1>3 DEF m, z
<1> QED
  BY <1>4, <1>5

(* The chunk of an offset of a file is one of its chunks. *)
LEMMA ChunkOfFile ==
  ASSUME Dso!DsoConstants, NEW d \in Dsos, NEW x \in Nat, x <= Size[d]
  PROVE  Dso!Chunk(x) \in Dso!Chunks(d)
<1>1. x \in 0 .. Size[d]
  BY DEF Dso!DsoConstants
<1> QED
  BY <1>1 DEF Dso!Chunks

(* The types of the parts of what a thread does. *)
LEMMA OpFields ==
  ASSUME Dso!DsoInv, NEW t \in Threads
  PROVE  /\ op[t] \in Dso!OpType /\ dso_pc[t] \in Dso!Places
         /\ op[t].dso \in Dsos /\ op[t].offset \in Nat /\ op[t].size \in Nat /\ op[t].ret \in Int
BY DEF Dso!DsoInv, Dso!OpType

(* A step that leaves the descriptors, the lock and the chunks alone. *)
LEMMA LocalStep ==
  ASSUME Dso!DsoConstants, Dso!DsoInv, NEW t \in Threads, NEW at \in Dso!Places,
         NEW o \in Dso!OpType,
         dso_pc' = [dso_pc EXCEPT ![t] = at], op' = [op EXCEPT ![t] = o],
         UNCHANGED <<dso_data, others, dso_lock, dso_cache, freed>>,
         Dso!ReadOK(at, o),
         Dso!WithinFiles => Dso!EndCached(at, o, Size[o.dso], dso_cache),
         Dso!DescriptorLeft => /\ at = "has_fd" => dso_lock = t
                               /\ at = "no_fd" => Size[o.dso] < 0
  PROVE  Dso!DsoInv'
<1>1. Dso!DataOK(dso_data') /\ others' \in 0 .. MaxOthers
      /\ dso_lock' \in Threads \union {Dso!Nobody}
  BY DEF Dso!DsoInv
<1>2. Dso!CacheOK' /\ \A d \in Dsos : \A c \in Dso!Chunks(d) : dso_cache[d][c] # 0
      => dso_cache'[d][c] # 0
  BY DEF Dso!DsoInv, Dso!CacheOK
<1>3. Dso!WithinFiles => Dso!ServedByCache'
  BY DEF Dso!DsoInv, Dso!ServedByCache
<1>4. Dso!DescriptorLeft => \A u \in Threads : dso_pc[u] = "has_fd" => dso_lock' = u
  BY DEF Dso!DsoInv, Dso!LockOK
<1>5. dso_cache' = dso_cache /\ dso_lock' = dso_lock
  OBVIOUS
<1> QED
  BY <1>1, <1>2, <1>3, <1>4, <1>5, ThreadStep

(* A thread that goes on with what it does. *)
LEMMA OpSame ==
  ASSUME Dso!DsoInv, NEW t \in Threads, UNCHANGED op
  PROVE  op' = [op EXCEPT ![t] = op[t]]
BY DEF Dso!DsoInv

(* A thread that does nothing. *)
LEMMA NoOpType ==
  ASSUME Dso!DsoConstants
  PROVE  Dso!NoOp \in Dso!OpType /\ \A d \in Dsos : [Dso!NoOp EXCEPT !.dso = d] \in Dso!OpType
<1>1. (CHOOSE d \in Dsos : TRUE) \in Dsos
  BY DEF Dso!DsoConstants
<1>2. PICK d0 \in Dsos : Dso!NoOp = [dso |-> d0, offset |-> 0, size |-> 0, ret |-> 0]
  BY <1>1 DEF Dso!NoOp
<1> QED
  BY <1>2 DEF Dso!OpType

(* Other descriptors stay within their bound. *)
LEMMA OtherFilesInv ==
  ASSUME Dso!DsoConstants, Dso!DsoInv, Dso!OtherFiles
  PROVE  Dso!DsoInv'
<1>1. others' \in 0 .. MaxOthers
  BY DEF Dso!DsoInv, Dso!OtherFiles, Dso!DsoConstants
<1>2. UNCHANGED <<dso_data, dso_lock, dso_cache, freed, dso_pc, op>>
  BY DEF Dso!OtherFiles
<1> QED
  BY <1>1, <1>2 DEF Dso!DsoInv, Dso!CacheOK, Dso!ServedByCache, Dso!LockOK

(* A read begins; of a DSO that could not be opened it fails at once. *)
LEMMA ReadOffsetInv ==
  ASSUME Dso!DsoConstants, Dso!DsoInv, NEW t \in Threads, NEW d \in Dsos, NEW r \in Reads,
         Dso!dso__data_read_offset(t, d, r)
  PROVE  Dso!DsoInv'
<1> DEFINE o == [dso |-> d, offset |-> r[1], size |-> r[2],
                 ret |-> IF dso_data.status[d] = "ERROR" THEN -1 ELSE 0]
<1> DEFINE at == IF dso_data.status[d] = "ERROR" THEN "returned" ELSE "size"
<1>1. r[1] \in Nat /\ r[2] \in Nat
  BY DEF Dso!DsoConstants
<1>2. o \in Dso!OpType
  BY <1>1 DEF Dso!OpType
<1>3. /\ dso_pc' = [dso_pc EXCEPT ![t] = at] /\ op' = [op EXCEPT ![t] = o]
      /\ UNCHANGED <<dso_data, others, dso_lock, dso_cache, freed>>
  BY DEF Dso!dso__data_read_offset, Dso!Goto
<1>4. /\ o.dso = d /\ o.offset = r[1] /\ o.size = r[2] /\ (at = "returned" => o.ret = -1)
      /\ at = "size" => o.ret = 0
  OBVIOUS
<1>5. at \in {"returned", "size"}
  OBVIOUS
<1> HIDE DEF o, at
<1>6. Dso!ReadOK(at, o)
  BY <1>4, <1>5 DEF Dso!ReadOK, Dso!Reading
<1>7. Dso!WithinFiles => Dso!EndCached(at, o, Size[o.dso], dso_cache)
  BY <1>4, <1>5 DEF Dso!EndCached, Dso!Reading, Dso!WithinFiles
<1>8. at \in Dso!Places /\ at \notin {"has_fd", "no_fd"}
  BY <1>5 DEF Dso!Places
<1> QED
  BY <1>2, <1>3, <1>6, <1>7, <1>8, LocalStep

(* A read that fails promises nothing. *)
LEMMA ReturnError ==
  ASSUME Dso!DsoConstants, Dso!DsoInv, NEW t \in Threads, Dso!Return(t, -1)
  PROVE  \E o \in Dso!OpType : /\ dso_pc' = [dso_pc EXCEPT ![t] = "returned"]
         /\ op' = [op EXCEPT ![t] = o]
                               /\ Dso!ReadOK("returned", o)
                               /\ Dso!EndCached("returned", o, Size[o.dso], dso_cache')
<1> DEFINE o == [op[t] EXCEPT !.ret = -1]
<1>1. op[t] \in Dso!OpType
  BY OpFields
<1>2. o \in Dso!OpType /\ o.ret = -1
  BY <1>1 DEF Dso!OpType
<1>3. dso_pc' = [dso_pc EXCEPT ![t] = "returned"] /\ op' = [op EXCEPT ![t] = o]
  BY DEF Dso!Return, Dso!Goto, Dso!DsoInv
<1> HIDE DEF o
<1>4. Dso!ReadOK("returned", o) /\ Dso!EndCached("returned", o, Size[o.dso], dso_cache')
  BY <1>2 DEF Dso!ReadOK, Dso!EndCached, Dso!Reading
<1> QED
  BY <1>2, <1>3, <1>4

(* A size that is known is of a file that is open. *)
LEMMA FileSizeInv ==
  ASSUME Dso!DsoConstants, Dso!DsoInv, NEW t \in Threads, Dso!data_file_size(t)
  PROVE  Dso!DsoInv'
<1> DEFINE d == op[t].dso
<1> DEFINE o == op[t]
<1>0. /\ dso_pc[t] = "size" /\ UNCHANGED <<dso_data, others, dso_lock, dso_cache, freed>>
      /\ \/ dso_data.file_size[d] # 0 /\ Dso!Goto(t, "check") /\ UNCHANGED op
         \/ dso_data.file_size[d] = 0 /\ dso_data.status[d] = "ERROR" /\ Dso!Return(t, -1)
         \/ dso_data.file_size[d] = 0 /\ dso_data.status[d] # "ERROR" /\ Dso!Goto(t, "stat")
            /\ UNCHANGED op
  BY DEF Dso!data_file_size
<1>1. /\ o \in Dso!OpType /\ d \in Dsos /\ o.offset \in Nat /\ o.size \in Nat /\ o.ret \in Int
      /\ Dso!WithinFiles => Dso!EndCached("size", o, Size[o.dso], dso_cache)
      /\ o.ret >= 0
  BY <1>0, OpFields DEF Dso!DsoInv, Dso!ReadOK
<1>2. CASE Dso!Return(t, -1)
  <2>1. PICK w \in Dso!OpType :
          /\ dso_pc' = [dso_pc EXCEPT ![t] = "returned"] /\ op' = [op EXCEPT ![t] = w]
          /\ Dso!ReadOK("returned", w) /\ Dso!EndCached("returned", w, Size[w.dso], dso_cache')
    BY <1>2, ReturnError
  <2>2. "returned" \in Dso!Places /\ dso_cache' = dso_cache
    BY <1>0 DEF Dso!Places
  <2> QED
    BY <2>1, <2>2, <1>0, LocalStep
<1>3. CASE Dso!Goto(t, "check") /\ UNCHANGED op /\ dso_data.file_size[d] # 0
  <2>1. Size[d] >= 0
    BY <1>1, <1>3 DEF Dso!DsoInv, Dso!DataOK, Dso!ListsOpen
  <2>2. dso_pc' = [dso_pc EXCEPT ![t] = "check"] /\ op' = [op EXCEPT ![t] = o]
    BY <1>3, OpSame DEF Dso!Goto
  <2>3. Dso!ReadOK("check", o) /\ "check" \in Dso!Places
    BY <2>1, <1>1 DEF Dso!ReadOK, Dso!Reading, Dso!Places
  <2>4. Dso!WithinFiles => Dso!EndCached("check", o, Size[o.dso], dso_cache)
    BY <1>1 DEF Dso!EndCached, Dso!Reading
  <2> QED
    BY <2>2, <2>3, <2>4, <1>0, <1>1, LocalStep
<1>4. CASE Dso!Goto(t, "stat") /\ UNCHANGED op
  <2>2. dso_pc' = [dso_pc EXCEPT ![t] = "stat"] /\ op' = [op EXCEPT ![t] = o]
    BY <1>4, OpSame DEF Dso!Goto
  <2>3. Dso!ReadOK("stat", o) /\ "stat" \in Dso!Places
    BY <1>1 DEF Dso!ReadOK, Dso!Reading, Dso!Places
  <2>4. Dso!WithinFiles => Dso!EndCached("stat", o, Size[o.dso], dso_cache)
    BY <1>1 DEF Dso!EndCached, Dso!Reading
  <2> QED
    BY <2>2, <2>3, <2>4, <1>0, <1>1, LocalStep
<1> QED
  BY <1>0, <1>2, <1>3, <1>4

(* An offset that is not behind the size is within the file. *)
LEMMA CheckOffsetInv ==
  ASSUME Dso!DsoConstants, Dso!DsoInv, NEW t \in Threads, Dso!CheckOffset(t)
  PROVE  Dso!DsoInv'
<1> DEFINE o == op[t]
<1>0. /\ dso_pc[t] = "check" /\ UNCHANGED <<dso_data, others, dso_lock, dso_cache, freed>>
      /\ IF o.offset > dso_data.file_size[o.dso] THEN Dso!Return(t, -1)
         ELSE Dso!Goto(t, "read") /\ UNCHANGED op
  BY DEF Dso!CheckOffset
<1>1. /\ o \in Dso!OpType /\ o.dso \in Dsos /\ o.offset \in Nat /\ o.size \in Nat /\ o.ret \in Int
      /\ Dso!WithinFiles => Dso!EndCached("check", o, Size[o.dso], dso_cache)
      /\ Dso!ReadOK("check", o)
  BY <1>0, OpFields DEF Dso!DsoInv
<1>2. CASE Dso!Return(t, -1)
  <2>1. PICK w \in Dso!OpType :
          /\ dso_pc' = [dso_pc EXCEPT ![t] = "returned"] /\ op' = [op EXCEPT ![t] = w]
          /\ Dso!ReadOK("returned", w) /\ Dso!EndCached("returned", w, Size[w.dso], dso_cache')
    BY <1>2, ReturnError
  <2>2. "returned" \in Dso!Places /\ dso_cache' = dso_cache
    BY <1>0 DEF Dso!Places
  <2> QED
    BY <2>1, <2>2, <1>0, LocalStep
<1>3. CASE ~(o.offset > dso_data.file_size[o.dso]) /\ Dso!Goto(t, "read") /\ UNCHANGED op
  <2>1. o.offset <= Size[o.dso]
    <3>1. /\ dso_data.file_size[o.dso] \in {0, Size[o.dso]} /\ Size[o.dso] \in Int
          /\ Size[o.dso] >= 0
      BY <1>1 DEF Dso!DsoInv, Dso!DataOK, Dso!ReadOK, Dso!Reading, Dso!DsoConstants
    <3> QED
      BY <3>1, <1>1, <1>3
  <2>2. dso_pc' = [dso_pc EXCEPT ![t] = "read"] /\ op' = [op EXCEPT ![t] = o]
    BY <1>3, OpSame DEF Dso!Goto
  <2>3. Dso!ReadOK("read", o) /\ "read" \in Dso!Places
    BY <2>1, <1>1 DEF Dso!ReadOK, Dso!Reading, Dso!Places
  <2>4. Dso!WithinFiles => Dso!EndCached("read", o, Size[o.dso], dso_cache)
    BY <1>1 DEF Dso!EndCached, Dso!Reading
  <2> QED
    BY <2>2, <2>3, <2>4, <1>0, <1>1, LocalStep
<1> QED
  BY <1>0, <1>2, <1>3

(* A step under the lock that may open or close files. *)
LEMMA DataStep ==
  ASSUME Dso!DsoConstants, Dso!DsoInv, NEW t \in Threads, NEW at \in Dso!Places,
         NEW o \in Dso!OpType,
         dso_pc' = [dso_pc EXCEPT ![t] = at], op' = [op EXCEPT ![t] = o],
         Dso!DataOK(dso_data'), UNCHANGED <<others, dso_lock, dso_cache, freed>>,
         Dso!ReadOK(at, o), at \notin {"has_fd", "no_fd"},
         Dso!WithinFiles => Dso!EndCached(at, o, Size[o.dso], dso_cache)
  PROVE  Dso!DsoInv'
<1>1. others' \in 0 .. MaxOthers /\ dso_lock' \in Threads \union {Dso!Nobody}
  BY DEF Dso!DsoInv
<1>2. Dso!CacheOK' /\ \A d \in Dsos : \A c \in Dso!Chunks(d) : dso_cache[d][c] # 0
      => dso_cache'[d][c] # 0
  BY DEF Dso!DsoInv, Dso!CacheOK
<1>3. Dso!WithinFiles => Dso!ServedByCache'
  BY DEF Dso!DsoInv, Dso!ServedByCache
<1>4. Dso!DescriptorLeft => \A u \in Threads : dso_pc[u] = "has_fd" => dso_lock' = u
  BY DEF Dso!DsoInv, Dso!LockOK
<1>5. dso_cache' = dso_cache
  OBVIOUS
<1> QED
  BY <1>1, <1>2, <1>3, <1>4, <1>5, ThreadStep

(* The size that is stored is the one of the file. *)
LEMMA FstatInv ==
  ASSUME Dso!DsoConstants, Dso!DsoInv, NEW t \in Threads, Dso!fstat(t)
  PROVE  Dso!DsoInv'
<1> DEFINE o == op[t]
<1> DEFINE d == op[t].dso
<1> DEFINE opened == Dso!try_to_open_dso(d)
<1>0. /\ dso_pc[t] = "stat" /\ UNCHANGED <<others, dso_lock, dso_cache, freed>>
      /\ IF opened.fd[d]
         THEN dso_data' = [opened EXCEPT !.file_size[d] = Size[d]] /\ Dso!Goto(t, "check")
         /\ UNCHANGED op
         ELSE dso_data' = opened /\ Dso!Return(t, -1)
  BY DEF Dso!fstat
<1>1. /\ o \in Dso!OpType /\ d \in Dsos /\ o.offset \in Nat /\ o.size \in Nat /\ o.ret \in Int
      /\ Dso!WithinFiles => Dso!EndCached("stat", o, Size[d], dso_cache)
      /\ Dso!ReadOK("stat", o)
  BY <1>0, OpFields DEF Dso!DsoInv
<1>2. Dso!DataOK(opened)
  BY <1>1, TryToOpen DEF Dso!DsoInv
<1> HIDE DEF opened
<1>3. CASE opened.fd[d]
  <2>1. dso_data' = [opened EXCEPT !.file_size[d] = Size[d]] /\ Dso!Goto(t, "check") /\ UNCHANGED op
    BY <1>0, <1>3
  <2>2. Size[d] \in Nat
    BY <1>1, <1>2, <1>3 DEF Dso!DataOK, Dso!DsoConstants
  <2>3. /\ dso_data' \in Dso!DataType /\ dso_data'.list = opened.list /\ dso_data'.fd = opened.fd
        /\ dso_data'.file_size = [opened.file_size EXCEPT ![d] = Size[d]]
    BY <2>1, <2>2, <1>1, <1>2 DEF Dso!DataOK, Dso!DataType
  <2>4. \A e \in Dsos : dso_data'.file_size[e] = IF e = d THEN Size[d] ELSE opened.file_size[e]
    BY <2>3, <1>2, DataFields DEF Dso!DataOK
  <2>5. Dso!DataOK(dso_data')
    BY <2>3, <2>4, <1>1, <1>2, <1>3 DEF Dso!DataOK, Dso!ListsOpen
  <2>6. dso_pc' = [dso_pc EXCEPT ![t] = "check"] /\ op' = [op EXCEPT ![t] = o]
    BY <2>1, OpSame DEF Dso!Goto
  <2>7. Dso!ReadOK("check", o) /\ "check" \in Dso!Places
    BY <2>2, <1>1 DEF Dso!ReadOK, Dso!Reading, Dso!Places
  <2>8. Dso!WithinFiles => Dso!EndCached("check", o, Size[o.dso], dso_cache)
    BY <1>1 DEF Dso!EndCached, Dso!Reading
  <2> QED
    BY <2>5, <2>6, <2>7, <2>8, <1>0, <1>1, DataStep
<1>4. CASE ~opened.fd[d]
  <2>1. dso_data' = opened /\ Dso!Return(t, -1)
    BY <1>0, <1>4
  <2>2. PICK w \in Dso!OpType :
          /\ dso_pc' = [dso_pc EXCEPT ![t] = "returned"] /\ op' = [op EXCEPT ![t] = w]
          /\ Dso!ReadOK("returned", w) /\ Dso!EndCached("returned", w, Size[w.dso], dso_cache')
    BY <2>1, ReturnError
  <2>3. "returned" \in Dso!Places /\ dso_cache' = dso_cache
    BY <1>0 DEF Dso!Places
  <2> QED
    BY <2>1, <2>2, <2>3, <1>0, <1>2, DataStep
<1> QED
  BY <1>3, <1>4

(* Nothing to read means the end of the file. *)
LEMMA PreadInv ==
  ASSUME Dso!DsoConstants, Dso!DsoInv, NEW t \in Threads, Dso!Pread(t)
  PROVE  Dso!DsoInv'
<1> DEFINE o == op[t]
<1> DEFINE d == op[t].dso
<1> DEFINE opened == Dso!try_to_open_dso(d)
<1>0. /\ dso_pc[t] = "pread" /\ UNCHANGED <<others, dso_lock, dso_cache, freed>>
         /\ dso_data' = opened
      /\ IF ~opened.fd[d] THEN Dso!Return(t, -1)
         ELSE IF Dso!Chunk(o.offset) >= Size[d] THEN Dso!Return(t, o.ret)
         ELSE Dso!Goto(t, "insert") /\ UNCHANGED op
  BY DEF Dso!Pread
<1>1. /\ o \in Dso!OpType /\ d \in Dsos /\ o.offset \in Nat /\ o.size \in Nat /\ o.ret \in Int
      /\ Dso!WithinFiles => Dso!EndCached("pread", o, Size[d], dso_cache)
      /\ Dso!ReadOK("pread", o) /\ Size[d] \in Int
  BY <1>0, OpFields DEF Dso!DsoInv, Dso!DsoConstants
<1>2. Dso!DataOK(opened)
  BY <1>1, TryToOpen DEF Dso!DsoInv
<1> HIDE DEF opened
<1>c. Dso!Chunk(o.offset) \in Nat /\ Dso!Chunk(o.offset) <= o.offset
  BY <1>1, ChunkBounds
<1>3. CASE Dso!Return(t, -1)
  <2>2. PICK w \in Dso!OpType :
          /\ dso_pc' = [dso_pc EXCEPT ![t] = "returned"] /\ op' = [op EXCEPT ![t] = w]
          /\ Dso!ReadOK("returned", w) /\ Dso!EndCached("returned", w, Size[w.dso], dso_cache')
    BY <1>3, ReturnError
  <2>3. "returned" \in Dso!Places /\ dso_cache' = dso_cache
    BY <1>0 DEF Dso!Places
  <2> QED
    BY <2>2, <2>3, <1>0, <1>2, DataStep
<1>4. CASE Dso!Chunk(o.offset) >= Size[d] /\ Dso!Return(t, o.ret)
  <2>1. o.offset = Size[d]
    BY <1>1, <1>4, <1>c DEF Dso!ReadOK, Dso!Reading
  <2>2. dso_pc' = [dso_pc EXCEPT ![t] = "returned"] /\ op' = [op EXCEPT ![t] = o]
    <3>1. [o EXCEPT !.ret = o.ret] = o
      BY <1>1 DEF Dso!OpType
    <3>2. op' = [op EXCEPT ![t] = [o EXCEPT !.ret = o.ret]]
      BY <1>4 DEF Dso!Return, Dso!DsoInv
    <3> QED
      BY <3>1, <3>2, <1>4 DEF Dso!Return, Dso!Goto
  <2>3. Dso!ReadOK("returned", o) /\ "returned" \in Dso!Places
    BY <2>1 DEF Dso!ReadOK, Dso!Reading, Dso!Places
  <2>4. Dso!EndCached("returned", o, Size[o.dso], dso_cache)
    BY DEF Dso!EndCached, Dso!Reading
  <2> QED
    BY <2>2, <2>3, <2>4, <1>0, <1>1, <1>2, DataStep
<1>5. CASE ~(Dso!Chunk(o.offset) >= Size[d]) /\ Dso!Goto(t, "insert") /\ UNCHANGED op
  <2>1. Dso!Chunk(o.offset) < Size[d]
    BY <1>1, <1>5, <1>c
  <2>2. dso_pc' = [dso_pc EXCEPT ![t] = "insert"] /\ op' = [op EXCEPT ![t] = o]
    BY <1>5, OpSame DEF Dso!Goto
  <2>3. Dso!ReadOK("insert", o) /\ "insert" \in Dso!Places
    BY <2>1, <1>1 DEF Dso!ReadOK, Dso!Reading, Dso!Places
  <2>4. Dso!WithinFiles => Dso!EndCached("insert", o, Size[o.dso], dso_cache)
    <3>1. o.offset <= Size[d] /\ (o.offset = Size[d] => Dso!Chunk(Size[d]) < Size[d])
      BY <2>1, <1>1 DEF Dso!ReadOK, Dso!Reading
    <3>2. ASSUME Dso!WithinFiles PROVE o.size > 0 /\ o.offset < Size[d]
      <4>1. o.offset = Size[d] => Dso!Chunk(Size[d]) >= Size[d]
        BY <3>2, <1>1 DEF Dso!EndCached
      <4>2. o.offset # Size[d]
        BY <4>1, <1>1, <1>5
      <4> QED
        BY <3>1, <3>2, <4>2, <1>1 DEF Dso!EndCached, Dso!Reading
    <3> QED
      BY <3>2 DEF Dso!EndCached
  <2> QED
    BY <2>2, <2>3, <2>4, <1>0, <1>1, <1>2, DataStep
<1> QED
  BY <1>0, <1>3, <1>4, <1>5

(* A copy from a chunk leaves the read within its file, or done. *)
LEMMA CopyChunkStep ==
  ASSUME Dso!DsoConstants, Dso!DsoInv, NEW t \in Threads, dso_pc[t] \in {"read", "insert"},
         NEW csize,
         csize = Dso!ChunkLen(op[t].dso, Dso!Chunk(op[t].offset)),
         dso_cache'[op[t].dso][Dso!Chunk(op[t].offset)] # 0,
         Dso!CopyChunk(t, csize)
  PROVE  \E at \in {"read", "returned"}, o \in Dso!OpType :
           /\ dso_pc' = [dso_pc EXCEPT ![t] = at] /\ op' = [op EXCEPT ![t] = o]
           /\ Dso!ReadOK(at, o)
           /\ Dso!WithinFiles => Dso!EndCached(at, o, Size[o.dso], dso_cache')
<1> DEFINE p == op[t]
<1> DEFINE d == p.dso
<1> DEFINE n == Dso!Copied(t, csize)
<1> DEFINE o == [p EXCEPT !.offset = @ + n, !.size = @ - n, !.ret = @ + n]
<1> DEFINE at == IF n = 0 \/ o.size = 0 THEN "returned" ELSE "read"
<1>1. /\ p \in Dso!OpType /\ d \in Dsos /\ p.offset \in Nat /\ p.size \in Nat /\ p.ret \in Int
      /\ Size[d] \in Int /\ Dso!Chunk(p.offset) \in Nat
  BY OpFields, ChunkBounds DEF Dso!DsoConstants
<1>2. p.offset <= Size[d] /\ Size[d] >= 0 /\ p.ret >= 0
  BY DEF Dso!DsoInv, Dso!ReadOK, Dso!Reading
<1>3. n = Dso!min(Dso!ChunkLen(d, Dso!Chunk(p.offset)) - (p.offset - Dso!Chunk(p.offset)), p.size)
  BY DEF Dso!Copied
<1>4. dso_pc' = [dso_pc EXCEPT ![t] = at] /\ op' = [op EXCEPT ![t] = o]
  BY DEF Dso!CopyChunk, Dso!Goto
<1> HIDE DEF n
<1>5. /\ n \in Nat /\ n <= p.size /\ p.offset + n <= Size[d]
      /\ n = 0 => p.size = 0 \/ p.offset = Size[d]
      /\ p.offset + n = Size[d] /\ Dso!Chunk(Size[d]) < Size[d]
         => Dso!Chunk(Size[d]) = Dso!Chunk(p.offset)
  <2>1. PICK x \in Nat, s \in Nat, e \in Dsos : x = p.offset /\ s = p.size /\ e = d
    BY <1>1
  <2> HIDE DEF p, d
  <2>2. x <= Size[e] /\ n = Dso!min(Dso!ChunkLen(e, Dso!Chunk(x)) - (x - Dso!Chunk(x)), s)
    BY <2>1, <1>2, <1>3
  <2>3. /\ n \in Nat /\ n <= s /\ x + n <= Size[e]
        /\ n = 0 => s = 0 \/ x = Size[e]
        /\ x + n = Size[e] /\ Dso!Chunk(Size[e]) < Size[e] => Dso!Chunk(Size[e]) = Dso!Chunk(x)
    BY <2>2, CopyOfChunk, SMTT(30)
  <2> QED
    BY <2>1, <2>3
<1>6. o.dso = d /\ o.offset = p.offset + n /\ o.size = p.size - n /\ o.ret = p.ret + n
  BY <1>1 DEF Dso!OpType
<1>7. p.offset + n \in Nat /\ p.size - n \in Nat /\ p.ret + n \in Int
  BY <1>1, <1>5
<1>8. o \in Dso!OpType
  BY <1>1, <1>7 DEF Dso!OpType
<1>9. at \in {"read", "returned"} /\ (at = "read" => n # 0 /\ o.size # 0)
      /\ (at = "returned" => n = 0 \/ o.size = 0)
  OBVIOUS
<1>a. dso_cache'[d][Dso!Chunk(p.offset)] # 0
  OBVIOUS
<1> HIDE DEF o, at, d
<1>10. Dso!ReadOK(at, o)
  BY <1>1, <1>2, <1>5, <1>6, <1>7, <1>9 DEF Dso!ReadOK, Dso!Reading
<1>11. Dso!EndCached(at, o, Size[o.dso], dso_cache')
  <2>1. at = "read" => o.size > 0
    BY <1>9, <1>6, <1>7
  <2>2. at = "read" /\ o.offset = Size[d] /\ Dso!Chunk(Size[d]) < Size[d]
          => dso_cache'[o.dso][Dso!Chunk(Size[d])] # 0
    BY <1>5, <1>6, <1>a
  <2> QED
    BY <2>1, <2>2, <1>6, <1>9 DEF Dso!EndCached, Dso!Reading
<1> QED
  BY <1>4, <1>8, <1>9, <1>10, <1>11

(* A chunk that is found is whole. *)
LEMMA CacheFindInv ==
  ASSUME Dso!DsoConstants, Dso!DsoInv, NEW t \in Threads, Dso!CacheFind(t)
  PROVE  Dso!DsoInv'
<1> DEFINE o == op[t]
<1> DEFINE d == op[t].dso
<1> DEFINE c == Dso!Chunk(o.offset)
<1>0. /\ dso_pc[t] = "read" /\ UNCHANGED <<dso_data, others, dso_lock, dso_cache, freed>>
      /\ IF dso_cache[d][c] # 0 THEN Dso!CopyChunk(t, dso_cache[d][c])
         ELSE Dso!Goto(t, "pread") /\ UNCHANGED op
  BY DEF Dso!CacheFind
<1>1. /\ o \in Dso!OpType /\ d \in Dsos /\ o.offset \in Nat /\ o.size \in Nat /\ o.ret \in Int
      /\ Dso!WithinFiles => Dso!EndCached("read", o, Size[d], dso_cache)
      /\ Dso!ReadOK("read", o) /\ Size[d] \in Int
  BY <1>0, OpFields DEF Dso!DsoInv, Dso!DsoConstants
<1>2. o.offset <= Size[d] /\ c \in Dso!Chunks(d)
  BY <1>1, ChunkOfFile DEF Dso!ReadOK, Dso!Reading
<1>3. CASE dso_cache[d][c] # 0
  <2>1. dso_cache[d][c] = Dso!ChunkLen(d, c) /\ dso_cache' = dso_cache
    BY <1>0, <1>1, <1>2, <1>3 DEF Dso!DsoInv, Dso!CacheOK
  <2>2. PICK at \in {"read", "returned"}, w \in Dso!OpType :
          /\ dso_pc' = [dso_pc EXCEPT ![t] = at] /\ op' = [op EXCEPT ![t] = w]
          /\ Dso!ReadOK(at, w)
          /\ Dso!WithinFiles => Dso!EndCached(at, w, Size[w.dso], dso_cache')
    BY <1>0, <1>3, <2>1, CopyChunkStep
  <2>3. at \in Dso!Places /\ at \notin {"has_fd", "no_fd"}
    BY DEF Dso!Places, Dso!Reading
  <2> QED
    BY <2>1, <2>2, <2>3, <1>0, LocalStep
<1>4. CASE dso_cache[d][c] = 0
  <2>1. Dso!Goto(t, "pread") /\ UNCHANGED op
    BY <1>0, <1>4
  <2>2. dso_pc' = [dso_pc EXCEPT ![t] = "pread"] /\ op' = [op EXCEPT ![t] = o]
    BY <2>1, OpSame DEF Dso!Goto
  <2>3. Dso!ReadOK("pread", o) /\ "pread" \in Dso!Places
    BY <1>1 DEF Dso!ReadOK, Dso!Reading, Dso!Places
  <2>4. ASSUME Dso!WithinFiles PROVE Dso!EndCached("pread", o, Size[o.dso], dso_cache)
    <3>1. o.size > 0
      BY <2>4, <1>1 DEF Dso!EndCached, Dso!Reading
    <3>2. o.offset = Size[d] => Dso!Chunk(Size[d]) >= Size[d]
      <4>1. o.offset = Size[d] => ~(Dso!Chunk(Size[d]) < Size[d])
        BY <2>4, <1>1, <1>4 DEF Dso!EndCached
      <4>2. Dso!Chunk(o.offset) \in Nat
        BY <1>1, ChunkBounds
      <4> QED
        BY <4>1, <4>2, <1>1
    <3> QED
      BY <3>1, <3>2 DEF Dso!EndCached
  <2> QED
    BY <2>2, <2>3, <2>4, <1>0, <1>1, LocalStep
<1> QED
  BY <1>3, <1>4

(* A chunk that is read is whole, and not freed if anything is copied from it. *)
LEMMA CacheInsertInv ==
  ASSUME Dso!DsoConstants, Dso!DsoInv, NEW t \in Threads, Dso!CacheInsert(t)
  PROVE  Dso!DsoInv'
<1> DEFINE o == op[t]
<1> DEFINE d == op[t].dso
<1> DEFINE c == Dso!Chunk(o.offset)
<1> DEFINE csize == Dso!ChunkLen(d, c)
<1>0. /\ dso_pc[t] = "insert" /\ UNCHANGED <<dso_data, others, dso_lock>>
      /\ dso_cache' = [dso_cache EXCEPT ![d][c] = csize]
      /\ Dso!CopyChunk(t, csize)
      /\ freed' = [freed EXCEPT ![d] = IF Dso!Copied(t, csize) = 0 THEN @ \union {c} ELSE @]
  BY DEF Dso!CacheInsert, Dso!dso_cache__insert, Dso!ChunkLen
<1>1. /\ o \in Dso!OpType /\ d \in Dsos /\ o.offset \in Nat /\ o.size \in Nat /\ o.ret \in Int
      /\ Dso!WithinFiles => Dso!EndCached("insert", o, Size[d], dso_cache)
      /\ Dso!ReadOK("insert", o) /\ Size[d] \in Int
  BY <1>0, OpFields DEF Dso!DsoInv, Dso!DsoConstants
<1>2. o.offset <= Size[d] /\ c \in Dso!Chunks(d) /\ c < Size[d] /\ c \in Nat
  BY <1>1, ChunkOfFile, ChunkBounds DEF Dso!ReadOK, Dso!Reading
<1>3. csize # 0
  BY <1>1, <1>2 DEF Dso!ChunkLen, Dso!min, Dso!DsoConstants
<1>4. /\ DOMAIN dso_cache = Dsos
      /\ \A e \in Dsos : DOMAIN dso_cache[e] = Dso!Chunks(e)
      /\ \A e \in Dsos : \A x \in Dso!Chunks(e) : dso_cache[e][x] \in {0, Dso!ChunkLen(e, x)}
  BY DEF Dso!DsoInv, Dso!CacheOK
<1>n. Dso!Copied(t, csize) = Dso!min(Dso!ChunkLen(d, c) - (o.offset - c), o.size)
  BY DEF Dso!Copied
<1> HIDE DEF csize, c, d
<1>5. /\ DOMAIN dso_cache' = Dsos
      /\ \A e \in Dsos : DOMAIN dso_cache'[e] = Dso!Chunks(e)
      /\ \A e \in Dsos : \A x \in Dso!Chunks(e) :
           dso_cache'[e][x] = IF e = d /\ x = c THEN csize ELSE dso_cache[e][x]
  <2>1. DOMAIN dso_cache' = Dsos
    BY <1>0, <1>4
  <2>2. \A e \in Dsos : dso_cache'[e] = IF e = d THEN [dso_cache[d] EXCEPT ![c] = csize]
        ELSE dso_cache[e]
    BY <1>0, <1>1, <1>4
  <2> QED
    BY <2>1, <2>2, <1>1, <1>2, <1>4
<1>6. Dso!CacheOK'
  BY <1>4, <1>5 DEF Dso!CacheOK, csize
<1>7. \A e \in Dsos : \A x \in Dso!Chunks(e) : dso_cache[e][x] # 0 => dso_cache'[e][x] # 0
  BY <1>3, <1>5
<1>8. PICK at \in {"read", "returned"}, w \in Dso!OpType :
        /\ dso_pc' = [dso_pc EXCEPT ![t] = at] /\ op' = [op EXCEPT ![t] = w]
        /\ Dso!ReadOK(at, w)
        /\ Dso!WithinFiles => Dso!EndCached(at, w, Size[w.dso], dso_cache')
  <2>1. dso_cache'[d][c] # 0
    BY <1>1, <1>2, <1>3, <1>5
  <2> QED
    BY <2>1, <1>0, CopyChunkStep DEF csize, c, d
<1>9. ASSUME Dso!WithinFiles PROVE Dso!ServedByCache'
  <2>1. o.offset < Size[d] /\ o.size > 0
    BY <1>9, <1>1 DEF Dso!EndCached, Dso!Reading
  <2>2. Dso!Copied(t, csize) # 0
    <3>1. PICK x \in Nat, s \in Nat, e \in Dsos : x = o.offset /\ s = o.size /\ e = d
      BY <1>1
    <3> DEFINE n == Dso!Copied(t, csize)
    <3>2. x <= Size[e] /\ n = Dso!min(Dso!ChunkLen(e, Dso!Chunk(x)) - (x - Dso!Chunk(x)), s)
      BY <3>1, <1>2, <1>n DEF c
    <3> HIDE DEF n
    <3>3. n \in Nat /\ (x < Size[e] /\ s > 0 => n > 0)
      BY <3>2, CopyOfChunk
    <3> QED
      BY <2>1, <3>1, <3>3 DEF n
  <2>3. freed' = [freed EXCEPT ![d] = @]
    BY <2>2, <1>0
  <2>4. \A e \in Dsos : freed[e] = {}
    BY <1>9 DEF Dso!DsoInv, Dso!ServedByCache
  <2> QED
    BY <2>3, <2>4 DEF Dso!ServedByCache
<1>10. Dso!DataOK(dso_data') /\ others' \in 0 .. MaxOthers
       /\ dso_lock' \in Threads \union {Dso!Nobody}
  BY <1>0 DEF Dso!DsoInv
<1>11. Dso!DescriptorLeft => \A u \in Threads : dso_pc[u] = "has_fd" => dso_lock' = u
  BY <1>0 DEF Dso!DsoInv, Dso!LockOK
<1>12. at \in Dso!Places /\ at \notin {"has_fd", "no_fd"}
  BY DEF Dso!Places, Dso!Reading
<1> QED
  BY <1>6, <1>7, <1>8, <1>9, <1>10, <1>11, <1>12, ThreadStep


(* The result of a read is taken. *)
LEMMA ConsumeInv ==
  ASSUME Dso!DsoConstants, Dso!DsoInv, NEW t \in Threads, Dso!Consume(t)
  PROVE  Dso!DsoInv'
<1>1. /\ dso_pc' = [dso_pc EXCEPT ![t] = "idle"] /\ op' = [op EXCEPT ![t] = Dso!NoOp]
      /\ UNCHANGED <<dso_data, others, dso_lock, dso_cache, freed>>
  BY DEF Dso!Consume, Dso!Goto
<1>2. Dso!NoOp \in Dso!OpType /\ "idle" \in Dso!Places
  BY NoOpType DEF Dso!Places
<1>3. Dso!ReadOK("idle", Dso!NoOp) /\ Dso!EndCached("idle", Dso!NoOp, Size[Dso!NoOp.dso], dso_cache)
  BY DEF Dso!ReadOK, Dso!EndCached, Dso!Reading
<1> QED
  BY <1>1, <1>2, <1>3, LocalStep

(* A descriptor is asked for. *)
LEMMA GetFdInv ==
  ASSUME Dso!DsoConstants, Dso!DsoInv, NEW t \in Threads, NEW d \in Dsos, Dso!dso__data_get_fd(t, d)
  PROVE  Dso!DsoInv'
<1>1. PICK at \in {"idle", "get"} :
        /\ dso_pc' = [dso_pc EXCEPT ![t] = at]
           /\ op' = [op EXCEPT ![t] = [Dso!NoOp EXCEPT !.dso = d]]
        /\ UNCHANGED <<dso_data, others, dso_lock, dso_cache, freed>>
  BY DEF Dso!dso__data_get_fd, Dso!Goto
<1>2. PICK o \in Dso!OpType : o = [Dso!NoOp EXCEPT !.dso = d]
  BY NoOpType
<1>3. at \in Dso!Places /\ at \notin {"has_fd", "no_fd"}
  BY DEF Dso!Places
<1>4. Dso!ReadOK(at, o) /\ Dso!EndCached(at, o, Size[o.dso], dso_cache)
  BY DEF Dso!ReadOK, Dso!EndCached, Dso!Reading
<1> QED
  BY <1>1, <1>2, <1>3, <1>4, LocalStep

(* It is opened under the lock, which is kept if there is one. *)
LEMMA GetFdLockedInv ==
  ASSUME Dso!DsoConstants, Dso!DsoInv, NEW t \in Threads, Dso!GetFdLocked(t)
  PROVE  Dso!DsoInv'
<1> DEFINE o == op[t]
<1> DEFINE d == op[t].dso
<1> DEFINE opened == Dso!try_to_open_dso(d)
<1>0. /\ dso_pc[t] = "get" /\ dso_lock = Dso!Nobody /\ UNCHANGED <<others, dso_cache, freed, op>>
      /\ dso_data' = opened
      /\ IF opened.fd[d] THEN dso_lock' = t /\ Dso!Goto(t, "has_fd")
         ELSE dso_lock' = dso_lock /\ Dso!Goto(t, "no_fd")
  BY DEF Dso!GetFdLocked
<1>1. o \in Dso!OpType /\ d \in Dsos /\ Size[d] \in Int /\ Dso!Nobody \notin Threads
  BY OpFields DEF Dso!DsoConstants
<1>2. Dso!DataOK(opened) /\ (Dso!DescriptorLeft /\ Size[d] >= 0 => opened.fd[d])
  BY <1>1, TryToOpen DEF Dso!DsoInv
<1> HIDE DEF opened
<1>3. PICK at \in {"has_fd", "no_fd"} :
        /\ dso_pc' = [dso_pc EXCEPT ![t] = at] /\ op' = [op EXCEPT ![t] = o]
        /\ at = "has_fd" => dso_lock' = t
        /\ at = "no_fd" => ~opened.fd[d] /\ dso_lock' = dso_lock
  BY <1>0, OpSame DEF Dso!Goto
<1>4. at \in Dso!Places /\ Dso!ReadOK(at, o) /\ Dso!EndCached(at, o, Size[o.dso], dso_cache')
  BY DEF Dso!Places, Dso!ReadOK, Dso!EndCached, Dso!Reading
<1>5. Dso!DataOK(dso_data') /\ others' \in 0 .. MaxOthers
      /\ dso_lock' \in Threads \union {Dso!Nobody}
  BY <1>0, <1>2 DEF Dso!DsoInv
<1>6. Dso!CacheOK' /\ \A e \in Dsos : \A c \in Dso!Chunks(e) : dso_cache[e][c] # 0
      => dso_cache'[e][c] # 0
  BY <1>0 DEF Dso!DsoInv, Dso!CacheOK
<1>7. Dso!WithinFiles => Dso!ServedByCache'
  BY <1>0 DEF Dso!DsoInv, Dso!ServedByCache
<1>8. Dso!DescriptorLeft => /\ at = "has_fd" => dso_lock' = t
                            /\ at = "no_fd" => Size[o.dso] < 0
                            /\ \A u \in Threads : u # t /\ dso_pc[u] = "has_fd" => dso_lock' = u
  <2>1. ASSUME Dso!DescriptorLeft, NEW u \in Threads PROVE dso_pc[u] # "has_fd"
    BY <2>1, <1>0, <1>1 DEF Dso!DsoInv, Dso!LockOK
  <2>2. Dso!DescriptorLeft /\ at = "no_fd" => Size[d] < 0
    BY <1>1, <1>2, <1>3
  <2> QED
    BY <2>1, <2>2, <1>3
<1> QED
  BY <1>1, <1>3, <1>4, <1>5, <1>6, <1>7, <1>8, ThreadStep

(* A file that does not exist is not opened by others either. *)
LEMMA ReturnFdInv ==
  ASSUME Dso!DsoConstants, Dso!DsoInv, NEW t \in Threads, Dso!ReturnFd(t)
  PROVE  Dso!DsoInv'
<1> DEFINE o == op[t]
<1>0. /\ dso_pc[t] = "no_fd" /\ UNCHANGED <<dso_data, others, dso_lock, dso_cache, freed, op>>
      /\ Dso!Goto(t, IF dso_data.fd[o.dso] THEN "has_fd" ELSE "idle")
  BY DEF Dso!ReturnFd
<1>1. o \in Dso!OpType /\ o.dso \in Dsos /\ Size[o.dso] \in Int
  BY OpFields DEF Dso!DsoConstants
<1>2. PICK at \in {"has_fd", "idle"} :
        /\ dso_pc' = [dso_pc EXCEPT ![t] = at] /\ op' = [op EXCEPT ![t] = o]
        /\ at = "has_fd" => dso_data.fd[o.dso]
  BY <1>0, OpSame DEF Dso!Goto
<1>3. at \in Dso!Places /\ Dso!ReadOK(at, o) /\ Dso!EndCached(at, o, Size[o.dso], dso_cache)
  BY DEF Dso!Places, Dso!ReadOK, Dso!EndCached, Dso!Reading
<1>4. Dso!DescriptorLeft => at # "has_fd"
  <2>1. dso_data.fd[o.dso] => Size[o.dso] >= 0
    BY <1>1 DEF Dso!DsoInv, Dso!DataOK
  <2>2. Dso!DescriptorLeft => Size[o.dso] < 0
    BY <1>0 DEF Dso!DsoInv, Dso!LockOK
  <2> QED
    BY <2>1, <2>2, <1>1, <1>2
<1> QED
  BY <1>0, <1>1, <1>2, <1>3, <1>4, LocalStep

(* The lock is given back. *)
LEMMA PutFdInv ==
  ASSUME Dso!DsoConstants, Dso!DsoInv, NEW t \in Threads, Dso!dso__data_put_fd(t)
  PROVE  Dso!DsoInv'
<1> DEFINE o == op[t]
<1>0. /\ dso_pc[t] = "has_fd" /\ UNCHANGED <<dso_data, others, dso_cache, freed, op>>
      /\ dso_lock' = Dso!Nobody /\ Dso!Goto(t, "idle")
  BY DEF Dso!dso__data_put_fd
<1>1. o \in Dso!OpType /\ dso_pc' = [dso_pc EXCEPT ![t] = "idle"] /\ op' = [op EXCEPT ![t] = o]
  BY <1>0, OpSame, OpFields DEF Dso!Goto
<1>2. "idle" \in Dso!Places /\ Dso!ReadOK("idle", o)
      /\ Dso!EndCached("idle", o, Size[o.dso], dso_cache')
  BY DEF Dso!Places, Dso!ReadOK, Dso!EndCached, Dso!Reading
<1>3. Dso!DataOK(dso_data') /\ others' \in 0 .. MaxOthers
      /\ dso_lock' \in Threads \union {Dso!Nobody}
  BY <1>0 DEF Dso!DsoInv
<1>4. Dso!CacheOK' /\ \A e \in Dsos : \A c \in Dso!Chunks(e) : dso_cache[e][c] # 0
      => dso_cache'[e][c] # 0
  BY <1>0 DEF Dso!DsoInv, Dso!CacheOK
<1>5. Dso!WithinFiles => Dso!ServedByCache'
  BY <1>0 DEF Dso!DsoInv, Dso!ServedByCache
<1>6. Dso!DescriptorLeft => \A u \in Threads : u # t /\ dso_pc[u] = "has_fd" => dso_lock' = u
  BY <1>0 DEF Dso!DsoInv, Dso!LockOK
<1> QED
  BY <1>1, <1>2, <1>3, <1>4, <1>5, <1>6, ThreadStep

(* A DSO is closed by its user. *)
LEMMA DataCloseInv ==
  ASSUME Dso!DsoConstants, Dso!DsoInv, NEW t \in Threads, NEW d \in Dsos, Dso!dso__data_close(t, d)
  PROVE  Dso!DsoInv'
<1>1. dso_data' = Dso!close_dso(dso_data, d)
      /\ UNCHANGED <<others, dso_lock, dso_cache, freed, dso_pc, op>>
  BY DEF Dso!dso__data_close
<1>2. Dso!DataOK(dso_data')
  BY <1>1, CloseDso DEF Dso!DsoInv
<1> QED
  BY <1>1, <1>2 DEF Dso!DsoInv, Dso!CacheOK, Dso!ServedByCache, Dso!LockOK

(* At first nothing is open, cached or asked for. *)
LEMMA DsoInitInv ==
  ASSUME Dso!DsoConstants, Dso!Init
  PROVE  Dso!DsoInv
<1>1. Dso!DataOK(dso_data)
  <2>1. /\ dso_data.list = <<>> /\ dso_data.fd = [d \in Dsos |-> FALSE]
        /\ dso_data.file_size = [d \in Dsos |-> 0]
        /\ dso_data \in Dso!DataType
    BY DEF Dso!Init, Dso!DataType
  <2>2. Len(dso_data.list) = 0
    BY <2>1
  <2> QED
    BY <2>1, <2>2 DEF Dso!DataOK, Dso!ListsOpen
<1>2. others \in 0 .. MaxOthers /\ dso_lock \in Threads \union {Dso!Nobody} /\ Dso!CacheOK
      /\ Dso!ServedByCache
  BY DEF Dso!Init, Dso!CacheOK, Dso!ServedByCache, Dso!DsoConstants
<1>3. op \in [Threads -> Dso!OpType] /\ dso_pc \in [Threads -> Dso!Places]
      /\ \A t \in Threads : dso_pc[t] = "idle"
  BY NoOpType DEF Dso!Init, Dso!Places
<1>4. \A t \in Threads : /\ Dso!ReadOK(dso_pc[t], op[t]) /\ Dso!LockOK(t, dso_pc[t], op[t])
                         /\ Dso!EndCached(dso_pc[t], op[t], Size[op[t].dso], dso_cache)
  BY <1>3 DEF Dso!ReadOK, Dso!LockOK, Dso!EndCached, Dso!Reading
<1> QED
  BY <1>1, <1>2, <1>3, <1>4 DEF Dso!DsoInv

(* Every step keeps the invariant. *)
LEMMA DsoStepInv ==
  ASSUME Dso!DsoConstants, Dso!DsoInv, [Dso!Next]_Dso!vars
  PROVE  Dso!DsoInv'
<1>1. CASE UNCHANGED Dso!vars
  BY <1>1 DEF Dso!vars, Dso!DsoInv, Dso!CacheOK, Dso!ServedByCache, Dso!LockOK
<1>2. CASE Dso!Next
  BY <1>2, OtherFilesInv, ReadOffsetInv, FileSizeInv, FstatInv, CheckOffsetInv, CacheFindInv,
     PreadInv, CacheInsertInv, ConsumeInv, GetFdInv, GetFdLockedInv, ReturnFdInv, PutFdInv,
     DataCloseInv DEF Dso!Next, Dso!ReadStep
<1> QED
  BY <1>1, <1>2

(* The invariant is what is promised, and more. *)
LEMMA DsoInvReads ==
  ASSUME Dso!DsoConstants, Dso!DsoInv
  PROVE  Dso!DsoReads
<1>1. Dso!TypeOK /\ Dso!ListIsOpen
  BY DataFields DEF Dso!DsoInv, Dso!DataOK, Dso!TypeOK, Dso!ListIsOpen, Dso!OpType
<1>2. Dso!DescriptorsBounded
  BY NrOpenIsLen DEF Dso!DsoInv, Dso!DataOK, Dso!DescriptorsBounded
<1>3. Dso!ReadsWhole
  BY DEF Dso!DsoInv, Dso!ReadsWhole, Dso!ReadOK
<1>4. Dso!DescriptorLeft => Dso!FdWithLock
  BY DEF Dso!DsoInv, Dso!FdWithLock, Dso!LockOK
<1> QED
  BY <1>1, <1>2, <1>3, <1>4 DEF Dso!DsoInv, Dso!DsoReads

(* Any number of threads, DSOs and reads: the list is the open DSOs, fewer  *)
(* than the limit; a read returns all there is; no chunk in the tree is     *)
(* freed where reads are within their files, and whoever borrows a          *)
(* descriptor holds the lock where the process leaves one.                  *)
THEOREM DsoReadsSound == Dso!Spec => []DsoReads
<1>1. Dso!Init => Dso!DsoInv
  BY DsoInitInv, StoresAssumption
<1>2. Dso!DsoInv /\ [Dso!Next]_Dso!vars => Dso!DsoInv'
  BY DsoStepInv, StoresAssumption
<1>3. Dso!DsoInv => DsoReads
  BY DsoInvReads, StoresAssumption DEF DsoReads
<1> QED
  BY <1>1, <1>2, <1>3, PTL DEF Dso!Spec

-----------------------------------------------------------------------------
(* The histogram of perf top *)

(* The same cardinality *)
LEMMA TopCounts ==
  ASSUME NEW S
  PROVE  Top!Cardinality(S) = Cardinality(S)
BY DEF Top!Cardinality, Cardinality

(* No entry is none. *)
LEMMA FreeIsNone == Top!TopConstants => Top!None \notin Top!Ids
BY DEF Top!TopConstants, Top!None, Top!Ids

(* The entries in use are finitely many, and fewer when some are freed. *)
LEMMA UsedFinite ==
  ASSUME Top!TopConstants
  PROVE  /\ IsFiniteSet(Top!Ids) /\ Cardinality(Top!Ids) = MaxSamples + 1
         /\ \A S \in SUBSET Top!Ids : IsFiniteSet(S) /\ Cardinality(S) \in Nat
<1>1. IsFiniteSet(1 .. MaxSamples + 1) /\ Cardinality(1 .. MaxSamples + 1) = MaxSamples + 1
  <2>1. 1 \in Int /\ MaxSamples + 1 \in Int /\ ~(1 > MaxSamples + 1)
    BY DEF Top!TopConstants
  <2>2. Cardinality(1 .. MaxSamples + 1) = (MaxSamples + 1) - 1 + 1
    BY <2>1, FS_Interval
  <2> QED
    BY <2>1, <2>2, FS_Interval DEF Top!TopConstants
<1>2. ASSUME NEW S \in SUBSET Top!Ids PROVE IsFiniteSet(S) /\ Cardinality(S) \in Nat
  <2>1. IsFiniteSet(S)
    BY <1>1, FS_Subset DEF Top!Ids
  <2> QED
    BY <2>1, FS_CardinalityType
<1> QED
  BY <1>1, <1>2 DEF Top!Ids

(* A part of the entries has no more of them. *)
LEMMA FewerUsed ==
  ASSUME Top!TopConstants, NEW S \in SUBSET Top!Ids, NEW T \in SUBSET S
  PROVE  Cardinality(T) <= Cardinality(S) /\ Cardinality(T) \in Nat /\ Cardinality(S) \in Nat
<1>1. IsFiniteSet(S) /\ T \in SUBSET Top!Ids
  BY UsedFinite
<1> QED
  BY <1>1, UsedFinite, FS_Subset

(* Steps that leave the trees alone. *)
LEMMA TreesKept ==
  ASSUME Top!TreesOwnEntries, UNCHANGED <<in, collapsed, entries, he>>
  PROVE  Top!TreesOwnEntries' /\ Top!Used' = Top!Used
BY DEF Top!TreesOwnEntries, Top!Used

(***************************************************************************)
(* The reader.                                                             *)
(***************************************************************************)

(* The reader takes a sample. *)
LEMMA TopReadStep ==
  ASSUME Top!TopConstants, Top!TopInv, NEW k \in TopKeys, Top!perf_top__mmap_read_idx(k)
  PROVE  Top!TopInv'
<1>1. /\ rpc = "read" /\ rpc' \in {"read", "lock"} /\ rkey' = k
      /\ samples < MaxSamples /\ samples' = samples + 1
      /\ UNCHANGED <<entries_in, in, collapsed, entries, he, dpc, droot, sym_filter_entry, top_lock,
                     rhe, root, dropped, shared>>
  BY DEF Top!perf_top__mmap_read_idx, Top!tree, Top!display, Top!keyboard
<1>2. Top!TreesOwnEntries' /\ Top!Used' = Top!Used
  BY <1>1, TreesKept DEF Top!TopInv
<1>3. Top!EntryTypes'
  BY <1>1 DEF Top!TopInv, Top!EntryTypes
<1>4. Top!RoomInv'
  <2>1. Cardinality(Top!Used) \in Nat
    BY UsedFinite DEF Top!Used
  <2> QED
    BY <1>1, <1>2, <2>1, TopCounts DEF Top!TopInv, Top!RoomInv, Top!TopConstants
<1>5. Top!ReaderInv'
  BY <1>1 DEF Top!TopInv, Top!ReaderInv
<1>6. Top!DisplayInv' /\ Top!TreesExclusive'
  BY <1>1 DEF Top!TopInv, Top!DisplayInv, Top!TreesExclusive
<1> QED
  BY <1>2, <1>3, <1>4, <1>5, <1>6 DEF Top!TopInv

(* The lock, with it the tree; the callback; the lock given up and taken   *)
(* again; the end of a sample.                                             *)
LEMMA TopReaderLockStep ==
  ASSUME Top!TopConstants, Top!TopInv,
         \/ Top!perf_event__process_sample
         \/ \E err \in BOOLEAN : Top!perf_top__record_precise_ip(err)
         \/ Top!ui__warn_map_erange
         \/ Top!iter_finish_normal_entry
  PROVE  Top!TopInv'
<1>1. /\ UNCHANGED <<entries_in, in, collapsed, entries, he, dpc, droot, sym_filter_entry,
                     samples, rkey, shared>>
      /\ root' \in {root, entries_in} /\ rhe' \in {rhe, Top!None}
  BY DEF Top!perf_event__process_sample, Top!perf_top__record_precise_ip, Top!ui__warn_map_erange,
         Top!iter_finish_normal_entry, Top!tree, Top!display, Top!keyboard
<1>2. Top!TreesOwnEntries' /\ Top!Used' = Top!Used
  BY <1>1, TreesKept DEF Top!TopInv
<1>3. Top!EntryTypes'
  BY <1>1 DEF Top!TopInv, Top!EntryTypes
<1>4. Top!RoomInv'
  <2>1. Cardinality(Top!Used) \in Nat
    BY UsedFinite DEF Top!Used
  <2>2. rpc' \in {"lock", "add"} => rpc \in {"lock", "add"}
    BY DEF Top!perf_event__process_sample, Top!perf_top__record_precise_ip, Top!ui__warn_map_erange,
           Top!iter_finish_normal_entry
  <2> QED
    BY <1>1, <1>2, <2>1, <2>2, TopCounts DEF Top!TopInv, Top!RoomInv
<1>5. Top!ReaderInv'
  <2>1. CASE Top!perf_event__process_sample
    BY <1>1, <2>1 DEF Top!perf_event__process_sample, Top!TopInv, Top!ReaderInv
  <2>2. ASSUME NEW err \in BOOLEAN, Top!perf_top__record_precise_ip(err)
        PROVE  Top!ReaderInv'
    <3>1. /\ rpc = "callback" /\ rhe' = rhe /\ rpc' = IF err THEN "warning" ELSE "finish"
          /\ top_lock' = IF err THEN "none" ELSE top_lock
      BY <2>2 DEF Top!perf_top__record_precise_ip
    <3>2. dropped' = err
      BY <2>2, Zenon DEF Top!perf_top__record_precise_ip
    <3>3. rhe # Top!None /\ top_lock = "reader"
      BY <3>1 DEF Top!TopInv, Top!ReaderInv
    <3>4. CASE err
      BY <1>1, <3>1, <3>2, <3>3, <3>4 DEF Top!ReaderInv
    <3>5. CASE ~err
      <4>1. rpc' = "finish" /\ top_lock' = "reader"
        BY <3>1, <3>3, <3>5
      <4>2. rhe \in in[entries_in]
        BY <3>1, <3>3 DEF Top!TopInv, Top!ReaderInv
      <4> QED
        BY <1>1, <3>1, <3>2, <3>3, <3>5, <4>1, <4>2 DEF Top!ReaderInv
    <3> QED
      BY <3>4, <3>5
  <2>3. CASE Top!ui__warn_map_erange
    <3>1. rpc = "warning" /\ rpc' = "finish" /\ top_lock' = "reader" /\ rhe' = rhe
      BY <2>3 DEF Top!ui__warn_map_erange
    <3>2. dropped' = dropped
      BY <2>3, Zenon DEF Top!ui__warn_map_erange
    <3> QED
      BY <1>1, <3>1, <3>2 DEF Top!TopInv, Top!ReaderInv
  <2>4. CASE Top!iter_finish_normal_entry
    BY <1>1, <2>4 DEF Top!iter_finish_normal_entry, Top!TopInv, Top!ReaderInv
  <2> QED
    BY <2>1, <2>2, <2>3, <2>4
<1>6. Top!DisplayInv' /\ Top!TreesExclusive'
  BY <1>1 DEF Top!TopInv, Top!DisplayInv, Top!TreesExclusive
<1> QED
  BY <1>2, <1>3, <1>4, <1>5, <1>6 DEF Top!TopInv

(* There is an entry left for a sample that needs one. *)
LEMMA NewIdIsFree ==
  ASSUME Top!TopConstants, Top!TopInv, rpc = "add"
  PROVE  Top!NewId \in Top!Ids /\ he[Top!NewId] = Top!Free
<1>1. \E e \in Top!Ids : he[e] = Top!Free /\ e # rhe
  <2>1. Cardinality(Top!Used) + 1 <= MaxSamples /\ Cardinality(Top!Used) \in Nat
    <3>1. Cardinality(Top!Used) \in Nat
      BY UsedFinite DEF Top!Used
    <3> QED
      BY <3>1, TopCounts DEF Top!TopInv, Top!RoomInv, Top!TopConstants
  <2>2. Top!Used # Top!Ids
    BY <2>1, UsedFinite DEF Top!TopConstants
  <2>3. PICK e \in Top!Ids : he[e] = Top!Free
    BY <2>2 DEF Top!Used
  <2>4. rhe = Top!None
    BY DEF Top!TopInv, Top!ReaderInv
  <2> QED
    BY <2>3, <2>4, FreeIsNone
<1> QED
  BY <1>1, Zenon DEF Top!NewId

(* A sample is added to an entry of the reader, or to a new one. *)
LEMMA TopAddStep ==
  ASSUME Top!TopConstants, Top!TopInv, Top!hists__findnew_entry
  PROVE  Top!TopInv'
<1> DEFINE same == {x \in in[root] : he[x].key = rkey}
           e == IF same = {} THEN Top!NewId ELSE CHOOSE x \in same : TRUE
           new == [key |-> rkey, period |-> IF same = {} THEN 1 ELSE he[e].period + 1]
<1>1. /\ rpc = "add" /\ rpc' = "callback" /\ rhe' = e
      /\ he' = [he EXCEPT ![e] = new]
      /\ in' = [in EXCEPT ![root] = @ \union {e}]
      /\ UNCHANGED <<entries_in, collapsed, entries, dpc, droot, sym_filter_entry, top_lock,
                     rkey, root, samples>>
  BY DEF Top!hists__findnew_entry, Top!display, Top!keyboard
<1>2. root = entries_in /\ top_lock = "reader"
  BY <1>1 DEF Top!TopInv, Top!ReaderInv
<1>3. /\ e \in Top!Ids /\ e # Top!None
      /\ he[e] = Top!Free \/ e \in in[root]
      /\ e \in in[0] \union in[1] \union collapsed => e \in in[root]
  <2>1. CASE same = {}
    <3>1. e \in Top!Ids /\ he[e] = Top!Free
      BY <1>1, <2>1, NewIdIsFree
    <3> QED
      BY <3>1, FreeIsNone DEF Top!TopInv, Top!TreesOwnEntries
  <2>2. CASE same # {}
    <3>1. e \in same
      BY <2>2
    <3>2. e \in in[root] /\ in[root] \subseteq Top!Ids
      BY <3>1 DEF Top!TopInv, Top!EntryTypes
    <3> QED
      BY <3>2, FreeIsNone
  <2> QED
    BY <2>1, <2>2
<1>4. new.key \in TopKeys /\ new # Top!Free
  BY DEF Top!TopInv, Top!EntryTypes, Top!TopConstants, Top!Free
<1>5. new = [key |-> new.key, period |-> new.period]
  OBVIOUS
<1> HIDE DEF e, new
<1>6. /\ he'[e] = new /\ \A x \in Top!Ids : x # e => he'[x] = he[x]
      /\ in'[root] = in[root] \union {e} /\ in'[1 - root] = in[1 - root]
      /\ he' = [x \in Top!Ids |-> IF x = e THEN new ELSE he[x]]
      /\ root \in 0 .. 1
  BY <1>1, <1>3 DEF Top!TopInv, Top!EntryTypes
<1>7. Top!EntryTypes'
  <2>1. he' = [x \in Top!Ids |-> [key |-> he'[x].key, period |-> he'[x].period]]
    <3>1. \A x \in Top!Ids : he[x] = [key |-> he[x].key, period |-> he[x].period]
      BY DEF Top!TopInv, Top!EntryTypes
    <3>2. \A x \in Top!Ids : he'[x] = [key |-> he'[x].key, period |-> he'[x].period]
      BY <1>3, <1>5, <1>6, <3>1
    <3> QED
      BY <1>6, <3>2
  <2>2. \A x \in Top!Ids : he'[x] = Top!Free \/ he'[x].key \in TopKeys
    BY <1>4, <1>6 DEF Top!TopInv, Top!EntryTypes
  <2>3. in' \in [0 .. 1 -> SUBSET Top!Ids]
    BY <1>1, <1>3 DEF Top!TopInv, Top!EntryTypes
  <2> QED
    BY <1>1, <1>3, <2>1, <2>2, <2>3 DEF Top!TopInv, Top!EntryTypes
<1>8. Top!TreesOwnEntries'
  <2>1. in'[0] \union in'[1] = in[0] \union in[1] \union {e}
    <3>1. root = 0 \/ root = 1
      BY <1>6
    <3> QED
      BY <1>6, <3>1
  <2>2. e \in collapsed => e \in in[root]
    BY <1>3
  <2>3. e \notin collapsed /\ e \notin in[1 - root]
    <3>1. root = 0 \/ root = 1
      BY <1>6
    <3> QED
      BY <1>3, <3>1 DEF Top!TopInv, Top!TreesOwnEntries
  <2>4. in'[0] \intersect in'[1] = {}
    <3>1. root = 0 \/ root = 1
      BY <1>6
    <3> QED
      BY <1>6, <2>3, <3>1 DEF Top!TopInv, Top!TreesOwnEntries
  <2> QED
    BY <1>1, <1>4, <1>6, <2>1, <2>3, <2>4 DEF Top!TopInv, Top!TreesOwnEntries
<1>9. Top!RoomInv'
  <2>1. Top!Used' \subseteq Top!Used \union {e} /\ Top!Used \subseteq Top!Ids
    BY <1>6 DEF Top!Used
  <2>2. IsFiniteSet(Top!Used) /\ Cardinality(Top!Used) \in Nat
    BY <2>1, UsedFinite
  <2>3. Cardinality(Top!Used \union {e}) <= Cardinality(Top!Used) + 1
    BY <2>2, FS_AddElement
  <2>4. Top!Used \union {e} \in SUBSET Top!Ids
    BY <1>3, <2>1
  <2>5. /\ Cardinality(Top!Used') <= Cardinality(Top!Used \union {e})
        /\ Cardinality(Top!Used') \in Nat /\ Cardinality(Top!Used \union {e}) \in Nat
    BY <2>1, <2>4, FewerUsed
  <2> QED
    BY <1>1, <2>2, <2>3, <2>5, TopCounts DEF Top!TopInv, Top!RoomInv
<1>10. Top!ReaderInv'
  <2>1. e \in in'[entries_in']
    BY <1>1, <1>2, <1>6
  <2>2. dropped' = dropped
    BY Zenon DEF Top!hists__findnew_entry
  <2>3. ~dropped
    BY <1>1 DEF Top!TopInv, Top!ReaderInv
  <2> QED
    BY <1>1, <1>2, <1>3, <2>1, <2>2, <2>3 DEF Top!ReaderInv
<1>11. Top!DisplayInv'
  BY <1>1 DEF Top!TopInv, Top!DisplayInv
<1>12. Top!TreesExclusive'
  <2>1. shared' = (shared \/ root \in Top!Walked)
    BY Zenon DEF Top!hists__findnew_entry
  <2>2. root \notin Top!Walked
    BY <1>2, <1>6 DEF Top!TopInv, Top!DisplayInv, Top!Walked, Top!need_collapse
  <2>3. ~shared
    BY DEF Top!TopInv, Top!TreesExclusive
  <2> QED
    BY <2>1, <2>2, <2>3, Zenon DEF Top!TreesExclusive
<1> QED
  BY <1>7, <1>8, <1>9, <1>10, <1>11, <1>12 DEF Top!TopInv

(***************************************************************************)
(* The display thread.                                                     *)
(***************************************************************************)

(* What the display thread does is nothing to the reader, unless it takes  *)
(* the reader's tree or an entry of it.                                    *)
LEMMA ReaderUntouched ==
  ASSUME Top!ReaderInv, UNCHANGED <<entries_in, top_lock, rpc, rhe, root, dropped>>,
         in'[entries_in] = in[entries_in]
  PROVE  Top!ReaderInv'
BY DEF Top!ReaderInv

(* The display thread shows its tree, or waits. *)
LEMMA TopShowStep ==
  ASSUME Top!TopConstants, Top!TopInv,
         Top!perf_top__print_sym_table \/ Top!output_resort \/ Top!Refresh
  PROVE  Top!TopInv'
<1>1. /\ UNCHANGED <<entries_in, in, collapsed, he, rpc, rkey, rhe, root, samples, dropped,
                     shared, sym_filter_entry, top_lock, droot>>
      /\ entries' \in {entries, collapsed}
      /\ dpc' \in {"decay", "show", "wait"}
      /\ dpc' = "decay" => sym_filter_entry = Top!None
  BY DEF Top!perf_top__print_sym_table, Top!output_resort, Top!Refresh, Top!OutputOf,
     Top!need_collapse, Top!tree, Top!reader,
         Top!keyboard
<1>2. Top!TreesOwnEntries' /\ Top!Used' = Top!Used
  BY <1>1 DEF Top!TopInv, Top!TreesOwnEntries, Top!Used
<1>3. Top!EntryTypes' /\ Top!RoomInv'
  BY <1>1, <1>2, TopCounts DEF Top!TopInv, Top!EntryTypes, Top!RoomInv
<1>4. Top!ReaderInv'
  BY <1>1, ReaderUntouched DEF Top!TopInv
<1>5. Top!DisplayInv' /\ Top!TreesExclusive'
  BY <1>1 DEF Top!TopInv, Top!DisplayInv, Top!TreesExclusive
<1> QED
  BY <1>2, <1>3, <1>4, <1>5 DEF Top!TopInv

(* hists__decay_entries() deletes entries that it has shown: they are in   *)
(* its own tree, and the reader has none of them.                          *)
LEMMA TopDecayStep ==
  ASSUME Top!TopConstants, Top!TopInv, Top!hists__decay_entries
  PROVE  Top!TopInv'
<1> DEFINE left(e) == IF e \in Top!ToDelete THEN 0 ELSE Top!he_stat__decay(he[e].period)
<1>1. /\ dpc = "decay" /\ dpc' = "rotate" /\ in' = in
      /\ he' = [e \in Top!Ids |-> IF e \in Top!ToDelete THEN Top!Free
                              ELSE IF e \in entries THEN [he[e] EXCEPT !.period = left(e)]
                              ELSE he[e]]
      /\ entries' = entries \ Top!ToDelete /\ collapsed' = collapsed \ Top!ToDelete
      /\ UNCHANGED <<entries_in, rpc, rkey, rhe, root, samples, dropped, shared,
                     sym_filter_entry, top_lock, droot>>
  BY DEF Top!hists__decay_entries, Top!hists__delete_entry, Top!need_collapse, Top!reader,
     Top!keyboard
<1>2. Top!ToDelete \subseteq entries /\ entries \subseteq collapsed /\ collapsed \subseteq Top!Ids
  BY DEF Top!ToDelete, Top!TopInv, Top!TreesOwnEntries, Top!EntryTypes
<1> HIDE DEF left
<1>3. ASSUME NEW e \in Top!Ids
      PROVE  /\ he'[e] = [key |-> he'[e].key, period |-> he'[e].period]
             /\ he'[e] = Top!Free <=> (e \in Top!ToDelete \/ he[e] = Top!Free)
             /\ he'[e] # Top!Free => he'[e].key \in TopKeys
  <2>0. he[e] = [key |-> he[e].key, period |-> he[e].period]
    BY DEF Top!TopInv, Top!EntryTypes
  <2>1. CASE e \in Top!ToDelete
    BY <1>1, <2>1 DEF Top!Free
  <2>2. CASE e \notin Top!ToDelete /\ e \in entries
    <3>1. he'[e] = [he[e] EXCEPT !.period = left(e)]
      BY <1>1, <2>2
    <3>2. he'[e] = [key |-> he[e].key, period |-> left(e)]
      BY <2>0, <3>1
    <3>3. he[e] # Top!Free /\ he[e].key \in TopKeys
      BY <1>2, <2>2 DEF Top!TopInv, Top!TreesOwnEntries, Top!EntryTypes
    <3> QED
      BY <2>2, <3>2, <3>3 DEF Top!Free, Top!TopConstants
  <2>3. CASE e \notin entries
    BY <1>1, <1>2, <2>0, <2>3 DEF Top!TopInv, Top!EntryTypes
  <2> QED
    BY <2>1, <2>2, <2>3
<1>4. Top!EntryTypes'
  <2>1. he' = [e \in Top!Ids |-> [key |-> he'[e].key, period |-> he'[e].period]]
    <3>1. he' = [e \in Top!Ids |-> he'[e]]
      BY <1>1
    <3> QED
      BY <1>3, <3>1
  <2> QED
    BY <1>1, <1>3, <2>1 DEF Top!TopInv, Top!EntryTypes
<1>5. Top!TreesOwnEntries'
  BY <1>1, <1>2, <1>3 DEF Top!TopInv, Top!TreesOwnEntries
<1>6. Top!RoomInv'
  <2>1. Top!Used' \subseteq Top!Used /\ Top!Used \subseteq Top!Ids
    BY <1>3 DEF Top!Used
  <2>2. /\ Cardinality(Top!Used') <= Cardinality(Top!Used)
        /\ Cardinality(Top!Used') \in Nat /\ Cardinality(Top!Used) \in Nat
    BY <2>1, FewerUsed
  <2> QED
    BY <1>1, <2>2, TopCounts DEF Top!TopInv, Top!RoomInv
<1>7. Top!ReaderInv'
  BY <1>1, ReaderUntouched DEF Top!TopInv
<1>8. Top!DisplayInv' /\ Top!TreesExclusive'
  BY <1>1 DEF Top!TopInv, Top!DisplayInv, Top!TreesExclusive
<1> QED
  BY <1>4, <1>5, <1>6, <1>7, <1>8 DEF Top!TopInv

(* The reader's tree is taken while the reader is not adding to it. *)
LEMMA TopRotateStep ==
  ASSUME Top!TopConstants, Top!TopInv, Top!Rotate
  PROVE  Top!TopInv'
<1>1. /\ dpc = "rotate" /\ dpc' = "collapse" /\ top_lock = "none"
      /\ droot' = entries_in /\ entries_in' = 1 - entries_in
      /\ UNCHANGED <<in, collapsed, entries, he, rpc, rkey, rhe, root, samples, dropped, shared,
                     sym_filter_entry, top_lock>>
  BY DEF Top!Rotate, Top!need_collapse, Top!hists__get_rotate_entries_in, Top!reader, Top!keyboard
<1>2. Top!TreesOwnEntries' /\ Top!Used' = Top!Used
  BY <1>1, TreesKept DEF Top!TopInv
<1>3. Top!EntryTypes' /\ Top!RoomInv'
  BY <1>1, <1>2, TopCounts DEF Top!TopInv, Top!EntryTypes, Top!RoomInv
<1>4. Top!ReaderInv'
  <2>1. rpc \in {"read", "lock", "warning"} /\ (rhe # Top!None => dropped)
    BY <1>1 DEF Top!TopInv, Top!ReaderInv
  <2> QED
    BY <1>1, <2>1 DEF Top!TopInv, Top!ReaderInv
<1>5. Top!DisplayInv' /\ Top!TreesExclusive'
  BY <1>1 DEF Top!TopInv, Top!DisplayInv, Top!TreesExclusive, Top!EntryTypes
<1> QED
  BY <1>2, <1>3, <1>4, <1>5 DEF Top!TopInv

(* hists__collapse_resort() frees what it has folded into another entry:   *)
(* all entries come from the tree that was taken.                          *)
LEMMA TopCollapseStep ==
  ASSUME Top!TopConstants, Top!TopInv, Top!hists__collapse_resort
  PROVE  Top!TopInv'
<1> DEFINE of(S, c) == {x \in S : CollapseKey[he[x].key] = c}
           kept(c) == IF of(collapsed, c) # {} THEN CHOOSE x \in of(collapsed, c) : TRUE
                      ELSE CHOOSE x \in of(in[droot], c) : TRUE
           new == {c \in Top!CKeys : of(in[droot], c) # {}}
           survivors == {kept(c) : c \in new}
           sum(e) == Top!he_stat__add_stat(e, of(in[droot], CollapseKey[he[e].key]))
<1>1. /\ dpc = "collapse" /\ dpc' = "resort"
      /\ he' = [e \in Top!Ids |-> IF e \in survivors THEN [he[e] EXCEPT !.period = sum(e)]
                              ELSE IF e \in in[droot] THEN Top!Free ELSE he[e]]
      /\ collapsed' = collapsed \union survivors
      /\ in' = [in EXCEPT ![droot] = {}]
      /\ UNCHANGED <<entries_in, entries, rpc, rkey, rhe, root, samples, dropped, shared,
                     sym_filter_entry, top_lock, droot>>
  BY DEF Top!hists__collapse_resort, Top!reader, Top!keyboard
<1>2. survivors \subseteq collapsed \union in[droot]
  <2>1. ASSUME NEW c \in new PROVE kept(c) \in collapsed \union in[droot]
    <3>1. CASE of(collapsed, c) # {}
      BY <3>1
    <3>2. CASE of(collapsed, c) = {}
      BY <3>2
    <3> QED
      BY <3>1, <3>2
  <2> QED
    BY <2>1
<1> HIDE DEF of, kept, new, survivors, sum
<1>3. droot \in 0 .. 1 /\ droot = 1 - entries_in /\ in[droot] \subseteq Top!Ids
      /\ collapsed \subseteq Top!Ids
  BY <1>1 DEF Top!TopInv, Top!EntryTypes, Top!DisplayInv
<1>4. in'[droot] = {} /\ in'[1 - droot] = in[1 - droot] /\ in' \in [0 .. 1 -> SUBSET Top!Ids]
  BY <1>1, <1>3 DEF Top!TopInv, Top!EntryTypes
<1>5. ASSUME NEW e \in Top!Ids
      PROVE  /\ he'[e] = [key |-> he'[e].key, period |-> he'[e].period]
             /\ he'[e] = Top!Free <=> (he[e] = Top!Free \/ (e \in in[droot] /\ e \notin survivors))
             /\ he'[e] # Top!Free => he'[e].key \in TopKeys
  <2>0. he[e] = [key |-> he[e].key, period |-> he[e].period]
    BY DEF Top!TopInv, Top!EntryTypes
  <2>1. CASE e \in survivors
    <3>1. he'[e] = [he[e] EXCEPT !.period = sum(e)]
      BY <1>1, <2>1
    <3>2. he'[e] = [key |-> he[e].key, period |-> sum(e)]
      BY <2>0, <3>1
    <3>3. he[e] # Top!Free /\ he[e].key \in TopKeys
      BY <1>2, <1>3, <2>1 DEF Top!TopInv, Top!TreesOwnEntries, Top!EntryTypes
    <3> QED
      BY <2>1, <3>2, <3>3 DEF Top!Free, Top!TopConstants
  <2>2. CASE e \notin survivors /\ e \in in[droot]
    BY <1>1, <2>2 DEF Top!Free
  <2>3. CASE e \notin survivors /\ e \notin in[droot]
    BY <1>1, <2>0, <2>3 DEF Top!TopInv, Top!EntryTypes
  <2> QED
    BY <2>1, <2>2, <2>3
<1>6. Top!EntryTypes'
  <2>1. he' = [e \in Top!Ids |-> [key |-> he'[e].key, period |-> he'[e].period]]
    <3>1. he' = [e \in Top!Ids |-> he'[e]]
      BY <1>1
    <3> QED
      BY <1>5, <3>1
  <2> QED
    BY <1>1, <1>2, <1>3, <1>4, <1>5, <2>1 DEF Top!TopInv, Top!EntryTypes
<1>7. Top!TreesOwnEntries'
  <2>1. droot = 0 \/ droot = 1
    BY <1>3
  <2>2. in'[0] \union in'[1] = in[1 - droot] /\ in'[0] \intersect in'[1] = {}
    BY <1>4, <2>1
  <2>3. in[0] \union in[1] = in[droot] \union in[1 - droot]
        /\ in[droot] \intersect in[1 - droot] = {}
    BY <2>1 DEF Top!TopInv, Top!TreesOwnEntries
  <2>4. \A e \in Top!Ids : he'[e] # Top!Free <=> e \in in'[0] \union in'[1] \union collapsed'
    BY <1>1, <1>2, <1>5, <2>2, <2>3 DEF Top!TopInv, Top!TreesOwnEntries
  <2>5. (in'[0] \union in'[1]) \intersect collapsed' = {}
    BY <1>1, <1>2, <2>2, <2>3 DEF Top!TopInv, Top!TreesOwnEntries
  <2>6. entries' \subseteq collapsed'
    BY <1>1 DEF Top!TopInv, Top!TreesOwnEntries
  <2> QED
    BY <2>2, <2>4, <2>5, <2>6 DEF Top!TreesOwnEntries
<1>8. Top!RoomInv'
  <2>1. Top!Used' \subseteq Top!Used /\ Top!Used \subseteq Top!Ids
    BY <1>5 DEF Top!Used
  <2>2. /\ Cardinality(Top!Used') <= Cardinality(Top!Used)
        /\ Cardinality(Top!Used') \in Nat /\ Cardinality(Top!Used) \in Nat
    BY <2>1, FewerUsed
  <2> QED
    BY <1>1, <2>2, TopCounts DEF Top!TopInv, Top!RoomInv
<1>9. Top!ReaderInv'
  <2>1. entries_in = 1 - droot
    BY <1>3 DEF Top!TopInv, Top!EntryTypes
  <2>2. in'[entries_in] = in[entries_in]
    BY <1>4, <2>1
  <2> QED
    BY <1>1, <2>2, ReaderUntouched DEF Top!TopInv
<1>10. Top!DisplayInv' /\ Top!TreesExclusive'
  BY <1>1 DEF Top!TopInv, Top!DisplayInv, Top!TreesExclusive
<1> QED
  BY <1>6, <1>7, <1>8, <1>9, <1>10 DEF Top!TopInv

(* The keys: the symbol that is annotated is one that is shown. *)
LEMMA TopKeyStep ==
  ASSUME Top!TopConstants, Top!TopInv, NEW c, Top!perf_top__handle_keypress(c)
  PROVE  Top!TopInv'
<1>1. /\ UNCHANGED <<entries_in, in, collapsed, entries, he, rpc, rkey, rhe, root, samples,
                     dropped, shared, top_lock, dpc, droot>>
      /\ dpc = "wait"
      /\ sym_filter_entry' \in {sym_filter_entry, Top!None} \union entries
  BY DEF Top!perf_top__handle_keypress, Top!tree, Top!reader, Top!display
<1>2. Top!TreesOwnEntries' /\ Top!Used' = Top!Used
  BY <1>1, TreesKept DEF Top!TopInv
<1>3. Top!EntryTypes' /\ Top!RoomInv'
  BY <1>1, <1>2, TopCounts DEF Top!TopInv, Top!EntryTypes, Top!RoomInv
<1>4. Top!ReaderInv'
  BY <1>1, ReaderUntouched DEF Top!TopInv
<1>5. Top!DisplayInv' /\ Top!TreesExclusive'
  BY <1>1 DEF Top!TopInv, Top!DisplayInv, Top!TreesExclusive, Top!TreesOwnEntries
<1> QED
  BY <1>2, <1>3, <1>4, <1>5 DEF Top!TopInv

(***************************************************************************)
(* Together.                                                               *)
(***************************************************************************)

(* At first there is no entry. *)
LEMMA InitTop == Top!TopConstants /\ Top!Init => Top!TopInv
<1> SUFFICES ASSUME Top!TopConstants, Top!Init PROVE Top!TopInv
  OBVIOUS
<1>1. \A e \in Top!Ids : he[e] = Top!Free
  BY DEF Top!Init
<1>2. Top!EntryTypes
  <2>1. he = [e \in Top!Ids |-> [key |-> he[e].key, period |-> he[e].period]]
    BY DEF Top!Init, Top!Free
  <2> QED
    BY <1>1, <2>1 DEF Top!Init, Top!EntryTypes
<1>3. Top!RoomInv
  <2>1. Top!Used = {}
    BY <1>1 DEF Top!Used
  <2>2. Cardinality(Top!Used) = 0
    BY <2>1, FS_EmptySet
  <2> QED
    BY <2>2, TopCounts DEF Top!Init, Top!RoomInv, Top!TopConstants
<1>4. Top!TreesOwnEntries /\ Top!ReaderInv /\ Top!DisplayInv /\ Top!TreesExclusive
  BY <1>1 DEF Top!Init, Top!TreesOwnEntries, Top!ReaderInv, Top!DisplayInv, Top!TreesExclusive
<1> QED
  BY <1>2, <1>3, <1>4 DEF Top!TopInv

(* Every step keeps the invariant. *)
LEMMA NextTop == Top!TopConstants /\ Top!TopInv /\ [Top!Next]_Top!vars => Top!TopInv'
<1> SUFFICES ASSUME Top!TopConstants, Top!TopInv, [Top!Next]_Top!vars PROVE Top!TopInv'
  OBVIOUS
<1>1. ASSUME NEW k \in TopKeys, Top!perf_top__mmap_read_idx(k) PROVE Top!TopInv'
  BY <1>1, TopReadStep
<1>2. CASE Top!Reader
  BY <1>2, TopReaderLockStep, TopAddStep DEF Top!Reader
<1>3. CASE Top!Display
  BY <1>3, TopShowStep, TopDecayStep, TopRotateStep, TopCollapseStep DEF Top!Display
<1>4. ASSUME NEW c \in Top!Pressed, Top!perf_top__handle_keypress(c) PROVE Top!TopInv'
  BY <1>4, TopKeyStep
<1>5. CASE UNCHANGED Top!vars
  <2>1. UNCHANGED <<entries_in, in, collapsed, entries, he, rpc, rkey, rhe, root, samples,
                    dropped, shared, top_lock, dpc, droot, sym_filter_entry>>
    BY <1>5 DEF Top!vars, Top!tree, Top!reader, Top!display, Top!keyboard
  <2>2. Top!TreesOwnEntries' /\ Top!Used' = Top!Used
    BY <2>1, TreesKept DEF Top!TopInv
  <2>3. Top!EntryTypes' /\ Top!RoomInv'
    BY <2>1, <2>2, TopCounts DEF Top!TopInv, Top!EntryTypes, Top!RoomInv
  <2>4. Top!ReaderInv'
    BY <2>1, ReaderUntouched DEF Top!TopInv
  <2>5. Top!DisplayInv' /\ Top!TreesExclusive'
    BY <2>1 DEF Top!TopInv, Top!DisplayInv, Top!TreesExclusive
  <2> QED
    BY <2>2, <2>3, <2>4, <2>5 DEF Top!TopInv
<1> QED
  BY <1>1, <1>2, <1>3, <1>4, <1>5 DEF Top!Next, Top!Terminated

(* The invariant is what is promised, and more. *)
LEMMA TopInvMeans ==
  ASSUME Top!TopConstants, Top!TopInv
  PROVE  Top!TreesOwnEntries /\ Top!TreesExclusive /\ Top!HeldIsLive /\ Top!FilterIsLive
<1>1. Top!HeldIsLive
  <2>1. ASSUME rhe # Top!None, ~dropped PROVE rhe \in Top!Ids /\ rhe \in in[0] \union in[1]
    BY <2>1 DEF Top!TopInv, Top!ReaderInv, Top!EntryTypes
  <2> QED
    BY <2>1 DEF Top!HeldIsLive, Top!Live, Top!TopInv, Top!TreesOwnEntries
<1>2. Top!FilterIsLive
  BY DEF Top!FilterIsLive, Top!Live, Top!TopInv, Top!TreesOwnEntries, Top!DisplayInv, Top!EntryTypes
<1> QED
  BY <1>1, <1>2 DEF Top!TopInv

(* However many samples there are, and however the threads of perf top     *)
(* interleave: every entry is in one tree and every entry of a tree is     *)
(* alive, the display thread never walks a tree the reader adds to, and    *)
(* neither the entry the reader holds nor the one that is annotated is     *)
(* freed under them.                                                       *)
THEOREM TopTreesSound == Top!Spec => []TopSound
<1>1. Top!Init => Top!TopInv
  BY InitTop, StoresAssumption
<1>2. Top!TopInv /\ [Top!Next]_Top!vars => Top!TopInv'
  BY NextTop, StoresAssumption
<1>3. Top!TopInv => TopSound
  BY TopInvMeans, StoresAssumption DEF TopSound
<1> QED
  BY <1>1, <1>2, <1>3, PTL DEF Top!Spec

-----------------------------------------------------------------------------
(* perf kvm stat live *)

(* Two numbers that are less than s apart have different remainders. *)
LEMMA SlotsApart ==
  ASSUME NEW s \in Nat, s > 0, NEW a \in Nat, NEW b \in Nat, a < b, b - a < s
  PROVE  a % s # b % s
<1> SUFFICES ASSUME a % s = b % s PROVE FALSE
  OBVIOUS
<1> DEFINE m == a % s
<1> DEFINE da == a \div s
<1> DEFINE db == b \div s
<1>1. m \in 0 .. s - 1 /\ da \in Int /\ db \in Int /\ a = s * da + m /\ b = s * db + m
  OBVIOUS
<1> HIDE DEF m, da, db
<1>2. PICK d \in Int : d = db - da
  BY <1>1
<1>3. d * s = b - a
  BY <1>1, <1>2
<1>4. CASE d >= 1
  <2>1. d * s >= s
    BY <1>4
  <2> QED
    BY <1>3, <2>1
<1>5. CASE d <= 0
  <2>1. d * s <= 0
    BY <1>5
  <2> QED
    BY <1>3, <2>1
<1> QED
  BY <1>4, <1>5

(* A slot is one of the buffer's. *)
LEMMA SlotInside ==
  ASSUME NEW s \in Nat, s > 0, NEW a \in Nat
  PROVE  a % s \in 0 .. s - 1
OBVIOUS

(* The unread events of a buffer are those in its slots and the one on its way. *)
LEMMA UnreadIs ==
  ASSUME NEW i \in Kvm!Mmaps
  PROVE  /\ \A k \in kvm_tail[i] .. (kvm_head[i] - 1) : Kvm!At(i, k) \in Kvm!UnreadOf(i)
         /\ inflight[i] # Kvm!Nothing => inflight[i] \in Kvm!UnreadOf(i)
         /\ \A t \in Kvm!UnreadOf(i) : \/ t = inflight[i] /\ t # Kvm!Nothing
                                       \/ \E k \in kvm_tail[i] .. (kvm_head[i] - 1) : t = Kvm!At(i,
                                          k)
BY Zenon DEF Kvm!UnreadOf

(* A published event goes into a slot that nothing unread is in. *)
LEMMA PublishSlots ==
  ASSUME Kvm!KvmConstants, Kvm!Types, Kvm!BuffersInv, NEW i \in Kvm!Mmaps, Kvm!Publish(i)
  PROVE  /\ \A j \in Kvm!Mmaps : \A k \in kvm_tail[j] .. (kvm_head[j] - 1) : Kvm!At(j,
            k)' = Kvm!At(j, k)
         /\ slots'[i][kvm_head[i] % Slots] = inflight[i]
         /\ kvm_tail' = kvm_tail /\ kvm_clock' = kvm_clock
         /\ kvm_head' = [kvm_head EXCEPT ![i] = @ + 1]
         /\ inflight' = [inflight EXCEPT ![i] = Kvm!Nothing]
         /\ slots' \in [Kvm!Mmaps -> [0 .. (Slots - 1) -> Nat]]
<1> DEFINE h == kvm_head[i] % Slots
<1>1. /\ slots' = [slots EXCEPT ![i][h] = inflight[i]] /\ kvm_head[i] - kvm_tail[i] < Slots
      /\ kvm_tail' = kvm_tail /\ kvm_clock' = kvm_clock
      /\ kvm_head' = [kvm_head EXCEPT ![i] = @ + 1]
      /\ inflight' = [inflight EXCEPT ![i] = Kvm!Nothing]
  BY DEF Kvm!Publish
<1>2. /\ Slots \in Nat /\ Slots > 0 /\ inflight[i] \in Nat
      /\ slots \in [Kvm!Mmaps -> [0 .. (Slots - 1) -> Nat]]
      /\ \A j \in Kvm!Mmaps : kvm_head[j] \in Nat /\ kvm_tail[j] \in Nat
  <2>1. Slots \in Nat /\ Slots > 0
    BY DEF Kvm!KvmConstants
  <2>2. /\ slots \in [Kvm!Mmaps -> [0 .. (Slots - 1) -> Nat]] /\ inflight \in [Kvm!Mmaps -> Nat]
        /\ kvm_head \in [Kvm!Mmaps -> Nat] /\ kvm_tail \in [Kvm!Mmaps -> Nat]
    BY DEF Kvm!Types
  <2> QED
    BY <2>1, <2>2
<1>3. h \in 0 .. Slots - 1
  BY <1>2, SlotInside
<1>4. \A k \in kvm_tail[i] .. (kvm_head[i] - 1) : k % Slots # h
  <2> SUFFICES ASSUME NEW k \in kvm_tail[i] .. (kvm_head[i] - 1) PROVE k % Slots # h
    OBVIOUS
  <2>1. PICK b \in Nat, s \in Nat, a \in Nat : b = kvm_head[i] /\ s = Slots /\ a = kvm_tail[i]
    BY <1>2
  <2>2. s > 0 /\ b - a < s /\ k \in a .. (b - 1)
    BY <1>1, <1>2, <2>1
  <2>4. k \in Nat /\ k < b /\ b - k < s
    BY <2>2
  <2>3. k % s # b % s
    BY <2>2, <2>4, SlotsApart
  <2> QED
    BY <2>1, <2>3
<1>5. \A j \in Kvm!Mmaps : \A x \in 0 .. Slots - 1 :
        slots'[j][x] = IF j = i /\ x = h THEN inflight[i] ELSE slots[j][x]
  <2> HIDE DEF h
  <2> QED
    BY <1>1, <1>2, <1>3
<1>6. \A j \in Kvm!Mmaps : \A k \in kvm_tail[j] .. (kvm_head[j] - 1) : k % Slots \in 0 .. Slots - 1
  <2> SUFFICES ASSUME NEW j \in Kvm!Mmaps, NEW k \in kvm_tail[j] .. (kvm_head[j] - 1)
               PROVE  k % Slots \in 0 .. Slots - 1
    OBVIOUS
  <2>1. k \in Nat
    BY <1>2
  <2> QED
    BY <2>1, <1>2, SlotInside
<1>7. \A j \in Kvm!Mmaps : \A k \in kvm_tail[j] .. (kvm_head[j] - 1) :
        slots'[j][k % Slots] = slots[j][k % Slots]
  <2> HIDE DEF h
  <2> QED
    BY <1>4, <1>5, <1>6, Zenon
<1>8. slots'[i][h] = inflight[i]
  <2> HIDE DEF h
  <2> QED
    BY <1>3, <1>5
<1>9. slots' \in [Kvm!Mmaps -> [0 .. (Slots - 1) -> Nat]]
  <2> HIDE DEF h
  <2> QED
    BY <1>1, <1>2, <1>3
<1> QED
  BY <1>1, <1>7, <1>8, <1>9 DEF Kvm!At

(* What is delivered has a time. *)
LEMMA OfSequence ==
  ASSUME NEW R, NEW d \in Seq(R)
  PROVE  \A k \in DOMAIN d : d[k] \in R
OBVIOUS

(* An event is added to what is delivered. *)
LEMMA DeliveredType ==
  ASSUME Kvm!Types
  PROVE  \A k \in DOMAIN delivered : delivered[k].time \in Nat /\ delivered[k].data \in Nat
<1>1. PICK R : R = [time : Nat, data : Nat]
  OBVIOUS
<1>2. PICK d \in Seq(R) : d = delivered
  BY <1>1 DEF Kvm!Types
<1>3. \A k \in DOMAIN d : d[k] \in R
  BY OfSequence
<1> QED
  BY <1>1, <1>2, <1>3

(* Whatever the kernel writes is later than all that perf has seen. *)
LEMMA KvmKernelStep ==
  ASSUME Kvm!KvmConstants, Kvm!KvmInv, Kvm!Types', Kvm!BuffersInv', kvm_clock <= kvm_clock',
         \A i \in Kvm!Mmaps : \A t \in Kvm!UnreadOf(i)' : t \in Kvm!UnreadOf(i) \/ t > kvm_clock,
         UNCHANGED <<kvm_pc, idx, kvm_n, mmap_time, flush_time, kvm_queue, delivered, empty, late>>
  PROVE  Kvm!KvmInv'
<1>1. /\ kvm_clock \in Nat /\ kvm_clock' \in Nat /\ idx \in Kvm!Mmaps /\ MaxKvmEvents \in Nat
      /\ mmap_time \in Nat /\ flush_time \in Nat
      /\ \A i \in Kvm!Mmaps : Kvm!UnreadOf(i)' \subseteq Nat
  <2>1. kvm_clock \in Nat /\ kvm_clock' \in Nat /\ idx \in Kvm!Mmaps /\ MaxKvmEvents \in Nat
    BY DEF Kvm!KvmConstants, Kvm!KvmInv, Kvm!Types
  <2>2. mmap_time \in Nat /\ flush_time \in Nat
    BY <2>1 DEF Kvm!KvmInv, Kvm!Types, Kvm!ULLONG_MAX
  <2>3. \A i \in Kvm!Mmaps : Kvm!UnreadOf(i)' \subseteq 1 .. kvm_clock'
    BY DEF Kvm!BuffersInv, Kvm!Mmaps
  <2> QED
    BY <2>1, <2>2, <2>3
<1>2. Kvm!Passed' = Kvm!Passed /\ Kvm!ULLONG_MAX' = Kvm!ULLONG_MAX
  BY DEF Kvm!Passed, Kvm!Mmaps, Kvm!ULLONG_MAX
<1>3. Kvm!PassInv'
  <2>1. (kvm_pc = "read" /\ kvm_n = 0 => mmap_time = Kvm!ULLONG_MAX)'
    BY <1>2 DEF Kvm!KvmInv, Kvm!PassInv
  <2>2. ASSUME kvm_pc = "read", kvm_n > 0
        PROVE  mmap_time <= kvm_clock' /\ \A t \in Kvm!UnreadOf(idx)' : mmap_time < t
    <3>1. mmap_time <= kvm_clock /\ \A t \in Kvm!UnreadOf(idx) : mmap_time < t
      BY <2>2 DEF Kvm!KvmInv, Kvm!PassInv
    <3> QED
      BY <1>1, <3>1
  <2>3. ASSUME NEW i \in Kvm!Passed \ empty
        PROVE  flush_time <= kvm_clock' /\ \A t \in Kvm!UnreadOf(i)' : flush_time < t
    <3>1. flush_time <= kvm_clock /\ \A t \in Kvm!UnreadOf(i) : flush_time < t
      BY <2>3 DEF Kvm!KvmInv, Kvm!PassInv
    <3>2. i \in Kvm!Mmaps
      BY <1>1, <2>3 DEF Kvm!Passed, Kvm!Mmaps, Kvm!KvmConstants
    <3> QED
      BY <1>1, <3>1, <3>2
  <2>4. UNCHANGED <<kvm_pc, idx, kvm_n, mmap_time, flush_time, empty>>
    OBVIOUS
  <2> QED
    BY <1>2, <2>1, <2>2, <2>3, <2>4 DEF Kvm!PassInv
<1>4. Kvm!LateInv'
  <2>1. \A e \in kvm_queue : e.time \in 1 .. kvm_clock' /\ e.copy /\ e.data = e.time
    BY <1>1 DEF Kvm!KvmInv, Kvm!LateInv
  <2>2. \A k \in DOMAIN delivered : delivered[k].time <= kvm_clock /\ delivered[k].time \in Nat
    BY DeliveredType DEF Kvm!KvmInv, Kvm!LateInv
  <2>3. ASSUME NEW k \in DOMAIN delivered, NEW t \in Kvm!Unread' \cup {e.time : e \in kvm_queue},
               t < delivered[k].time
        PROVE  [event |-> t, foundEmpty |-> TRUE] \in late
    <3>1. CASE t \in {e.time : e \in kvm_queue}
      BY <2>3, <3>1 DEF Kvm!KvmInv, Kvm!LateInv
    <3>2. CASE t \in Kvm!Unread'
      <4>1. PICK i \in Kvm!Mmaps : t \in Kvm!UnreadOf(i)'
        BY <3>2 DEF Kvm!Unread, Kvm!Mmaps
      <4>2. ~(t > kvm_clock)
        BY <1>1, <2>2, <2>3, <4>1
      <4>3. t \in Kvm!Unread
        BY <4>1, <4>2 DEF Kvm!Unread
      <4> QED
        BY <2>3, <4>3 DEF Kvm!KvmInv, Kvm!LateInv
    <3> QED
      BY <2>3, <3>1, <3>2
  <2>4. \A k \in DOMAIN delivered : delivered[k].time <= kvm_clock'
    BY <1>1, <2>2
  <2> QED
    BY <2>1, <2>3, <2>4 DEF Kvm!LateInv
<1>5. Kvm!OnlyEmptyBuffersRace' /\ Kvm!DeliveredIntact'
  BY DEF Kvm!KvmInv, Kvm!OnlyEmptyBuffersRace, Kvm!DeliveredIntact
<1> QED
  BY <1>3, <1>4, <1>5 DEF Kvm!KvmInv

(* An event gets its time; its buffer has none later. *)
LEMMA StampInv ==
  ASSUME Kvm!KvmConstants, Kvm!KvmInv, NEW i \in Kvm!Mmaps, Kvm!Stamp(i)
  PROVE  Kvm!KvmInv'
<1>1. /\ kvm_clock < MaxKvmEvents /\ kvm_clock' = kvm_clock + 1 /\ inflight[i] = Kvm!Nothing
      /\ inflight' = [inflight EXCEPT ![i] = kvm_clock + 1]
      /\ UNCHANGED <<slots, kvm_head, kvm_tail>>
      /\ UNCHANGED <<kvm_pc, idx, kvm_n, mmap_time, flush_time, kvm_queue, delivered, empty, late>>
  BY DEF Kvm!Stamp
<1>2. /\ kvm_clock \in Nat /\ MaxKvmEvents \in Nat /\ kvm_clock' \in 0 .. MaxKvmEvents
      /\ inflight \in [Kvm!Mmaps -> Nat]
      /\ \A j \in Kvm!Mmaps : Kvm!UnreadOf(j) \subseteq 1 .. kvm_clock
  <2>1. MaxKvmEvents \in Nat /\ kvm_clock \in 0 .. MaxKvmEvents /\ inflight \in [Kvm!Mmaps -> Nat]
    BY DEF Kvm!KvmConstants, Kvm!KvmInv, Kvm!Types
  <2>2. kvm_clock \in Nat /\ kvm_clock' \in 0 .. MaxKvmEvents
    BY <1>1, <2>1
  <2>3. \A j \in Kvm!Mmaps : Kvm!UnreadOf(j) \subseteq 1 .. kvm_clock
    BY DEF Kvm!KvmInv, Kvm!BuffersInv
  <2> QED
    BY <2>1, <2>2, <2>3
<1>3. Kvm!Types'
  BY <1>1, <1>2 DEF Kvm!KvmInv, Kvm!Types, Kvm!Mmaps, Kvm!ULLONG_MAX
<1>4. /\ \A j \in Kvm!Mmaps : inflight'[j] = IF j = i THEN kvm_clock + 1 ELSE inflight[j]
      /\ \A j, k : Kvm!At(j, k)' = Kvm!At(j, k)
  BY <1>1, <1>2 DEF Kvm!At
<1>5. \A j \in Kvm!Mmaps : \A t : t \in Kvm!UnreadOf(j)' <=> t \in Kvm!UnreadOf(j) \/ (j = i
      /\ t = kvm_clock + 1)
  <2>1. kvm_clock + 1 # Kvm!Nothing
    BY <1>2 DEF Kvm!Nothing
  <2> SUFFICES ASSUME NEW j \in Kvm!Mmaps, NEW t
               PROVE  t \in Kvm!UnreadOf(j)' <=> t \in Kvm!UnreadOf(j) \/ (j = i
                      /\ t = kvm_clock + 1)
    OBVIOUS
  <2>2. {Kvm!At(j, k) : k \in kvm_tail[j] .. (kvm_head[j] - 1)}' = {Kvm!At(j,
        k) : k \in kvm_tail[j] .. (kvm_head[j] - 1)}
    BY <1>1 DEF Kvm!At
  <2>3. t \in Kvm!UnreadOf(j)' <=> \/ t = inflight'[j] /\ t # Kvm!Nothing
                              \/ t \in {Kvm!At(j, k) : k \in kvm_tail[j] .. (kvm_head[j] - 1)}
    BY <2>2 DEF Kvm!UnreadOf, Kvm!Nothing
  <2>4. t \in Kvm!UnreadOf(j) <=> \/ t = inflight[j] /\ t # Kvm!Nothing
                             \/ t \in {Kvm!At(j, k) : k \in kvm_tail[j] .. (kvm_head[j] - 1)}
    BY DEF Kvm!UnreadOf
  <2> QED
    BY <1>1, <1>4, <2>1, <2>3, <2>4
<1>6. Kvm!BuffersInv'
  <2>1. \A j \in Kvm!Mmaps : (kvm_head[j] - kvm_tail[j])' \in 0 .. Slots
    BY <1>1 DEF Kvm!KvmInv, Kvm!BuffersInv
  <2>2. \A j \in Kvm!Mmaps : Kvm!UnreadOf(j)' \subseteq 1 .. kvm_clock'
    BY <1>1, <1>2, <1>5
  <2>3. ASSUME NEW j \in Kvm!Mmaps, NEW k \in kvm_tail[j] .. (kvm_head[j] - 1)
        PROVE  /\ inflight'[j] # Kvm!Nothing => Kvm!At(j, k)' < inflight'[j]
               /\ \A l \in kvm_tail[j] .. (kvm_head[j] - 1) : k < l => Kvm!At(j, k)' < Kvm!At(j, l)'
    <3>1. Kvm!At(j, k) \in 1 .. kvm_clock
      BY <1>2, UnreadIs
    <3>2. Kvm!At(j, k) < kvm_clock + 1
      BY <1>2, <3>1
    <3>3. /\ inflight[j] # Kvm!Nothing => Kvm!At(j, k) < inflight[j]
          /\ \A l \in kvm_tail[j] .. (kvm_head[j] - 1) : k < l => Kvm!At(j, k) < Kvm!At(j, l)
      BY DEF Kvm!KvmInv, Kvm!BuffersInv
    <3> QED
      BY <1>4, <3>2, <3>3
  <2>4. ASSUME NEW j \in Kvm!Mmaps, NEW m \in Kvm!Mmaps, j # m
        PROVE  Kvm!UnreadOf(j)' \cap Kvm!UnreadOf(m)' = {}
    <3>1. Kvm!UnreadOf(j) \cap Kvm!UnreadOf(m) = {}
      BY <2>4 DEF Kvm!KvmInv, Kvm!BuffersInv
    <3>2. kvm_clock + 1 \notin Kvm!UnreadOf(j) /\ kvm_clock + 1 \notin Kvm!UnreadOf(m)
      BY <1>2
    <3> QED
      BY <1>5, <2>4, <3>1, <3>2
  <2>5. Kvm!Mmaps' = Kvm!Mmaps /\ kvm_tail' = kvm_tail /\ kvm_head' = kvm_head
    BY <1>1 DEF Kvm!Mmaps
  <2> QED
    BY <2>1, <2>2, <2>3, <2>4, <2>5 DEF Kvm!BuffersInv
<1> QED
  BY <1>1, <1>2, <1>3, <1>5, <1>6, KvmKernelStep

(* A published event is behind those of its buffer. *)
LEMMA PublishInv ==
  ASSUME Kvm!KvmConstants, Kvm!KvmInv, NEW i \in Kvm!Mmaps, Kvm!Publish(i)
  PROVE  Kvm!KvmInv'
<1> DEFINE h == kvm_head[i]
<1>1. /\ inflight[i] # Kvm!Nothing /\ kvm_head[i] - kvm_tail[i] < Slots
      /\ UNCHANGED <<kvm_pc, idx, kvm_n, mmap_time, flush_time, kvm_queue, delivered, empty, late>>
  BY DEF Kvm!Publish
<1>2. Kvm!Types /\ Kvm!BuffersInv
  BY DEF Kvm!KvmInv
<1>3. /\ \A j \in Kvm!Mmaps : \A k \in kvm_tail[j] .. (kvm_head[j] - 1) : Kvm!At(j, k)' = Kvm!At(j,
         k)
      /\ slots'[i][h % Slots] = inflight[i]
      /\ kvm_tail' = kvm_tail /\ kvm_clock' = kvm_clock
      /\ kvm_head' = [kvm_head EXCEPT ![i] = @ + 1]
      /\ inflight' = [inflight EXCEPT ![i] = Kvm!Nothing]
      /\ slots' \in [Kvm!Mmaps -> [0 .. (Slots - 1) -> Nat]]
  BY <1>2, PublishSlots
<1>4. /\ kvm_head \in [Kvm!Mmaps -> Nat] /\ kvm_tail \in [Kvm!Mmaps -> Nat]
         /\ inflight \in [Kvm!Mmaps -> Nat]
      /\ kvm_clock \in Nat /\ Slots \in Nat
  BY <1>2 DEF Kvm!Types, Kvm!KvmConstants
<1>5. Kvm!Types'
  <2>1. Kvm!Nothing \in Nat /\ kvm_head[i] + 1 \in Nat
    BY <1>4 DEF Kvm!Nothing
  <2>2. kvm_head' \in [Kvm!Mmaps -> Nat] /\ inflight' \in [Kvm!Mmaps -> Nat]
    BY <1>3, <1>4, <2>1
  <2> QED
    BY <1>1, <1>2, <1>3, <2>2 DEF Kvm!Types, Kvm!Mmaps, Kvm!ULLONG_MAX
<1>6. /\ \A j \in Kvm!Mmaps : kvm_head'[j] = IF j = i THEN h + 1 ELSE kvm_head[j]
      /\ \A j \in Kvm!Mmaps : inflight'[j] = IF j = i THEN Kvm!Nothing ELSE inflight[j]
      /\ h \in Nat /\ kvm_tail[i] \in Nat
  BY <1>3, <1>4
<1>7. \A j \in Kvm!Mmaps : \A k : k \in kvm_tail[j] .. (kvm_head'[j] - 1)
        <=> k \in kvm_tail[j] .. (kvm_head[j] - 1) \/ (j = i /\ k = h)
  <2>1. h - kvm_tail[i] \in 0 .. Slots
    BY <1>2 DEF Kvm!BuffersInv
  <2>2. \A k : k \in kvm_tail[i] .. h <=> k \in kvm_tail[i] .. (h - 1) \/ k = h
    BY <1>4, <1>6, <2>1
  <2>3. (h + 1) - 1 = h
    BY <1>6
  <2> QED
    BY <1>6, <2>2, <2>3
<1>8. \A k \in kvm_tail[i] .. (h - 1) : Kvm!At(i, k)' = Kvm!At(i, k)
  BY <1>3
<1>9. PICK z : z = h
  OBVIOUS
<1>10. Kvm!At(i, z)' = inflight[i]
  BY <1>3, <1>9 DEF Kvm!At
<1>11. \A j \in Kvm!Mmaps : \A t : t \in Kvm!UnreadOf(j)' <=> t \in Kvm!UnreadOf(j)
  <2> SUFFICES ASSUME NEW j \in Kvm!Mmaps,
      NEW t PROVE t \in Kvm!UnreadOf(j)' <=> t \in Kvm!UnreadOf(j)
    OBVIOUS
  <2>1. t \in Kvm!UnreadOf(j)' <=> \/ t = inflight'[j] /\ t # Kvm!Nothing
                              \/ \E k \in kvm_tail[j] .. (kvm_head'[j] - 1) : t = Kvm!At(j, k)'
    BY <1>3 DEF Kvm!UnreadOf, Kvm!Nothing
  <2>2. t \in Kvm!UnreadOf(j) <=> \/ t = inflight[j] /\ t # Kvm!Nothing
                             \/ \E k \in kvm_tail[j] .. (kvm_head[j] - 1) : t = Kvm!At(j, k)
    BY DEF Kvm!UnreadOf
  <2>3. CASE j # i
    <3>1. inflight'[j] = inflight[j] /\ kvm_head'[j] = kvm_head[j]
      BY <1>6, <2>3
    <3> QED
      BY <1>3, <2>1, <2>2, <3>1
  <2>4. CASE j = i
    <3>1. inflight'[i] = Kvm!Nothing
      BY <1>6
    <3>2. (\E k \in kvm_tail[i] .. (kvm_head'[i] - 1) : t = Kvm!At(i, k)')
            <=> (\E k \in kvm_tail[i] .. (h - 1) : t = Kvm!At(i, k)) \/ t = inflight[i]
      BY <1>7, <1>8, <1>9, <1>10
    <3> QED
      BY <1>1, <2>1, <2>2, <2>4, <3>1, <3>2
  <2> QED
    BY <2>3, <2>4
<1>12. Kvm!BuffersInv'
  <2>1. ASSUME NEW j \in Kvm!Mmaps PROVE kvm_head'[j] - kvm_tail[j] \in 0 .. Slots
    <3>1. kvm_head[j] - kvm_tail[j] \in 0 .. Slots /\ kvm_head[j] \in Nat /\ kvm_tail[j] \in Nat
      BY <1>2, <1>4 DEF Kvm!BuffersInv
    <3> QED
      BY <1>1, <1>4, <1>6, <3>1
  <2>2. \A j \in Kvm!Mmaps : Kvm!UnreadOf(j)' \subseteq 1 .. kvm_clock
    BY <1>2, <1>11 DEF Kvm!BuffersInv
  <2>3. ASSUME NEW j \in Kvm!Mmaps, NEW k \in kvm_tail[j] .. (kvm_head'[j] - 1)
        PROVE  /\ inflight'[j] # Kvm!Nothing => Kvm!At(j, k)' < inflight'[j]
               /\ \A l \in kvm_tail[j] .. (kvm_head'[j] - 1) : k < l
                  => Kvm!At(j, k)' < Kvm!At(j, l)'
    <3>1. \A x \in kvm_tail[j] .. (kvm_head[j] - 1) :
            /\ inflight[j] # Kvm!Nothing => Kvm!At(j, x) < inflight[j]
            /\ \A y \in kvm_tail[j] .. (kvm_head[j] - 1) : x < y => Kvm!At(j, x) < Kvm!At(j, y)
      BY <1>2 DEF Kvm!BuffersInv
    <3>2. CASE j # i
      <4>1. inflight'[j] = inflight[j] /\ kvm_head'[j] = kvm_head[j]
        BY <1>6, <3>2
      <4> QED
        BY <1>3, <2>3, <3>1, <4>1
    <3>3. CASE j = i
      <4>1. inflight'[i] = Kvm!Nothing
        BY <1>6
      <4>2. ASSUME NEW l \in kvm_tail[i] .. (kvm_head'[i] - 1),
                   k < l PROVE Kvm!At(i, k)' < Kvm!At(i, l)'
        <5>1. l \in kvm_tail[i] .. (h - 1) \/ l = z
          BY <1>7, <1>9
        <5>2. k \in kvm_tail[i] .. (h - 1)
          <6>1. k \in Int /\ k >= kvm_tail[i]
            BY <1>6, <2>3, <3>3
          <6>2. l <= h
            BY <1>6, <1>9, <5>1
          <6> QED
            BY <1>6, <4>2, <6>1, <6>2
        <5>3. CASE l = z
          BY <1>1, <1>8, <1>10, <3>1, <3>3, <5>2, <5>3
        <5>4. CASE l \in kvm_tail[i] .. (h - 1)
          BY <1>8, <3>1, <3>3, <4>2, <5>2, <5>4
        <5> QED
          BY <5>1, <5>3, <5>4
      <4> QED
        BY <3>3, <4>1, <4>2
    <3> QED
      BY <3>2, <3>3
  <2>4. \A j, m \in Kvm!Mmaps : j # m => Kvm!UnreadOf(j)' \cap Kvm!UnreadOf(m)' = {}
    <3>1. \A j, m \in Kvm!Mmaps : j # m => Kvm!UnreadOf(j) \cap Kvm!UnreadOf(m) = {}
      BY <1>2 DEF Kvm!BuffersInv
    <3> QED
      BY <1>11, <3>1
  <2>5. Kvm!Mmaps' = Kvm!Mmaps
    BY DEF Kvm!Mmaps
  <2> QED
    BY <1>3, <2>1, <2>2, <2>3, <2>4, <2>5 DEF Kvm!BuffersInv
<1> QED
  BY <1>1, <1>3, <1>4, <1>5, <1>11, <1>12, KvmKernelStep

(* The oldest event of a buffer is consumed: what is left is later. *)
LEMMA ConsumeBuffers ==
  ASSUME Kvm!KvmConstants, Kvm!KvmInv, NEW i \in Kvm!Mmaps, kvm_tail[i] < kvm_head[i],
         kvm_tail' = [kvm_tail EXCEPT ![i] = @ + 1],
         UNCHANGED <<kvm_clock, inflight, slots, kvm_head>>
  PROVE  /\ Kvm!BuffersInv' /\ kvm_tail' \in [Kvm!Mmaps -> Nat]
         /\ \A j \in Kvm!Mmaps : Kvm!UnreadOf(j)' \subseteq Kvm!UnreadOf(j)
         /\ Kvm!At(i, kvm_tail[i]) \in Kvm!UnreadOf(i) /\ Kvm!At(i, kvm_tail[i]) \in 1 .. kvm_clock
         /\ \A t \in Kvm!UnreadOf(i)' : Kvm!At(i, kvm_tail[i]) < t
<1>1. /\ kvm_head \in [Kvm!Mmaps -> Nat] /\ kvm_tail \in [Kvm!Mmaps -> Nat]
         /\ inflight \in [Kvm!Mmaps -> Nat]
      /\ kvm_clock \in Nat /\ Slots \in Nat /\ Kvm!BuffersInv
  BY DEF Kvm!KvmInv, Kvm!Types, Kvm!KvmConstants
<1>2. \A j \in Kvm!Mmaps : /\ kvm_tail'[j] = (IF j = i THEN kvm_tail[j] + 1 ELSE kvm_tail[j])
                           /\ kvm_tail[j] \in Nat /\ kvm_head[j] \in Nat
  BY <1>1
<1>3. \A j \in Kvm!Mmaps : \A k \in kvm_tail'[j] .. (kvm_head[j] - 1) :
        k \in kvm_tail[j] .. (kvm_head[j] - 1) /\ (j = i => kvm_tail[i] < k)
  BY <1>2
<1>4. \A j, k : Kvm!At(j, k)' = Kvm!At(j, k)
  BY DEF Kvm!At
<1>5. kvm_tail[i] \in kvm_tail[i] .. (kvm_head[i] - 1)
  BY <1>2
<1>6. PICK a : a = kvm_tail[i]
  OBVIOUS
<1>7. \A j \in Kvm!Mmaps : \A t \in Kvm!UnreadOf(j)' :
        \/ t = inflight[j] /\ t # Kvm!Nothing
        \/ \E k \in kvm_tail'[j] .. (kvm_head[j] - 1) : t = Kvm!At(j, k)
  BY <1>4, Zenon DEF Kvm!UnreadOf, Kvm!Nothing
<1>8. \A j \in Kvm!Mmaps : Kvm!UnreadOf(j)' \subseteq Kvm!UnreadOf(j)
  <2> SUFFICES ASSUME NEW j \in Kvm!Mmaps, NEW t \in Kvm!UnreadOf(j)' PROVE t \in Kvm!UnreadOf(j)
    OBVIOUS
  <2> QED
    BY <1>3, <1>7, UnreadIs
<1>9. /\ Kvm!At(i, a) \in Kvm!UnreadOf(i)
      /\ Kvm!At(i, a) \in 1 .. kvm_clock
  BY <1>1, <1>5, <1>6, UnreadIs DEF Kvm!BuffersInv
<1>10. \A t \in Kvm!UnreadOf(i)' : Kvm!At(i, a) < t
  <2> SUFFICES ASSUME NEW t \in Kvm!UnreadOf(i)' PROVE Kvm!At(i, a) < t
    OBVIOUS
  <2>1. /\ inflight[i] # Kvm!Nothing => Kvm!At(i, a) < inflight[i]
        /\ \A l \in kvm_tail[i] .. (kvm_head[i] - 1) : a < l => Kvm!At(i, a) < Kvm!At(i, l)
    BY <1>1, <1>5, <1>6 DEF Kvm!BuffersInv
  <2>2. \A k \in kvm_tail'[i] .. (kvm_head[i] - 1) : k \in kvm_tail[i] .. (kvm_head[i] - 1) /\ a < k
    BY <1>3, <1>6
  <2> QED
    BY <1>7, <2>1, <2>2
<1>11. Kvm!BuffersInv'
  <2>1. ASSUME NEW j \in Kvm!Mmaps PROVE kvm_head[j] - kvm_tail'[j] \in 0 .. Slots
    <3>1. kvm_head[j] - kvm_tail[j] \in 0 .. Slots
      BY <1>1 DEF Kvm!BuffersInv
    <3> QED
      BY <1>1, <1>2, <3>1
  <2>2. \A j \in Kvm!Mmaps : Kvm!UnreadOf(j)' \subseteq 1 .. kvm_clock
    BY <1>1, <1>8 DEF Kvm!BuffersInv
  <2>3. ASSUME NEW j \in Kvm!Mmaps, NEW k \in kvm_tail'[j] .. (kvm_head[j] - 1)
        PROVE  /\ inflight[j] # Kvm!Nothing => Kvm!At(j, k) < inflight[j]
               /\ \A l \in kvm_tail'[j] .. (kvm_head[j] - 1) : k < l => Kvm!At(j, k) < Kvm!At(j, l)
    <3>1. \A x \in kvm_tail[j] .. (kvm_head[j] - 1) :
            /\ inflight[j] # Kvm!Nothing => Kvm!At(j, x) < inflight[j]
            /\ \A y \in kvm_tail[j] .. (kvm_head[j] - 1) : x < y => Kvm!At(j, x) < Kvm!At(j, y)
      BY <1>1 DEF Kvm!BuffersInv
    <3> QED
      BY <1>3, <2>3, <3>1
  <2>4. \A j, m \in Kvm!Mmaps : j # m => Kvm!UnreadOf(j)' \cap Kvm!UnreadOf(m)' = {}
    <3>1. \A j, m \in Kvm!Mmaps : j # m => Kvm!UnreadOf(j) \cap Kvm!UnreadOf(m) = {}
      BY <1>1 DEF Kvm!BuffersInv
    <3> QED
      BY <1>8, <3>1
  <2>5. Kvm!Mmaps' = Kvm!Mmaps
    BY DEF Kvm!Mmaps
  <2> QED
    BY <1>4, <2>1, <2>2, <2>3, <2>4, <2>5 DEF Kvm!BuffersInv
<1>12. kvm_tail' \in [Kvm!Mmaps -> Nat]
  BY <1>1, <1>2
<1> QED
  BY <1>6, <1>8, <1>9, <1>10, <1>11, <1>12

(* Steps of perf that deliver nothing: what may be late was it before. *)
LEMMA LateKept ==
  ASSUME Kvm!KvmInv, kvm_clock' = kvm_clock, UNCHANGED <<delivered, late>>,
         \A i \in Kvm!Mmaps : Kvm!UnreadOf(i)' \subseteq Kvm!UnreadOf(i),
         \A e \in kvm_queue' : \/ e \in kvm_queue
                                \/ /\ e.time \in Kvm!Unread /\ e.time \in 1 .. kvm_clock
                                   /\ e.copy /\ e.data = e.time
  PROVE  Kvm!LateInv' /\ Kvm!OnlyEmptyBuffersRace' /\ Kvm!DeliveredIntact'
<1>1. Kvm!Unread' \subseteq Kvm!Unread
  BY DEF Kvm!Unread, Kvm!Mmaps
<1>2. \A e \in kvm_queue' : e.time \in 1 .. kvm_clock /\ e.copy /\ e.data = e.time
  BY DEF Kvm!KvmInv, Kvm!LateInv
<1>3. \A t \in Kvm!Unread' \cup {e.time : e \in kvm_queue'} : t \in Kvm!Unread \cup {e.time : e \in kvm_queue}
  BY <1>1
<1>4. Kvm!LateInv'
  BY <1>2, <1>3 DEF Kvm!KvmInv, Kvm!LateInv
<1>5. Kvm!OnlyEmptyBuffersRace' /\ Kvm!DeliveredIntact'
  BY DEF Kvm!KvmInv, Kvm!OnlyEmptyBuffersRace, Kvm!DeliveredIntact
<1> QED
  BY <1>4, <1>5

(* A pass begins: no buffer has been passed. *)
LEMMA StartPassInv ==
  ASSUME Kvm!KvmConstants, Kvm!KvmInv, Kvm!StartPass
  PROVE  Kvm!KvmInv'
<1>1. /\ idx' = 0 /\ kvm_n' = 0 /\ flush_time' = Kvm!ULLONG_MAX /\ mmap_time' = Kvm!ULLONG_MAX
      /\ kvm_pc' = "read"
         /\ UNCHANGED <<kvm_clock, inflight, slots, kvm_head, kvm_tail, kvm_queue, delivered, late>>
  BY DEF Kvm!StartPass, Kvm!kernelVars
<1>2. \A i : Kvm!UnreadOf(i)' = Kvm!UnreadOf(i)
  BY <1>1 DEF Kvm!UnreadOf, Kvm!At, Kvm!Nothing
<1>3. 0 \in Kvm!Mmaps /\ Kvm!ULLONG_MAX \in 1 .. Kvm!ULLONG_MAX /\ Kvm!Mmaps' = Kvm!Mmaps
      /\ Kvm!ULLONG_MAX' = Kvm!ULLONG_MAX
  BY DEF Kvm!Mmaps, Kvm!KvmConstants, Kvm!ULLONG_MAX
<1>4. Kvm!Types'
  BY <1>1, <1>3 DEF Kvm!KvmInv, Kvm!Types
<1>5. Kvm!BuffersInv'
  BY <1>1, <1>2, <1>3 DEF Kvm!KvmInv, Kvm!BuffersInv, Kvm!At
<1>6. Kvm!PassInv'
  BY <1>1, <1>3 DEF Kvm!PassInv, Kvm!Passed
<1>7. Kvm!LateInv' /\ Kvm!OnlyEmptyBuffersRace' /\ Kvm!DeliveredIntact'
  BY <1>1, <1>2, LateKept
<1> QED
  BY <1>4, <1>5, <1>6, <1>7 DEF Kvm!KvmInv

(* An event is read: it is queued, what is left of its buffer is later. *)
LEMMA ReadEventInv ==
  ASSUME Kvm!KvmConstants, Kvm!KvmInv, Kvm!ReadEvent
  PROVE  Kvm!KvmInv'
<1>0. PICK i \in Kvm!Mmaps : i = idx
  BY DEF Kvm!KvmInv, Kvm!Types
<1>1. PICK t : i = idx /\ t = Kvm!At(i, kvm_tail[i])
  BY <1>0
<1>2. /\ kvm_pc = "read" /\ kvm_tail[i] < kvm_head[i] /\ kvm_tail' = [kvm_tail EXCEPT ![i] = @ + 1]
      /\ kvm_queue' = kvm_queue \cup {Kvm!Queued(idx, t)} /\ mmap_time' = Kvm!FirstTime(t)
         /\ kvm_n' = kvm_n + 1
      /\ UNCHANGED <<kvm_clock, inflight, slots, kvm_head>>
      /\ UNCHANGED <<kvm_pc, idx, flush_time, delivered, empty, late>>
  BY <1>1 DEF Kvm!ReadEvent, Kvm!At
<1>3. /\ Kvm!BuffersInv' /\ kvm_tail' \in [Kvm!Mmaps -> Nat]
      /\ \A j \in Kvm!Mmaps : Kvm!UnreadOf(j)' \subseteq Kvm!UnreadOf(j)
      /\ t \in Kvm!UnreadOf(i) /\ t \in 1 .. kvm_clock
      /\ \A u \in Kvm!UnreadOf(i)' : t < u
  BY <1>1, <1>2, ConsumeBuffers
<1>4. /\ kvm_clock \in 0 .. MaxKvmEvents /\ MaxKvmEvents \in Nat /\ kvm_n \in Nat
      /\ mmap_time \in 1 .. Kvm!ULLONG_MAX
  BY DEF Kvm!KvmInv, Kvm!Types, Kvm!KvmConstants
<1>5. Kvm!FirstTime(t) \in 1 .. Kvm!ULLONG_MAX
  BY <1>3, <1>4 DEF Kvm!FirstTime, Kvm!ULLONG_MAX
<1>6. Kvm!Types'
  BY <1>2, <1>3, <1>4, <1>5 DEF Kvm!KvmInv, Kvm!Types, Kvm!Mmaps, Kvm!ULLONG_MAX
<1>7. Kvm!PassInv'
  <2>1. kvm_n' # 0 /\ kvm_pc' = "read"
    BY <1>2, <1>4 DEF Kvm!KvmInv, Kvm!PassInv
  <2>2. mmap_time' <= kvm_clock /\ \A u \in Kvm!UnreadOf(i)' : mmap_time' < u
    <3>1. CASE kvm_n = 0
      BY <1>2, <1>3, <3>1 DEF Kvm!FirstTime
    <3>2. CASE kvm_n # 0
      <4>1. mmap_time <= kvm_clock /\ \A u \in Kvm!UnreadOf(i) : mmap_time < u
        BY <1>1, <1>2, <1>4, <3>2 DEF Kvm!KvmInv, Kvm!PassInv
      <4> QED
        BY <1>2, <1>3, <3>2, <4>1 DEF Kvm!FirstTime
    <3> QED
      BY <3>1, <3>2
  <2>3. Kvm!Passed' = Kvm!Passed /\ Kvm!Passed \subseteq Kvm!Mmaps
    BY <1>1, <1>2 DEF Kvm!Passed, Kvm!Mmaps, Kvm!KvmConstants
  <2>4. \A j \in Kvm!Passed \ empty : flush_time <= kvm_clock
        /\ \A u \in Kvm!UnreadOf(j)' : flush_time < u
    BY <1>3, <2>3 DEF Kvm!KvmInv, Kvm!PassInv
  <2>5. Kvm!UnreadOf(idx)' = Kvm!UnreadOf(i)'
    BY <1>1, <1>2
  <2> QED
    BY <1>2, <2>1, <2>2, <2>3, <2>4, <2>5 DEF Kvm!PassInv
<1>8. Kvm!LateInv' /\ Kvm!OnlyEmptyBuffersRace' /\ Kvm!DeliveredIntact'
  <2>1. Kvm!Queued(idx, t).time = t /\ Kvm!Queued(idx, t).copy /\ Kvm!Queued(idx, t).data = t
    BY DEF Kvm!Queued
  <2>2. t \in Kvm!Unread
    BY <1>3 DEF Kvm!Unread
  <2> QED
    BY <1>2, <1>3, <2>1, <2>2, LateKept
<1> QED
  BY <1>3, <1>6, <1>7, <1>8 DEF Kvm!KvmInv

(* A read that fails ends the tool. *)
LEMMA ReadFailsInv ==
  ASSUME Kvm!KvmConstants, Kvm!KvmInv, Kvm!ReadFails
  PROVE  Kvm!KvmInv'
<1>1. PICK i \in Kvm!Mmaps : i = idx
  BY DEF Kvm!KvmInv, Kvm!Types
<1>2. /\ kvm_tail[i] < kvm_head[i] /\ kvm_tail' = [kvm_tail EXCEPT ![i] = @ + 1]
         /\ kvm_pc' = "ended"
      /\ UNCHANGED <<kvm_clock, inflight, slots, kvm_head>>
      /\ UNCHANGED <<idx, kvm_n, mmap_time, flush_time, kvm_queue, delivered, empty, late>>
  BY <1>1 DEF Kvm!ReadFails
<1>3. /\ Kvm!BuffersInv' /\ kvm_tail' \in [Kvm!Mmaps -> Nat]
      /\ \A j \in Kvm!Mmaps : Kvm!UnreadOf(j)' \subseteq Kvm!UnreadOf(j)
  BY <1>2, ConsumeBuffers
<1>4. Kvm!Types'
  BY <1>2, <1>3 DEF Kvm!KvmInv, Kvm!Types, Kvm!Mmaps, Kvm!ULLONG_MAX
<1>5. Kvm!PassInv'
  BY <1>2 DEF Kvm!PassInv, Kvm!Passed
<1>6. Kvm!LateInv' /\ Kvm!OnlyEmptyBuffersRace' /\ Kvm!DeliveredIntact'
  BY <1>2, <1>3, LateKept
<1> QED
  BY <1>3, <1>4, <1>5, <1>6 DEF Kvm!KvmInv

(* What a step that reads nothing leaves of the buffers. *)
LEMMA BuffersKept ==
  ASSUME Kvm!KvmInv, UNCHANGED Kvm!kernelVars
  PROVE  /\ Kvm!BuffersInv' /\ \A i : Kvm!UnreadOf(i)' = Kvm!UnreadOf(i)
         /\ Kvm!Mmaps' = Kvm!Mmaps /\ Kvm!ULLONG_MAX' = Kvm!ULLONG_MAX /\ kvm_clock' = kvm_clock
<1>1. \A i : Kvm!UnreadOf(i)' = Kvm!UnreadOf(i)
  BY DEF Kvm!UnreadOf, Kvm!At, Kvm!Nothing, Kvm!kernelVars
<1>2. Kvm!Mmaps' = Kvm!Mmaps /\ Kvm!ULLONG_MAX' = Kvm!ULLONG_MAX
  BY DEF Kvm!Mmaps, Kvm!ULLONG_MAX
<1>3. Kvm!BuffersInv'
  BY <1>1, <1>2 DEF Kvm!KvmInv, Kvm!BuffersInv, Kvm!At, Kvm!kernelVars
<1> QED
  BY <1>1, <1>2, <1>3 DEF Kvm!kernelVars

(* The time up to which the pass flushes is the least of the first times   *)
(* of its buffers.                                                         *)
LEMMA NextMmapInv ==
  ASSUME Kvm!KvmConstants, Kvm!KvmInv, Kvm!NextMmap
  PROVE  Kvm!KvmInv'
<1>1. /\ kvm_pc = "read" /\ flush_time' = Kvm!MinTime(flush_time)
      /\ empty' = (IF kvm_n = 0 THEN empty \cup {idx} ELSE empty)
      /\ \/ idx + 1 \in Kvm!Mmaps /\ idx' = idx + 1 /\ kvm_pc' = "read"
         \/ idx + 1 \notin Kvm!Mmaps /\ idx' = idx /\ kvm_pc' \in {"flush", "start"}
      /\ kvm_n' = 0 /\ mmap_time' = Kvm!ULLONG_MAX
      /\ UNCHANGED Kvm!kernelVars /\ UNCHANGED <<kvm_queue, delivered, late>>
  BY DEF Kvm!NextMmap
<1>2. /\ Kvm!BuffersInv' /\ \A i : Kvm!UnreadOf(i)' = Kvm!UnreadOf(i)
      /\ Kvm!Mmaps' = Kvm!Mmaps /\ Kvm!ULLONG_MAX' = Kvm!ULLONG_MAX /\ kvm_clock' = kvm_clock
  BY <1>1, BuffersKept
<1>3. /\ kvm_clock \in Nat /\ MaxKvmEvents \in Nat /\ kvm_n \in Nat /\ idx \in Kvm!Mmaps
      /\ NrMmaps \in Nat /\ NrMmaps > 0
      /\ mmap_time \in 1 .. Kvm!ULLONG_MAX /\ flush_time \in 1 .. Kvm!ULLONG_MAX
      /\ Kvm!ULLONG_MAX \in Nat /\ Kvm!ULLONG_MAX \in 1 .. Kvm!ULLONG_MAX
  BY DEF Kvm!KvmInv, Kvm!Types, Kvm!KvmConstants, Kvm!ULLONG_MAX
<1>4. /\ flush_time' \in 1 .. Kvm!ULLONG_MAX
      /\ flush_time' <= flush_time /\ flush_time' <= mmap_time
  BY <1>1, <1>3 DEF Kvm!MinTime
<1>5. Kvm!Types'
  BY <1>1, <1>2, <1>3, <1>4 DEF Kvm!KvmInv, Kvm!Types, Kvm!kernelVars
<1>6. Kvm!Passed' \subseteq 0 .. idx /\ 0 .. idx \subseteq Kvm!Mmaps
  <2>1. CASE idx' = idx + 1 /\ kvm_pc' = "read"
    BY <1>3, <2>1 DEF Kvm!Passed, Kvm!Mmaps
  <2>2. CASE idx + 1 \notin Kvm!Mmaps /\ kvm_pc' = "flush"
    BY <1>2, <1>3, <2>2 DEF Kvm!Passed, Kvm!Mmaps
  <2>3. CASE kvm_pc' = "start"
    BY <1>3, <2>3 DEF Kvm!Passed, Kvm!Mmaps
  <2> QED
    BY <1>1, <2>1, <2>2, <2>3
<1>7. ASSUME NEW i \in Kvm!Passed' \ empty'
      PROVE  flush_time' <= kvm_clock /\ \A t \in Kvm!UnreadOf(i) : flush_time' < t
  <2>0. i \in Kvm!Mmaps /\ Kvm!UnreadOf(i) \subseteq 1 .. kvm_clock
    BY <1>6 DEF Kvm!KvmInv, Kvm!BuffersInv
  <2>1. CASE i = idx
    <3>1. kvm_n > 0
      BY <1>1, <1>3, <1>7, <2>1
    <3>2. mmap_time <= kvm_clock /\ \A t \in Kvm!UnreadOf(i) : mmap_time < t
      BY <1>1, <2>1, <3>1 DEF Kvm!KvmInv, Kvm!PassInv
    <3> QED
      BY <1>3, <1>4, <2>0, <3>2
  <2>2. CASE i # idx
    <3>1. i \in Kvm!Passed \ empty
      <4>1. i \in 0 .. (idx - 1)
        BY <1>3, <1>6, <2>2 DEF Kvm!Mmaps
      <4> QED
        BY <1>1, <1>7, <4>1 DEF Kvm!Passed
    <3>2. flush_time <= kvm_clock /\ \A t \in Kvm!UnreadOf(i) : flush_time < t
      BY <3>1 DEF Kvm!KvmInv, Kvm!PassInv
    <3> QED
      BY <1>3, <1>4, <2>0, <3>2
  <2> QED
    BY <2>1, <2>2
<1>8. Kvm!PassInv'
  BY <1>1, <1>2, <1>7 DEF Kvm!PassInv
<1>9. Kvm!LateInv' /\ Kvm!OnlyEmptyBuffersRace' /\ Kvm!DeliveredIntact'
  BY <1>1, <1>2, LateKept
<1> QED
  BY <1>2, <1>5, <1>8, <1>9 DEF Kvm!KvmInv

(* An event is delivered.  What is not read of the buffers that were not   *)
(* empty is later than it, and so is what is queued.                       *)
LEMMA FlushEventInv ==
  ASSUME Kvm!KvmConstants, Kvm!KvmInv, Kvm!FlushEvent
  PROVE  Kvm!KvmInv'
<1>1. /\ kvm_pc = "flush" /\ UNCHANGED Kvm!kernelVars
      /\ UNCHANGED <<kvm_pc, idx, kvm_n, mmap_time, flush_time, empty>>
  BY DEF Kvm!FlushEvent
<1>2. PICK e \in kvm_queue :
        /\ e.time <= flush_time
        /\ \A o \in kvm_queue : e.time <= o.time
        /\ kvm_queue' = kvm_queue \ {e}
        /\ delivered' = Append(delivered, [time |-> e.time, data |-> Kvm!Content(e)])
        /\ late' = late \cup {[event |-> t, foundEmpty |-> Kvm!MmapOf(t) \in empty] :
                                t \in {u \in Kvm!Unread : u < e.time}}
  BY DEF Kvm!FlushEvent
<1>3. /\ Kvm!BuffersInv' /\ \A i : Kvm!UnreadOf(i)' = Kvm!UnreadOf(i)
      /\ Kvm!Mmaps' = Kvm!Mmaps /\ Kvm!ULLONG_MAX' = Kvm!ULLONG_MAX /\ kvm_clock' = kvm_clock
  BY <1>1, BuffersKept
<1>4. /\ kvm_clock \in Nat /\ flush_time \in Nat /\ e.time \in 1 .. kvm_clock /\ e.copy
      /\ e.data = e.time /\ delivered \in Seq([time : Nat, data : Nat])
      /\ \A i \in Kvm!Mmaps : Kvm!UnreadOf(i) \subseteq 1 .. kvm_clock
  <2>1. kvm_clock \in Nat /\ Kvm!ULLONG_MAX \in Nat /\ flush_time \in 1 .. Kvm!ULLONG_MAX
    BY DEF Kvm!KvmInv, Kvm!Types, Kvm!KvmConstants, Kvm!ULLONG_MAX
  <2>2. e.time \in 1 .. kvm_clock /\ e.copy /\ e.data = e.time
    BY DEF Kvm!KvmInv, Kvm!LateInv
  <2> QED
    BY <2>1, <2>2 DEF Kvm!KvmInv, Kvm!Types, Kvm!BuffersInv
<1>5. PICK x \in [time : Nat, data : Nat] :
        x.time = e.time /\ x.data = e.time /\ delivered' = Append(delivered, x)
  <2>1. Kvm!Content(e) = e.time
    BY <1>4 DEF Kvm!Content
  <2>2. [time |-> e.time, data |-> Kvm!Content(e)] \in [time : Nat, data : Nat]
    BY <1>4, <2>1
  <2> QED
    BY <1>2, <2>1, <2>2
<1>6. PICK m \in Nat : m = Len(delivered)
  BY <1>4
<1>7. /\ delivered' \in Seq([time : Nat, data : Nat])
      /\ DOMAIN delivered = 1 .. m /\ DOMAIN delivered' = 1 .. m + 1
      /\ \A k \in 1 .. m : delivered'[k] = delivered[k]
      /\ delivered'[m + 1] = x
  BY <1>4, <1>5, <1>6
<1>8. Kvm!Types'
  BY <1>1, <1>3, <1>7 DEF Kvm!KvmInv, Kvm!Types, Kvm!kernelVars
<1>9. Kvm!PassInv'
  BY <1>1, <1>3 DEF Kvm!KvmInv, Kvm!PassInv, Kvm!Passed
<1>10. \A t \in Kvm!Unread : t < e.time => [event |-> t, foundEmpty |-> TRUE] \in late'
  <2> SUFFICES ASSUME NEW t \in Kvm!Unread, t < e.time
               PROVE  [event |-> t, foundEmpty |-> TRUE] \in late'
    OBVIOUS
  <2>1. PICK i \in Kvm!Mmaps : t \in Kvm!UnreadOf(i)
    BY DEF Kvm!Unread
  <2>2. Kvm!MmapOf(t) = i
    <3>1. Kvm!MmapOf(t) \in Kvm!Mmaps /\ t \in Kvm!UnreadOf(Kvm!MmapOf(t))
      BY <2>1, Zenon DEF Kvm!MmapOf
    <3>2. PICK j \in Kvm!Mmaps : j = Kvm!MmapOf(t)
      BY <3>1
    <3>3. t \in Kvm!UnreadOf(j)
      BY <3>1, <3>2
    <3>4. j = i
      BY <2>1, <3>3 DEF Kvm!KvmInv, Kvm!BuffersInv
    <3> QED
      BY <3>2, <3>4
  <2>3. i \in empty
    <3> SUFFICES ASSUME i \notin empty PROVE FALSE
      OBVIOUS
    <3>1. flush_time < t
      BY <1>1, <2>1 DEF Kvm!KvmInv, Kvm!PassInv, Kvm!Passed
    <3>2. t \in 1 .. kvm_clock
      BY <1>4, <2>1
    <3> QED
      BY <1>2, <1>4, <3>1, <3>2
  <2>4. [event |-> t, foundEmpty |-> Kvm!MmapOf(t) \in empty] = [event |-> t, foundEmpty |-> TRUE]
    BY <2>2, <2>3
  <2> QED
    BY <1>2, <2>4
<1>11. late \subseteq late' /\ Kvm!Unread' = Kvm!Unread
  BY <1>2, <1>3 DEF Kvm!Unread
<1>12. Kvm!LateInv'
  <2>1. \A o \in kvm_queue' : o.time \in 1 .. kvm_clock /\ o.copy /\ o.data = o.time
    BY <1>2 DEF Kvm!KvmInv, Kvm!LateInv
  <2>2. \A k \in 1 .. m + 1 : delivered'[k].time <= kvm_clock
    <3>1. \A k \in 1 .. m : delivered[k].time <= kvm_clock
      BY <1>7 DEF Kvm!KvmInv, Kvm!LateInv
    <3>2. x.time <= kvm_clock
      BY <1>4, <1>5
    <3> QED
      BY <1>6, <1>7, <3>1, <3>2, SMTT(30)
  <2>3. ASSUME NEW k \in 1 .. m + 1, NEW t \in Kvm!Unread \cup {o.time : o \in kvm_queue'},
               t < delivered'[k].time
        PROVE  [event |-> t, foundEmpty |-> TRUE] \in late'
    <3>1. CASE k \in 1 .. m
      <4>1. t \in Kvm!Unread \cup {o.time : o \in kvm_queue} /\ t < delivered[k].time
        BY <1>2, <1>7, <2>3, <3>1
      <4>2. [event |-> t, foundEmpty |-> TRUE] \in late
        BY <1>7, <3>1, <4>1 DEF Kvm!KvmInv, Kvm!LateInv
      <4> QED
        BY <1>11, <4>2
    <3>2. CASE k = m + 1
      <4>1. t < e.time
        BY <1>5, <1>7, <2>3, <3>2
      <4>2. t \in Kvm!Unread
        <5> SUFFICES ASSUME NEW o \in kvm_queue', t = o.time PROVE FALSE
          BY <2>3
        <5>1. e.time <= o.time /\ o.time \in 1 .. kvm_clock
          BY <1>2, <2>1
        <5> QED
          BY <1>4, <4>1, <5>1
      <4> QED
        BY <1>10, <4>1, <4>2
    <3> QED
      BY <1>6, <3>1, <3>2
  <2> QED
    BY <1>3, <1>7, <1>11, <2>1, <2>2, <2>3 DEF Kvm!LateInv
<1>13. Kvm!OnlyEmptyBuffersRace'
  <2> SUFFICES ASSUME NEW j \in 1 .. m + 1, NEW k \in 1 .. m + 1, j < k,
                      delivered'[k].time < delivered'[j].time
               PROVE  \E l \in late' : l.event = delivered'[k].time /\ l.foundEmpty
    BY <1>7 DEF Kvm!OnlyEmptyBuffersRace
  <2>1. j \in 1 .. m
    BY <1>6
  <2>2. CASE k \in 1 .. m
    <3>1. PICK l \in late : l.event = delivered[k].time /\ l.foundEmpty
      BY <1>7, <2>1, <2>2 DEF Kvm!KvmInv, Kvm!OnlyEmptyBuffersRace
    <3> QED
      BY <1>7, <1>11, <2>2, <3>1
  <2>3. CASE k = m + 1
    <3>1. e.time < delivered[j].time
      BY <1>5, <1>7, <2>1, <2>3
    <3>2. [event |-> e.time, foundEmpty |-> TRUE] \in late
      BY <1>7, <2>1, <3>1 DEF Kvm!KvmInv, Kvm!LateInv
    <3> QED
      BY <1>5, <1>7, <1>11, <2>3, <3>2
  <2> QED
    BY <1>6, <2>2, <2>3
<1>14. Kvm!DeliveredIntact'
  <2>1. \A k \in 1 .. m : delivered[k].data = delivered[k].time
    BY <1>7 DEF Kvm!KvmInv, Kvm!DeliveredIntact
  <2>2. \A k \in 1 .. m + 1 : k \in 1 .. m \/ k = m + 1
    BY <1>6
  <2> QED
    BY <1>5, <1>7, <2>1, <2>2 DEF Kvm!DeliveredIntact
<1> QED
  BY <1>3, <1>8, <1>9, <1>12, <1>13, <1>14 DEF Kvm!KvmInv

(* The flush ends or fails. *)
LEMMA FlushEndsInv ==
  ASSUME Kvm!KvmConstants, Kvm!KvmInv, Kvm!FlushFails \/ Kvm!FlushDone
  PROVE  Kvm!KvmInv'
<1>1. /\ kvm_pc' \in {"start", "ended"} /\ UNCHANGED Kvm!kernelVars
      /\ UNCHANGED <<idx, kvm_n, mmap_time, flush_time, kvm_queue, delivered, empty, late>>
  BY DEF Kvm!FlushFails, Kvm!FlushDone
<1>2. /\ Kvm!BuffersInv' /\ \A i : Kvm!UnreadOf(i)' = Kvm!UnreadOf(i)
      /\ Kvm!Mmaps' = Kvm!Mmaps /\ Kvm!ULLONG_MAX' = Kvm!ULLONG_MAX /\ kvm_clock' = kvm_clock
  BY <1>1, BuffersKept
<1>3. Kvm!Types'
  BY <1>1, <1>2 DEF Kvm!KvmInv, Kvm!Types, Kvm!kernelVars
<1>4. Kvm!PassInv'
  BY <1>1 DEF Kvm!PassInv, Kvm!Passed
<1>5. Kvm!LateInv' /\ Kvm!OnlyEmptyBuffersRace' /\ Kvm!DeliveredIntact'
  BY <1>1, <1>2, LateKept
<1> QED
  BY <1>2, <1>3, <1>4, <1>5 DEF Kvm!KvmInv

(* The first state. *)
LEMMA KvmInitInv ==
  ASSUME Kvm!KvmConstants, Kvm!Init
  PROVE  Kvm!KvmInv
<1>1. /\ kvm_clock = 0 /\ inflight = [i \in Kvm!Mmaps |-> Kvm!Nothing]
      /\ slots = [i \in Kvm!Mmaps |-> [s \in 0 .. (Slots - 1) |-> Kvm!Nothing]]
      /\ kvm_head = [i \in Kvm!Mmaps |-> 0] /\ kvm_tail = [i \in Kvm!Mmaps |-> 0]
      /\ kvm_pc = "start" /\ idx = 0 /\ kvm_n = 0
      /\ mmap_time = Kvm!ULLONG_MAX /\ flush_time = Kvm!ULLONG_MAX
      /\ kvm_queue = {} /\ delivered = <<>>
  BY DEF Kvm!Init
<1>2. 0 \in Kvm!Mmaps /\ Kvm!ULLONG_MAX \in 1 .. Kvm!ULLONG_MAX /\ Kvm!Nothing \in Nat
      /\ Slots \in Nat
  BY DEF Kvm!Mmaps, Kvm!KvmConstants, Kvm!ULLONG_MAX, Kvm!Nothing
<1>3. Kvm!Types
  BY <1>1, <1>2 DEF Kvm!Types, Kvm!KvmConstants
<1>4. \A i \in Kvm!Mmaps : Kvm!UnreadOf(i) = {}
  BY <1>1 DEF Kvm!UnreadOf, Kvm!Nothing
<1>5. Kvm!BuffersInv
  BY <1>1, <1>2, <1>4 DEF Kvm!BuffersInv
<1>6. Kvm!PassInv
  BY <1>1 DEF Kvm!PassInv, Kvm!Passed
<1>7. Kvm!LateInv /\ Kvm!OnlyEmptyBuffersRace /\ Kvm!DeliveredIntact
  BY <1>1 DEF Kvm!LateInv, Kvm!OnlyEmptyBuffersRace, Kvm!DeliveredIntact
<1> QED
  BY <1>3, <1>5, <1>6, <1>7 DEF Kvm!KvmInv

(* Nothing changes. *)
LEMMA KvmStutters ==
  ASSUME Kvm!KvmConstants, Kvm!KvmInv, UNCHANGED Kvm!vars
  PROVE  Kvm!KvmInv'
<1>1. UNCHANGED Kvm!kernelVars
      /\ UNCHANGED <<kvm_pc, idx, kvm_n, mmap_time, flush_time, kvm_queue, delivered, empty, late>>
  BY DEF Kvm!vars
<1>2. /\ Kvm!BuffersInv' /\ \A i : Kvm!UnreadOf(i)' = Kvm!UnreadOf(i)
      /\ Kvm!Mmaps' = Kvm!Mmaps /\ Kvm!ULLONG_MAX' = Kvm!ULLONG_MAX /\ kvm_clock' = kvm_clock
  BY <1>1, BuffersKept
<1>3. Kvm!Types' /\ Kvm!PassInv'
  BY <1>1, <1>2 DEF Kvm!KvmInv, Kvm!Types, Kvm!kernelVars, Kvm!PassInv, Kvm!Passed
<1>4. Kvm!LateInv' /\ Kvm!OnlyEmptyBuffersRace' /\ Kvm!DeliveredIntact'
  BY <1>1, <1>2, LateKept
<1> QED
  BY <1>2, <1>3, <1>4 DEF Kvm!KvmInv

(* perf kvm stat live, for any number of buffers, slots and events:        *)
(* perf_kvm__mmap_read() delivers an event before an older one only when   *)
(* it had found the buffer of the older one empty, and what is delivered   *)
(* is what the kernel wrote.                                               *)
THEOREM FlushOrder == Kvm!Spec => []KvmFlushOrder
<1>1. Kvm!Init => Kvm!KvmInv
  BY KvmInitInv, StoresAssumption
<1>2. Kvm!KvmInv /\ [Kvm!Next]_Kvm!vars => Kvm!KvmInv'
  <2> SUFFICES ASSUME Kvm!KvmInv, [Kvm!Next]_Kvm!vars PROVE Kvm!KvmInv'
    OBVIOUS
  <2>1. CASE \E i \in Kvm!Mmaps : Kvm!Stamp(i) \/ Kvm!Publish(i)
    BY <2>1, StampInv, PublishInv, StoresAssumption
  <2>2. CASE Kvm!StartPass
    BY <2>2, StartPassInv, StoresAssumption
  <2>3. CASE Kvm!ReadEvent \/ Kvm!ReadFails
    BY <2>3, ReadEventInv, ReadFailsInv, StoresAssumption
  <2>4. CASE Kvm!NextMmap
    BY <2>4, NextMmapInv, StoresAssumption
  <2>5. CASE Kvm!FlushEvent \/ Kvm!FlushFails \/ Kvm!FlushDone
    BY <2>5, FlushEventInv, FlushEndsInv, StoresAssumption
  <2>6. CASE Kvm!Ended
    BY <2>6, KvmStutters, StoresAssumption DEF Kvm!Ended
  <2>7. CASE UNCHANGED Kvm!vars
    BY <2>7, KvmStutters, StoresAssumption
  <2> QED
    BY <2>1, <2>2, <2>3, <2>4, <2>5, <2>6, <2>7 DEF Kvm!Next
<1>3. Kvm!KvmInv => KvmFlushOrder
  BY DEF Kvm!KvmInv, KvmFlushOrder
<1> QED
  BY <1>1, <1>2, <1>3, PTL DEF Kvm!Spec
=============================================================================
