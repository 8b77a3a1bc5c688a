---------------------------- MODULE ReportProofs ----------------------------
(* What reports say: the maps of a process are disjoint and name the right  *)
(* file, for any processes, files and addresses, as long as memory does not *)
(* run out (MapGroups); the latencies of perf sched (SchedLatency) and the  *)
(* times of perf lock (LockStats) are those of the recorded system, for any *)
(* tasks, CPUs, threads and locks.                                          *)
EXTENDS MapGroups, Reports, Sequences, TLAPS

(* map__overlap() says whether two intervals that are not empty share a     *)
(* page.                                                                    *)
LEMMA OverlapShares ==
  ASSUME NEW l \in Map, NEW r \in Map, l.start < l.end, r.start < r.end
  PROVE  map__overlap(l, r) <=> (l.start < r.end /\ r.start < l.end)
BY DEF map__overlap, Map

(* m is what the new map leaves of pos: all of it, or the part in front of  *)
(* the new map or behind it.                                                *)
PartOf(m, pos, map) ==
  /\ m \in Map /\ m.start < m.end /\ m.dso = pos.dso
  /\ pos.start <= m.start /\ m.end <= pos.end
  /\ m.end <= map.start \/ map.end <= m.start
  /\ \/ m = pos /\ ~map__overlap(pos, map)
     \/ m = [pos EXCEPT !.end = map.start] /\ map__overlap(pos, map)
     \/ m = [pos EXCEPT !.start = map.end] /\ map__overlap(pos, map)

(* Every map behind maps__fixup_overlappings() is a part of a map in front  *)
(* of it: it lies within that map, names its file, and does not touch the   *)
(* new one.                                                                 *)
LEMMA FixupParts ==
  ASSUME NEW mg \in SUBSET Map, NEW map \in Map, map.start < map.end,
         \A pos \in mg : pos.start < pos.end,
         NEW m \in maps__fixup_overlappings(mg, map)
  PROVE  \E pos \in mg : PartOf(m, pos, map)
<1>1. CASE m \in mg /\ ~map__overlap(m, map)
  <2>1. PartOf(m, m, map)
    BY <1>1, OverlapShares DEF Map, PartOf
  <2> QED BY <1>1, <2>1
<1>2. CASE \E pos \in mg : map__overlap(pos, map) /\ m \in Before(pos, map)
  <2>1. PICK pos \in mg : map__overlap(pos, map) /\ m \in Before(pos, map)
    BY <1>2
  <2>2. pos \in Map /\ m = [pos EXCEPT !.end = map.start] /\ map.start > pos.start
    BY <2>1 DEF Before
  <2>3. pos.start < map.end /\ map.start < pos.end
    BY <2>1, <2>2, OverlapShares
  <2>4. m \in Map /\ m.start = pos.start /\ m.end = map.start /\ m.dso = pos.dso
    BY <2>2 DEF Map
  <2>5. PartOf(m, pos, map)
    BY <2>1, <2>2, <2>3, <2>4 DEF Map, PartOf
  <2> QED BY <2>5
<1>3. CASE \E pos \in mg : map__overlap(pos, map) /\ m \in After(pos, map)
  <2>1. PICK pos \in mg : map__overlap(pos, map) /\ m \in After(pos, map)
    BY <1>3
  <2>2. pos \in Map /\ m = [pos EXCEPT !.start = map.end] /\ map.end < pos.end
    BY <2>1 DEF After
  <2>3. pos.start < map.end /\ map.start < pos.end
    BY <2>1, <2>2, OverlapShares
  <2>4. m \in Map /\ m.start = map.end /\ m.end = pos.end /\ m.dso = pos.dso
    BY <2>2 DEF Map
  <2>5. PartOf(m, pos, map)
    BY <2>1, <2>2, <2>3, <2>4 DEF Map, PartOf
  <2> QED BY <2>5
<1> QED BY <1>1, <1>2, <1>3 DEF maps__fixup_overlappings

(* Maps that are disjoint stay so when a map is inserted. *)
LEMMA InsertDisjoint ==
  ASSUME NEW mg \in SUBSET Map, NEW map \in Map, map.start < map.end,
         \A l, r \in mg : l.start < l.end /\ (l # r => ~map__overlap(l, r))
  PROVE  \A l, r \in maps__fixup_overlappings(mg, map) \cup {map} :
           l \in Map /\ l.start < l.end /\ (l # r => ~map__overlap(l, r))
<1> DEFINE new == maps__fixup_overlappings(mg, map)
<1>1. \A m \in new : m \in Map /\ m.start < m.end /\ (m.end <= map.start \/ map.end <= m.start)
  BY FixupParts DEF PartOf
<1>2. \A m \in new : ~map__overlap(m, map) /\ ~map__overlap(map, m)
  BY <1>1, OverlapShares DEF Map
<1>3. ASSUME NEW l \in new, NEW r \in new, l # r
      PROVE  ~map__overlap(l, r)
  <2>1. PICK pl \in mg : PartOf(l, pl, map)
    BY FixupParts
  <2>2. PICK pr \in mg : PartOf(r, pr, map)
    BY FixupParts
  <2>3. l \in Map /\ l.start < l.end /\ r \in Map /\ r.start < r.end
    BY <1>1
  <2>4. CASE pl # pr
    <3>1. ~(pl.start < pr.end /\ pr.start < pl.end)
      BY <2>4, OverlapShares
    <3>2. ~(l.start < r.end /\ r.start < l.end)
      BY <2>1, <2>2, <2>3, <3>1 DEF Map, PartOf
    <3> QED BY <2>3, <3>2, OverlapShares
  <2>5. CASE pl = pr
    <3>1. \/ l.end = map.start /\ r.start = map.end
          \/ l.start = map.end /\ r.end = map.start
      BY <1>3, <2>1, <2>2, <2>5 DEF Map, PartOf
    <3>2. ~(l.start < r.end /\ r.start < l.end)
      BY <2>3, <3>1 DEF Map
    <3> QED BY <2>3, <3>2, OverlapShares
  <2> QED BY <2>4, <2>5
<1> QED BY <1>1, <1>2, <1>3

(* A page in front of or behind the new map is in the same maps, by file,   *)
(* as before.                                                               *)
LEMMA FixupKeeps ==
  ASSUME NEW mg \in SUBSET Map, NEW map \in Map, map.start < map.end,
         \A pos \in mg : pos.start < pos.end,
         NEW a \in Nat, ~Within(a, map),
         NEW pos \in mg, Within(a, pos)
  PROVE  \E m \in maps__fixup_overlappings(mg, map) : Within(a, m) /\ m.dso = pos.dso
<1>1. CASE ~map__overlap(pos, map)
  BY <1>1 DEF maps__fixup_overlappings
<1>2. CASE map__overlap(pos, map) /\ a < map.start
  <2> DEFINE m == [pos EXCEPT !.end = map.start]
  <2>1. m \in Before(pos, map) /\ Within(a, m) /\ m.dso = pos.dso
    BY <1>2 DEF Before, Within, Map
  <2>2. m \in maps__fixup_overlappings(mg, map)
    BY <1>2, <2>1 DEF maps__fixup_overlappings
  <2> QED BY <2>1, <2>2
<1>3. CASE map__overlap(pos, map) /\ a >= map.end
  <2> DEFINE m == [pos EXCEPT !.start = map.end]
  <2>1. m \in After(pos, map) /\ Within(a, m) /\ m.dso = pos.dso
    BY <1>3 DEF After, Within, Map
  <2>2. m \in maps__fixup_overlappings(mg, map)
    BY <1>3, <2>1 DEF maps__fixup_overlappings
  <2> QED BY <2>1, <2>2
<1> QED BY <1>1, <1>2, <1>3 DEF Within, Map

(* The pages of the new map are found in it and in no other. *)
LEMMA InsertFinds ==
  ASSUME NEW mg \in SUBSET Map, NEW map \in Map, map.start < map.end,
         \A pos \in mg : pos.start < pos.end,
         NEW a \in Nat, Within(a, map)
  PROVE  maps__find(maps__fixup_overlappings(mg, map) \cup {map}, a) = {map}
<1>1. \A m \in maps__fixup_overlappings(mg, map) : ~Within(a, m)
  <2> SUFFICES ASSUME NEW m \in maps__fixup_overlappings(mg, map)
               PROVE  ~Within(a, m)
    OBVIOUS
  <2>1. m \in Map /\ (m.end <= map.start \/ map.end <= m.start)
    BY FixupParts DEF PartOf
  <2> QED BY <2>1 DEF Within, Map
<1> QED BY <1>1 DEF maps__find

(* A page outside the new map is found in maps of the files it was found in *)
(* before.                                                                  *)
LEMMA InsertFindsOthers ==
  ASSUME NEW mg \in SUBSET Map, NEW map \in Map, map.start < map.end,
         \A pos \in mg : pos.start < pos.end,
         NEW a \in Nat, ~Within(a, map), NEW f,
         maps__find(mg, a) # {}, \A m \in maps__find(mg, a) : m.dso = f
  PROVE  LET new == maps__fixup_overlappings(mg, map) \cup {map}
         IN maps__find(new, a) # {} /\ \A m \in maps__find(new, a) : m.dso = f
<1> DEFINE new == maps__fixup_overlappings(mg, map) \cup {map}
<1>1. maps__find(new, a) # {}
  <2>1. PICK pos \in mg : Within(a, pos)
    BY DEF maps__find
  <2>2. \E m \in maps__fixup_overlappings(mg, map) : Within(a, m)
    BY <2>1, FixupKeeps
  <2> QED BY <2>2 DEF maps__find
<1>2. ASSUME NEW m \in maps__find(new, a)
      PROVE  m.dso = f
  <2>1. m \in maps__fixup_overlappings(mg, map) /\ Within(a, m)
    BY <1>2 DEF maps__find
  <2>2. PICK pos \in mg : PartOf(m, pos, map)
    BY <2>1, FixupParts
  <2>3. Within(a, pos)
    BY <2>1, <2>2 DEF PartOf, Within, Map
  <2> QED BY <2>2, <2>3 DEF maps__find, PartOf
<1> QED BY <1>1, <1>2

-----------------------------------------------------------------------------

(* Without a failed clone the Mmap step inserts into the fixed-up maps. *)
LEMMA MmapEvent ==
  ASSUME MayFail = FALSE, NEW p, NEW map, Mmap(p, map)
  PROVE  maps' = [maps EXCEPT ![p] = maps__fixup_overlappings(@, map) \cup {map}]
BY DEF Mmap

(* An MMAP record has the type of a map. *)
LEMMA EventType ==
  ASSUME NEW s \in Addresses, NEW e \in Addresses, NEW o \in Offsets, NEW f \in Files
  PROVE  [start |-> s, end |-> e, pgoff |-> o, dso |-> f] \in Map
BY AddressAssumption DEF Map

(* The maps of every process have their type and are disjoint: one step. *)
LEMMA DisjointStep ==
  ASSUME MayFail = FALSE, maps \in [Procs -> SUBSET Map], NoOverlap, [Next]_vars
  PROVE  maps' \in [Procs -> SUBSET Map] /\ NoOverlap'
<1>1. ASSUME NEW p \in Procs, NEW map \in Map, Mmap(p, map)
      PROVE  maps' \in [Procs -> SUBSET Map] /\ NoOverlap'
  <2> DEFINE new == maps__fixup_overlappings(maps[p], map) \cup {map}
  <2>1. maps' = [maps EXCEPT ![p] = new] /\ map.start < map.end
    BY <1>1, MmapEvent DEF Mmap
  <2>2. \A l, r \in new : l \in Map /\ l.start < l.end /\ (l # r => ~map__overlap(l, r))
    BY <2>1, InsertDisjoint DEF NoOverlap
  <2>3. maps' \in [Procs -> SUBSET Map]
    BY <2>1, <2>2
  <2>4. \A q \in Procs : maps'[q] = IF q = p THEN new ELSE maps[q]
    BY <2>1
  <2>5. NoOverlap'
    BY <2>2, <2>4 DEF NoOverlap
  <2> QED BY <2>3, <2>5
<1>2. ASSUME NEW p \in Procs, NEW c \in Procs, Fork(p, c)
      PROVE  maps' \in [Procs -> SUBSET Map] /\ NoOverlap'
  <2>1. maps' = [maps EXCEPT ![c] = maps[p]]
    BY <1>2 DEF Fork, map_groups__clone
  <2>2. \A q \in Procs : maps'[q] = IF q = c THEN maps[p] ELSE maps[q]
    BY <2>1
  <2> QED BY <2>1, <2>2 DEF NoOverlap
<1>3. CASE UNCHANGED maps
  BY <1>3 DEF NoOverlap
<1>4. CASE \E p \in Procs, s \in Addresses, e \in Addresses, o \in Offsets, f \in Files :
             Mmap(p, [start |-> s, end |-> e, pgoff |-> o, dso |-> f])
  BY <1>1, <1>4, EventType
<1> QED BY <1>2, <1>3, <1>4 DEF Next, vars, Munmap, Exec, Exit

(* As long as memory does not run out, the maps of a process never overlap  *)
(* and maps__find() can descend by address: maps__fixup_overlappings() of   *)
(* the MMAP record and the copy of the FORK record keep it so.              *)
THEOREM Disjoint == ASSUME MayFail = FALSE PROVE Spec => []NoOverlap
<1> DEFINE Inv == maps \in [Procs -> SUBSET Map] /\ NoOverlap
<1>1. Init => Inv
  BY DEF Init, NoOverlap
<1>2. Inv /\ [Next]_vars => Inv'
  BY DisjointStep
<1> QED BY <1>1, <1>2, PTL DEF Spec

(* An MMAP record keeps every mapped page in the right file. *)
LEMMA RightFileMmap ==
  ASSUME MayFail = FALSE, maps \in [Procs -> SUBSET Map],
         space \in [Procs -> [Addresses -> Cells]], live \subseteq Procs,
         NoOverlap, RightFile,
         NEW p \in Procs, NEW map \in Map, Mmap(p, map)
  PROVE  RightFile'
<1> DEFINE new == maps__fixup_overlappings(maps[p], map) \cup {map}
<1>1. maps' = [maps EXCEPT ![p] = new] /\ map.start < map.end /\ live' = live /\ p \in live
  BY MmapEvent DEF Mmap
<1>2. \A pos \in maps[p] : pos.start < pos.end
  BY DEF NoOverlap
<1>3. maps[p] \in SUBSET Map
  OBVIOUS
<1> SUFFICES ASSUME NEW q \in live, q \in Procs, NEW a \in Addresses, space'[q][a] # Hole
             PROVE  /\ maps__find(maps'[q], a) # {}
                    /\ \A m \in maps__find(maps'[q], a) : m.dso = space'[q][a].file
  BY <1>1 DEF RightFile
<1>4. CASE q # p
  <2>1. maps'[q] = maps[q] /\ space'[q] = space[q]
    BY <1>1, <1>4 DEF Mmap
  <2> QED BY <2>1 DEF RightFile
<1>5. CASE q = p /\ Within(a, map)
  <2>1. space'[p][a].file = map.dso
    BY <1>5 DEF Mmap
  <2>2. maps'[p] = new
    BY <1>1
  <2>3. maps__find(new, a) = {map}
    BY <1>1, <1>2, <1>3, <1>5, InsertFinds, AddressAssumption
  <2> QED BY <1>5, <2>1, <2>2, <2>3
<1>6. CASE q = p /\ ~Within(a, map)
  <2>1. space'[p][a] = space[p][a]
    BY <1>6 DEF Mmap
  <2>2. maps'[p] = new
    BY <1>1
  <2>3. /\ maps__find(maps[p], a) # {}
        /\ \A m \in maps__find(maps[p], a) : m.dso = space[p][a].file
    BY <1>1, <1>6, <2>1 DEF RightFile
  <2>4. a \in Nat
    BY AddressAssumption
  <2>5. maps__find(new, a) # {} /\ \A m \in maps__find(new, a) : m.dso = space[p][a].file
    BY <1>1, <1>2, <1>3, <1>6, <2>3, <2>4, InsertFindsOthers
  <2> QED BY <1>6, <2>1, <2>2, <2>5
<1> QED BY <1>4, <1>5, <1>6

(* The part of TypeOK that RightFile needs besides the maps *)
Truth == space \in [Procs -> [Addresses -> Cells]] /\ live \subseteq Procs

(* A step keeps the address spaces and the set of processes what they are. *)
LEMMA TruthStep ==
  ASSUME Truth, maps \in [Procs -> SUBSET Map], [Next]_vars
  PROVE  Truth'
<1>1. Hole \in Cells
  BY DEF Cells
<1>2. ASSUME NEW p \in Procs, NEW map \in Map, Mmap(p, map)
      PROVE  Truth'
  <2>1. \A a \in Addresses : [file |-> map.dso, off |-> map_ip(map, a)] \in Cells
    BY AddressAssumption DEF Cells, Map, map_ip
  <2> QED BY <1>2, <2>1 DEF Mmap, Truth
<1>3. ASSUME NEW p \in Procs, NEW from \in Addresses, NEW to \in Addresses, Munmap(p, from, to)
      PROVE  Truth'
  BY <1>1, <1>3 DEF Munmap, Truth
<1>4. ASSUME NEW p \in Procs, Exec(p)
      PROVE  Truth'
  BY <1>1, <1>4 DEF Exec, Truth
<1>5. ASSUME NEW p \in Procs, NEW c \in Procs, Fork(p, c)
      PROVE  Truth'
  BY <1>5 DEF Fork, Truth
<1>6. ASSUME NEW p \in Procs, Exit(p)
      PROVE  Truth'
  BY <1>1, <1>6 DEF Exit, Truth
<1>7. CASE UNCHANGED vars
  BY <1>7 DEF vars, Truth
<1>8. CASE \E p \in Procs, s \in Addresses, e \in Addresses, o \in Offsets, f \in Files :
             Mmap(p, [start |-> s, end |-> e, pgoff |-> o, dso |-> f])
  BY <1>2, <1>8, EventType
<1> QED BY <1>3, <1>4, <1>5, <1>6, <1>7, <1>8 DEF Next

(* What only takes pages away from a process keeps RightFile. *)
LEMMA RightFileLess ==
  ASSUME RightFile, Truth, live' \subseteq live, maps' = maps,
         \A p \in live' : \A a \in Addresses : space'[p][a] # Hole => space'[p][a] = space[p][a]
  PROVE  RightFile'
BY DEF RightFile

(* Every step keeps every mapped page in the right file. *)
LEMMA RightFileStep ==
  ASSUME MayFail = FALSE, maps \in [Procs -> SUBSET Map], Truth,
         NoOverlap, RightFile, [Next]_vars
  PROVE  RightFile'
<1>1. ASSUME NEW p \in Procs, NEW from \in Addresses, NEW to \in Addresses, Munmap(p, from, to)
      PROVE  RightFile'
  BY <1>1, RightFileLess DEF Munmap, Truth
<1>2. ASSUME NEW p \in Procs, Exec(p)
      PROVE  RightFile'
  BY <1>2, RightFileLess DEF Exec, Truth
<1>3. ASSUME NEW p \in Procs, Exit(p)
      PROVE  RightFile'
  BY <1>3, RightFileLess DEF Exit, Truth
<1>4. ASSUME NEW p \in Procs, NEW c \in Procs, Fork(p, c)
      PROVE  RightFile'
  <2>1. /\ maps' = [maps EXCEPT ![c] = maps[p]] /\ space' = [space EXCEPT ![c] = space[p]]
        /\ live' = live \cup {c} /\ p \in live
    BY <1>4 DEF Fork, map_groups__clone
  <2>2. \A q \in live' : \/ q = c /\ maps'[q] = maps[p] /\ space'[q] = space[p]
                         \/ q \in live /\ maps'[q] = maps[q] /\ space'[q] = space[q]
    BY <2>1 DEF Truth
  <2> QED BY <2>1, <2>2 DEF RightFile
<1>5. CASE UNCHANGED vars
  BY <1>5 DEF vars, RightFile
<1>6. CASE \E p \in Procs, s \in Addresses, e \in Addresses, o \in Offsets, f \in Files :
             Mmap(p, [start |-> s, end |-> e, pgoff |-> o, dso |-> f])
  BY <1>6, EventType, RightFileMmap DEF Truth
<1> QED BY <1>1, <1>2, <1>3, <1>4, <1>5, <1>6 DEF Next

(* As long as memory does not run out, maps__find() takes every page that a *)
(* running process has mapped to the file mapped there, for any sequence of *)
(* mmap(), munmap(), exec(), fork() and exit(), although perf is not told   *)
(* of munmap() and of what exec() unmaps.                                   *)
THEOREM FileIsRight == ASSUME MayFail = FALSE PROVE Spec => []RightFile
<1> DEFINE Inv == maps \in [Procs -> SUBSET Map] /\ NoOverlap /\ Truth /\ RightFile
<1>1. Init => Inv
  BY DEF Init, NoOverlap, Truth, RightFile, Cells
<1>2. Inv /\ [Next]_vars => Inv'
  BY DisjointStep, TruthStep, RightFileStep
<1> QED BY <1>1, <1>2, PTL DEF Spec

-----------------------------------------------------------------------------
(* perf sched latency *)

(* Sequences of events *)
LEMMA AppendEvent ==
  ASSUME NEW S, NEW s \in Seq(S), NEW e \in S
  PROVE  /\ Append(s, e) \in Seq(S) /\ Len(Append(s, e)) = Len(s) + 1
         /\ \A k \in DOMAIN Append(s, e) : Append(s, e)[k] \in {e} \cup {s[i] : i \in DOMAIN s}
         /\ s = <<>> => Append(s, e) = <<e>>
<1>1. Append(s, e) \in Seq(S) /\ Len(Append(s, e)) = Len(s) + 1
  OBVIOUS
<1>2. \A k \in 1 .. Len(s) + 1 : Append(s, e)[k] = IF k <= Len(s) THEN s[k] ELSE e
  OBVIOUS
<1>3. DOMAIN Append(s, e) = 1 .. Len(s) + 1 /\ DOMAIN s = 1 .. Len(s) /\ Len(s) \in Nat
  OBVIOUS
<1>4. \A k \in 1 .. Len(s) + 1 : k <= Len(s) => k \in DOMAIN s
  BY <1>3
<1>5. \A k \in DOMAIN Append(s, e) : Append(s, e)[k] \in {e} \cup {s[i] : i \in DOMAIN s}
  BY <1>2, <1>3, <1>4
<1>6. s = <<>> => Append(s, e) = <<e>>
  OBVIOUS
<1> QED
  BY <1>1, <1>5, <1>6

(* Two sequences in a row. *)
LEMMA Concat ==
  ASSUME NEW S, NEW a \in Seq(S), NEW b \in Seq(S)
  PROVE  /\ a \o b \in Seq(S) /\ Len(a \o b) = Len(a) + Len(b)
         /\ \A j \in 1 .. Len(a) + Len(b) : (a \o b)[j] = IF j <= Len(a) THEN a[j]
            ELSE b[j - Len(a)]
OBVIOUS

(* An event taken out of those on their way. *)
LEMMA RemoveEvent ==
  ASSUME NEW S, NEW s \in Seq(S), NEW k \in 1 .. Len(s)
  PROVE  /\ Sched!RemoveAt(s, k) \in Seq(S) /\ Len(Sched!RemoveAt(s, k)) = Len(s) - 1
         /\ \A j \in DOMAIN Sched!RemoveAt(s, k) : \E i \in DOMAIN s : Sched!RemoveAt(s,
            k)[j] = s[i]
         /\ Len(s) = 1 => Sched!RemoveAt(s, k) = <<>>
<1> DEFINE a == SubSeq(s, 1, k - 1)
<1> DEFINE b == SubSeq(s, k + 1, Len(s))
<1>1. a \in Seq(S) /\ Len(a) = k - 1 /\ \A i \in 1 .. k - 1 : a[i] = s[i]
  OBVIOUS
<1>2. b \in Seq(S) /\ Len(b) = Len(s) - k /\ \A i \in 1 .. Len(s) - k : b[i] = s[i + k]
  OBVIOUS
<1>3. Sched!RemoveAt(s, k) = a \o b
  BY DEF Sched!RemoveAt
<1> HIDE DEF a, b
<1>4. a \o b \in Seq(S) /\ Len(a \o b) = Len(s) - 1
  <2>1. a \o b \in Seq(S) /\ Len(a \o b) = Len(a) + Len(b)
    BY <1>1, <1>2, Concat
  <2> QED
    BY <1>1, <1>2, <2>1
<1>5. \A j \in 1 .. Len(s) - 1 : (a \o b)[j] = IF j <= k - 1 THEN a[j] ELSE b[j - (k - 1)]
  <2>1. Len(a) + Len(b) = Len(s) - 1
    BY <1>1, <1>2
  <2> QED
    BY <1>1, <1>2, <2>1, Concat
<1>6. \A j \in 1 .. Len(s) - 1 : \E i \in DOMAIN s : (a \o b)[j] = s[i]
  <2> TAKE j \in 1 .. Len(s) - 1
  <2>1. CASE j <= k - 1
    BY <1>1, <1>5, <2>1
  <2>2. CASE j > k - 1
    <3>1. PICK m \in 1 .. Len(s) - k : m = j - (k - 1)
      BY <2>2
    <3>2. (a \o b)[j] = b[m]
      <4>1. Len(s) \in Nat /\ k \in Nat /\ j \in Nat /\ ~(j <= k - 1)
        BY <2>2
      <4>2. (a \o b)[j] = b[j - (k - 1)]
        BY <1>5, <4>1
      <4> QED
        BY <3>1, <4>2
    <3>3. b[m] = s[m + k] /\ m + k \in DOMAIN s
      BY <1>2
    <3> QED
      BY <3>2, <3>3
  <2> QED
    <3>1. Len(s) \in Nat /\ k \in Nat /\ j \in Nat
      OBVIOUS
    <3>2. j <= k - 1 \/ j > k - 1
      BY <3>1
    <3> QED
      BY <2>1, <2>2, <3>2, ZenonT(60)
<1>7. Len(s) = 1 => a \o b = <<>>
  BY <1>4
<1>8. DOMAIN Sched!RemoveAt(s, k) = 1 .. Len(s) - 1
  BY <1>3, <1>4
<1> QED
  BY <1>3, <1>4, <1>6, <1>7, <1>8

(* The scheduler emits an event, which is of now. *)
LEMMA EmitEvent ==
  ASSUME Sched!SchedInv, NEW e \in Sched!Events, e.time = now, Sched!Emit(e), now' = now
  PROVE  /\ sched_pending' \in Seq(Sched!Events)
            /\ \A k \in DOMAIN sched_pending' : sched_pending'[k].time <= now
         /\ sched_lost' \in BOOLEAN /\ sched_late' \in BOOLEAN
         /\ ~sched_late' => ~sched_late /\ sched_pending = <<>> /\ Len(sched_pending') <= 1
            /\ Sched!Seen' = Sched!Seen /\ Sched!Seen = now
         /\ ~sched_late' /\ ~sched_lost' => ~sched_lost /\ sched_pending' = <<e>>
<1>1. /\ sched_pending \in Seq(Sched!Events) /\ now \in Nat /\ sched_late \in BOOLEAN
      /\ sched_lost \in BOOLEAN
      /\ \A k \in DOMAIN sched_pending : sched_pending[k].time <= now
  BY DEF Sched!SchedInv, Sched!TypeOK
<1>2. /\ sched_late' = (sched_late \/ sched_pending # <<>>)
      /\ \/ sched_pending' = Append(sched_pending, e) /\ sched_lost' = sched_lost
         \/ sched_pending' = sched_pending /\ sched_lost' = TRUE
  BY DEF Sched!Emit
<1>3. sched_pending' \in Seq(Sched!Events)
      /\ \A k \in DOMAIN sched_pending' : sched_pending'[k].time <= now
  <2>1. CASE sched_pending' = sched_pending
    BY <1>1, <2>1
  <2>2. CASE sched_pending' = Append(sched_pending, e)
    BY <1>1, <2>2, AppendEvent
  <2> QED
    BY <1>2, <2>1, <2>2
<1>4. ASSUME ~sched_late'
      PROVE  ~sched_late /\ sched_pending = <<>> /\ Len(sched_pending') <= 1
             /\ Sched!Seen' = Sched!Seen /\ Sched!Seen = now
  <2>1. ~sched_late /\ sched_pending = <<>>
    BY <1>1, <1>2, <1>4
  <2>2. CASE sched_pending' = sched_pending
    BY <2>1, <2>2 DEF Sched!Seen
  <2>3. CASE sched_pending' = Append(sched_pending, e)
    <3>1. sched_pending' = <<e>>
      BY <2>1, <2>3, AppendEvent, <1>1
    <3> QED
      BY <2>1, <3>1 DEF Sched!Seen
  <2> QED
    BY <1>2, <2>2, <2>3
<1>5. ~sched_late' /\ ~sched_lost' => ~sched_lost /\ sched_pending' = <<e>>
  BY <1>1, <1>2, <1>4, AppendEvent
<1> QED
  BY <1>1, <1>2, <1>3, <1>4, <1>5

(* A step of the scheduler leaves what the tool has. *)
LEMMA ToolKept ==
  ASSUME Sched!SchedInv, NEW e \in Sched!Events, e.time = now, Sched!Emit(e), now' = now,
         UNCHANGED Sched!tool
  PROVE  Sched!WithinTime'
<1>1. atoms' = atoms /\ Sched!Threads' = Sched!Threads
  BY DEF Sched!tool, Sched!Threads, Sched!swapper
<1>2. sched_late' \in BOOLEAN /\ (~sched_late' => ~sched_late /\ Sched!Seen' = Sched!Seen)
  BY EmitEvent
<1> QED
  BY <1>1, <1>2 DEF Sched!SchedInv, Sched!WithinTime, Sched!Fits

(* A context switch: the tool is behind by its event. *)
LEMMA SwitchInv ==
  ASSUME Sched!SchedConstants, Sched!SchedInv, NEW c \in SchedCpus, NEW next \in Sched!Threads,
         NEW sleeps \in BOOLEAN,
         Sched!Switch(c, next, sleeps)
  PROVE  Sched!SchedInv'
<1>0. PICK prev \in Sched!Threads : prev = running[c]
  BY DEF Sched!SchedInv, Sched!TypeOK
<1> DEFINE ev == [type |-> "switch", cpu |-> c, prev |-> prev, next |-> next,
                  state |-> IF sleeps THEN "S" ELSE "R", time |-> now]
<1> DEFINE lat == IF sched_since[next] = Sched!Unseen THEN 0 ELSE now - sched_since[next]
<1>1. /\ next # prev /\ (next # Sched!swapper => kstate[next] = "runnable")
         /\ (prev = Sched!swapper => ~sleeps)
      /\ running' = [running EXCEPT ![c] = next]
      /\ kstate' = [t \in Tasks |-> IF t = next THEN "running"
                                    ELSE IF t # prev THEN kstate[t]
                                    ELSE IF sleeps THEN "sleeping" ELSE "runnable"]
      /\ sched_since' = [t \in Tasks |-> IF t = prev /\ ~sleeps THEN now
                                   ELSE IF t \in {prev, next} THEN Sched!Unseen ELSE sched_since[t]]
      /\ IF next = Sched!swapper THEN UNCHANGED <<true_lat, true_max, true_nr>>
         ELSE /\ true_lat' = [true_lat EXCEPT ![next] = @ + lat]
              /\ true_max' = [true_max EXCEPT ![next] = IF lat > @ THEN lat ELSE @]
              /\ true_nr' = [true_nr EXCEPT ![next] = @ + 1]
      /\ Sched!Emit(ev) /\ now' = now /\ UNCHANGED Sched!tool
  BY <1>0 DEF Sched!Switch
<1>2. /\ now \in Nat /\ running \in [SchedCpus -> Sched!Threads] 
      /\ kstate \in [Tasks -> {"running", "runnable", "sleeping"}] /\ sched_since \in [Tasks -> Int]
      /\ true_lat \in [Tasks -> Nat] /\ true_max \in [Tasks -> Nat] /\ true_nr \in [Tasks -> Nat]
  BY DEF Sched!SchedInv, Sched!TypeOK
<1>3. ev \in Sched!Events
  BY <1>2 DEF Sched!Events
<1>4. PICK e \in Sched!Events : e = ev
  BY <1>3
<1>40. /\ e.time = now /\ Sched!Emit(e)
      /\ e.type = "switch" /\ e.cpu = c /\ e.prev = prev /\ e.next = next
      /\ e.state = IF sleeps THEN "S" ELSE "R"
  BY <1>1, <1>4
<1>5. /\ atoms' = atoms /\ curr_pid' = curr_pid /\ cpu_last_switched' = cpu_last_switched
      /\ nr_context_switch_bugs' = nr_context_switch_bugs /\ sched_status' = sched_status
      /\ nr_unordered_timestamps' = nr_unordered_timestamps
      /\ Sched!Threads' = Sched!Threads /\ Sched!Events' = Sched!Events
  BY <1>1 DEF Sched!tool, Sched!Threads, Sched!swapper, Sched!Events
<1> HIDE DEF ev
<1>6. /\ sched_pending' \in Seq(Sched!Events)
         /\ \A k \in DOMAIN sched_pending' : sched_pending'[k].time <= now
      /\ sched_lost' \in BOOLEAN /\ sched_late' \in BOOLEAN
      /\ ~sched_late' => ~sched_late /\ sched_pending = <<>> /\ Len(sched_pending') <= 1
         /\ Sched!Seen' = Sched!Seen /\ Sched!Seen = now
      /\ ~sched_late' /\ ~sched_lost' => ~sched_lost /\ sched_pending' = <<e>>
  BY <1>1, <1>40, EmitEvent
<1>7. Sched!WithinTime'
  BY <1>1, <1>40, ToolKept
<1>8. Sched!RunsOnce'
  <2>1. next # Sched!swapper => next \in Tasks /\ \A d \in SchedCpus : running[d] # next
    BY <1>1 DEF Sched!SchedInv, Sched!RunsOnce, Sched!Threads
  <2>2. \A d \in SchedCpus : running'[d] = IF d = c THEN next ELSE running[d]
    BY <1>1, <1>2
  <2>3. ASSUME NEW d \in SchedCpus,
               running'[d] # Sched!swapper PROVE kstate'[running'[d]] = "running"
    <3>1. CASE d = c
      BY <1>1, <2>1, <2>2, <2>3, <3>1
    <3>2. CASE d # c
      <4>1. running[d] # Sched!swapper /\ running[d] \in Tasks /\ running[d] # prev
            /\ running[d] # next
        BY <1>0, <1>2, <2>1, <2>2, <2>3, <3>2 DEF Sched!SchedInv, Sched!RunsOnce, Sched!Threads
      <4>2. kstate[running[d]] = "running"
        BY <4>1 DEF Sched!SchedInv, Sched!RunsOnce
      <4> QED
        BY <1>1, <2>2, <3>2, <4>1, <4>2
    <3> QED
      BY <3>1, <3>2
  <2>4. ASSUME NEW d \in SchedCpus, NEW f \in SchedCpus, running'[d] = running'[f], d # f
        PROVE  running'[d] = Sched!swapper
    BY <2>1, <2>2, <2>4 DEF Sched!SchedInv, Sched!RunsOnce
  <2> QED
    BY <2>3, <2>4 DEF Sched!RunsOnce, Sched!swapper
<1>9. ASSUME next # Sched!swapper PROVE next \in Tasks /\ lat \in Nat
  BY <1>2, <1>9 DEF Sched!SchedInv, Sched!TypeOK, Sched!Threads
<1>10. Sched!TypeOK'
  <2>1. running' \in [SchedCpus -> Sched!Threads]
    BY <1>1, <1>2
  <2>2. kstate' \in [Tasks -> {"running", "runnable", "sleeping"}]
    BY <1>1, <1>2
  <2>3. sched_since' \in [Tasks -> Int] /\ \A t \in Tasks : sched_since'[t] <= now'
    BY <1>1, <1>2 DEF Sched!SchedInv, Sched!TypeOK, Sched!Unseen
  <2>4. true_lat' \in [Tasks -> Nat] /\ true_max' \in [Tasks -> Nat] /\ true_nr' \in [Tasks -> Nat]
    <3>1. CASE next = Sched!swapper
      BY <1>1, <1>2, <3>1
    <3>2. CASE next # Sched!swapper
      <4> HIDE DEF lat
      <4> QED
        BY <1>1, <1>2, <1>9, <3>2
    <3> QED
      BY <3>1, <3>2
  <2>5. /\ atoms \in [Sched!Threads -> Sched!Atoms]
        /\ curr_pid \in [SchedCpus -> Sched!Threads \cup {"none"}]
        /\ cpu_last_switched \in [SchedCpus -> Nat]
    BY DEF Sched!SchedInv, Sched!TypeOK
  <2> QED
    BY <1>1, <1>2, <1>5, <1>6, <2>1, <2>2, <2>3, <2>4, <2>5 DEF Sched!TypeOK, Sched!Atoms
<1>11. Sched!Exact'
  <2> SUFFICES ASSUME ~sched_lost', ~sched_late' PROVE Sched!InStep'
    BY DEF Sched!Exact
  <2>1. /\ ~sched_lost /\ ~sched_late /\ sched_pending = <<>> /\ sched_pending' = <<e>>
        /\ Sched!Seen' = Sched!Seen
    BY <1>6
  <2>2. /\ nr_context_switch_bugs = 0 /\ nr_unordered_timestamps = 0 /\ sched_status = "ok"
        /\ \A d \in SchedCpus : cpu_last_switched[d] <= Sched!Seen
        /\ \A t \in Tasks : Sched!Agree(t)
        /\ \A d \in SchedCpus : curr_pid[d] \in {"none", running[d]}
    BY <2>1 DEF Sched!SchedInv, Sched!Exact, Sched!InStep
  <2>3. sched_pending' # <<>> /\ sched_pending'[1] = e
    BY <2>1
  <2>4. \A d \in SchedCpus : IF d = c THEN curr_pid'[d] \in {"none", prev} /\ running'[d] = next
                       ELSE curr_pid'[d] \in {"none", running'[d]}
    BY <1>1, <1>2, <1>5, <2>2, <1>0
  <2>5. ASSUME NEW t \in Tasks PROVE Sched!AgreeAfter(t, e)'
    <3>1. Sched!Agree(t)
      BY <2>2
    <3>2. CASE t = prev
      <4>1. t # next /\ (e.state = "R" <=> ~sleeps)
        BY <1>1, <1>40, <3>2
      <4>2. /\ true_lat'[t] = true_lat[t] /\ true_max'[t] = true_max[t] /\ true_nr'[t] = true_nr[t]
        BY <1>1, <1>2, <4>1
      <4>3. IF ~sleeps THEN kstate'[t] = "runnable" /\ sched_since'[t] = now
            ELSE kstate'[t] = "sleeping" /\ sched_since'[t] = Sched!Unseen
        BY <1>1, <3>2, <4>1
      <4>4. /\ atoms[t].total_lat = true_lat[t] /\ atoms[t].max_lat = true_max[t]
            /\ atoms[t].nb_atoms = true_nr[t]
        BY <3>1 DEF Sched!Agree
      <4> QED
        BY <1>5, <1>40, <3>2, <4>1, <4>2, <4>3, <4>4 DEF Sched!AgreeAfter, Sched!Unseen
    <3>3. CASE t = next
      <4>1. t # prev /\ t # Sched!swapper /\ kstate[t] = "runnable"
        BY <1>1, <3>3 DEF Sched!SchedConstants
      <4>2. /\ true_lat'[t] = true_lat[t] + lat /\ true_nr'[t] = true_nr[t] + 1
            /\ true_max'[t] = IF lat > true_max[t] THEN lat ELSE true_max[t]
        BY <1>1, <1>2, <3>3, <4>1
      <4>3. kstate'[t] = "running" /\ sched_since'[t] = Sched!Unseen
        BY <1>1, <3>3, <4>1
      <4>4. /\ atoms[t].total_lat = true_lat[t] /\ atoms[t].max_lat = true_max[t]
            /\ atoms[t].nb_atoms = true_nr[t]
            /\ \/ atoms[t].state = "none" /\ sched_since[t] = Sched!Unseen
               \/ atoms[t].state = "WAIT_CPU" /\ atoms[t].wake_up_time = sched_since[t]
        BY <3>1, <4>1 DEF Sched!Agree
      <4>5. atoms[t].wake_up_time \in Nat
        BY DEF Sched!SchedInv, Sched!TypeOK, Sched!Threads, Sched!Atoms
      <4>6. lat = IF Sched!Known(atoms[t]) THEN now - atoms[t].wake_up_time ELSE 0
        BY <3>3, <4>4, <4>5 DEF Sched!Known, Sched!Unseen
      <4> HIDE DEF lat
      <4> QED
        BY <1>5, <1>40, <3>3, <4>1, <4>2, <4>3, <4>4, <4>6 DEF Sched!AgreeAfter, Sched!Unseen,
           Sched!Known
    <3>4. CASE t # prev /\ t # next
      <4>1. /\ true_lat'[t] = true_lat[t] /\ true_max'[t] = true_max[t] /\ true_nr'[t] = true_nr[t]
            /\ kstate'[t] = kstate[t] /\ sched_since'[t] = sched_since[t]
        BY <1>1, <1>2, <3>4
      <4>2. Sched!Agree(t)'
        BY <1>5, <3>1, <4>1 DEF Sched!Agree, Sched!Unseen
      <4> QED
        BY <1>40, <3>4, <4>2 DEF Sched!AgreeAfter
    <3> QED
      BY <3>2, <3>3, <3>4
  <2> QED
    BY <1>1, <1>5, <1>40, <2>1, <2>2, <2>3, <2>4, <2>5 DEF Sched!InStep
<1> QED
  BY <1>7, <1>8, <1>10, <1>11 DEF Sched!SchedInv

(* An event of one task that moves none. *)
LEMMA TaskEvent ==
  ASSUME Sched!SchedConstants, Sched!SchedInv, NEW e \in Sched!Events, e.time = now,
         e.type # "switch", Sched!Emit(e),
         now' = now, UNCHANGED Sched!tool, UNCHANGED <<running, true_lat, true_max, true_nr>>,
         kstate' \in [Tasks -> {"running", "runnable", "sleeping"}],
         sched_since' \in [Tasks -> Int], \A t \in Tasks : sched_since'[t] <= now,
         \A t \in Tasks : (kstate[t] = "running") = (kstate'[t] = "running"),
         ~sched_lost /\ ~sched_late /\ (\A t \in Tasks : Sched!Agree(t))
         => \A t \in Tasks : Sched!AgreeAfter(t, e)'
  PROVE  Sched!SchedInv'
<1>1. /\ atoms' = atoms /\ curr_pid' = curr_pid /\ cpu_last_switched' = cpu_last_switched
      /\ nr_context_switch_bugs' = nr_context_switch_bugs /\ sched_status' = sched_status
      /\ nr_unordered_timestamps' = nr_unordered_timestamps
      /\ Sched!Threads' = Sched!Threads /\ Sched!Events' = Sched!Events
  BY DEF Sched!tool, Sched!Threads, Sched!swapper, Sched!Events
<1>2. /\ sched_pending' \in Seq(Sched!Events)
         /\ \A k \in DOMAIN sched_pending' : sched_pending'[k].time <= now
      /\ sched_lost' \in BOOLEAN /\ sched_late' \in BOOLEAN
      /\ ~sched_late' => ~sched_late /\ sched_pending = <<>> /\ Len(sched_pending') <= 1
         /\ Sched!Seen' = Sched!Seen /\ Sched!Seen = now
      /\ ~sched_late' /\ ~sched_lost' => ~sched_lost /\ sched_pending' = <<e>>
  BY EmitEvent
<1>3. Sched!WithinTime'
  BY ToolKept
<1>4. Sched!RunsOnce'
  BY DEF Sched!SchedInv, Sched!RunsOnce, Sched!TypeOK, Sched!Threads, Sched!swapper
<1>5. Sched!TypeOK'
  <2>1. /\ now \in Nat /\ atoms \in [Sched!Threads -> Sched!Atoms]
        /\ running \in [SchedCpus -> Sched!Threads]
        /\ true_lat \in [Tasks -> Nat] /\ true_max \in [Tasks -> Nat] /\ true_nr \in [Tasks -> Nat]
        /\ curr_pid \in [SchedCpus -> Sched!Threads \cup {"none"}]
        /\ cpu_last_switched \in [SchedCpus -> Nat]
    BY DEF Sched!SchedInv, Sched!TypeOK
  <2> QED
    BY <1>1, <1>2, <2>1 DEF Sched!TypeOK, Sched!Atoms
<1>6. Sched!Exact'
  <2> SUFFICES ASSUME ~sched_lost', ~sched_late' PROVE Sched!InStep'
    BY DEF Sched!Exact
  <2>1. /\ ~sched_lost /\ ~sched_late /\ sched_pending = <<>> /\ sched_pending' = <<e>>
        /\ Sched!Seen' = Sched!Seen
    BY <1>2
  <2>2. /\ nr_context_switch_bugs = 0 /\ nr_unordered_timestamps = 0 /\ sched_status = "ok"
        /\ \A d \in SchedCpus : cpu_last_switched[d] <= Sched!Seen
        /\ \A t \in Tasks : Sched!Agree(t)
        /\ \A d \in SchedCpus : curr_pid[d] \in {"none", running[d]}
    BY <2>1 DEF Sched!SchedInv, Sched!Exact, Sched!InStep
  <2>3. sched_pending' # <<>> /\ sched_pending'[1] = e
    BY <2>1
  <2>4. \A t \in Tasks : Sched!AgreeAfter(t, e)'
    BY <2>1, <2>2
  <2> QED
    BY <1>1, <2>1, <2>2, <2>3, <2>4 DEF Sched!InStep
<1> QED
  BY <1>3, <1>4, <1>5, <1>6 DEF Sched!SchedInv

(* A wakeup: the tool is behind by its event. *)
LEMMA WakeupInv ==
  ASSUME Sched!SchedConstants, Sched!SchedInv, NEW c \in SchedCpus, NEW p \in Tasks,
         Sched!Wakeup(c, p)
  PROVE  Sched!SchedInv'
<1>1. PICK e : e = [type |-> "wakeup", cpu |-> c, pid |-> p, time |-> now]
  OBVIOUS
<1>2. /\ kstate' = [kstate EXCEPT ![p] = IF @ = "sleeping" THEN "runnable" ELSE @]
      /\ sched_since' = [sched_since EXCEPT ![p] = IF kstate'[p] = "runnable" /\ @ = Sched!Unseen
         THEN now ELSE @]
      /\ Sched!Emit(e) /\ now' = now /\ UNCHANGED Sched!tool
      /\ UNCHANGED <<running, true_lat, true_max, true_nr>>
  BY <1>1 DEF Sched!Wakeup
<1>3. /\ now \in Nat /\ sched_since \in [Tasks -> Int] /\ (\A t \in Tasks : sched_since[t] <= now)
      /\ kstate \in [Tasks -> {"running", "runnable", "sleeping"}]
  BY DEF Sched!SchedInv, Sched!TypeOK
<1>4. e \in Sched!Events /\ e.type = "wakeup" /\ e.time = now /\ e.pid = p
  BY <1>1, <1>3 DEF Sched!Events
<1>5. /\ \A t \in Tasks : t # p => kstate'[t] = kstate[t] /\ sched_since'[t] = sched_since[t]
      /\ kstate'[p] = IF kstate[p] = "sleeping" THEN "runnable" ELSE kstate[p]
      /\ sched_since'[p] = IF kstate'[p] = "runnable" /\ sched_since[p] = Sched!Unseen THEN now
         ELSE sched_since[p]
  BY <1>2, <1>3
<1>6. /\ kstate' \in [Tasks -> {"running", "runnable", "sleeping"}]
      /\ sched_since' \in [Tasks -> Int] /\ \A t \in Tasks : sched_since'[t] <= now
  <2>1. kstate' \in [Tasks -> {"running", "runnable", "sleeping"}]
    BY <1>2, <1>3
  <2>2. sched_since' \in [Tasks -> Int]
    BY <1>2, <1>3
  <2> QED
    BY <1>3, <1>5, <2>1, <2>2
<1>7. \A t \in Tasks : (kstate[t] = "running") = (kstate'[t] = "running")
  BY <1>5
<1>8. ASSUME NEW t \in Tasks, Sched!Agree(t) PROVE Sched!AgreeAfter(t, e)'
  <2>1. atoms' = atoms /\ UNCHANGED <<true_lat, true_max, true_nr>>
    BY <1>2 DEF Sched!tool
  <2>2. CASE t # p
    <3>1. kstate'[t] = kstate[t] /\ sched_since'[t] = sched_since[t]
      BY <1>5, <2>2
    <3>2. Sched!Agree(t)'
      BY <1>8, <2>1, <3>1 DEF Sched!Agree, Sched!Unseen
    <3> QED
      BY <1>4, <2>2, <3>2 DEF Sched!AgreeAfter
  <2>3. CASE t = p /\ atoms[t].state \in {"none", "SLEEPING"}
    <3>1. /\ \/ kstate'[t] = "running" /\ sched_since'[t] = Sched!Unseen
             \/ kstate'[t] = "runnable" /\ sched_since'[t] = now
          /\ atoms[t].total_lat = true_lat[t] /\ atoms[t].max_lat = true_max[t]
          /\ atoms[t].nb_atoms = true_nr[t]
      BY <1>3, <1>5, <1>8, <2>3 DEF Sched!Agree, Sched!Unseen
    <3> QED
      BY <1>4, <2>1, <2>3, <3>1 DEF Sched!AgreeAfter, Sched!Unseen
  <2>4. CASE t = p /\ atoms[t].state \notin {"none", "SLEEPING"}
    <3>1. kstate[t] \in {"running", "runnable"}
      BY <1>3, <1>8, <2>4 DEF Sched!Agree
    <3>2. kstate'[t] = kstate[t]
          /\ (kstate[t] = "runnable" => sched_since[t] = atoms[t].wake_up_time)
      BY <1>5, <1>8, <2>4, <3>1 DEF Sched!Agree
    <3>3. atoms[t].wake_up_time \in Nat
      BY DEF Sched!SchedInv, Sched!TypeOK, Sched!Threads, Sched!Atoms
    <3>4. sched_since'[t] = sched_since[t]
      BY <1>5, <2>4, <3>1, <3>2, <3>3 DEF Sched!Unseen
    <3>5. Sched!Agree(t)'
      BY <1>8, <2>1, <3>2, <3>4 DEF Sched!Agree, Sched!Unseen
    <3> QED
      BY <1>4, <2>1, <2>4, <3>5 DEF Sched!AgreeAfter
  <2> QED
    BY <2>2, <2>3, <2>4
<1> QED
  BY <1>2, <1>4, <1>6, <1>7, <1>8, TaskEvent

(* A sched_stat_runtime event changes no latency. *)
LEMMA SchedRuntimeInv ==
  ASSUME Sched!SchedConstants, Sched!SchedInv, NEW c \in SchedCpus, Sched!StatRuntime(c)
  PROVE  Sched!SchedInv'
<1>1. PICK p \in Sched!Threads : p = running[c]
  BY DEF Sched!SchedInv, Sched!TypeOK
<1>2. PICK e : e = [type |-> "runtime", cpu |-> c, pid |-> p, time |-> now]
  OBVIOUS
<1>3. /\ p # Sched!swapper /\ Sched!Emit(e) /\ now' = now /\ UNCHANGED Sched!tool
      /\ UNCHANGED <<running, true_lat, true_max, true_nr>> /\ kstate' = kstate
      /\ sched_since' = sched_since
  BY <1>1, <1>2 DEF Sched!StatRuntime
<1>4. p \in Tasks /\ kstate[p] = "running"
  BY <1>1, <1>3 DEF Sched!Threads, Sched!SchedInv, Sched!RunsOnce
<1>5. /\ now \in Nat /\ sched_since \in [Tasks -> Int] /\ (\A t \in Tasks : sched_since[t] <= now)
      /\ kstate \in [Tasks -> {"running", "runnable", "sleeping"}]
  BY DEF Sched!SchedInv, Sched!TypeOK
<1>6. e \in Sched!Events /\ e.type = "runtime" /\ e.time = now /\ e.pid = p
  BY <1>2, <1>4, <1>5 DEF Sched!Events
<1>7. ASSUME NEW t \in Tasks, Sched!Agree(t) PROVE Sched!AgreeAfter(t, e)'
  <2>1. Sched!Agree(t)'
    BY <1>3, <1>7 DEF Sched!Agree, Sched!Unseen, Sched!tool
  <2> QED
    BY <1>3, <1>4, <1>6, <2>1 DEF Sched!AgreeAfter
<1> QED
  BY <1>3, <1>5, <1>6, <1>7, TaskEvent

(* Time passes. *)
LEMMA TickInv ==
  ASSUME Sched!SchedConstants, Sched!SchedInv, Sched!Tick
  PROVE  Sched!SchedInv'
<1>1. /\ now \in Nat /\ now' = now + 1 /\ UNCHANGED Sched!tool
      /\ UNCHANGED <<kstate, running, sched_since, sched_pending>>
      /\ UNCHANGED <<true_lat, true_max, true_nr, sched_lost, sched_late>>
  BY DEF Sched!Tick, Sched!SchedInv, Sched!TypeOK
<1>2. /\ atoms' = atoms /\ curr_pid' = curr_pid /\ cpu_last_switched' = cpu_last_switched
      /\ nr_context_switch_bugs' = nr_context_switch_bugs /\ sched_status' = sched_status
      /\ nr_unordered_timestamps' = nr_unordered_timestamps
      /\ Sched!Threads' = Sched!Threads /\ Sched!Events' = Sched!Events
  BY <1>1 DEF Sched!tool, Sched!Threads, Sched!swapper, Sched!Events
<1>3. Sched!TypeOK'
  <2>1. /\ sched_pending \in Seq(Sched!Events)
           /\ \A k \in DOMAIN sched_pending : sched_pending[k].time <= now + 1
    <3>1. sched_pending \in Seq(Sched!Events)
          /\ \A k \in DOMAIN sched_pending : sched_pending[k].time <= now
      BY DEF Sched!SchedInv, Sched!TypeOK
    <3>2. \A k \in DOMAIN sched_pending : sched_pending[k].time \in Nat
      BY <3>1 DEF Sched!Events
    <3> QED
      BY <1>1, <3>1, <3>2
  <2>2. sched_since \in [Tasks -> Int] /\ \A t \in Tasks : sched_since[t] <= now + 1
    BY <1>1 DEF Sched!SchedInv, Sched!TypeOK
  <2>3. /\ atoms \in [Sched!Threads -> Sched!Atoms] /\ running \in [SchedCpus -> Sched!Threads]
        /\ kstate \in [Tasks -> {"running", "runnable", "sleeping"}]
        /\ true_lat \in [Tasks -> Nat] /\ true_max \in [Tasks -> Nat] /\ true_nr \in [Tasks -> Nat]
        /\ curr_pid \in [SchedCpus -> Sched!Threads \cup {"none"}]
        /\ cpu_last_switched \in [SchedCpus -> Nat]
        /\ sched_lost \in BOOLEAN /\ sched_late \in BOOLEAN
           /\ (~sched_late => Len(sched_pending) <= 1)
    BY DEF Sched!SchedInv, Sched!TypeOK
  <2>4. Sched!Atoms' = Sched!Atoms
    BY DEF Sched!Atoms
  <2> QED
    BY <1>1, <1>2, <2>1, <2>2, <2>3, <2>4 DEF Sched!TypeOK
<1>4. Sched!RunsOnce'
  BY <1>1 DEF Sched!SchedInv, Sched!RunsOnce, Sched!swapper
<1>5. Sched!Seen \in Nat /\ Sched!Seen' \in Nat /\ Sched!Seen <= Sched!Seen'
  <2>1. CASE sched_pending = <<>>
    BY <1>1, <2>1 DEF Sched!Seen
  <2>2. CASE sched_pending # <<>>
    <3>1. sched_pending \in Seq(Sched!Events)
      BY DEF Sched!SchedInv, Sched!TypeOK
    <3>2. sched_pending[1] \in Sched!Events
      BY <2>2, <3>1
    <3>3. sched_pending[1].time \in Nat
      BY <3>2 DEF Sched!Events
    <3> QED
      BY <1>1, <2>2, <3>3 DEF Sched!Seen
  <2> QED
    BY <2>1, <2>2
<1>6. Sched!WithinTime'
  <2> SUFFICES ASSUME NEW t \in Sched!Threads
               PROVE  LET a == atoms[t] IN
                 /\ a.max_lat <= a.total_lat /\ a.max_lat <= now'
                 /\ ~sched_late => /\ a.total_lat <= Sched!Seen'
                                   /\ a.sched_out_time <= Sched!Seen'
                                   /\ a.state = "WAIT_CPU" =>
                                        a.total_lat <= a.wake_up_time
                                        /\ a.wake_up_time <= Sched!Seen'
    BY <1>1, <1>2 DEF Sched!WithinTime, Sched!Fits
  <2>1. atoms[t] \in Sched!Atoms
    BY DEF Sched!SchedInv, Sched!TypeOK
  <2>2. /\ atoms[t].total_lat \in Nat /\ atoms[t].max_lat \in Nat /\ atoms[t].sched_out_time \in Nat
        /\ atoms[t].wake_up_time \in Nat
    BY <2>1 DEF Sched!Atoms
  <2>3. /\ atoms[t].max_lat <= atoms[t].total_lat /\ atoms[t].max_lat <= now
        /\ ~sched_late => /\ atoms[t].total_lat <= Sched!Seen
                          /\ atoms[t].sched_out_time <= Sched!Seen
                          /\ atoms[t].state = "WAIT_CPU" =>
                               atoms[t].total_lat <= atoms[t].wake_up_time
                               /\ atoms[t].wake_up_time <= Sched!Seen
    BY DEF Sched!SchedInv, Sched!WithinTime, Sched!Fits
  <2> QED
    BY <1>1, <1>5, <2>2, <2>3
<1>7. Sched!Exact'
  <2> SUFFICES ASSUME ~sched_lost, ~sched_late PROVE Sched!InStep'
    BY <1>1 DEF Sched!Exact
  <2>1. Sched!InStep
    BY DEF Sched!SchedInv, Sched!Exact
  <2>2. \A t \in Tasks : Sched!Agree(t) => Sched!Agree(t)'
    BY <1>1, <1>2 DEF Sched!Agree, Sched!Unseen
  <2>3. ASSUME NEW e, NEW t \in Tasks, Sched!AgreeAfter(t, e) PROVE Sched!AgreeAfter(t, e)'
    BY <1>1, <1>2, <2>2, <2>3 DEF Sched!AgreeAfter, Sched!Unseen, Sched!Known
  <2>4. \A d \in SchedCpus : cpu_last_switched[d] \in Nat /\ cpu_last_switched[d] <= Sched!Seen'
    BY <1>5, <2>1 DEF Sched!InStep, Sched!SchedInv, Sched!TypeOK
  <2>5. /\ nr_context_switch_bugs = 0 /\ nr_unordered_timestamps = 0 /\ sched_status = "ok"
    BY <2>1 DEF Sched!InStep
  <2>6. CASE sched_pending = <<>>
    BY <1>1, <1>2, <2>1, <2>2, <2>4, <2>5, <2>6 DEF Sched!InStep
  <2>7. CASE sched_pending # <<>>
    <3>1. PICK e : e = sched_pending[1]
      OBVIOUS
    <3>2. /\ e.type = "switch" => e.prev # e.next
          /\ \A t \in Tasks : Sched!AgreeAfter(t, e)
          /\ \A c \in SchedCpus : IF e.type = "switch" /\ c = e.cpu
                              THEN curr_pid[c] \in {"none", e.prev} /\ running[c] = e.next
                              ELSE curr_pid[c] \in {"none", running[c]}
      BY <2>1, <2>7, <3>1 DEF Sched!InStep
    <3>3. \A t \in Tasks : Sched!AgreeAfter(t, e)'
      BY <2>3, <3>2
    <3>4. sched_pending'[1] = e /\ sched_pending' # <<>>
      BY <1>1, <2>7, <3>1
    <3> QED
      BY <1>1, <1>2, <2>4, <2>5, <3>2, <3>3, <3>4 DEF Sched!InStep
  <2> QED
    BY <2>6, <2>7
<1> QED
  BY <1>3, <1>4, <1>6, <1>7 DEF Sched!SchedInv

(* The handlers keep what is known of the times of a task. *)
LEMMA OutFits ==
  ASSUME now \in Nat, NEW a \in Sched!Atoms, NEW r \in {"S", "R"}, NEW ts \in Nat, Sched!Fits(a, ts)
  PROVE  Sched!add_sched_out_event(a, r, ts) \in Sched!Atoms
         /\ Sched!Fits(Sched!add_sched_out_event(a, r, ts), ts)
<1>1. PICK b : b = Sched!add_sched_out_event(a, r, ts)
  OBVIOUS
<1>2. b \in Sched!Atoms
  BY <1>1 DEF Sched!add_sched_out_event, Sched!Atoms
<1>3. /\ b.total_lat = a.total_lat /\ b.max_lat = a.max_lat /\ b.sched_out_time = ts
      /\ b.state = "WAIT_CPU" => b.wake_up_time = ts
  BY <1>1 DEF Sched!add_sched_out_event, Sched!Atoms
<1>4. Sched!Fits(b, ts)
  BY <1>3 DEF Sched!Fits
<1> QED
  BY <1>1, <1>2, <1>4

(* A task switched in: add_sched_in_event() keeps its times. *)
LEMMA InFits ==
  ASSUME now \in Nat, NEW a \in Sched!Atoms, NEW ts \in Nat, ts <= now, Sched!Fits(a, ts)
  PROVE  Sched!add_sched_in_event(a, ts) \in Sched!Atoms
         /\ Sched!Fits(Sched!add_sched_in_event(a, ts), ts)
<1>1. PICK b : b = Sched!add_sched_in_event(a, ts)
  OBVIOUS
<1>2. CASE a.state # "WAIT_CPU"
  BY <1>1, <1>2 DEF Sched!add_sched_in_event
<1>3. CASE a.state = "WAIT_CPU" /\ ts < a.wake_up_time
  <2>1. b = [a EXCEPT !.state = "IGNORE"]
    BY <1>1, <1>3 DEF Sched!add_sched_in_event
  <2>2. /\ b \in Sched!Atoms /\ b.total_lat = a.total_lat /\ b.max_lat = a.max_lat
        /\ b.state = "IGNORE"
        /\ b.sched_out_time = a.sched_out_time
    BY <2>1 DEF Sched!Atoms
  <2> QED
    BY <1>1, <2>2 DEF Sched!Fits
<1>4. CASE a.state = "WAIT_CPU" /\ ~(ts < a.wake_up_time)
  <2>1. /\ a.wake_up_time \in Nat /\ a.total_lat \in Nat /\ a.max_lat \in Nat /\ a.nb_atoms \in Nat
        /\ a.sched_out_time \in Nat
    BY DEF Sched!Atoms
  <2>2. PICK d \in Nat : d = ts - a.wake_up_time
    BY <1>4, <2>1
  <2>3. b = [a EXCEPT !.state = "SCHED_IN", !.total_lat = @ + d,
                      !.max_lat = IF d > @ THEN d ELSE @, !.nb_atoms = @ + 1]
    BY <1>1, <1>4, <2>2 DEF Sched!add_sched_in_event
  <2>4. b \in Sched!Atoms
    <3>1. PICK m \in Nat, n \in Nat, l \in Nat :
            l = a.total_lat + d /\ m = (IF d > a.max_lat THEN d ELSE a.max_lat)
            /\ n = a.nb_atoms + 1
      BY <2>1
    <3>2. b = [a EXCEPT !.state = "SCHED_IN", !.total_lat = l, !.max_lat = m, !.nb_atoms = n]
      BY <2>3, <3>1 DEF Sched!Atoms
    <3> QED
      BY <3>2 DEF Sched!Atoms
  <2>5. /\ b.total_lat = a.total_lat + d /\ b.max_lat = (IF d > a.max_lat THEN d ELSE a.max_lat)
        /\ b.state = "SCHED_IN" /\ b.sched_out_time = a.sched_out_time
    BY <2>3 DEF Sched!Atoms
  <2>6. Sched!Fits(b, ts)
    BY <1>4, <2>1, <2>2, <2>5 DEF Sched!Fits
  <2> QED
    BY <1>1, <2>4, <2>6
<1> QED
  BY <1>2, <1>3, <1>4

(* What is known by the time of an event is known by a later one too. *)
LEMMA FitsLater ==
  ASSUME now \in Nat, NEW a \in Sched!Atoms, NEW x \in Nat, NEW y \in Nat, x <= y, Sched!Fits(a, x)
  PROVE  Sched!Fits(a, y)
<1>1. a.total_lat \in Nat /\ a.sched_out_time \in Nat /\ a.wake_up_time \in Nat
  BY DEF Sched!Atoms
<1> QED
  BY <1>1 DEF Sched!Fits

(* One atom is put in place of a task's. *)
LEMMA PutFits ==
  ASSUME NEW f \in [Sched!Threads -> Sched!Atoms], NEW ts,
         \A t \in Sched!Threads : Sched!Fits(f[t], ts),
         NEW p \in Sched!Threads, NEW b \in Sched!Atoms, Sched!Fits(b, ts)
  PROVE  /\ [f EXCEPT ![p] = b] \in [Sched!Threads -> Sched!Atoms]
         /\ \A t \in Sched!Threads : Sched!Fits([f EXCEPT ![p] = b][t], ts)
OBVIOUS

(* latency_switch_event() keeps the times of both tasks. *)
LEMMA SwitchFits ==
  ASSUME now \in Nat, atoms \in [Sched!Threads -> Sched!Atoms], NEW e, e.prev \in Sched!Threads,
         e.next \in Sched!Threads,
         e.state \in {"S", "R"}, e.time \in Nat, e.time <= now,
         \A t \in Sched!Threads : Sched!Fits(atoms[t], e.time)
  PROVE  /\ Sched!latency_switch_event(e) \in [Sched!Threads -> Sched!Atoms]
         /\ \A t \in Sched!Threads : Sched!Fits(Sched!latency_switch_event(e)[t], e.time)
<1>1. PICK o \in Sched!Atoms : o = Sched!add_sched_out_event(atoms[e.prev], e.state, e.time)
      /\ Sched!Fits(o, e.time)
  BY OutFits
<1>2. PICK out : out = [atoms EXCEPT ![e.prev] = o]
  OBVIOUS
<1>3. out \in [Sched!Threads -> Sched!Atoms] /\ \A t \in Sched!Threads : Sched!Fits(out[t], e.time)
  BY <1>1, <1>2, PutFits
<1>4. PICK n \in Sched!Atoms : n = Sched!add_sched_out_event(out[e.next], "R", e.time)
      /\ Sched!Fits(n, e.time)
  BY <1>3, OutFits
<1>5. PICK known : known = IF Sched!Known(out[e.next]) THEN out ELSE [out EXCEPT ![e.next] = n]
  OBVIOUS
<1>6. known \in [Sched!Threads -> Sched!Atoms]
      /\ \A t \in Sched!Threads : Sched!Fits(known[t], e.time)
  <2>1. CASE Sched!Known(out[e.next])
    BY <1>3, <1>5, <2>1
  <2>2. CASE ~Sched!Known(out[e.next])
    BY <1>3, <1>4, <1>5, <2>2, PutFits
  <2> QED
    BY <2>1, <2>2
<1>7. PICK m \in Sched!Atoms : m = Sched!add_sched_in_event(known[e.next], e.time)
      /\ Sched!Fits(m, e.time)
  BY <1>6, InFits
<1>8. Sched!latency_switch_event(e) = [known EXCEPT ![e.next] = m]
  BY <1>1, <1>2, <1>3, <1>4, <1>5, <1>6, <1>7 DEF Sched!latency_switch_event
<1> QED
  BY <1>6, <1>7, <1>8, PutFits

(* What a switch does to the atoms of two tasks. *)
LEMMA SwitchAtoms ==
  ASSUME atoms \in [Sched!Threads -> Sched!Atoms], NEW e, e.prev \in Sched!Threads,
         e.next \in Sched!Threads, e.prev # e.next
  PROVE  \A t \in Sched!Threads :
           Sched!latency_switch_event(e)[t] =
             IF t = e.prev THEN Sched!add_sched_out_event(atoms[t], e.state, e.time)
             ELSE IF t # e.next THEN atoms[t]
             ELSE Sched!add_sched_in_event(IF Sched!Known(atoms[t]) THEN atoms[t]
                                     ELSE Sched!add_sched_out_event(atoms[t], "R", e.time), e.time)
<1>1. PICK out : out = [atoms EXCEPT ![e.prev] = Sched!add_sched_out_event(@, e.state, e.time)]
  OBVIOUS
<1>2. /\ DOMAIN out = Sched!Threads
      /\ out[e.prev] = Sched!add_sched_out_event(atoms[e.prev], e.state, e.time)
      /\ \A t \in Sched!Threads : t # e.prev => out[t] = atoms[t]
  BY <1>1
<1>3. PICK known : known = IF Sched!Known(out[e.next]) THEN out
                           ELSE [out EXCEPT ![e.next] = Sched!add_sched_out_event(@, "R", e.time)]
  OBVIOUS
<1>4. /\ DOMAIN known = Sched!Threads /\ \A t \in Sched!Threads : t # e.next => known[t] = out[t]
      /\ known[e.next] = IF Sched!Known(atoms[e.next]) THEN atoms[e.next]
                         ELSE Sched!add_sched_out_event(atoms[e.next], "R", e.time)
  BY <1>2, <1>3
<1>5. Sched!latency_switch_event(e) = [known EXCEPT ![e.next] = Sched!add_sched_in_event(@, e.time)]
  BY <1>1, <1>3 DEF Sched!latency_switch_event
<1> QED
  BY <1>2, <1>4, <1>5

(* A step of the tool: the atoms fit the time of the event it has seen. *)
LEMMA DeliverInv ==
  ASSUME Sched!SchedConstants, Sched!SchedInv, NEW k \in 1 .. Len(sched_pending), Sched!Deliver(k)
  PROVE  Sched!SchedInv'
<1>1. PICK e : e = sched_pending[k]
  OBVIOUS
<1>2. /\ sched_status = "ok" /\ sched_pending' = Sched!RemoveAt(sched_pending, k)
      /\ UNCHANGED Sched!kernel
      /\ e.type = "switch" => Sched!process_sched_switch_event(e)
      /\ e.type = "wakeup" => Sched!latency_wakeup_event(e)
      /\ e.type = "runtime" => Sched!latency_runtime_event(e)
  BY <1>1 DEF Sched!Deliver
<1>3. /\ UNCHANGED <<kstate, running, sched_since, now, true_lat, true_max, true_nr, sched_lost,
         sched_late>>
      /\ Sched!Threads' = Sched!Threads /\ Sched!Events' = Sched!Events
      /\ Sched!Atoms' = Sched!Atoms
  BY <1>2 DEF Sched!kernel, Sched!Threads, Sched!swapper, Sched!Events, Sched!Atoms
<1>4. /\ now \in Nat /\ sched_pending \in Seq(Sched!Events)
         /\ \A j \in DOMAIN sched_pending : sched_pending[j].time <= now
      /\ running \in [SchedCpus -> Sched!Threads]
      /\ kstate \in [Tasks -> {"running", "runnable", "sleeping"}]
      /\ sched_since \in [Tasks -> Int] /\ \A t \in Tasks : sched_since[t] <= now
      /\ true_lat \in [Tasks -> Nat] /\ true_max \in [Tasks -> Nat] /\ true_nr \in [Tasks -> Nat]
      /\ atoms \in [Sched!Threads -> Sched!Atoms]
      /\ curr_pid \in [SchedCpus -> Sched!Threads \union {"none"}]
      /\ cpu_last_switched \in [SchedCpus -> Nat]
      /\ sched_lost \in BOOLEAN /\ sched_late \in BOOLEAN
         /\ (~sched_late => Len(sched_pending) <= 1)
  BY DEF Sched!SchedInv, Sched!TypeOK
<1>5. e \in Sched!Events /\ e.time <= now
  BY <1>1, <1>4
<1>6. /\ e.type \in {"switch", "wakeup", "runtime"} /\ e.time \in Nat /\ e.cpu \in SchedCpus
      /\ e.type = "switch" => e.prev \in Sched!Threads /\ e.next \in Sched!Threads
         /\ e.state \in {"S", "R"}
      /\ e.type # "switch" => e.pid \in Tasks /\ e.pid \in Sched!Threads
  BY <1>5 DEF Sched!Events, Sched!Threads
<1>7. /\ sched_pending' \in Seq(Sched!Events) /\ Len(sched_pending') = Len(sched_pending) - 1
      /\ \A j \in DOMAIN sched_pending' : sched_pending'[j].time <= now
      /\ ~sched_late => sched_pending' = <<>> /\ sched_pending # <<>> /\ e = sched_pending[1]
         /\ Sched!Seen = e.time /\ Sched!Seen' = now
  <2>1. /\ sched_pending' \in Seq(Sched!Events) /\ Len(sched_pending') = Len(sched_pending) - 1
        /\ \A j \in DOMAIN sched_pending' : \E i \in DOMAIN sched_pending : sched_pending'[j] = sched_pending[i]
        /\ Len(sched_pending) = 1 => sched_pending' = <<>>
    BY <1>2, <1>4, RemoveEvent
  <2>2. \A j \in DOMAIN sched_pending' : sched_pending'[j].time <= now
    BY <1>4, <2>1
  <2>3. Len(sched_pending) \in Nat
    BY <1>4
  <2>4. ASSUME ~sched_late PROVE Len(sched_pending) = 1 /\ k = 1
    <3>1. k \in Nat /\ 1 <= k /\ k <= Len(sched_pending) /\ Len(sched_pending) <= 1
      BY <1>4, <2>3, <2>4
    <3> QED
      BY <2>3, <3>1
  <2>5. ASSUME ~sched_late PROVE sched_pending # <<>> /\ e = sched_pending[1]
    BY <1>1, <2>4, <2>5
  <2> QED
    BY <1>3, <2>1, <2>2, <2>4, <2>5 DEF Sched!Seen
<1>8. ASSUME NEW t \in Sched!Threads PROVE atoms[t] \in Sched!Atoms /\ Sched!Fits(atoms[t], e.time)
  <2>1. Sched!Fits(atoms[t], Sched!Seen)
    BY DEF Sched!SchedInv, Sched!WithinTime
  <2> QED
    BY <1>4, <1>7, <2>1 DEF Sched!Fits
<1>9. atoms' \in [Sched!Threads -> Sched!Atoms]
      /\ \A t \in Sched!Threads : Sched!Fits(atoms'[t], e.time)
  <2>1. CASE e.type = "switch"
    <3>1. atoms' = atoms \/ atoms' = Sched!latency_switch_event(e)
      BY <1>2, <2>1 DEF Sched!process_sched_switch_event
    <3>2. /\ Sched!latency_switch_event(e) \in [Sched!Threads -> Sched!Atoms]
          /\ \A t \in Sched!Threads : Sched!Fits(Sched!latency_switch_event(e)[t], e.time)
      BY <1>4, <1>5, <1>6, <1>8, <2>1, SwitchFits
    <3> QED
      BY <1>4, <1>8, <3>1, <3>2
  <2>2. CASE e.type = "wakeup"
    <3>1. PICK o \in Sched!Atoms : o = Sched!add_sched_out_event(atoms[e.pid], "S", e.time)
          /\ Sched!Fits(o, e.time)
      BY <1>4, <1>6, <1>8, <2>2, OutFits
    <3>2. PICK a \in Sched!Atoms : a = (IF Sched!Known(atoms[e.pid]) THEN atoms[e.pid] ELSE o)
          /\ Sched!Fits(a, e.time)
      BY <1>6, <1>8, <2>2, <3>1
    <3>3. PICK w : w = [a EXCEPT !.state = "WAIT_CPU", !.wake_up_time = e.time]
      OBVIOUS
    <3>4. w \in Sched!Atoms /\ Sched!Fits(w, e.time)
      <4>1. /\ w \in Sched!Atoms /\ w.total_lat = a.total_lat /\ w.max_lat = a.max_lat
            /\ w.sched_out_time = a.sched_out_time /\ w.wake_up_time = e.time
        BY <1>6, <3>3 DEF Sched!Atoms
      <4> QED
        BY <1>6, <3>2, <4>1 DEF Sched!Fits
    <3>5. PICK b \in Sched!Atoms : b \in {a, w} /\ atoms' = [atoms EXCEPT ![e.pid] = b]
      BY <1>2, <2>2, <3>1, <3>2, <3>3, <3>4 DEF Sched!latency_wakeup_event
    <3>6. Sched!Fits(b, e.time)
      BY <3>2, <3>4, <3>5
    <3>7. \A t \in Sched!Threads : Sched!Fits(atoms[t], e.time)
      BY <1>8
    <3>8. PICK f \in [Sched!Threads -> Sched!Atoms] : f = atoms
      BY <1>4
    <3>9. /\ [f EXCEPT ![e.pid] = b] \in [Sched!Threads -> Sched!Atoms]
          /\ \A t \in Sched!Threads : Sched!Fits([f EXCEPT ![e.pid] = b][t], e.time)
      BY <1>6, <2>2, <3>6, <3>7, <3>8, PutFits
    <3> QED
      BY <3>5, <3>8, <3>9
  <2>3. CASE e.type = "runtime"
    <3>1. PICK o \in Sched!Atoms : o = Sched!add_sched_out_event(atoms[e.pid], "R", e.time)
          /\ Sched!Fits(o, e.time)
      BY <1>4, <1>6, <1>8, <2>3, OutFits
    <3>2. atoms' = atoms \/ atoms' = [atoms EXCEPT ![e.pid] = o]
      BY <1>2, <2>3, <3>1 DEF Sched!latency_runtime_event
    <3>3. \A t \in Sched!Threads : Sched!Fits(atoms[t], e.time)
      BY <1>8
    <3>4. PICK f \in [Sched!Threads -> Sched!Atoms] : f = atoms
      BY <1>4
    <3>5. /\ [f EXCEPT ![e.pid] = o] \in [Sched!Threads -> Sched!Atoms]
          /\ \A t \in Sched!Threads : Sched!Fits([f EXCEPT ![e.pid] = o][t], e.time)
      BY <1>6, <2>3, <3>1, <3>3, <3>4, PutFits
    <3> QED
      BY <1>4, <3>2, <3>3, <3>4, <3>5
  <2> QED
    BY <1>6, <2>1, <2>2, <2>3
<1>10. curr_pid' \in [SchedCpus -> Sched!Threads \union {"none"}]
       /\ cpu_last_switched' \in [SchedCpus -> Nat]
  <2>1. CASE e.type = "switch"
    BY <1>2, <1>4, <1>6, <2>1 DEF Sched!process_sched_switch_event
  <2>2. CASE e.type = "wakeup"
    BY <1>2, <1>4, <1>6, <2>2 DEF Sched!latency_wakeup_event
  <2>3. CASE e.type = "runtime"
    BY <1>2, <1>4, <1>6, <2>3 DEF Sched!latency_runtime_event
  <2> QED
    BY <1>6, <2>1, <2>2, <2>3
<1>11. Sched!TypeOK'
  BY <1>3, <1>4, <1>7, <1>9, <1>10 DEF Sched!TypeOK
<1>12. Sched!RunsOnce'
  BY <1>3 DEF Sched!SchedInv, Sched!RunsOnce, Sched!swapper
<1>13. Sched!WithinTime'
  <2> SUFFICES ASSUME NEW t \in Sched!Threads PROVE Sched!Fits(atoms[t], Sched!Seen)'
    BY <1>3 DEF Sched!WithinTime
  <2>1. PICK b \in Sched!Atoms : b = atoms'[t]
    BY <1>9
  <2>2. Sched!Fits(b, now)
    BY <1>4, <1>5, <1>6, <1>9, <2>1, FitsLater
  <2> QED
    BY <1>3, <1>7, <2>1, <2>2 DEF Sched!Fits
<1>14. Sched!Exact'
  <2> SUFFICES ASSUME ~sched_lost, ~sched_late PROVE Sched!InStep'
    BY <1>3 DEF Sched!Exact
  <2>1. sched_pending' = <<>> /\ sched_pending # <<>> /\ e = sched_pending[1]
        /\ Sched!Seen = e.time /\ Sched!Seen' = now
    BY <1>7
  <2>2. /\ nr_context_switch_bugs = 0 /\ nr_unordered_timestamps = 0 /\ sched_status = "ok"
        /\ \A c \in SchedCpus : cpu_last_switched[c] <= e.time
        /\ e.type = "switch" => e.prev # e.next
        /\ \A t \in Tasks : Sched!AgreeAfter(t, e)
        /\ \A c \in SchedCpus : IF e.type = "switch" /\ c = e.cpu
                            THEN curr_pid[c] \in {"none", e.prev} /\ running[c] = e.next
                            ELSE curr_pid[c] \in {"none", running[c]}
    BY <2>1 DEF Sched!SchedInv, Sched!Exact, Sched!InStep
  <2>3. \A t \in Tasks : t \in Sched!Threads
    BY DEF Sched!Threads
  <2>4. CASE e.type = "switch"
    <3>1. ~(cpu_last_switched[e.cpu] # 0 /\ e.time < cpu_last_switched[e.cpu])
      BY <1>4, <1>6, <2>2
    <3>2. /\ nr_context_switch_bugs' = 0 /\ nr_unordered_timestamps' = 0 /\ sched_status' = "ok"
          /\ cpu_last_switched' = [cpu_last_switched EXCEPT ![e.cpu] = e.time]
          /\ curr_pid' = [curr_pid EXCEPT ![e.cpu] = e.next]
          /\ atoms' = Sched!latency_switch_event(e)
      BY <1>2, <1>6, <2>2, <2>4, <3>1 DEF Sched!process_sched_switch_event
    <3>3. \A c \in SchedCpus : cpu_last_switched'[c] <= now /\ curr_pid'[c] \in {"none", running[c]}
      BY <1>4, <1>5, <1>6, <2>2, <2>4, <3>2
    <3>4. ASSUME NEW t \in Tasks PROVE Sched!Agree(t)'
      <4>1. PICK a \in Sched!Atoms : a = atoms[t]
        BY <1>4, <2>3
      <4>2. PICK b : b = atoms'[t]
        OBVIOUS
      <4>3. b = IF t = e.prev THEN Sched!add_sched_out_event(a, e.state, e.time)
                ELSE IF t # e.next THEN a
                ELSE Sched!add_sched_in_event(IF Sched!Known(a) THEN a
                                        ELSE Sched!add_sched_out_event(a, "R", e.time), e.time)
        <5>1. \A u \in Sched!Threads :
                Sched!latency_switch_event(e)[u] =
                  IF u = e.prev THEN Sched!add_sched_out_event(atoms[u], e.state, e.time)
                  ELSE IF u # e.next THEN atoms[u]
                  ELSE Sched!add_sched_in_event(IF Sched!Known(atoms[u]) THEN atoms[u]
                                          ELSE Sched!add_sched_out_event(atoms[u], "R", e.time),
                                          e.time)
          BY <1>4, <1>6, <2>2, <2>4, SwitchAtoms
        <5> QED
          BY <2>3, <3>2, <4>1, <4>2, <5>1
      <4>4. Sched!AgreeAfter(t, e)
        BY <2>2
      <4>5. CASE t = e.prev
        <5>1. /\ a.total_lat = true_lat[t] /\ a.max_lat = true_max[t] /\ a.nb_atoms = true_nr[t]
              /\ IF e.state = "R" THEN kstate[t] = "runnable" /\ sched_since[t] = e.time
                 ELSE kstate[t] = "sleeping" /\ sched_since[t] = Sched!Unseen
          BY <2>4, <4>1, <4>4, <4>5 DEF Sched!AgreeAfter
        <5>2. /\ b.total_lat = a.total_lat /\ b.max_lat = a.max_lat /\ b.nb_atoms = a.nb_atoms
              /\ IF e.state = "R" THEN b.state = "WAIT_CPU" /\ b.wake_up_time = e.time
                 ELSE b.state = "SLEEPING"
          BY <4>3, <4>5 DEF Sched!add_sched_out_event, Sched!Atoms
        <5> QED
          BY <1>3, <4>2, <5>1, <5>2 DEF Sched!Agree, Sched!Unseen
      <4>6. CASE t # e.prev /\ t = e.next
        <5>1. PICK l : l = IF Sched!Known(a) THEN e.time - a.wake_up_time ELSE 0
          OBVIOUS
        <5>2. /\ kstate[t] = "running" /\ sched_since[t] = Sched!Unseen
              /\ a.state \in {"none", "WAIT_CPU"}
              /\ true_lat[t] = a.total_lat + l /\ true_nr[t] = a.nb_atoms + 1
              /\ true_max[t] = IF l > a.max_lat THEN l ELSE a.max_lat
          BY <2>4, <4>1, <4>4, <4>6, <5>1 DEF Sched!AgreeAfter
        <5>3. b.total_lat = true_lat[t] /\ b.max_lat = true_max[t] /\ b.nb_atoms = true_nr[t]
          <6>1. CASE a.state = "none"
            <7>1. PICK o : o = Sched!add_sched_out_event(a, "R", e.time)
              OBVIOUS
            <7>2. /\ o \in Sched!Atoms /\ o.state = "WAIT_CPU" /\ o.wake_up_time = e.time
                  /\ o.total_lat = a.total_lat /\ o.max_lat = a.max_lat /\ o.nb_atoms = a.nb_atoms
              BY <1>6, <7>1 DEF Sched!add_sched_out_event, Sched!Atoms
            <7>3. b = Sched!add_sched_in_event(o, e.time)
              BY <4>3, <4>6, <6>1, <7>1 DEF Sched!Known
            <7>4. b = [o EXCEPT !.state = "SCHED_IN", !.total_lat = @ + 0,
                               !.max_lat = IF 0 > @ THEN 0 ELSE @, !.nb_atoms = @ + 1]
              <8>1. e.time - o.wake_up_time = 0 /\ ~(e.time < o.wake_up_time)
                BY <1>6, <7>2
              <8> QED
                BY <7>2, <7>3, <8>1 DEF Sched!add_sched_in_event
            <7>5. /\ b.total_lat = o.total_lat + 0 /\ b.nb_atoms = o.nb_atoms + 1
                  /\ b.max_lat = IF 0 > o.max_lat THEN 0 ELSE o.max_lat
              BY <7>2, <7>4 DEF Sched!Atoms
            <7> QED
              BY <5>1, <5>2, <6>1, <7>2, <7>5 DEF Sched!Known
          <6>2. CASE a.state = "WAIT_CPU"
            <7>1. a.wake_up_time \in Nat /\ a.wake_up_time <= e.time
              BY <1>8, <2>3, <4>1, <6>2 DEF Sched!Fits, Sched!Atoms
            <7>2. b = [a EXCEPT !.state = "SCHED_IN", !.total_lat = @ + l,
                               !.max_lat = IF l > @ THEN l ELSE @, !.nb_atoms = @ + 1]
              <8>1. ~(e.time < a.wake_up_time) /\ Sched!Known(a)
                BY <1>6, <6>2, <7>1 DEF Sched!Known
              <8> QED
                BY <4>3, <4>6, <5>1, <6>2, <8>1 DEF Sched!add_sched_in_event
            <7>3. /\ b.total_lat = a.total_lat + l /\ b.nb_atoms = a.nb_atoms + 1
                  /\ b.max_lat = IF l > a.max_lat THEN l ELSE a.max_lat
              BY <7>2 DEF Sched!Atoms
            <7> QED
              BY <5>2, <7>3
          <6> QED
            BY <5>2, <6>1, <6>2
        <5> QED
          BY <1>3, <4>2, <5>2, <5>3 DEF Sched!Agree, Sched!Unseen
      <4>7. CASE t # e.prev /\ t # e.next
        <5>1. Sched!Agree(t)
          BY <2>4, <4>4, <4>7 DEF Sched!AgreeAfter
        <5>2. atoms'[t] = atoms[t]
          BY <4>1, <4>2, <4>3, <4>7
        <5> QED
          BY <1>3, <5>1, <5>2 DEF Sched!Agree, Sched!Unseen
      <4> QED
        BY <4>5, <4>6, <4>7
    <3> QED
      BY <1>3, <2>1, <3>2, <3>3, <3>4 DEF Sched!InStep
  <2>50. ASSUME e.type # "switch", nr_context_switch_bugs' = 0, nr_unordered_timestamps' = 0,
                sched_status' = "ok", UNCHANGED <<cpu_last_switched, curr_pid>>,
                \A t \in Tasks : Sched!Agree(t)'
         PROVE  Sched!InStep'
    <3>1. \A c \in SchedCpus : cpu_last_switched'[c] <= now /\ curr_pid'[c] \in {"none", running[c]}
      BY <1>4, <1>5, <1>6, <2>2, <2>50
    <3> QED
      BY <1>3, <2>1, <2>50, <3>1 DEF Sched!InStep
  <2>5. CASE e.type = "wakeup"
    <3>1. PICK a \in Sched!Atoms : a = atoms[e.pid] /\ Sched!Fits(a, e.time)
      BY <1>6, <1>8, <2>5
    <3>2. PICK o : o = IF Sched!Known(a) THEN a ELSE Sched!add_sched_out_event(a, "S", e.time)
      OBVIOUS
    <3>3. /\ o \in Sched!Atoms /\ o.total_lat = a.total_lat /\ o.max_lat = a.max_lat
          /\ o.nb_atoms = a.nb_atoms
          /\ o.sched_out_time <= e.time
          /\ IF a.state \in {"none", "SLEEPING"} THEN o.state = "SLEEPING"
             ELSE o = a /\ o.state # "SLEEPING"
      <4>1. CASE Sched!Known(a)
        BY <3>1, <3>2, <4>1 DEF Sched!Known, Sched!Fits
      <4>2. CASE ~Sched!Known(a)
        <5>1. o = [a EXCEPT !.state = "SLEEPING", !.sched_out_time = e.time, !.wake_up_time = 0]
          BY <3>2, <4>2 DEF Sched!add_sched_out_event
        <5>2. /\ o \in Sched!Atoms /\ o.total_lat = a.total_lat /\ o.max_lat = a.max_lat
              /\ o.nb_atoms = a.nb_atoms /\ o.sched_out_time = e.time /\ o.state = "SLEEPING"
          BY <1>6, <5>1 DEF Sched!Atoms
        <5>3. a.state = "none"
          BY <4>2 DEF Sched!Known
        <5> QED
          BY <1>6, <5>2, <5>3
      <4> QED
        BY <4>1, <4>2
    <3>4. o.sched_out_time \in Nat /\ ~(o.sched_out_time > e.time)
      BY <1>6, <3>3 DEF Sched!Atoms
    <3>5. /\ atoms' = [atoms EXCEPT ![e.pid] = IF o.state # "SLEEPING" THEN o
                         ELSE [o EXCEPT !.state = "WAIT_CPU", !.wake_up_time = e.time]]
          /\ nr_unordered_timestamps' = nr_unordered_timestamps + 0
          /\ UNCHANGED <<cpu_last_switched, curr_pid, nr_context_switch_bugs, sched_status>>
      BY <1>2, <2>5, <3>1, <3>2, <3>4 DEF Sched!latency_wakeup_event, Sched!WakeupCounts
    <3>6. ASSUME NEW t \in Tasks PROVE Sched!Agree(t)'
      <4>1. Sched!AgreeAfter(t, e)
        BY <2>2
      <4>2. CASE t # e.pid
        <5>1. Sched!Agree(t) /\ atoms'[t] = atoms[t]
          BY <1>4, <1>6, <2>3, <2>5, <3>5, <4>1, <4>2 DEF Sched!AgreeAfter
        <5> QED
          BY <1>3, <5>1 DEF Sched!Agree, Sched!Unseen
      <4>3. CASE t = e.pid /\ a.state \in {"none", "SLEEPING"}
        <5>1. /\ \/ kstate[t] = "running" /\ sched_since[t] = Sched!Unseen
                 \/ kstate[t] = "runnable" /\ sched_since[t] = e.time
              /\ a.total_lat = true_lat[t] /\ a.max_lat = true_max[t] /\ a.nb_atoms = true_nr[t]
          BY <2>5, <3>1, <4>1, <4>3 DEF Sched!AgreeAfter
        <5>2. PICK b : b = [o EXCEPT !.state = "WAIT_CPU", !.wake_up_time = e.time]
          OBVIOUS
        <5>3. atoms'[t] = b
          BY <1>4, <1>6, <2>5, <3>3, <3>5, <4>3, <5>2
        <5>4. /\ b.total_lat = a.total_lat /\ b.max_lat = a.max_lat /\ b.nb_atoms = a.nb_atoms
              /\ b.state = "WAIT_CPU" /\ b.wake_up_time = e.time
          BY <3>3, <5>2 DEF Sched!Atoms
        <5> QED
          BY <1>3, <5>1, <5>3, <5>4 DEF Sched!Agree, Sched!Unseen
      <4>4. CASE t = e.pid /\ a.state \notin {"none", "SLEEPING"}
        <5>1. Sched!Agree(t)
          BY <2>5, <3>1, <4>1, <4>4 DEF Sched!AgreeAfter
        <5>2. atoms'[t] = atoms[t]
          BY <1>4, <1>6, <2>5, <3>1, <3>3, <3>5, <4>4
        <5> QED
          BY <1>3, <5>1, <5>2 DEF Sched!Agree, Sched!Unseen
      <4> QED
        BY <4>2, <4>3, <4>4
    <3> QED
      BY <2>2, <2>5, <2>50, <3>5, <3>6
  <2>6. CASE e.type = "runtime"
    <3>1. PICK a \in Sched!Atoms : a = atoms[e.pid]
      BY <1>6, <1>8, <2>6
    <3>2. PICK o : o = Sched!add_sched_out_event(a, "R", e.time)
      OBVIOUS
    <3>3. o.total_lat = a.total_lat /\ o.max_lat = a.max_lat /\ o.nb_atoms = a.nb_atoms
      BY <3>2 DEF Sched!add_sched_out_event, Sched!Atoms
    <3>4. /\ atoms' = atoms \/ atoms' = [atoms EXCEPT ![e.pid] = o]
          /\ UNCHANGED <<cpu_last_switched, curr_pid, nr_context_switch_bugs,
                         nr_unordered_timestamps, sched_status>>
      BY <1>2, <2>6, <3>1, <3>2 DEF Sched!latency_runtime_event
    <3>5. ASSUME NEW t \in Tasks PROVE Sched!Agree(t)'
      <4>1. Sched!Agree(t) /\ (t = e.pid => kstate[t] = "running")
        BY <2>2, <2>6 DEF Sched!AgreeAfter
      <4>2. CASE atoms'[t] = atoms[t]
        BY <1>3, <4>1, <4>2 DEF Sched!Agree, Sched!Unseen
      <4>3. CASE t = e.pid /\ atoms'[t] = o
        BY <1>3, <3>1, <3>3, <4>1, <4>3 DEF Sched!Agree, Sched!Unseen
      <4>4. atoms'[t] = atoms[t] \/ (t = e.pid /\ atoms'[t] = o)
        BY <1>4, <1>6, <2>3, <2>6, <3>4
      <4> QED
        BY <4>2, <4>3, <4>4
    <3> QED
      BY <2>2, <2>6, <2>50, <3>4, <3>5
  <2> QED
    BY <1>6, <2>4, <2>5, <2>6
<1> QED
  BY <1>11, <1>12, <1>13, <1>14 DEF Sched!SchedInv

(* The first state. *)
LEMMA SchedInitInv ==
  ASSUME Sched!SchedConstants, Sched!Init
  PROVE  Sched!SchedInv
<1>1. /\ Sched!NoAtoms \in Sched!Atoms /\ Sched!NoAtoms.state = "none"
      /\ Sched!NoAtoms.total_lat = 0 /\ Sched!NoAtoms.max_lat = 0
      /\ Sched!NoAtoms.nb_atoms = 0 /\ Sched!NoAtoms.sched_out_time = 0
  BY DEF Sched!NoAtoms, Sched!Atoms
<1>2. /\ running \in [SchedCpus -> Sched!Threads]
      /\ kstate \in [Tasks -> {"running", "runnable", "sleeping"}]
      /\ sched_since = [t \in Tasks |-> Sched!Unseen] /\ now = 1 /\ sched_pending = <<>>
      /\ atoms = [t \in Sched!Threads |-> Sched!NoAtoms]
      /\ cpu_last_switched = [c \in SchedCpus |-> 0] /\ curr_pid = [c \in SchedCpus |-> "none"]
      /\ nr_context_switch_bugs = 0 /\ nr_unordered_timestamps = 0 /\ sched_status = "ok"
      /\ true_lat = [t \in Tasks |-> 0] /\ true_max = [t \in Tasks |-> 0]
      /\ true_nr = [t \in Tasks |-> 0] /\ sched_lost = FALSE /\ sched_late = FALSE
  BY DEF Sched!Init
<1>3. Sched!TypeOK
  <2>1. atoms \in [Sched!Threads -> Sched!Atoms] /\ sched_pending \in Seq(Sched!Events)
        /\ DOMAIN sched_pending = {} /\ Len(sched_pending) = 0
    BY <1>1, <1>2
  <2>2. /\ sched_since \in [Tasks -> Int] /\ \A t \in Tasks : sched_since[t] <= 1
        /\ true_lat \in [Tasks -> Nat] /\ true_max \in [Tasks -> Nat] /\ true_nr \in [Tasks -> Nat]
    BY <1>2 DEF Sched!Unseen
  <2>3. cpu_last_switched \in [SchedCpus -> Nat]
        /\ curr_pid \in [SchedCpus -> Sched!Threads \union {"none"}]
    BY <1>2
  <2>4. now \in Nat /\ (\A k \in DOMAIN sched_pending : sched_pending[k].time <= now)
        /\ Len(sched_pending) <= 1
    BY <1>2, <2>1
  <2>5. \A t \in Tasks : sched_since[t] <= now
    BY <1>2, <2>2
  <2> QED
    BY <1>2, <2>1, <2>2, <2>3, <2>4, <2>5, Zenon DEF Sched!TypeOK
<1>4. Sched!RunsOnce
  BY DEF Sched!Init, Sched!RunsOnce, Sched!Threads
<1>5. Sched!Seen = 1
  BY <1>2 DEF Sched!Seen
<1>6. \A t \in Sched!Threads : atoms[t] = Sched!NoAtoms
  BY <1>2
<1>7. Sched!WithinTime
  BY <1>1, <1>2, <1>5, <1>6 DEF Sched!WithinTime, Sched!Fits
<1>8. \A t \in Tasks : Sched!Agree(t)
  BY <1>1, <1>2, <1>6 DEF Sched!Agree, Sched!Threads
<1>9. Sched!Exact
  BY <1>2, <1>5, <1>8 DEF Sched!Exact, Sched!InStep
<1> QED
  BY <1>3, <1>4, <1>7, <1>9 DEF Sched!SchedInv

(* Every step. *)
LEMMA SchedNextInv ==
  ASSUME Sched!SchedConstants, Sched!SchedInv, [Sched!Next]_Sched!vars
  PROVE  Sched!SchedInv'
<1>1. CASE UNCHANGED Sched!vars
  <2>1. /\ UNCHANGED <<kstate, running, sched_since, now, true_lat, true_max, true_nr, sched_lost,
           sched_late, sched_pending>>
        /\ UNCHANGED <<atoms, cpu_last_switched, curr_pid, nr_context_switch_bugs,
                       nr_unordered_timestamps, sched_status>>
        /\ Sched!Threads' = Sched!Threads /\ Sched!Events' = Sched!Events
        /\ Sched!Atoms' = Sched!Atoms
    BY <1>1 DEF Sched!vars, Sched!kernel, Sched!tool, Sched!Threads, Sched!Events, Sched!Atoms,
       Sched!swapper
  <2>2. Sched!TypeOK' /\ Sched!RunsOnce'
    BY <2>1 DEF Sched!SchedInv, Sched!TypeOK, Sched!RunsOnce, Sched!swapper
  <2>3. Sched!Seen' = Sched!Seen
    BY <2>1 DEF Sched!Seen
  <2>4. Sched!WithinTime'
    BY <2>1, <2>3 DEF Sched!SchedInv, Sched!WithinTime, Sched!Fits
  <2>5. \A t \in Tasks : Sched!Agree(t)' = Sched!Agree(t)
    BY <2>1 DEF Sched!Agree, Sched!Unseen
  <2>6. ASSUME NEW e, NEW t \in Tasks, Sched!AgreeAfter(t, e) PROVE Sched!AgreeAfter(t, e)'
    BY <2>1, <2>5, <2>6 DEF Sched!AgreeAfter, Sched!Unseen, Sched!Known
  <2>7. ASSUME Sched!InStep PROVE Sched!InStep'
    <3>1. CASE sched_pending = <<>>
      BY <2>1, <2>3, <2>5, <2>7, <3>1 DEF Sched!InStep
    <3>2. CASE sched_pending # <<>>
      <4>1. PICK e : e = sched_pending[1]
        OBVIOUS
      <4>2. /\ e.type = "switch" => e.prev # e.next
            /\ \A t \in Tasks : Sched!AgreeAfter(t, e)
            /\ \A c \in SchedCpus : IF e.type = "switch" /\ c = e.cpu
                                THEN curr_pid[c] \in {"none", e.prev} /\ running[c] = e.next
                                ELSE curr_pid[c] \in {"none", running[c]}
        BY <2>7, <3>2, <4>1 DEF Sched!InStep
      <4>3. sched_pending'[1] = e /\ sched_pending' # <<>>
            /\ \A t \in Tasks : Sched!AgreeAfter(t, e)'
        BY <2>1, <2>6, <3>2, <4>1, <4>2
      <4> QED
        BY <2>1, <2>3, <2>7, <4>2, <4>3 DEF Sched!InStep
    <3> QED
      BY <3>1, <3>2
  <2> QED
    BY <2>1, <2>2, <2>4, <2>7 DEF Sched!SchedInv, Sched!Exact
<1>2. CASE Sched!Next
  <2>1. ASSUME NEW c \in SchedCpus, NEW n \in Sched!Threads, NEW s \in BOOLEAN,
               Sched!Switch(c, n, s) PROVE Sched!SchedInv'
    BY <2>1, SwitchInv
  <2>2. ASSUME NEW c \in SchedCpus, NEW t \in Tasks, Sched!Wakeup(c, t) PROVE Sched!SchedInv'
    BY <2>2, WakeupInv
  <2>3. ASSUME NEW c \in SchedCpus, Sched!StatRuntime(c) PROVE Sched!SchedInv'
    BY <2>3, SchedRuntimeInv
  <2>4. CASE Sched!Tick
    BY <2>4, TickInv
  <2>5. ASSUME NEW k \in 1 .. Len(sched_pending), Sched!Deliver(k) PROVE Sched!SchedInv'
    BY <2>5, DeliverInv
  <2> QED
    BY <1>2, <2>1, <2>2, <2>3, <2>4, <2>5 DEF Sched!Next
<1> QED
  BY <1>1, <1>2

(* The properties follow. *)
LEMMA SchedInvHolds ==
  ASSUME Sched!SchedInv
  PROVE  Sched!LatencyIsTrue /\ Sched!NoSwitchBugs /\ Sched!LatencyWithinTime
<1>1. Sched!LatencyIsTrue
  BY DEF Sched!SchedInv, Sched!Exact, Sched!InStep, Sched!Agree, Sched!LatencyIsTrue
<1>2. Sched!NoSwitchBugs
  BY DEF Sched!SchedInv, Sched!Exact, Sched!InStep, Sched!NoSwitchBugs
<1>3. Sched!LatencyWithinTime
  <2> SUFFICES ASSUME NEW t \in Tasks
               PROVE  /\ 0 <= atoms[t].max_lat /\ atoms[t].max_lat <= atoms[t].total_lat
                      /\ atoms[t].max_lat <= now /\ (~sched_late => atoms[t].total_lat <= now)
    BY DEF Sched!LatencyWithinTime
  <2>1. /\ now \in Nat /\ sched_pending \in Seq(Sched!Events) /\ atoms[t] \in Sched!Atoms
        /\ \A k \in DOMAIN sched_pending : sched_pending[k].time <= now
    BY DEF Sched!SchedInv, Sched!TypeOK, Sched!Threads
  <2>2. Sched!Fits(atoms[t], Sched!Seen)
    BY DEF Sched!SchedInv, Sched!WithinTime, Sched!Threads
  <2>3. atoms[t].max_lat \in Nat /\ atoms[t].total_lat \in Nat
    BY <2>1 DEF Sched!Atoms
  <2>4. Sched!Seen \in Nat /\ Sched!Seen <= now
    <3>1. CASE sched_pending = <<>>
      BY <2>1, <3>1 DEF Sched!Seen
    <3>2. CASE sched_pending # <<>>
      <4>1. sched_pending[1] \in Sched!Events /\ sched_pending[1].time <= now
        BY <2>1, <3>2
      <4>2. sched_pending[1].time \in Nat
        BY <4>1 DEF Sched!Events
      <4> QED
        BY <3>2, <4>1, <4>2 DEF Sched!Seen
    <3> QED
      BY <3>1, <3>2
  <2> QED
    BY <2>1, <2>2, <2>3, <2>4 DEF Sched!Fits
<1> QED
  BY <1>1, <1>2, <1>3

(* perf sched latency, for any tasks and CPUs and any number of events:    *)
(* from all events, handled in order, process_sched_switch_event() and its *)
(* like compute the latencies that the scheduler gave every task; from     *)
(* what was lost or late never one longer than the time recorded.          *)
THEOREM SchedLatencies == Sched!Spec => []LatenciesAreReal
<1>1. Sched!Init => Sched!SchedInv
  BY SchedInitInv, ReportsAssumption
<1>2. Sched!SchedInv /\ [Sched!Next]_Sched!vars => Sched!SchedInv'
  BY SchedNextInv, ReportsAssumption
<1>3. Sched!SchedInv => LatenciesAreReal
  BY SchedInvHolds DEF Sched!SchedInv, LatenciesAreReal
<1> QED
  BY <1>1, <1>2, <1>3, PTL DEF Sched!Spec

-----------------------------------------------------------------------------
(* perf lock *)

(* A function changed at a point to what it is there. *)
LEMMA SameFunction ==
  ASSUME NEW S, NEW T, NEW f \in [S -> T], NEW x \in S
  PROVE  f = [f EXCEPT ![x] = f[x]]
OBVIOUS

(* The average is a natural number. *)
LEMMA AvgType ==
  ASSUME NEW st \in Lock!Stats
  PROVE  Lock!Avg(st) \in Nat
<1>1. st.total \in Nat /\ st.nr_contended \in Nat
  BY DEF Lock!Stats
<1> QED
  BY <1>1 DEF Lock!Avg

(* What a step may change: a thread and lock, and what is kept of the lock. *)
Moves(p, l, m, g, ph, as, si) ==
  /\ lock_time' = lock_time + 1 /\ lock_lost' \in Nat /\ lock_lost' >= lock_lost
  /\ missed' = [missed EXCEPT ![p] = m]
  /\ gap' = [gap EXCEPT ![l] = g] /\ (gap[l] => g)
  /\ lock_phase' = [lock_phase EXCEPT ![p] = ph] /\ asked' = [asked EXCEPT ![p] = as]
  /\ lock_since' = [lock_since EXCEPT ![p] = si] /\ si <= lock_time
  /\ DOMAIN waits' = LockNames /\ waited' \in [LockNames -> Nat] /\ taken' \in [LockNames -> Nat]
  /\ \A k \in LockNames \ {l} : waits'[k] = waits[k] /\ waited'[k] = waited[k]
     /\ taken'[k] = taken[k]
  /\ \A w \in waits'[l] : Lock!WaitOf(w) \in Nat

(* A step of one thread with one lock, and what has to be shown of it. *)
LEMMA OneStep ==
  ASSUME Lock!LockInv, NEW p \in Lock!Pairs, NEW l \in LockNames, l = p[2],
         NEW s \in Lock!Seqs, NEW st \in Lock!Stats, lock_seq' = [lock_seq EXCEPT ![p] = s],
         ls' = [ls EXCEPT ![l] = st],
         s.prev <= lock_time, NEW m \in Nat, NEW g \in BOOLEAN, NEW ph \in Lock!Phases,
         NEW as \in BOOLEAN,
         NEW si \in Nat, Moves(p, l, m, g, ph, as, si), ls[l].discard => st.discard,
         st.nr_readlock >= ls[l].nr_readlock, st.nr_trylock >= ls[l].nr_trylock,
         Lock!SeqFits(p)', Lock!InStep(p)', Lock!StatFits(l)'
  PROVE  Lock!LockInv'
<1> USE DEF Moves
<1>1. /\ lock_time \in Nat /\ lock_time > 0 /\ lock_lost \in Nat
      /\ lock_seq \in [Lock!Pairs -> Lock!Seqs]
         /\ (\A q \in Lock!Pairs : lock_seq[q].prev < lock_time)
      /\ ls \in [LockNames -> Lock!Stats]
      /\ lock_phase \in [Lock!Pairs -> Lock!Phases] /\ asked \in [Lock!Pairs -> BOOLEAN]
      /\ missed \in [Lock!Pairs -> Nat]
      /\ lock_since \in [Lock!Pairs -> Nat] /\ (\A q \in Lock!Pairs : lock_since[q] < lock_time)
      /\ gap \in [LockNames -> BOOLEAN]
      /\ \A k \in LockNames : \A w \in waits[k] : Lock!WaitOf(w) \in Nat
  BY DEF Lock!LockInv, Lock!TypeOK
<1>2. Lock!Pairs' = Lock!Pairs /\ Lock!Seqs' = Lock!Seqs /\ Lock!Stats' = Lock!Stats
      /\ Lock!Phases' = Lock!Phases
  BY DEF Lock!Pairs, Lock!Seqs, Lock!Stats, Lock!Phases, Lock!States
<1>3. \A q \in Lock!Pairs : q[2] \in LockNames
  BY DEF Lock!Pairs
<1>4. /\ lock_seq' \in [Lock!Pairs -> Lock!Seqs] /\ ls' \in [LockNames -> Lock!Stats]
      /\ lock_phase' \in [Lock!Pairs -> Lock!Phases] /\ asked' \in [Lock!Pairs -> BOOLEAN]
      /\ missed' \in [Lock!Pairs -> Nat]
      /\ lock_since' \in [Lock!Pairs -> Nat] /\ gap' \in [LockNames -> BOOLEAN]
  <2>1. lock_seq' \in [Lock!Pairs -> Lock!Seqs] /\ ls' \in [LockNames -> Lock!Stats]
    BY <1>1
  <2>2. lock_phase' \in [Lock!Pairs -> Lock!Phases] /\ asked' \in [Lock!Pairs -> BOOLEAN]
        /\ missed' \in [Lock!Pairs -> Nat]
    BY <1>1
  <2>3. lock_since' \in [Lock!Pairs -> Nat] /\ gap' \in [LockNames -> BOOLEAN]
    BY <1>1
  <2> QED
    BY <2>1, <2>2, <2>3
<1>5. \A q \in Lock!Pairs : lock_seq'[q].prev < lock_time' /\ lock_since'[q] < lock_time'
  <2>1. \A q \in Lock!Pairs : lock_seq[q].prev \in Nat /\ s.prev \in Nat
    BY <1>1 DEF Lock!Seqs
  <2> QED
    BY <1>1, <2>1
<1>6. \A k \in LockNames : \A w \in waits'[k] : Lock!WaitOf(w) \in Nat
  BY <1>1
<1>7. Lock!TypeOK'
  <2>1. lock_time' \in Nat /\ lock_time' > 0 /\ lock_lost' \in Nat /\ DOMAIN waits' = LockNames
    BY <1>1
  <2>2. waited' \in [LockNames -> Nat] /\ taken' \in [LockNames -> Nat]
    OBVIOUS
  <2> QED
    BY <1>2, <1>4, <1>5, <1>6, <2>1, <2>2 DEF Lock!TypeOK, Lock!WaitOf
<1>8. ASSUME NEW q \in Lock!Pairs, q # p PROVE Lock!SeqFits(q)' /\ Lock!InStep(q)'
  <2>1. /\ lock_seq'[q] = lock_seq[q] /\ missed'[q] = missed[q] /\ lock_phase'[q] = lock_phase[q]
        /\ asked'[q] = asked[q]
        /\ lock_since'[q] = lock_since[q]
    BY <1>1, <1>8
  <2>2. PICK k \in LockNames : k = q[2]
    BY <1>3
  <2>3. Lock!SeqFits(q) /\ Lock!InStep(q)
    BY DEF Lock!LockInv
  <2>4. (~ls'[k].discard => ~ls[k].discard) /\ (~gap'[k] => ~gap[k])
    BY <1>1
  <2>5. Lock!SeqFits(q)'
    BY <2>1, <2>2, <2>3, <2>4 DEF Lock!SeqFits, Lock!Asking
  <2>6. lock_lost' = 0 => lock_lost = 0
    BY <1>1
  <2>7. CASE k # l
    <3>1. ls'[k] = ls[k] /\ gap'[k] = gap[k]
      BY <1>1, <2>7
    <3> QED
      BY <2>1, <2>2, <2>3, <2>5, <2>6, <3>1 DEF Lock!InStep, Lock!Asking
  <2>8. CASE k = l
    <3>1. /\ ls'[k].nr_readlock = 0 => ls[k].nr_readlock = 0
          /\ ls'[k].nr_trylock = 0 => ls[k].nr_trylock = 0
      BY <1>1, <2>8 DEF Lock!Stats
    <3>2. /\ lock_lost' = 0 => ~gap'[k]
          /\ lock_lost' = 0 /\ ls'[k].nr_readlock = 0 /\ ls'[k].nr_trylock = 0 => ~ls'[k].discard
      BY <2>8 DEF Lock!InStep
    <3> QED
      BY <2>1, <2>2, <2>3, <2>5, <2>6, <3>1, <3>2 DEF Lock!InStep, Lock!Asking
  <2> QED
    BY <2>7, <2>8
<1>9. ASSUME NEW k \in LockNames, k # l PROVE Lock!StatFits(k)'
  <2>1. ls'[k] = ls[k] /\ gap'[k] = gap[k]
    BY <1>1, <1>9
  <2>2. Lock!StatFits(k)
    BY DEF Lock!LockInv
  <2> QED
    BY <1>9, <2>1, <2>2 DEF Lock!StatFits, Lock!WaitOf, Lock!Avg, Lock!Far
<1> QED
  BY <1>2, <1>7, <1>8, <1>9 DEF Lock!LockInv

(* What is counted without a wait. *)
LEMMA LockCounted ==
  ASSUME Lock!LockInv, NEW l \in LockNames, NEW st \in Lock!Stats, ls'[l] = st, gap[l] => gap'[l],
         ~st.discard => ~ls[l].discard /\ st.avg = Lock!Avg(st),
         ~st.discard /\ ~gap'[l] =>
           /\ st.total = ls[l].total /\ st.min = ls[l].min /\ st.max = ls[l].max
           /\ st.nr_acquired - ls[l].nr_acquired = taken'[l] - taken[l] /\ taken'[l] \in Nat
           /\ waits'[l] = waits[l] /\ waited'[l] = waited[l]
  PROVE  Lock!StatFits(l)'
<1>1. Lock!StatFits(l) /\ ls[l] \in Lock!Stats /\ taken[l] \in Nat
  BY DEF Lock!LockInv, Lock!TypeOK
<1>2. st.nr_acquired \in Nat /\ ls[l].nr_acquired \in Nat
  BY <1>1 DEF Lock!Stats
<1>3. ASSUME ~st.discard, ~gap'[l]
      PROVE  st.nr_acquired = taken'[l]
  <2>1. ls[l].nr_acquired = taken[l]
    BY <1>1, <1>3 DEF Lock!StatFits
  <2> QED
    BY <1>1, <1>2, <1>3, <2>1
<1> QED
  BY <1>1, <1>3 DEF Lock!StatFits, Lock!WaitOf, Lock!Avg, Lock!Far

(* What is counted with one. *)
LEMMA WaitCounted ==
  ASSUME Lock!LockConstants, Lock!LockInv, NEW l \in LockNames, NEW si \in Nat, si < lock_time,
         lock_time <= MaxLockTime,
         NEW st, st = Lock!NowAcquired(Lock!Waited(ls[l], lock_time - si)), ~ls[l].discard
  PROVE  /\ st \in Lock!Stats /\ ~st.discard /\ st.nr_readlock = ls[l].nr_readlock
         /\ st.nr_trylock = ls[l].nr_trylock
         /\ ls'[l] = st /\ (gap[l] => gap'[l]) /\
            (~gap'[l] => /\ 0 < si /\ waits'[l] = waits[l] \cup {<<si, lock_time>>}
                         /\ waited'[l] = waited[l] + (lock_time - si) /\ taken'[l] = taken[l] + 1)
              => Lock!StatFits(l)'
<1>1. PICK a \in Lock!Stats : a = ls[l]
  BY DEF Lock!LockInv, Lock!TypeOK
<1>2. lock_time \in Nat
  BY DEF Lock!LockInv, Lock!TypeOK
<1>3. PICK w \in Nat : w = lock_time - si /\ 0 < w /\ (0 < si => w <= MaxLockTime)
  BY <1>2 DEF Lock!LockConstants
<1>4. PICK b : b = Lock!Waited(a, w)
  OBVIOUS
<1>5. /\ a.total \in Nat /\ a.min \in Nat /\ a.max \in Nat /\ a.nr_acquired \in Nat
  BY DEF Lock!Stats
<1>6. /\ b \in Lock!Stats /\ b.total = a.total + w /\ b.min = (IF w < a.min THEN w ELSE a.min)
      /\ b.max = (IF a.max < w THEN w ELSE a.max) /\ b.nr_acquired = a.nr_acquired
      /\ b.discard = a.discard /\ b.nr_readlock = a.nr_readlock /\ b.nr_trylock = a.nr_trylock
  <2>1. PICK t \in Nat, mi \in Nat, ma \in Nat : /\ t = a.total + w
        /\ mi = (IF w < a.min THEN w ELSE a.min)
                                                 /\ ma = (IF a.max < w THEN w ELSE a.max)
    BY <1>5
  <2>2. b = [a EXCEPT !.total = t, !.min = mi, !.max = ma]
    BY <1>4, <2>1 DEF Lock!Waited, Lock!Stats
  <2> QED
    BY <2>1, <2>2 DEF Lock!Stats
<1>7. PICK c : c = Lock!NowAcquired(b)
  OBVIOUS
<1>8. /\ c \in Lock!Stats /\ c.total = b.total /\ c.min = b.min /\ c.max = b.max
      /\ c.nr_acquired = b.nr_acquired + 1 /\ c.discard = b.discard /\ c.avg = Lock!Avg(c)
      /\ c.nr_readlock = b.nr_readlock /\ c.nr_trylock = b.nr_trylock
  <2>1. PICK v \in Nat, n \in Nat : v = Lock!Avg(b) /\ n = b.nr_acquired + 1
    BY <1>6, AvgType DEF Lock!Stats
  <2>2. c = [b EXCEPT !.nr_acquired = n, !.avg = v]
    BY <1>6, <1>7, <2>1 DEF Lock!NowAcquired, Lock!Stats
  <2>3. /\ c \in Lock!Stats /\ c.total = b.total /\ c.min = b.min /\ c.max = b.max
        /\ c.nr_acquired = n
        /\ c.discard = b.discard /\ c.avg = v /\ c.nr_contended = b.nr_contended
        /\ c.nr_readlock = b.nr_readlock /\ c.nr_trylock = b.nr_trylock
    BY <1>6, <2>2 DEF Lock!Stats
  <2> QED
    BY <2>1, <2>3 DEF Lock!Avg
<1>9. st = c
  BY <1>1, <1>3, <1>4, <1>7
<1>20. ASSUME ls'[l] = st, gap[l] => gap'[l],
              ~gap'[l] => /\ 0 < si /\ waits'[l] = waits[l] \cup {<<si, lock_time>>}
                          /\ waited'[l] = waited[l] + (lock_time - si) /\ taken'[l] = taken[l] + 1
       PROVE  Lock!StatFits(l)'
  <2>10. Lock!StatFits(l)
    BY DEF Lock!LockInv
  <2>11. Lock!WaitOf(<<si, lock_time>>) = w
    BY <1>3 DEF Lock!WaitOf
  <2>12. ASSUME ~gap'[l]
         PROVE  /\ c.nr_acquired = taken'[l] /\ c.total = waited'[l]
                /\ \A x \in waits'[l] : c.min <= Lock!WaitOf(x) /\ Lock!WaitOf(x) <= c.max
                /\ \E x, y \in waits'[l] : c.min = Lock!WaitOf(x) /\ c.max = Lock!WaitOf(y)
    <3>0. /\ 0 < si /\ waits'[l] = waits[l] \cup {<<si, lock_time>>} /\ ~gap[l]
          /\ waited'[l] = waited[l] + (lock_time - si) /\ taken'[l] = taken[l] + 1
      BY <1>20, <2>12
    <3>1. /\ a.nr_acquired = taken[l] /\ a.total = waited[l]
          /\ \A x \in waits[l] : a.min <= Lock!WaitOf(x) /\ Lock!WaitOf(x) <= a.max
          /\ IF waits[l] = {} THEN a.min = Lock!Far /\ a.max = 0
             ELSE \E x, y \in waits[l] : a.min = Lock!WaitOf(x) /\ a.max = Lock!WaitOf(y)
      BY <1>1, <2>10, <3>0 DEF Lock!StatFits
    <3>2. c.nr_acquired = taken'[l] /\ c.total = waited'[l]
      BY <1>3, <1>6, <1>8, <3>0, <3>1
    <3>3. \A x \in waits[l] : Lock!WaitOf(x) \in Nat
      BY DEF Lock!LockInv, Lock!TypeOK
    <3>4. \A x \in waits'[l] : c.min <= Lock!WaitOf(x) /\ Lock!WaitOf(x) <= c.max
      <4>1. \A x \in waits[l] : c.min <= Lock!WaitOf(x) /\ Lock!WaitOf(x) <= c.max
        BY <1>5, <1>6, <1>8, <3>1, <3>3
      <4>2. c.min <= w /\ w <= c.max
        BY <1>5, <1>6, <1>8
      <4> QED
        BY <2>11, <3>0, <4>1, <4>2
    <3>5. \E x \in waits'[l] : c.min = Lock!WaitOf(x)
      <4>1. CASE w < a.min
        BY <1>6, <1>8, <2>11, <3>0, <4>1
      <4>2. CASE ~(w < a.min)
        <5>1. waits[l] # {}
          BY <1>3, <3>0, <3>1, <4>2 DEF Lock!Far, Lock!LockConstants
        <5>2. PICK x \in waits[l] : a.min = Lock!WaitOf(x)
          BY <3>1, <5>1
        <5> QED
          BY <1>6, <1>8, <3>0, <4>2, <5>2
      <4> QED
        BY <4>1, <4>2
    <3>6. \E x \in waits'[l] : c.max = Lock!WaitOf(x)
      <4>1. CASE a.max < w
        BY <1>6, <1>8, <2>11, <3>0, <4>1
      <4>2. CASE ~(a.max < w)
        <5>1. waits[l] # {}
          BY <1>3, <3>1, <4>2
        <5>2. PICK x \in waits[l] : a.max = Lock!WaitOf(x)
          BY <3>1, <5>1
        <5> QED
          BY <1>6, <1>8, <3>0, <4>2, <5>2
      <4> QED
        BY <4>1, <4>2
    <3> QED
      BY <3>2, <3>4, <3>5, <3>6
  <2> QED
    BY <1>8, <1>9, <1>20, <2>12 DEF Lock!StatFits, Lock!WaitOf, Lock!Avg
<1> QED
  BY <1>1, <1>6, <1>8, <1>9, <1>20

(* Of a lock that is discarded nothing is claimed. *)
LEMMA DiscardStep ==
  ASSUME Lock!LockInv, NEW p \in Lock!Pairs, NEW l \in LockNames, l = p[2],
         NEW s \in Lock!Seqs, NEW st \in Lock!Stats, lock_seq' = [lock_seq EXCEPT ![p] = s],
         ls' = [ls EXCEPT ![l] = st],
         s.prev <= lock_time, st.discard, st.nr_readlock = ls[l].nr_readlock,
         st.nr_trylock = ls[l].nr_trylock, lock_lost' = lock_lost, NEW m \in Nat, NEW g \in BOOLEAN,
         NEW ph \in Lock!Phases, NEW as \in BOOLEAN, NEW si \in Nat, Moves(p, l, m, g, ph, as, si),
         lock_lost = 0 => m = 0 /\ ~g,
         ~ls[l].discard => ~(lock_lost = 0 /\ ls[l].nr_readlock = 0 /\ ls[l].nr_trylock = 0)
  PROVE  Lock!LockInv'
<1>1. /\ ls \in [LockNames -> Lock!Stats] /\ lock_time \in Nat
      /\ missed \in [Lock!Pairs -> Nat] /\ gap \in [LockNames -> BOOLEAN]
  BY DEF Lock!LockInv, Lock!TypeOK
<1>2. ls'[l] = st /\ missed'[p] = m /\ gap'[l] = g
  BY <1>1 DEF Moves
<1>3. Lock!SeqFits(p)' /\ Lock!StatFits(l)'
  BY <1>2 DEF Lock!SeqFits, Lock!StatFits
<1>4. ~(lock_lost = 0 /\ ls[l].nr_readlock = 0 /\ ls[l].nr_trylock = 0)
  BY DEF Lock!LockInv, Lock!InStep
<1>5. Lock!InStep(p)'
  BY <1>2, <1>4 DEF Lock!InStep
<1>6. st.nr_readlock \in Nat /\ st.nr_trylock \in Nat
  BY DEF Lock!Stats
<1>7. st.nr_readlock >= ls[l].nr_readlock /\ st.nr_trylock >= ls[l].nr_trylock
  BY <1>6
<1> QED
  BY <1>3, <1>5, <1>7, OneStep

(* A broken sequence. *)
LEMMA BrokenStep ==
  ASSUME Lock!LockInv, NEW p \in Lock!Pairs, NEW l \in LockNames, l = p[2], Lock!Broken(p),
         lock_lost' = lock_lost, NEW m \in Nat, NEW g \in BOOLEAN, NEW ph \in Lock!Phases,
         NEW as \in BOOLEAN,
         NEW si \in Nat, Moves(p, l, m, g, ph, as, si), lock_lost = 0 => m = 0 /\ ~g,
         ~(lock_lost = 0 /\ ls[l].nr_readlock = 0 /\ ls[l].nr_trylock = 0)
  PROVE  Lock!LockInv'
<1>1. PICK a \in Lock!Stats : a = ls[l]
  BY DEF Lock!LockInv, Lock!TypeOK
<1>2. PICK s : s = Lock!NoSeq
  OBVIOUS
<1>3. PICK st : st = [a EXCEPT !.discard = TRUE]
  OBVIOUS
<1>4. ls \in [LockNames -> Lock!Stats] /\ lock_time \in Nat
  BY DEF Lock!LockInv, Lock!TypeOK
<1>5. s \in Lock!Seqs /\ s.prev <= lock_time
  BY <1>2, <1>4 DEF Lock!NoSeq, Lock!Seqs, Lock!States
<1>6. st \in Lock!Stats /\ st.discard /\ st.nr_readlock = ls[l].nr_readlock
      /\ st.nr_trylock = ls[l].nr_trylock
  BY <1>1, <1>3 DEF Lock!Stats
<1>7. lock_seq' = [lock_seq EXCEPT ![p] = s] /\ ls' = [ls EXCEPT ![l] = st]
  BY <1>1, <1>2, <1>3, <1>4 DEF Lock!Broken
<1> QED
  BY <1>5, <1>6, <1>7, DiscardStep

(* An event is lost. *)
LEMMA MissStep ==
  ASSUME Lock!LockInv, NEW p \in Lock!Pairs, NEW l \in LockNames, l = p[2],
         NEW s \in Lock!Seqs, NEW st \in Lock!Stats, lock_seq' = [lock_seq EXCEPT ![p] = s],
         ls' = [ls EXCEPT ![l] = st],
         s.prev <= lock_time, st.nr_readlock = ls[l].nr_readlock, st.nr_trylock = ls[l].nr_trylock,
         st.nr_acquired = ls[l].nr_acquired, st.total = ls[l].total, st.min = ls[l].min,
         st.max = ls[l].max, st.discard = ls[l].discard, ~st.discard => st.avg = Lock!Avg(st),
         lock_lost' = lock_lost + 1, NEW m \in Nat, NEW g \in BOOLEAN, NEW ph \in Lock!Phases,
         NEW as \in BOOLEAN,
         NEW si \in Nat, Moves(p, l, m, g, ph, as, si), UNCHANGED <<waits, waited, taken>>,
         Lock!SeqFits(p)'
  PROVE  Lock!LockInv'
<1>1. /\ ls \in [LockNames -> Lock!Stats] /\ lock_lost \in Nat /\ gap \in [LockNames -> BOOLEAN]
      /\ taken \in [LockNames -> Nat]
  BY DEF Lock!LockInv, Lock!TypeOK
<1>2. ls'[l] = st /\ (gap[l] => gap'[l])
  BY <1>1 DEF Moves
<1>3. lock_lost' # 0
  BY <1>1
<1>4. Lock!InStep(p)'
  BY <1>3 DEF Lock!InStep
<1>5. st.nr_readlock \in Nat /\ st.nr_trylock \in Nat /\ st.nr_acquired \in Nat
  BY DEF Lock!Stats
<1>6. st.nr_readlock >= ls[l].nr_readlock /\ st.nr_trylock >= ls[l].nr_trylock
  BY <1>5
<1>7. st.nr_acquired - ls[l].nr_acquired = taken'[l] - taken[l] /\ taken'[l] \in Nat
  BY <1>1, <1>5
<1>8. Lock!StatFits(l)'
  BY <1>2, <1>7, LockCounted
<1> QED
  BY <1>4, <1>6, <1>8, OneStep, ZenonT(60)

(* The thread and lock of a step, as far as its event goes. *)
Event(p, l, seen) ==
  /\ lock_time' = lock_time + 1 /\ missed' = [missed EXCEPT ![p] = IF seen THEN 0 ELSE @ + 1]
  /\ gap' = [gap EXCEPT ![l] = @ \/ (seen /\ missed[p] >= 3)]
  /\ seen => lock_lost' = lock_lost
  /\ ~seen => lock_lost' = lock_lost + 1 /\ UNCHANGED <<lock_seq, ls>>

Moved(p, l, seen, ph, as, si) ==
  \E m \in Nat, g \in BOOLEAN :
    /\ Moves(p, l, m, g, ph, as, si)
    /\ m = (IF seen THEN 0 ELSE missed[p] + 1) /\ g = (gap[l] \/ (seen /\ missed[p] >= 3))
    /\ seen /\ lock_lost = 0 => m = 0 /\ ~g
    /\ lock_phase'[p] = ph /\ asked'[p] = as /\ lock_since'[p] = si /\ missed'[p] = m /\ gap'[l] = g

(* What every event changes. *)
LEMMA EventMoves ==
  ASSUME Lock!LockInv, NEW p \in Lock!Pairs, NEW l \in LockNames, l = p[2], NEW seen \in BOOLEAN,
         Event(p, l, seen),
         NEW ph, lock_phase' = [lock_phase EXCEPT ![p] = ph], NEW as,
         asked' = [asked EXCEPT ![p] = as],
         NEW si \in Nat, lock_since' = [lock_since EXCEPT ![p] = si], si <= lock_time,
         DOMAIN waits' = LockNames, waited' \in [LockNames -> Nat], taken' \in [LockNames -> Nat],
         \A k \in LockNames \ {l} : waits'[k] = waits[k] /\ waited'[k] = waited[k]
         /\ taken'[k] = taken[k],
         \A w \in waits'[l] : Lock!WaitOf(w) \in Nat
  PROVE  Moved(p, l, seen, ph, as, si)
<1>1. /\ missed \in [Lock!Pairs -> Nat] /\ gap \in [LockNames -> BOOLEAN] /\ lock_lost \in Nat
      /\ lock_phase \in [Lock!Pairs -> Lock!Phases] /\ asked \in [Lock!Pairs -> BOOLEAN]
      /\ lock_since \in [Lock!Pairs -> Nat]
  BY DEF Lock!LockInv, Lock!TypeOK
<1>2. PICK m \in Nat, g \in BOOLEAN :
        m = (IF seen THEN 0 ELSE missed[p] + 1) /\ g = (gap[l] \/ (seen /\ missed[p] >= 3))
  BY <1>1
<1>3. missed' = [missed EXCEPT ![p] = m] /\ gap' = [gap EXCEPT ![l] = g] /\ (gap[l] => g)
  BY <1>1, <1>2 DEF Event
<1>4. lock_lost' \in Nat /\ lock_lost' >= lock_lost
  BY <1>1 DEF Event
<1>5. Moves(p, l, m, g, ph, as, si)
  BY <1>3, <1>4 DEF Moves, Event
<1>6. lock_lost = 0 => missed[p] = 0 /\ ~gap[l]
  BY DEF Lock!LockInv, Lock!InStep
<1>7. seen /\ lock_lost = 0 => m = 0 /\ ~g
  <2>1. missed[p] = 0 => ~(missed[p] >= 3)
    OBVIOUS
  <2>2. seen => m = 0
    BY <1>2
  <2>3. lock_lost = 0 => ~g
    BY <1>2, <1>6, <2>1
  <2> QED
    BY <2>2, <2>3
<1>8. lock_phase'[p] = ph /\ asked'[p] = as /\ lock_since'[p] = si /\ missed'[p] = m /\ gap'[l] = g
  BY <1>1, <1>3
<1> QED
  BY <1>2, <1>5, <1>7, <1>8 DEF Moved
(* The sequence and the counts stay. *)
LEMMA LockKept ==
  ASSUME Lock!LockInv, NEW p \in Lock!Pairs, NEW l \in LockNames, lock_seq' = lock_seq, ls' = ls
  PROVE  \E s \in Lock!Seqs, st \in Lock!Stats :
           /\ lock_seq' = [lock_seq EXCEPT ![p] = s] /\ ls' = [ls EXCEPT ![l] = st]
           /\ s.prev <= lock_time /\ st.nr_readlock = ls[l].nr_readlock
           /\ st.nr_trylock = ls[l].nr_trylock
           /\ st.nr_acquired = ls[l].nr_acquired /\ st.total = ls[l].total /\ st.min = ls[l].min
           /\ st.max = ls[l].max /\ st.discard = ls[l].discard
              /\ (~st.discard => st.avg = Lock!Avg(st))
<1>1. /\ lock_seq \in [Lock!Pairs -> Lock!Seqs] /\ ls \in [LockNames -> Lock!Stats]
      /\ lock_time \in Nat /\ lock_seq[p].prev < lock_time
  BY DEF Lock!LockInv, Lock!TypeOK
<1>2. lock_seq' = [lock_seq EXCEPT ![p] = lock_seq[p]] /\ ls' = [ls EXCEPT ![l] = ls[l]]
  BY <1>1, SameFunction
<1>3. ~ls[l].discard => ls[l].avg = Lock!Avg(ls[l])
  BY DEF Lock!LockInv, Lock!StatFits
<1>4. lock_seq[p] \in Lock!Seqs /\ ls[l] \in Lock!Stats
  BY <1>1
<1>5. lock_seq[p].prev <= lock_time
  BY <1>1, <1>4 DEF Lock!Seqs
<1> QED
  BY <1>2, <1>3, <1>4, <1>5, ZenonT(60)

(* report_lock_acquire_event() *)
LEMMA AcquireInv ==
  ASSUME Lock!LockConstants, Lock!LockInv, NEW p \in Lock!Pairs, Lock!LockAcquire(p)
  PROVE  Lock!LockInv'
<1>1. PICK l \in LockNames : l = p[2]
  BY DEF Lock!Pairs
<1>2. PICK f \in LockFlags, seen \in BOOLEAN :
        /\ \/ lock_phase[p] = "idle"
           \/ lock_phase[p] = "reading" /\ f = "read" /\ flag[p] = "read"
        /\ Lock!Emit(p, seen, Lock!Handled(p, Lock!Acquire(p, f) /\ UNCHANGED aborted))
        /\ lock_phase' = [lock_phase EXCEPT ![p] = IF f = "none" THEN "acquiring" ELSE "reading"]
        /\ asked' = [asked EXCEPT ![p] = seen]
        /\ taken' = IF seen /\ f # "none" THEN [taken EXCEPT ![p[2]] = @ + 1] ELSE taken
  BY DEF Lock!LockAcquire
<1>3. f \in {"none", "read", "try"}
  BY DEF Lock!LockConstants
<1>4. lock_since' = [lock_since EXCEPT ![p] = 0] /\ waits' = waits /\ waited' = waited
  BY DEF Lock!LockAcquire
<1>5. Event(p, l, seen) /\ (seen => Lock!Handled(p, Lock!Acquire(p, f) /\ UNCHANGED aborted))
  BY <1>1, <1>2 DEF Lock!Emit, Event
<1>6. PICK ph \in Lock!Phases : ph = IF f = "none" THEN "acquiring" ELSE "reading"
  BY DEF Lock!Phases
<1>7. /\ taken \in [LockNames -> Nat] /\ waited \in [LockNames -> Nat] /\ DOMAIN waits = LockNames
      /\ lock_time \in Nat
      /\ \A k \in LockNames : \A w \in waits[k] : Lock!WaitOf(w) \in Nat
      /\ ls \in [LockNames -> Lock!Stats] /\ lock_seq \in [Lock!Pairs -> Lock!Seqs]
  BY DEF Lock!LockInv, Lock!TypeOK
<1>8. /\ taken' \in [LockNames -> Nat]
         /\ taken'[l] = taken[l] + (IF seen /\ f # "none" THEN 1 ELSE 0)
      /\ \A k \in LockNames \ {l} : taken'[k] = taken[k]
  BY <1>1, <1>2, <1>7
<1>9. PICK m \in Nat, g \in BOOLEAN :
           /\ Moves(p, l, m, g, ph, seen, 0)
           /\ m = (IF seen THEN 0 ELSE missed[p] + 1) /\ g = (gap[l] \/ (seen /\ missed[p] >= 3))
           /\ seen /\ lock_lost = 0 => m = 0 /\ ~g
           /\ lock_phase'[p] = ph /\ asked'[p] = seen /\ lock_since'[p] = 0 /\ missed'[p] = m
           /\ gap'[l] = g
  <2>1. lock_phase' = [lock_phase EXCEPT ![p] = ph]
    BY <1>2, <1>6
  <2>2. 0 \in Nat /\ 0 <= lock_time /\ DOMAIN waits' = LockNames /\ waited' \in [LockNames -> Nat]
    BY <1>4, <1>7
  <2>3. /\ \A k \in LockNames \ {l} : waits'[k] = waits[k] /\ waited'[k] = waited[k]
           /\ taken'[k] = taken[k]
        /\ \A w \in waits'[l] : Lock!WaitOf(w) \in Nat
    BY <1>4, <1>7, <1>8
  <2>4. /\ Event(p, l, seen) /\ asked' = [asked EXCEPT ![p] = seen]
        /\ lock_since' = [lock_since EXCEPT ![p] = 0] /\ taken' \in [LockNames -> Nat]
    BY <1>2, <1>4, <1>5, <1>8
  <2>5. Moved(p, l, seen, ph, seen, 0)
    BY <1>1, <2>1, <2>2, <2>3, <2>4, EventMoves, ZenonT(60)
  <2> QED
    BY <2>5 DEF Moved
<1>91. 0 \in Nat
  OBVIOUS
<1>10. Lock!SeqFits(p) /\ Lock!InStep(p) /\ ~Lock!Asking(p)
  BY <1>2 DEF Lock!LockInv, Lock!Asking
<1>11. CASE ~seen
  <2>1. lock_lost' = lock_lost + 1 /\ lock_seq' = lock_seq /\ ls' = ls
    BY <1>5, <1>11 DEF Event
  <2>2. taken' = taken
    BY <1>2, <1>11
  <2>3. Lock!SeqFits(p)'
    <3>1. SUFFICES ASSUME ~ls[l].discard, ~gap[l], lock_seq[p].state \in {"ACQUIRING", "CONTENDED"}
                   PROVE  missed[p] + 1 >= 3
      <4>1. ~Lock!Asking(p)'
        BY <1>9, <1>11 DEF Lock!Asking
      <4>2. ph \in {"acquiring", "reading"}
        BY <1>6
      <4>3. gap'[l] = gap[l] /\ missed'[p] = missed[p] + 1 /\ lock_since'[p] = 0
            /\ lock_phase'[p] = ph
        BY <1>9, <1>11 DEF Lock!LockInv, Lock!TypeOK
      <4>4. missed[p] + 1 >= 3 => missed[p] + 1 >= 2
        BY DEF Lock!LockInv, Lock!TypeOK
      <4> QED
        BY <1>1, <2>1, <3>1, <4>1, <4>2, <4>3, <4>4 DEF Lock!SeqFits
    <3>2. missed[p] >= 2
      BY <1>1, <1>2, <1>10, <3>1 DEF Lock!SeqFits
    <3>3. missed[p] \in Nat
      BY DEF Lock!LockInv, Lock!TypeOK
    <3> QED
      BY <3>2, <3>3
  <2>4. PICK s \in Lock!Seqs, st \in Lock!Stats :
           /\ lock_seq' = [lock_seq EXCEPT ![p] = s] /\ ls' = [ls EXCEPT ![l] = st]
           /\ s.prev <= lock_time /\ st.nr_readlock = ls[l].nr_readlock
           /\ st.nr_trylock = ls[l].nr_trylock
           /\ st.nr_acquired = ls[l].nr_acquired /\ st.total = ls[l].total /\ st.min = ls[l].min
           /\ st.max = ls[l].max /\ st.discard = ls[l].discard
              /\ (~st.discard => st.avg = Lock!Avg(st))
    BY <2>1, LockKept
  <2>5. lock_lost' = lock_lost + 1 /\ UNCHANGED <<waits, waited, taken>>
    BY <1>4, <2>1, <2>2
  <2> QED
    BY <1>1, <1>9, <1>91, <2>3, <2>4, <2>5, MissStep, ZenonT(60)
<1>12. CASE seen /\ ls[l].discard
  <2>1. lock_lost' = lock_lost /\ lock_seq' = lock_seq /\ ls' = ls
    BY <1>1, <1>5, <1>12 DEF Event, Lock!Handled
  <2>4. PICK s \in Lock!Seqs, st \in Lock!Stats :
           /\ lock_seq' = [lock_seq EXCEPT ![p] = s] /\ ls' = [ls EXCEPT ![l] = st]
           /\ s.prev <= lock_time /\ st.nr_readlock = ls[l].nr_readlock
           /\ st.nr_trylock = ls[l].nr_trylock
           /\ st.discard = ls[l].discard
    BY <2>1, LockKept
  <2>5. lock_lost' = lock_lost /\ (lock_lost = 0 => m = 0 /\ ~g)
    BY <1>9, <1>12, <2>1
  <2> QED
    BY <1>1, <1>9, <1>91, <1>12, <2>4, <2>5, DiscardStep
<1>13. CASE seen /\ ~ls[l].discard
  <2>1. Lock!Acquire(p, f) /\ lock_lost' = lock_lost /\ (lock_lost = 0 => m = 0 /\ ~g)
    BY <1>1, <1>5, <1>9, <1>13 DEF Event, Lock!Handled
  <2>2. PICK a \in Lock!Stats, b \in Lock!Seqs : a = ls[l] /\ b = lock_seq[p]
    BY <1>7
  <2>3. /\ a.nr_acquire \in Nat /\ a.nr_acquired \in Nat /\ a.nr_readlock \in Nat
        /\ a.nr_trylock \in Nat
        /\ b.read_count \in Nat /\ b.prev \in Nat /\ b.prev < lock_time /\ ~a.discard
    BY <1>13, <2>2 DEF Lock!Stats, Lock!Seqs, Lock!LockInv, Lock!TypeOK
  <2>4. a.avg = Lock!Avg(a)
    BY <2>2, <2>3 DEF Lock!LockInv, Lock!StatFits
  <2>5. gap[l] => gap'[l]
    BY <1>9
  <2>6. ASSUME NEW s \in Lock!Seqs, NEW st \in Lock!Stats, lock_seq' = [lock_seq EXCEPT ![p] = s],
               ls' = [ls EXCEPT ![l] = st],
               s.prev <= lock_time, st.discard = FALSE, st.avg = a.avg, st.total = a.total,
               st.min = a.min,
               st.max = a.max, st.nr_contended = a.nr_contended,
               st.nr_acquired = a.nr_acquired + (IF f # "none" THEN 1 ELSE 0),
               st.nr_readlock >= a.nr_readlock, st.nr_trylock >= a.nr_trylock,
               f = "none" => s.state = "ACQUIRING",
               f # "none" => s.state = "READ_ACQUIRED"
               /\ ~(lock_lost = 0 /\ st.nr_readlock = 0 /\ st.nr_trylock = 0)
        PROVE  Lock!LockInv'
    <3>1. ls'[l] = st /\ lock_seq'[p] = s
      BY <1>7, <2>6
    <3>2. Lock!StatFits(l)'
      <4>1. st.avg = Lock!Avg(st)
        BY <2>4, <2>6 DEF Lock!Avg
      <4>2. st.nr_acquired - ls[l].nr_acquired = taken'[l] - taken[l] /\ taken'[l] \in Nat
        BY <1>7, <1>8, <1>13, <2>2, <2>3, <2>6
      <4>3. waits'[l] = waits[l] /\ waited'[l] = waited[l]
        BY <1>4
      <4>4. /\ st.total = ls[l].total /\ st.min = ls[l].min /\ st.max = ls[l].max
        BY <2>2, <2>6
      <4> QED
        BY <1>13, <2>5, <2>6, <3>1, <4>1, <4>2, <4>3, <4>4, LockCounted
    <3>3. Lock!SeqFits(p)' /\ Lock!InStep(p)'
      <4>1. CASE f = "none"
        <5>1. Lock!Asking(p)' /\ lock_since'[p] = 0 /\ s.state = "ACQUIRING"
          BY <1>6, <1>9, <1>13, <2>6, <4>1 DEF Lock!Asking
        <5> QED
          BY <1>1, <1>9, <2>1, <2>6, <3>1, <5>1 DEF Lock!SeqFits, Lock!InStep
      <4>2. CASE f # "none"
        <5>1. ~Lock!Asking(p)' /\ lock_since'[p] = 0 /\ s.state = "READ_ACQUIRED"
          BY <1>6, <1>9, <2>6, <4>2 DEF Lock!Asking
        <5> QED
          BY <1>1, <1>9, <2>1, <2>6, <3>1, <4>2, <5>1 DEF Lock!SeqFits, Lock!InStep
      <4> QED
        BY <4>1, <4>2
    <3>4. /\ ls[l].discard => st.discard
          /\ st.nr_readlock >= ls[l].nr_readlock /\ st.nr_trylock >= ls[l].nr_trylock
      BY <1>13, <2>2, <2>6
    <3>5. lock_seq' = [lock_seq EXCEPT ![p] = s] /\ ls' = [ls EXCEPT ![l] = st]
          /\ s.prev <= lock_time
      BY <2>6
    <3>6. Moves(p, l, m, g, ph, seen, 0)
      BY <1>9
    <3> QED
      BY <1>1, <1>91, <3>2, <3>3, <3>4, <3>5, <3>6, OneStep, ZenonT(60)
  <2>7. CASE b.state \in {"UNINITIALIZED", "RELEASED"} /\ f = "none"
    <3>1. PICK s, st : s = [b EXCEPT !.state = "ACQUIRING", !.prev = lock_time]
          /\ st = [a EXCEPT !.nr_acquire = @ + 1]
      OBVIOUS
    <3>2. lock_seq' = [lock_seq EXCEPT ![p] = s] /\ ls' = [ls EXCEPT ![l] = st]
      BY <1>1, <2>1, <2>2, <2>7, <3>1 DEF Lock!Acquire, Lock!Note
    <3>3. s \in Lock!Seqs /\ s.prev <= lock_time /\ s.state = "ACQUIRING"
      <4>1. s \in Lock!Seqs /\ s.prev = lock_time /\ s.state = "ACQUIRING"
        BY <1>7, <2>2, <3>1 DEF Lock!Seqs, Lock!States
      <4> QED
        BY <1>7, <4>1
    <3>4. /\ st \in Lock!Stats /\ st.discard = FALSE /\ st.avg = a.avg /\ st.total = a.total
          /\ st.min = a.min
          /\ st.max = a.max /\ st.nr_contended = a.nr_contended /\ st.nr_acquired = a.nr_acquired
          /\ st.nr_readlock = a.nr_readlock /\ st.nr_trylock = a.nr_trylock
      BY <2>3, <3>1 DEF Lock!Stats
    <3>5. /\ st.nr_readlock >= a.nr_readlock /\ st.nr_trylock >= a.nr_trylock
          /\ st.nr_acquired = a.nr_acquired + 0
      BY <2>3, <3>4
    <3> QED
      BY <2>6, <2>7, <3>2, <3>3, <3>4, <3>5
  <2>8. CASE b.state \in {"UNINITIALIZED", "RELEASED"} /\ f # "none"
    <3>1. PICK s, st : /\ s = [state |-> "READ_ACQUIRED", prev |-> lock_time, read_count |-> 1]
                       /\ st = [a EXCEPT !.nr_acquire = @ + 1, !.nr_acquired = @ + 1,
                            !.nr_trylock = IF f = "try" THEN @ + 1 ELSE @,
                            !.nr_readlock = IF f = "read" THEN @ + 1 ELSE @]
      OBVIOUS
    <3>2. lock_seq' = [lock_seq EXCEPT ![p] = s] /\ ls' = [ls EXCEPT ![l] = st]
      BY <1>1, <2>1, <2>2, <2>8, <3>1 DEF Lock!Acquire, Lock!Note
    <3>3. s \in Lock!Seqs /\ s.prev <= lock_time /\ s.state = "READ_ACQUIRED"
      BY <1>7, <3>1 DEF Lock!Seqs, Lock!States
    <3>4. PICK c \in Nat, d \in Nat, e \in Nat, h \in Nat :
            /\ c = a.nr_acquire + 1 /\ d = a.nr_acquired + 1
            /\ e = (IF f = "try" THEN a.nr_trylock + 1 ELSE a.nr_trylock)
            /\ h = (IF f = "read" THEN a.nr_readlock + 1 ELSE a.nr_readlock)
      BY <2>3, SMTT(30)
    <3>5. st = [a EXCEPT !.nr_acquire = c, !.nr_acquired = d, !.nr_trylock = e, !.nr_readlock = h]
      BY <3>1, <3>4 DEF Lock!Stats
    <3>6. /\ st \in Lock!Stats /\ st.discard = a.discard /\ st.avg = a.avg /\ st.total = a.total
          /\ st.min = a.min
          /\ st.max = a.max /\ st.nr_contended = a.nr_contended /\ st.nr_acquired = d
          /\ st.nr_readlock = h /\ st.nr_trylock = e
      BY <3>5 DEF Lock!Stats
    <3>7. h >= a.nr_readlock /\ e >= a.nr_trylock /\ ~(h = 0 /\ e = 0)
      BY <1>3, <2>3, <2>8, <3>4
    <3>8. st.discard = FALSE
      BY <2>3, <3>6 DEF Lock!Stats
    <3> QED
      BY <2>6, <2>8, <3>2, <3>3, <3>4, <3>6, <3>7, <3>8
  <2>9. CASE b.state = "READ_ACQUIRED" /\ f = "read"
    <3>1. PICK s, st : s = [b EXCEPT !.read_count = @ + 1] /\ st = [a EXCEPT !.nr_acquired = @ + 1]
      OBVIOUS
    <3>2. lock_seq' = [lock_seq EXCEPT ![p] = s] /\ ls' = [ls EXCEPT ![l] = st]
      BY <1>1, <2>1, <2>2, <2>9, <3>1 DEF Lock!Acquire, Lock!Note
    <3>3. s \in Lock!Seqs /\ s.prev = b.prev /\ s.state = "READ_ACQUIRED"
      BY <2>9, <3>1 DEF Lock!Seqs, Lock!States
    <3>4. /\ st \in Lock!Stats /\ st.discard = FALSE /\ st.avg = a.avg /\ st.total = a.total
          /\ st.min = a.min
          /\ st.max = a.max /\ st.nr_contended = a.nr_contended
          /\ st.nr_acquired = a.nr_acquired + 1
          /\ st.nr_readlock = a.nr_readlock /\ st.nr_trylock = a.nr_trylock
      BY <2>3, <3>1 DEF Lock!Stats
    <3>5. st.nr_readlock >= a.nr_readlock /\ st.nr_trylock >= a.nr_trylock /\ s.prev <= lock_time
      BY <1>7, <2>3, <3>3, <3>4
    <3>6. ~(lock_lost = 0 /\ st.nr_readlock = 0 /\ st.nr_trylock = 0)
      BY <1>1, <1>2, <1>10, <2>2, <2>9, <3>4 DEF Lock!InStep
    <3> QED
      BY <2>6, <2>9, <3>2, <3>3, <3>4, <3>5, <3>6
  <2>10. CASE /\ ~(b.state \in {"UNINITIALIZED", "RELEASED"} /\ f = "none")
              /\ ~(b.state \in {"UNINITIALIZED", "RELEASED"} /\ f # "none")
              /\ ~(b.state = "READ_ACQUIRED" /\ f = "read")
    <3>1. Lock!Broken(p)
      BY <2>1, <2>2, <2>10 DEF Lock!Acquire
    <3>2. ~(lock_lost = 0 /\ ls[l].nr_readlock = 0 /\ ls[l].nr_trylock = 0)
      BY <1>1, <1>2, <1>10, <2>2, <2>10 DEF Lock!InStep
    <3> QED
      BY <1>1, <1>9, <1>91, <2>1, <3>1, <3>2, BrokenStep, ZenonT(60)
  <2> QED
    BY <2>7, <2>8, <2>9, <2>10
<1> QED
  BY <1>11, <1>12, <1>13
(* A lost event of a thread that waits, holds or releases a lock. *)
LEMMA EventMissed ==
  ASSUME Lock!LockInv, NEW p \in Lock!Pairs, NEW l \in LockNames, l = p[2], NEW ph \in Lock!Phases,
         NEW as \in BOOLEAN,
         NEW si \in Nat, Moved(p, l, FALSE, ph, as, si), Event(p, l, FALSE),
         UNCHANGED <<waits, waited, taken>>, Lock!SeqFits(p)'
  PROVE  Lock!LockInv'
<1>1. PICK m \in Nat, g \in BOOLEAN : Moves(p, l, m, g, ph, as, si)
  BY DEF Moved
<1>2. PICK s \in Lock!Seqs, st \in Lock!Stats :
         /\ lock_seq' = [lock_seq EXCEPT ![p] = s] /\ ls' = [ls EXCEPT ![l] = st]
         /\ s.prev <= lock_time /\ st.nr_readlock = ls[l].nr_readlock
         /\ st.nr_trylock = ls[l].nr_trylock
         /\ st.nr_acquired = ls[l].nr_acquired /\ st.total = ls[l].total /\ st.min = ls[l].min
         /\ st.max = ls[l].max /\ st.discard = ls[l].discard
            /\ (~st.discard => st.avg = Lock!Avg(st))
  BY LockKept DEF Event
<1>3. lock_lost' = lock_lost + 1
  BY DEF Event
<1> QED
  BY <1>1, <1>2, <1>3, MissStep, ZenonT(60)

(* An event before which no acquire was seen is ignored. *)
LEMMA Ignored ==
  ASSUME Lock!LockInv, NEW p \in Lock!Pairs, NEW l \in LockNames, l = p[2], NEW ph \in Lock!Phases,
         NEW as \in BOOLEAN,
         NEW si \in Nat, Moved(p, l, TRUE, ph, as, si), Event(p, l, TRUE), ls[l].discard,
         NEW s \in Lock!Seqs, NEW st \in Lock!Stats, lock_seq' = [lock_seq EXCEPT ![p] = s],
         ls' = [ls EXCEPT ![l] = st],
         s.prev <= lock_time, st.discard, st.nr_readlock = ls[l].nr_readlock,
         st.nr_trylock = ls[l].nr_trylock
  PROVE  Lock!LockInv'
<1>1. lock_lost' = lock_lost
  BY DEF Event
<1>2. PICK m \in Nat, g \in BOOLEAN : Moves(p, l, m, g, ph, as, si)
      /\ (lock_lost = 0 => m = 0 /\ ~g)
  BY DEF Moved
<1> QED
  BY <1>1, <1>2, DiscardStep

(* What the sequence and the counts of a pair become. *)
LEMMA Handles ==
  ASSUME Lock!LockInv, NEW p \in Lock!Pairs, NEW l \in LockNames, l = p[2], NEW ph \in Lock!Phases,
         NEW as \in BOOLEAN,
         NEW si \in Nat, Moved(p, l, TRUE, ph, as, si), Event(p, l, TRUE),
         NEW s \in Lock!Seqs, NEW st \in Lock!Stats, lock_seq' = [lock_seq EXCEPT ![p] = s],
         ls' = [ls EXCEPT ![l] = st],
         s.prev <= lock_time, ~ls[l].discard, ~st.discard,
         st.nr_readlock = ls[l].nr_readlock, st.nr_trylock = ls[l].nr_trylock,
         Lock!SeqFits(p)', Lock!StatFits(l)',
         lock_lost = 0 /\ ls[l].nr_readlock = 0 /\ ls[l].nr_trylock = 0 =>
           \/ Lock!Asking(p)' \/ s.state = "UNINITIALIZED"
           \/ ph = "held" /\ s.state = "ACQUIRED"
  PROVE  Lock!LockInv'
<1>1. lock_lost' = lock_lost
  BY DEF Event
<1>2. PICK m \in Nat, g \in BOOLEAN :
        /\ Moves(p, l, m, g, ph, as, si) /\ (lock_lost = 0 => m = 0 /\ ~g)
        /\ lock_phase'[p] = ph /\ missed'[p] = m /\ gap'[l] = g
  BY DEF Moved
<1>3. ls'[l] = st /\ lock_seq'[p] = s
  BY DEF Lock!LockInv, Lock!TypeOK
<1>4. Lock!InStep(p)'
  BY <1>1, <1>2, <1>3 DEF Lock!InStep
<1>5. st.nr_readlock \in Nat /\ st.nr_trylock \in Nat
  BY DEF Lock!Stats
<1>6. st.nr_readlock >= ls[l].nr_readlock /\ st.nr_trylock >= ls[l].nr_trylock
  BY <1>5
<1> QED
  BY <1>2, <1>4, <1>6, OneStep, ZenonT(120)

(* A sequence that does not fit is broken. *)
LEMMA Breaks ==
  ASSUME Lock!LockInv, NEW p \in Lock!Pairs, NEW l \in LockNames, l = p[2], NEW ph \in Lock!Phases,
         NEW as \in BOOLEAN,
         NEW si \in Nat, Moved(p, l, TRUE, ph, as, si), Event(p, l, TRUE), Lock!Broken(p),
         ~(lock_lost = 0 /\ ls[l].nr_readlock = 0 /\ ls[l].nr_trylock = 0)
  PROVE  Lock!LockInv'
<1>1. lock_lost' = lock_lost
  BY DEF Event
<1>2. PICK m \in Nat, g \in BOOLEAN : Moves(p, l, m, g, ph, as, si)
      /\ (lock_lost = 0 => m = 0 /\ ~g)
  BY DEF Moved
<1> QED
  BY <1>1, <1>2, BrokenStep

(* A sequence that is not finished, as the next event is seen. *)
LEMMA Unfinished ==
  ASSUME Lock!LockInv, NEW p \in Lock!Pairs, NEW l \in LockNames, l = p[2], NEW ph, NEW as, NEW si,
         Moved(p, l, TRUE, ph, as, si), ~gap'[l], ~ls[l].discard,
         lock_phase[p] \in {"acquiring", "waiting"}
  PROVE  /\ lock_seq[p].state \in {"ACQUIRING", "CONTENDED"} => asked[p]
         /\ asked[p] => IF lock_since[p] # 0 THEN lock_seq[p].state = "CONTENDED"
            /\ lock_seq[p].prev = lock_since[p]
                        ELSE lock_seq[p].state = "ACQUIRING"
         /\ lock_phase[p] = "acquiring" \/ ~asked[p] => lock_since[p] = 0
<1>1. Lock!SeqFits(p)
  BY DEF Lock!LockInv
<1>2. ~gap[l] /\ ~(missed[p] >= 3)
  BY DEF Moved, Lock!LockInv, Lock!TypeOK
<1>3. lock_seq[p].state \in {"ACQUIRING", "CONTENDED"} => Lock!Asking(p)
  BY <1>1, <1>2 DEF Lock!SeqFits
<1> QED
  BY <1>1, <1>2, <1>3 DEF Lock!SeqFits, Lock!Asking

(* report_lock_contended_event() *)
LEMMA ContendedInv ==
  ASSUME Lock!LockConstants, Lock!LockInv, NEW p \in Lock!Pairs, Lock!LockContended(p)
  PROVE  Lock!LockInv'
<1>1. PICK l \in LockNames : l = p[2]
  BY DEF Lock!Pairs
<1>2. PICK seen \in BOOLEAN :
        /\ Lock!Emit(p, seen, Lock!Handled(p, Lock!Contended(p) /\ UNCHANGED aborted))
        /\ lock_since' = [lock_since EXCEPT ![p] = IF seen /\ asked[p] THEN lock_time ELSE 0]
  BY DEF Lock!LockContended
<1>3. /\ lock_phase[p] = "acquiring" /\ lock_phase' = [lock_phase EXCEPT ![p] = "waiting"]
      /\ UNCHANGED <<asked, waits, waited, taken>>
  BY DEF Lock!LockContended
<1>4. /\ Event(p, l, seen) /\ (seen => Lock!Handled(p, Lock!Contended(p) /\ UNCHANGED aborted))
  BY <1>1, <1>2 DEF Lock!Emit, Event
<1>5. /\ taken \in [LockNames -> Nat] /\ waited \in [LockNames -> Nat] /\ DOMAIN waits = LockNames
      /\ lock_time \in Nat /\ lock_time > 0 /\ asked \in [Lock!Pairs -> BOOLEAN]
      /\ \A k \in LockNames : \A w \in waits[k] : Lock!WaitOf(w) \in Nat
      /\ ls \in [LockNames -> Lock!Stats] /\ lock_seq \in [Lock!Pairs -> Lock!Seqs]
  BY DEF Lock!LockInv, Lock!TypeOK
<1>6. PICK ph \in Lock!Phases : ph = "waiting"
  BY DEF Lock!Phases
<1>7. PICK as \in BOOLEAN : as = asked[p]
  BY <1>5
<1>8. PICK si \in Nat : si = IF seen /\ as THEN lock_time ELSE 0
  BY <1>5
<1>9. Moved(p, l, seen, ph, as, si)
  <2>1. lock_phase' = [lock_phase EXCEPT ![p] = ph] /\ lock_since' = [lock_since EXCEPT ![p] = si]
        /\ si <= lock_time
    BY <1>2, <1>3, <1>5, <1>6, <1>7, <1>8
  <2>2. asked' = [asked EXCEPT ![p] = as]
    BY <1>3, <1>5, <1>7, SameFunction
  <2>3. /\ DOMAIN waits' = LockNames /\ waited' \in [LockNames -> Nat]
        /\ taken' \in [LockNames -> Nat]
        /\ \A k \in LockNames \ {l} : waits'[k] = waits[k] /\ waited'[k] = waited[k]
           /\ taken'[k] = taken[k]
        /\ \A w \in waits'[l] : Lock!WaitOf(w) \in Nat
    BY <1>3, <1>5
  <2> QED
    BY <1>1, <1>4, <2>1, <2>2, <2>3, EventMoves, ZenonT(60)
<1>10. PICK m \in Nat, g \in BOOLEAN :
         /\ m = (IF seen THEN 0 ELSE missed[p] + 1) /\ g = (gap[l] \/ (seen /\ missed[p] >= 3))
         /\ lock_phase'[p] = ph /\ asked'[p] = as /\ lock_since'[p] = si /\ missed'[p] = m
         /\ gap'[l] = g
  BY <1>9 DEF Moved
<1>11. Lock!SeqFits(p) /\ Lock!InStep(p)
  BY DEF Lock!LockInv
<1>12. CASE ~seen
  <2>1. seen = FALSE
    BY <1>12
  <2>2. lock_seq' = lock_seq /\ ls' = ls
    BY <1>4, <1>12 DEF Event
  <2>3. Lock!SeqFits(p)'
    <3>1. SUFFICES ASSUME ~ls[l].discard, ~gap[l]
                   PROVE  /\ as => lock_seq[p].state = "ACQUIRING"
                          /\ lock_seq[p].state \in {"ACQUIRING", "CONTENDED"}
                             => as \/ missed[p] + 1 >= 3
      <4>1. /\ gap'[l] = gap[l] /\ missed'[p] = missed[p] + 1 /\ lock_since'[p] = 0
            /\ lock_phase'[p] = "waiting"
            /\ asked'[p] = as
        BY <1>6, <1>8, <1>10, <1>12 DEF Lock!LockInv, Lock!TypeOK
      <4>2. Lock!Asking(p)' <=> as
        BY <4>1 DEF Lock!Asking
      <4> QED
        BY <1>1, <2>2, <3>1, <4>1, <4>2 DEF Lock!SeqFits
    <3>2. missed[p] \in Nat
      BY DEF Lock!LockInv, Lock!TypeOK
    <3>3. Lock!Asking(p) <=> as
      BY <1>3, <1>7 DEF Lock!Asking
    <3>4. as => lock_seq[p].state = "ACQUIRING"
      BY <1>1, <1>3, <1>11, <3>1, <3>3 DEF Lock!SeqFits
    <3>5. lock_seq[p].state \in {"ACQUIRING", "CONTENDED"} => as \/ missed[p] >= 3
      BY <1>1, <1>3, <1>11, <3>1, <3>3 DEF Lock!SeqFits
    <3>6. missed[p] >= 3 => missed[p] + 1 >= 3
      BY <3>2
    <3> QED
      BY <3>4, <3>5, <3>6, ZenonT(60)
  <2> QED
    BY <1>1, <1>3, <1>4, <1>9, <2>1, <2>3, EventMissed
<1>13. CASE seen /\ ls[l].discard
  <2>1. seen = TRUE
    BY <1>13
  <2>2. lock_seq' = lock_seq /\ ls' = ls
    BY <1>1, <1>4, <1>13 DEF Lock!Handled
  <2>3. PICK s \in Lock!Seqs, st \in Lock!Stats :
           /\ lock_seq' = [lock_seq EXCEPT ![p] = s] /\ ls' = [ls EXCEPT ![l] = st]
           /\ s.prev <= lock_time /\ st.nr_readlock = ls[l].nr_readlock
           /\ st.nr_trylock = ls[l].nr_trylock
           /\ st.discard = ls[l].discard
    BY <2>2, LockKept
  <2>4. st.discard
    BY <1>13, <2>3
  <2> QED
    BY <1>1, <1>4, <1>9, <1>13, <2>1, <2>3, <2>4, Ignored
<1>14. CASE seen /\ ~ls[l].discard
  <2>0. seen = TRUE
    BY <1>14
  <2>1. Lock!Contended(p) /\ Event(p, l, TRUE) /\ Moved(p, l, TRUE, ph, as, si)
    BY <1>1, <1>4, <1>9, <1>14, <2>0 DEF Lock!Handled
  <2>2. PICK a \in Lock!Stats, b \in Lock!Seqs : a = ls[l] /\ b = lock_seq[p]
    BY <1>5
  <2>3. /\ a.nr_contended \in Nat /\ a.nr_acquired \in Nat /\ a.avg = Lock!Avg(a) /\ ~a.discard
        /\ b.prev \in Nat /\ b.prev < lock_time
    BY <1>14, <2>2 DEF Lock!Stats, Lock!Seqs, Lock!LockInv, Lock!TypeOK, Lock!StatFits
  <2>4. ASSUME ~gap'[l]
        PROVE  b.state \in {"ACQUIRING", "CONTENDED"} <=> as
    BY <1>1, <1>3, <1>7, <1>14, <2>1, <2>2, <2>4, Unfinished
  <2>5. lock_lost = 0 /\ a.nr_readlock = 0 /\ a.nr_trylock = 0 =>
          (as /\ b.state = "ACQUIRING") \/ (~as /\ b.state = "UNINITIALIZED")
    <3>1. Lock!Asking(p) <=> as
      BY <1>3, <1>7 DEF Lock!Asking
    <3>2. ASSUME lock_lost = 0 PROVE ~gap[l]
      BY <1>1, <1>11, <3>2 DEF Lock!InStep
    <3>3. ASSUME lock_lost = 0, as PROVE b.state = "ACQUIRING"
      BY <1>1, <1>3, <1>11, <1>14, <2>2, <3>1, <3>2, <3>3 DEF Lock!SeqFits
    <3>4. ASSUME lock_lost = 0, a.nr_readlock = 0, a.nr_trylock = 0,
                 ~as PROVE b.state = "UNINITIALIZED"
      BY <1>1, <1>3, <1>11, <2>2, <3>1, <3>4 DEF Lock!InStep
    <3> QED
      BY <3>3, <3>4
  <2>6. taken'[l] - taken[l] = 0 /\ taken'[l] \in Nat /\ waits'[l] = waits[l]
        /\ waited'[l] = waited[l]
    BY <1>3, <1>5
  <2>7. gap[l] => gap'[l]
    BY <1>10
  <2>8. CASE b.state = "UNINITIALIZED"
    <3>1. lock_seq' = lock_seq /\ ls' = ls
      BY <2>1, <2>2, <2>8 DEF Lock!Contended
    <3>2. PICK s \in Lock!Seqs, st \in Lock!Stats :
             /\ lock_seq' = [lock_seq EXCEPT ![p] = s] /\ ls' = [ls EXCEPT ![l] = st]
             /\ s.prev <= lock_time
             /\ st.nr_readlock = ls[l].nr_readlock /\ st.nr_trylock = ls[l].nr_trylock
             /\ st.nr_acquired = ls[l].nr_acquired /\ st.total = ls[l].total /\ st.min = ls[l].min
             /\ st.max = ls[l].max /\ st.discard = ls[l].discard
                /\ (~st.discard => st.avg = Lock!Avg(st))
      BY <3>1, LockKept
    <3>3. ls'[l] = st /\ lock_seq'[p] = s /\ s.state = "UNINITIALIZED" /\ ~st.discard
      BY <1>5, <1>14, <2>2, <2>8, <3>1, <3>2
    <3>4. st.nr_acquired \in Nat
      BY DEF Lock!Stats
    <3>5. st.nr_acquired - ls[l].nr_acquired = taken'[l] - taken[l]
      BY <2>6, <3>2, <3>4
    <3>6. Lock!StatFits(l)'
      BY <1>14, <2>6, <2>7, <3>2, <3>3, <3>5, LockCounted
    <3>7. Lock!SeqFits(p)'
      <4>1. SUFFICES ASSUME ~gap'[l] PROVE ~as
        BY <1>1, <1>6, <1>8, <1>10, <3>3, <4>1 DEF Lock!SeqFits, Lock!Asking
      <4> QED
        BY <2>4, <2>8, <4>1
    <3> QED
      BY <1>1, <1>14, <2>1, <3>2, <3>3, <3>6, <3>7, Handles
  <2>9. CASE b.state = "ACQUIRING"
    <3>1. PICK c : c = [a EXCEPT !.nr_contended = @ + 1]
      OBVIOUS
    <3>2. /\ c \in Lock!Stats /\ c.nr_readlock = a.nr_readlock /\ c.nr_trylock = a.nr_trylock
          /\ c.nr_acquired = a.nr_acquired /\ c.total = a.total /\ c.min = a.min
          /\ c.max = a.max /\ c.discard = a.discard
      BY <2>3, <3>1 DEF Lock!Stats
    <3>3. PICK v \in Nat : v = Lock!Avg(c)
      BY <3>2, AvgType
    <3>4. PICK s, st : s = Lock!NowContended(b) /\ st = [c EXCEPT !.avg = v]
      OBVIOUS
    <3>5. lock_seq' = [lock_seq EXCEPT ![p] = s] /\ ls' = [ls EXCEPT ![l] = st]
      BY <1>1, <2>1, <2>2, <2>9, <3>1, <3>3, <3>4 DEF Lock!Contended, Lock!Note
    <3>6. s \in Lock!Seqs /\ s.state = "CONTENDED" /\ s.prev = lock_time
      BY <1>5, <3>4 DEF Lock!NowContended, Lock!Seqs, Lock!States
    <3>7. /\ st \in Lock!Stats /\ st.nr_readlock = a.nr_readlock /\ st.nr_trylock = a.nr_trylock
          /\ st.nr_acquired = a.nr_acquired /\ st.total = a.total /\ st.min = a.min
          /\ st.max = a.max /\ st.discard = a.discard /\ st.avg = Lock!Avg(st)
      <4>1. /\ st \in Lock!Stats /\ st.nr_readlock = a.nr_readlock /\ st.nr_trylock = a.nr_trylock
            /\ st.nr_acquired = a.nr_acquired /\ st.total = c.total /\ st.min = a.min
            /\ st.max = a.max /\ st.discard = a.discard /\ st.avg = v
            /\ st.nr_contended = c.nr_contended
        BY <3>2, <3>4 DEF Lock!Stats
      <4>2. Lock!Avg(st) = Lock!Avg(c)
        BY <4>1 DEF Lock!Avg
      <4> QED
        BY <3>2, <3>3, <4>1, <4>2
    <3>8. ls'[l] = st /\ lock_seq'[p] = s
      BY <1>5, <3>5
    <3>9. st.nr_acquired - ls[l].nr_acquired = taken'[l] - taken[l]
      BY <2>2, <2>3, <2>6, <3>7
    <3>10. Lock!StatFits(l)'
      <4>1. st.total = ls[l].total /\ st.min = ls[l].min /\ st.max = ls[l].max
        BY <2>2, <3>7
      <4> QED
        BY <1>14, <2>6, <2>7, <3>7, <3>8, <3>9, <4>1, LockCounted
    <3>11. Lock!SeqFits(p)'
      <4>1. SUFFICES ASSUME ~gap'[l] PROVE as
        <5>1. ASSUME as PROVE Lock!Asking(p)' /\ lock_since'[p] = lock_time /\ lock_since'[p] # 0
          BY <1>5, <1>6, <1>8, <1>10, <1>14, <5>1 DEF Lock!Asking
        <5> QED
          BY <1>1, <1>6, <1>10, <3>6, <3>8, <4>1, <5>1 DEF Lock!SeqFits
      <4> QED
        BY <2>4, <2>9, <4>1
    <3>12. Lock!Asking(p)' \/ ~as
      BY <1>6, <1>10 DEF Lock!Asking
    <3>13. lock_lost = 0 /\ ls[l].nr_readlock = 0 /\ ls[l].nr_trylock = 0 => Lock!Asking(p)'
      BY <2>2, <2>5, <2>9, <3>12
    <3>14. st.nr_readlock = ls[l].nr_readlock /\ st.nr_trylock = ls[l].nr_trylock /\ ~st.discard
           /\ s.prev <= lock_time
      BY <1>5, <2>2, <2>3, <3>6, <3>7
    <3> QED
      BY <1>1, <1>14, <2>1, <3>5, <3>6, <3>7, <3>10, <3>11, <3>13, <3>14, Handles
  <2>10. CASE b.state \notin {"UNINITIALIZED", "ACQUIRING"}
    <3>1. Lock!Broken(p)
      BY <2>1, <2>2, <2>10 DEF Lock!Contended
    <3>2. ~(lock_lost = 0 /\ ls[l].nr_readlock = 0 /\ ls[l].nr_trylock = 0)
      BY <2>2, <2>5, <2>10
    <3> QED
      BY <1>1, <2>1, <3>1, <3>2, Breaks
  <2> QED
    BY <2>8, <2>9, <2>10
<1> QED
  BY <1>12, <1>13, <1>14
(* report_lock_acquired_event() *)
LEMMA AcquiredInv ==
  ASSUME Lock!LockConstants, Lock!LockInv, NEW p \in Lock!Pairs, Lock!LockAcquired(p)
  PROVE  Lock!LockInv'
<1>1. PICK l \in LockNames : l = p[2]
  BY DEF Lock!Pairs
<1>2. PICK seen \in BOOLEAN :
        /\ Lock!Emit(p, seen, Lock!Handled(p, Lock!Acquired(p) /\ UNCHANGED aborted))
        /\ IF seen /\ lock_phase[p] = "waiting" /\ lock_since[p] # 0
           THEN /\ waits' = [waits EXCEPT ![p[2]] = @ \cup {<<lock_since[p], lock_time>>}]
                /\ waited' = [waited EXCEPT ![p[2]] = @ + (lock_time - lock_since[p])]
           ELSE UNCHANGED <<waits, waited>>
        /\ taken' = IF seen /\ asked[p] THEN [taken EXCEPT ![p[2]] = @ + 1] ELSE taken
  BY DEF Lock!LockAcquired
<1>3. /\ lock_phase[p] \in {"acquiring", "waiting"}
      /\ lock_phase' = [lock_phase EXCEPT ![p] = "held"]
      /\ UNCHANGED <<asked, lock_since>> /\ lock_time <= MaxLockTime
  BY DEF Lock!LockAcquired, Lock!Running
<1>4. /\ Event(p, l, seen) /\ (seen => Lock!Handled(p, Lock!Acquired(p) /\ UNCHANGED aborted))
  BY <1>1, <1>2 DEF Lock!Emit, Event
<1>5. /\ taken \in [LockNames -> Nat] /\ waited \in [LockNames -> Nat] /\ DOMAIN waits = LockNames
      /\ lock_time \in Nat /\ lock_time > 0 /\ asked \in [Lock!Pairs -> BOOLEAN]
      /\ lock_since \in [Lock!Pairs -> Nat]
      /\ \A k \in LockNames : \A w \in waits[k] : Lock!WaitOf(w) \in Nat
      /\ ls \in [LockNames -> Lock!Stats] /\ lock_seq \in [Lock!Pairs -> Lock!Seqs]
      /\ lock_since[p] < lock_time
  BY DEF Lock!LockInv, Lock!TypeOK
<1>6. PICK ph \in Lock!Phases : ph = "held"
  BY DEF Lock!Phases
<1>7. PICK as \in BOOLEAN : as = asked[p]
  BY <1>5
<1>8. PICK si \in Nat : si = lock_since[p] /\ si < lock_time
  BY <1>5
<1>80. /\ DOMAIN waits' = LockNames /\ waited' \in [LockNames -> Nat]
       /\ taken' \in [LockNames -> Nat]
       /\ \A k \in LockNames \ {l} : waits'[k] = waits[k] /\ waited'[k] = waited[k]
          /\ taken'[k] = taken[k]
       /\ taken'[l] = taken[l] + (IF seen /\ as THEN 1 ELSE 0)
       /\ IF seen /\ lock_phase[p] = "waiting" /\ si # 0
          THEN waits'[l] = waits[l] \cup {<<si, lock_time>>}
          /\ waited'[l] = waited[l] + (lock_time - si)
          ELSE waits'[l] = waits[l] /\ waited'[l] = waited[l]
  <2>1. /\ taken' \in [LockNames -> Nat] /\ \A k \in LockNames \ {l} : taken'[k] = taken[k]
        /\ taken'[l] = taken[l] + (IF seen /\ as THEN 1 ELSE 0)
    BY <1>1, <1>2, <1>5, <1>7
  <2>2. CASE seen /\ lock_phase[p] = "waiting" /\ si # 0
    <3>1. /\ waits' = [waits EXCEPT ![l] = @ \cup {<<si, lock_time>>}]
          /\ waited' = [waited EXCEPT ![l] = @ + (lock_time - si)] /\ lock_time - si \in Nat
      BY <1>1, <1>2, <1>5, <1>8, <2>2
    <3>2. DOMAIN waits' = LockNames /\ waits'[l] = waits[l] \cup {<<si, lock_time>>}
      BY <1>5, <3>1
    <3>3. \A k \in LockNames \ {l} : waits'[k] = waits[k] /\ waited'[k] = waited[k]
      BY <1>5, <3>1
    <3>4. waited' \in [LockNames -> Nat] /\ waited'[l] = waited[l] + (lock_time - si)
      BY <1>5, <3>1
    <3> QED
      BY <2>1, <2>2, <3>2, <3>3, <3>4
  <2>3. CASE ~(seen /\ lock_phase[p] = "waiting" /\ si # 0)
    <3>1. waits' = waits /\ waited' = waited
      BY <1>2, <1>8, <2>3
    <3> QED
      BY <1>5, <2>1, <2>3, <3>1
  <2> QED
    BY <2>2, <2>3
<1>81. \A w \in waits'[l] : Lock!WaitOf(w) \in Nat
  <2>1. Lock!WaitOf(<<si, lock_time>>) \in Nat
    BY <1>5, <1>8 DEF Lock!WaitOf
  <2> QED
    BY <1>5, <1>80, <2>1
<1>9. Moved(p, l, seen, ph, as, si)
  <2>1. lock_phase' = [lock_phase EXCEPT ![p] = ph] /\ si <= lock_time
    BY <1>3, <1>5, <1>6, <1>8
  <2>2. asked' = [asked EXCEPT ![p] = as] /\ lock_since' = [lock_since EXCEPT ![p] = si]
    BY <1>3, <1>5, <1>7, <1>8, SameFunction
  <2>3. /\ DOMAIN waits' = LockNames /\ waited' \in [LockNames -> Nat]
        /\ taken' \in [LockNames -> Nat]
        /\ \A k \in LockNames \ {l} : waits'[k] = waits[k] /\ waited'[k] = waited[k]
           /\ taken'[k] = taken[k]
    BY <1>80
  <2> QED
    BY <1>1, <1>4, <1>81, <2>1, <2>2, <2>3, EventMoves, ZenonT(60)
<1>10. PICK m \in Nat, g \in BOOLEAN :
         /\ m = (IF seen THEN 0 ELSE missed[p] + 1) /\ g = (gap[l] \/ (seen /\ missed[p] >= 3))
         /\ lock_phase'[p] = ph /\ asked'[p] = as /\ lock_since'[p] = si /\ missed'[p] = m
         /\ gap'[l] = g
  BY <1>9 DEF Moved
<1>11. Lock!SeqFits(p) /\ Lock!InStep(p) /\ ~Lock!Asking(p)' /\ lock_phase'[p] = "held"
  BY <1>6, <1>10 DEF Lock!LockInv, Lock!Asking
<1>110. ASSUME ~gap[l], ~ls[l].discard, ~as PROVE si = 0
  BY <1>1, <1>7, <1>8, <1>11, <1>110 DEF Lock!SeqFits
<1>12. CASE ~seen
  <2>1. seen = FALSE
    BY <1>12
  <2>2. lock_seq' = lock_seq /\ ls' = ls
    BY <1>4, <1>12 DEF Event
  <2>3. Lock!SeqFits(p)'
    <3>1. gap'[l] = gap[l] /\ missed'[p] >= 1 /\ asked'[p] = as /\ lock_since'[p] = si
      BY <1>10, <1>12 DEF Lock!LockInv, Lock!TypeOK
    <3> QED
      BY <1>1, <1>11, <1>110, <2>2, <3>1 DEF Lock!SeqFits
  <2>4. UNCHANGED <<waits, waited, taken>>
    BY <1>2, <1>12
  <2> QED
    BY <1>1, <1>4, <1>9, <2>1, <2>3, <2>4, EventMissed
<1>13. CASE seen /\ ls[l].discard
  <2>1. seen = TRUE
    BY <1>13
  <2>2. lock_seq' = lock_seq /\ ls' = ls
    BY <1>1, <1>4, <1>13 DEF Lock!Handled
  <2>3. PICK s \in Lock!Seqs, st \in Lock!Stats :
           /\ lock_seq' = [lock_seq EXCEPT ![p] = s] /\ ls' = [ls EXCEPT ![l] = st]
           /\ s.prev <= lock_time /\ st.nr_readlock = ls[l].nr_readlock
           /\ st.nr_trylock = ls[l].nr_trylock
           /\ st.discard = ls[l].discard
    BY <2>2, LockKept
  <2>4. st.discard
    BY <1>13, <2>3
  <2> QED
    BY <1>1, <1>4, <1>9, <1>13, <2>1, <2>3, <2>4, Ignored
<1>14. CASE seen /\ ~ls[l].discard
  <2>0. seen = TRUE
    BY <1>14
  <2>1. Lock!Acquired(p) /\ Event(p, l, TRUE) /\ Moved(p, l, TRUE, ph, as, si)
    BY <1>1, <1>4, <1>9, <1>14, <2>0 DEF Lock!Handled
  <2>2. PICK a \in Lock!Stats, b \in Lock!Seqs : a = ls[l] /\ b = lock_seq[p]
    BY <1>5
  <2>3. /\ a.nr_contended \in Nat /\ a.nr_acquired \in Nat /\ a.avg = Lock!Avg(a) /\ ~a.discard
        /\ b.prev \in Nat /\ b.prev < lock_time
    BY <1>14, <2>2 DEF Lock!Stats, Lock!Seqs, Lock!LockInv, Lock!TypeOK, Lock!StatFits
  <2>4. ASSUME ~gap'[l]
        PROVE  /\ b.state \in {"ACQUIRING", "CONTENDED"} <=> as
               /\ b.state = "CONTENDED" => lock_phase[p] = "waiting" /\ si # 0 /\ b.prev = si
               /\ b.state # "CONTENDED" => si = 0
    BY <1>1, <1>3, <1>7, <1>8, <1>14, <2>1, <2>2, <2>4, Unfinished
  <2>5. lock_lost = 0 /\ a.nr_readlock = 0 /\ a.nr_trylock = 0 =>
          b.state \in {"ACQUIRING", "CONTENDED", "UNINITIALIZED"}
    <3>1. Lock!Asking(p) <=> as
      BY <1>3, <1>7 DEF Lock!Asking
    <3>2. ASSUME lock_lost = 0 PROVE ~gap[l]
      BY <1>1, <1>11, <3>2 DEF Lock!InStep
    <3>3. ASSUME lock_lost = 0, as PROVE b.state \in {"ACQUIRING", "CONTENDED"}
      BY <1>1, <1>3, <1>11, <1>14, <2>2, <3>1, <3>2, <3>3 DEF Lock!SeqFits
    <3>4. ASSUME lock_lost = 0, a.nr_readlock = 0, a.nr_trylock = 0,
                 ~as PROVE b.state = "UNINITIALIZED"
      BY <1>1, <1>3, <1>11, <2>2, <3>1, <3>4 DEF Lock!InStep
    <3> QED
      BY <3>3, <3>4
  <2>6. taken'[l] = taken[l] + (IF as THEN 1 ELSE 0) /\ taken'[l] \in Nat /\ taken[l] \in Nat
    BY <1>5, <1>80, <2>0
  <2>7. gap[l] => gap'[l]
    BY <1>10
  <2>70. ~gap'[l] /\ ~as => lock_since'[p] = 0
    BY <1>10, <1>14, <1>110, <2>7
  <2>8. CASE b.state = "UNINITIALIZED"
    <3>1. lock_seq' = lock_seq /\ ls' = ls
      BY <2>1, <2>2, <2>8 DEF Lock!Acquired
    <3>2. PICK s \in Lock!Seqs, st \in Lock!Stats :
             /\ lock_seq' = [lock_seq EXCEPT ![p] = s] /\ ls' = [ls EXCEPT ![l] = st]
             /\ s.prev <= lock_time
             /\ st.nr_readlock = ls[l].nr_readlock /\ st.nr_trylock = ls[l].nr_trylock
             /\ st.nr_acquired = ls[l].nr_acquired /\ st.total = ls[l].total /\ st.min = ls[l].min
             /\ st.max = ls[l].max /\ st.discard = ls[l].discard
                /\ (~st.discard => st.avg = Lock!Avg(st))
      BY <3>1, LockKept
    <3>3. ls'[l] = st /\ lock_seq'[p] = s /\ s.state = b.state /\ ~st.discard
      BY <1>5, <1>14, <2>2, <3>1, <3>2
    <3>4. st.nr_acquired \in Nat
      BY DEF Lock!Stats
    <3>5. ~gap'[l] => /\ st.nr_acquired - ls[l].nr_acquired = taken'[l] - taken[l]
          /\ taken'[l] \in Nat
                      /\ waits'[l] = waits[l] /\ waited'[l] = waited[l]
      <4> SUFFICES ASSUME ~gap'[l]
                   PROVE  /\ st.nr_acquired - ls[l].nr_acquired = taken'[l] - taken[l]
                          /\ taken'[l] \in Nat /\ waits'[l] = waits[l] /\ waited'[l] = waited[l]
        OBVIOUS
      <4>1. ~as /\ si = 0
        BY <2>4, <2>8
      <4>2. st.nr_acquired - ls[l].nr_acquired = taken'[l] - taken[l]
        BY <2>6, <3>2, <3>4, <4>1
      <4> QED
        BY <1>80, <2>6, <4>1, <4>2
    <3>6. Lock!StatFits(l)'
      BY <1>14, <2>7, <3>2, <3>3, <3>5, LockCounted
    <3>7. Lock!SeqFits(p)'
      BY <1>1, <1>10, <1>11, <2>8, <2>70, <3>3 DEF Lock!SeqFits
    <3> QED
      BY <1>1, <1>14, <2>1, <2>8, <3>2, <3>3, <3>6, <3>7, Handles
  <2>9. CASE b.state = "ACQUIRING"
    <3>1. PICK v \in Nat, n \in Nat : v = Lock!Avg(a) /\ n = a.nr_acquired + 1
      BY <2>3, AvgType
    <3>2. PICK s, st : s = [b EXCEPT !.state = "ACQUIRED", !.prev = lock_time]
                       /\ st = [a EXCEPT !.nr_acquired = n, !.avg = v]
      OBVIOUS
    <3>3. lock_seq' = [lock_seq EXCEPT ![p] = s] /\ ls' = [ls EXCEPT ![l] = st]
      <4>1. lock_seq' = [lock_seq EXCEPT ![p] = s] /\ ls' = [ls EXCEPT ![l] = Lock!NowAcquired(a)]
        BY <1>1, <2>1, <2>2, <2>9, <3>2 DEF Lock!Acquired, Lock!Note
      <4>2. Lock!NowAcquired(a) = st
        BY <3>1, <3>2 DEF Lock!NowAcquired, Lock!Stats
      <4> QED
        BY <4>1, <4>2
    <3>4. s \in Lock!Seqs /\ s.state = "ACQUIRED" /\ s.prev = lock_time
      BY <1>5, <3>2 DEF Lock!Seqs, Lock!States
    <3>5. /\ st \in Lock!Stats /\ st.nr_readlock = a.nr_readlock /\ st.nr_trylock = a.nr_trylock
          /\ st.nr_acquired = n /\ st.total = a.total /\ st.min = a.min
          /\ st.max = a.max /\ st.discard = a.discard /\ st.avg = v
          /\ st.nr_contended = a.nr_contended
      BY <3>2 DEF Lock!Stats
    <3>6. st.avg = Lock!Avg(st)
      BY <3>1, <3>5 DEF Lock!Avg
    <3>7. ls'[l] = st /\ lock_seq'[p] = s
      BY <1>5, <3>3
    <3>8. ~gap'[l] => /\ st.nr_acquired - ls[l].nr_acquired = taken'[l] - taken[l]
          /\ taken'[l] \in Nat
                      /\ waits'[l] = waits[l] /\ waited'[l] = waited[l]
      <4> SUFFICES ASSUME ~gap'[l]
                   PROVE  /\ st.nr_acquired - ls[l].nr_acquired = taken'[l] - taken[l]
                          /\ taken'[l] \in Nat /\ waits'[l] = waits[l] /\ waited'[l] = waited[l]
        OBVIOUS
      <4>1. as /\ si = 0
        BY <2>4, <2>9
      <4>2. st.nr_acquired - ls[l].nr_acquired = taken'[l] - taken[l]
        BY <2>2, <2>3, <2>6, <3>1, <3>5, <4>1
      <4> QED
        BY <1>80, <2>6, <4>1, <4>2
    <3>9. Lock!StatFits(l)'
      <4>1. st.total = ls[l].total /\ st.min = ls[l].min /\ st.max = ls[l].max
        BY <2>2, <3>5
      <4> QED
        BY <1>14, <2>7, <3>5, <3>6, <3>7, <3>8, <4>1, LockCounted
    <3>10. Lock!SeqFits(p)'
      BY <1>1, <1>10, <1>11, <2>70, <3>4, <3>7 DEF Lock!SeqFits
    <3>11. st.nr_readlock = ls[l].nr_readlock /\ st.nr_trylock = ls[l].nr_trylock /\ ~st.discard
           /\ s.prev <= lock_time
      BY <1>5, <2>2, <2>3, <3>4, <3>5
    <3> QED
      BY <1>1, <1>6, <1>14, <2>1, <3>3, <3>4, <3>5, <3>9, <3>10, <3>11, Handles
  <2>10. CASE b.state = "CONTENDED"
    <3>1. PICK st : st = Lock!NowAcquired(Lock!Waited(ls[l], lock_time - b.prev))
      OBVIOUS
    <3>2. PICK s : s = [b EXCEPT !.state = "ACQUIRED", !.prev = lock_time]
      OBVIOUS
    <3>3. lock_seq' = [lock_seq EXCEPT ![p] = s] /\ ls' = [ls EXCEPT ![l] = st]
      BY <1>1, <2>1, <2>2, <2>10, <3>1, <3>2 DEF Lock!Acquired, Lock!Elapsed, Lock!Note
    <3>4. s \in Lock!Seqs /\ s.state = "ACQUIRED" /\ s.prev = lock_time
      BY <1>5, <3>2 DEF Lock!Seqs, Lock!States
    <3>5. ls'[l] = st /\ lock_seq'[p] = s
      BY <1>5, <3>3
    <3>6. ~gap'[l] => /\ 0 < b.prev /\ waits'[l] = waits[l] \cup {<<b.prev, lock_time>>}
                      /\ waited'[l] = waited[l] + (lock_time - b.prev) /\ taken'[l] = taken[l] + 1
      <4> SUFFICES ASSUME ~gap'[l]
                   PROVE  /\ 0 < b.prev /\ waits'[l] = waits[l] \cup {<<b.prev, lock_time>>}
                          /\ waited'[l] = waited[l] + (lock_time - b.prev)
                          /\ taken'[l] = taken[l] + 1
        OBVIOUS
      <4>1. as /\ si # 0 /\ lock_phase[p] = "waiting" /\ b.prev = si
        BY <2>4, <2>10
      <4>2. 0 < b.prev
        BY <2>3, <4>1
      <4> QED
        BY <1>14, <1>80, <2>6, <4>1, <4>2
    <3>7. /\ st \in Lock!Stats /\ ~st.discard /\ st.nr_readlock = ls[l].nr_readlock
          /\ st.nr_trylock = ls[l].nr_trylock /\ Lock!StatFits(l)'
      BY <1>3, <1>14, <2>3, <2>7, <3>1, <3>5, <3>6, WaitCounted
    <3>8. Lock!SeqFits(p)'
      BY <1>1, <1>10, <1>11, <2>70, <3>4, <3>5 DEF Lock!SeqFits
    <3>9. s.prev <= lock_time
      BY <1>5, <3>4
    <3> QED
      BY <1>1, <1>6, <1>14, <2>1, <3>3, <3>4, <3>7, <3>8, <3>9, Handles
  <2>11. CASE b.state \notin {"UNINITIALIZED", "ACQUIRING", "CONTENDED"}
    <3>1. Lock!Broken(p)
      BY <2>1, <2>2, <2>11 DEF Lock!Acquired
    <3>2. ~(lock_lost = 0 /\ ls[l].nr_readlock = 0 /\ ls[l].nr_trylock = 0)
      BY <2>2, <2>5, <2>11
    <3> QED
      BY <1>1, <2>1, <3>1, <3>2, Breaks
  <2> QED
    BY <2>8, <2>9, <2>10, <2>11
<1> QED
  BY <1>12, <1>13, <1>14
(* report_lock_release_event() *)
LEMMA ReleaseInv ==
  ASSUME Lock!LockConstants, Lock!LockInv, NEW p \in Lock!Pairs, Lock!LockRelease(p)
  PROVE  Lock!LockInv'
<1>1. PICK l \in LockNames : l = p[2]
  BY DEF Lock!Pairs
<1>2. PICK seen \in BOOLEAN : Lock!Emit(p, seen, Lock!Handled(p, Lock!Release(p)))
  BY DEF Lock!LockRelease
<1>3. /\ lock_phase[p] \in {"held", "reading"}
      /\ lock_phase' = [lock_phase EXCEPT ![p] = IF lock_depth[p] > 1 THEN "reading" ELSE "idle"]
      /\ UNCHANGED <<asked, lock_since, waits, waited, taken>>
  BY DEF Lock!LockRelease
<1>4. /\ Event(p, l, seen) /\ (seen => Lock!Handled(p, Lock!Release(p)))
  BY <1>1, <1>2 DEF Lock!Emit, Event
<1>5. /\ taken \in [LockNames -> Nat] /\ waited \in [LockNames -> Nat] /\ DOMAIN waits = LockNames
      /\ lock_time \in Nat /\ lock_time > 0 /\ asked \in [Lock!Pairs -> BOOLEAN]
      /\ lock_since \in [Lock!Pairs -> Nat]
      /\ \A k \in LockNames : \A w \in waits[k] : Lock!WaitOf(w) \in Nat
      /\ ls \in [LockNames -> Lock!Stats] /\ lock_seq \in [Lock!Pairs -> Lock!Seqs]
      /\ lock_since[p] < lock_time
  BY DEF Lock!LockInv, Lock!TypeOK
<1>6. PICK ph \in Lock!Phases : ph \in {"idle", "reading"}
      /\ lock_phase' = [lock_phase EXCEPT ![p] = ph]
  BY <1>3 DEF Lock!Phases
<1>7. PICK as \in BOOLEAN : as = asked[p]
  BY <1>5
<1>8. PICK si \in Nat : si = lock_since[p] /\ si < lock_time
  BY <1>5
<1>9. Moved(p, l, seen, ph, as, si)
  <2>1. lock_phase' = [lock_phase EXCEPT ![p] = ph] /\ si <= lock_time
    BY <1>5, <1>6, <1>8
  <2>2. asked' = [asked EXCEPT ![p] = as] /\ lock_since' = [lock_since EXCEPT ![p] = si]
    BY <1>3, <1>5, <1>7, <1>8, SameFunction
  <2>3. /\ DOMAIN waits' = LockNames /\ waited' \in [LockNames -> Nat]
        /\ taken' \in [LockNames -> Nat]
        /\ \A k \in LockNames \ {l} : waits'[k] = waits[k] /\ waited'[k] = waited[k]
           /\ taken'[k] = taken[k]
        /\ \A w \in waits'[l] : Lock!WaitOf(w) \in Nat
    BY <1>3, <1>5
  <2> QED
    BY <1>1, <1>4, <2>1, <2>2, <2>3, EventMoves, ZenonT(60)
<1>10. PICK m \in Nat, g \in BOOLEAN :
         /\ m = (IF seen THEN 0 ELSE missed[p] + 1) /\ g = (gap[l] \/ (seen /\ missed[p] >= 3))
         /\ lock_phase'[p] = ph /\ asked'[p] = as /\ lock_since'[p] = si /\ missed'[p] = m
         /\ gap'[l] = g
  BY <1>9 DEF Moved
<1>11. Lock!SeqFits(p) /\ Lock!InStep(p) /\ ~Lock!Asking(p)' /\ ~Lock!Asking(p)
  BY <1>3, <1>6, <1>10 DEF Lock!LockInv, Lock!Asking
<1>110. ASSUME ~gap[l], ~ls[l].discard, ~as PROVE si = 0
  BY <1>1, <1>7, <1>8, <1>11, <1>110 DEF Lock!SeqFits
<1>12. CASE ~seen
  <2>1. seen = FALSE
    BY <1>12
  <2>2. lock_seq' = lock_seq /\ ls' = ls
    BY <1>4, <1>12 DEF Event
  <2>3. Lock!SeqFits(p)'
    <3>1. /\ gap'[l] = gap[l] /\ missed'[p] = missed[p] + 1 /\ missed[p] \in Nat /\ asked'[p] = as
          /\ lock_since'[p] = si
      BY <1>10, <1>12 DEF Lock!LockInv, Lock!TypeOK
    <3>2. SUFFICES ASSUME ~ls[l].discard, ~gap[l]
                   PROVE  lock_seq[p].state \in {"ACQUIRING", "CONTENDED"} => missed[p] + 1 >= 2
      BY <1>1, <1>6, <1>10, <1>11, <1>110, <2>2, <3>1, <3>2 DEF Lock!SeqFits
    <3>3. lock_seq[p].state \in {"ACQUIRING", "CONTENDED"} => missed[p] >= 1
      <4>1. missed[p] >= 2 => missed[p] >= 1
        BY <3>1
      <4> QED
        BY <1>1, <1>3, <1>11, <3>2, <4>1 DEF Lock!SeqFits
    <3>4. missed[p] >= 1 => missed[p] + 1 >= 2
      BY <3>1
    <3> QED
      BY <3>3, <3>4, ZenonT(60)
  <2>4. UNCHANGED <<waits, waited, taken>>
    BY <1>3
  <2> QED
    BY <1>1, <1>4, <1>9, <2>1, <2>3, <2>4, EventMissed
<1>13. CASE seen /\ ls[l].discard
  <2>1. seen = TRUE
    BY <1>13
  <2>2. lock_seq' = lock_seq /\ ls' = ls
    BY <1>1, <1>4, <1>13 DEF Lock!Handled
  <2>3. PICK s \in Lock!Seqs, st \in Lock!Stats :
           /\ lock_seq' = [lock_seq EXCEPT ![p] = s] /\ ls' = [ls EXCEPT ![l] = st]
           /\ s.prev <= lock_time /\ st.nr_readlock = ls[l].nr_readlock
           /\ st.nr_trylock = ls[l].nr_trylock
           /\ st.discard = ls[l].discard
    BY <2>2, LockKept
  <2>4. st.discard
    BY <1>13, <2>3
  <2> QED
    BY <1>1, <1>4, <1>9, <1>13, <2>1, <2>3, <2>4, Ignored
<1>14. CASE seen /\ ~ls[l].discard
  <2>0. seen = TRUE
    BY <1>14
  <2>1. Lock!Release(p) /\ Event(p, l, TRUE) /\ Moved(p, l, TRUE, ph, as, si)
    BY <1>1, <1>4, <1>9, <1>14, <2>0 DEF Lock!Handled
  <2>2. PICK a \in Lock!Stats, b \in Lock!Seqs : a = ls[l] /\ b = lock_seq[p]
    BY <1>5
  <2>3. /\ a.nr_release \in Nat /\ a.nr_acquired \in Nat /\ a.avg = Lock!Avg(a) /\ ~a.discard
        /\ b.prev \in Nat /\ b.prev < lock_time /\ b.read_count \in Nat
    BY <1>14, <2>2 DEF Lock!Stats, Lock!Seqs, Lock!LockInv, Lock!TypeOK, Lock!StatFits
  <2>5. lock_lost = 0 /\ ls[l].nr_readlock = 0 /\ ls[l].nr_trylock = 0 =>
          b.state \in {"ACQUIRED", "UNINITIALIZED"}
    BY <1>1, <1>11, <2>2 DEF Lock!InStep
  <2>6. taken'[l] - taken[l] = 0 /\ taken'[l] \in Nat /\ waits'[l] = waits[l]
        /\ waited'[l] = waited[l]
    BY <1>3, <1>5
  <2>7. gap[l] => gap'[l]
    BY <1>10
  <2>70. ~gap'[l] /\ ~as => lock_since'[p] = 0
    BY <1>10, <1>14, <1>110, <2>7
  <2>8. ASSUME b.state = "UNINITIALIZED" \/ b.state = "READ_ACQUIRED", lock_seq' = lock_seq,
               ls' = ls
        PROVE  Lock!LockInv'
    <3>1. lock_seq' = lock_seq /\ ls' = ls
      BY <2>8
    <3>2. PICK s \in Lock!Seqs, st \in Lock!Stats :
             /\ lock_seq' = [lock_seq EXCEPT ![p] = s] /\ ls' = [ls EXCEPT ![l] = st]
             /\ s.prev <= lock_time
             /\ st.nr_readlock = ls[l].nr_readlock /\ st.nr_trylock = ls[l].nr_trylock
             /\ st.nr_acquired = ls[l].nr_acquired /\ st.total = ls[l].total /\ st.min = ls[l].min
             /\ st.max = ls[l].max /\ st.discard = ls[l].discard
                /\ (~st.discard => st.avg = Lock!Avg(st))
      BY <3>1, LockKept
    <3>3. ls'[l] = st /\ lock_seq'[p] = s /\ s.state = b.state /\ ~st.discard
      BY <1>5, <1>14, <2>2, <3>1, <3>2
    <3>4. st.nr_acquired \in Nat
      BY DEF Lock!Stats
    <3>5. st.nr_acquired - ls[l].nr_acquired = taken'[l] - taken[l]
      BY <2>6, <3>2, <3>4
    <3>6. Lock!StatFits(l)'
      BY <1>14, <2>6, <2>7, <3>2, <3>3, <3>5, LockCounted
    <3>7. s.state \notin {"ACQUIRING", "CONTENDED"}
      BY <2>8, <3>3
    <3>8. Lock!SeqFits(p)'
      BY <1>1, <1>6, <1>10, <1>11, <2>70, <3>3, <3>7 DEF Lock!SeqFits
    <3>9. lock_lost = 0 /\ ls[l].nr_readlock = 0 /\ ls[l].nr_trylock = 0
          => s.state = "UNINITIALIZED"
      BY <2>5, <2>8, <3>3
    <3>10. /\ lock_seq' = [lock_seq EXCEPT ![p] = s] /\ ls' = [ls EXCEPT ![l] = st]
           /\ s.prev <= lock_time
           /\ st.nr_readlock = ls[l].nr_readlock /\ st.nr_trylock = ls[l].nr_trylock /\ ~st.discard
      BY <3>2, <3>3
    <3> HIDE <2>8
    <3> QED
      BY <1>1, <1>14, <2>1, <3>10, <3>6, <3>8, <3>9, Handles
  <2>9. ASSUME NEW s \in Lock!Seqs, s.prev <= lock_time,
               s.state \in {"UNINITIALIZED", "READ_ACQUIRED"},
               Lock!Note(p, s, [a EXCEPT !.nr_release = @ + 1]),
               lock_lost = 0 /\ ls[l].nr_readlock = 0 /\ ls[l].nr_trylock = 0
               => s.state = "UNINITIALIZED"
        PROVE  Lock!LockInv'
    <3>1. PICK st : st = [a EXCEPT !.nr_release = @ + 1]
      OBVIOUS
    <3>2. lock_seq' = [lock_seq EXCEPT ![p] = s] /\ ls' = [ls EXCEPT ![l] = st]
      BY <1>1, <2>9, <3>1 DEF Lock!Note
    <3>3. /\ st \in Lock!Stats /\ st.nr_readlock = a.nr_readlock /\ st.nr_trylock = a.nr_trylock
          /\ st.nr_acquired = a.nr_acquired /\ st.total = a.total /\ st.min = a.min
          /\ st.max = a.max /\ st.discard = a.discard /\ st.avg = a.avg
          /\ st.nr_contended = a.nr_contended
      BY <2>3, <3>1 DEF Lock!Stats
    <3>4. st.avg = Lock!Avg(st) /\ ~st.discard
      BY <2>3, <3>3 DEF Lock!Avg
    <3>5. ls'[l] = st /\ lock_seq'[p] = s
      BY <1>5, <3>2
    <3>6. st.nr_acquired - ls[l].nr_acquired = taken'[l] - taken[l]
      BY <2>2, <2>3, <2>6, <3>3
    <3>7. Lock!StatFits(l)'
      <4>1. st.total = ls[l].total /\ st.min = ls[l].min /\ st.max = ls[l].max
        BY <2>2, <3>3
      <4> QED
        BY <1>14, <2>6, <2>7, <3>3, <3>4, <3>5, <3>6, <4>1, LockCounted
    <3>8. Lock!SeqFits(p)'
      BY <1>1, <1>6, <1>10, <1>11, <2>9, <2>70, <3>5 DEF Lock!SeqFits
    <3>9. st.nr_readlock = ls[l].nr_readlock /\ st.nr_trylock = ls[l].nr_trylock
      BY <2>2, <3>3
    <3> QED
      BY <1>1, <1>14, <2>1, <2>9, <3>2, <3>3, <3>4, <3>7, <3>8, <3>9, Handles
  <2>10. Lock!NoSeq \in Lock!Seqs /\ Lock!NoSeq.prev <= lock_time
         /\ Lock!NoSeq.state = "UNINITIALIZED"
    BY <1>5 DEF Lock!NoSeq, Lock!Seqs, Lock!States
  <2>11. CASE b.state = "UNINITIALIZED"
    <3>1. lock_seq' = lock_seq /\ ls' = ls
      BY <2>1, <2>2, <2>11 DEF Lock!Release
    <3> QED
      BY <2>8, <2>11, <3>1
  <2>12. CASE b.state = "ACQUIRED"
    <3>1. Lock!Note(p, Lock!NoSeq, [a EXCEPT !.nr_release = @ + 1])
      BY <1>1, <2>1, <2>2, <2>12 DEF Lock!Release, Lock!AfterRelease
    <3> QED
      BY <2>9, <2>10, <3>1
  <2>13. CASE b.state = "READ_ACQUIRED" /\ b.read_count = 0
    <3>1. lock_seq' = lock_seq /\ ls' = ls
      BY <2>1, <2>2, <2>13 DEF Lock!Release
    <3> QED
      BY <2>8, <2>13, <3>1
  <2>14. CASE b.state = "READ_ACQUIRED" /\ b.read_count = 1
    <3>1. PICK s : s = [b EXCEPT !.read_count = 0]
      OBVIOUS
    <3>2. Lock!Note(p, s, [a EXCEPT !.nr_release = @ + 1])
      BY <1>1, <2>1, <2>2, <2>14, <3>1 DEF Lock!Release
    <3>3. s \in Lock!Seqs /\ s.prev = b.prev /\ s.state = "READ_ACQUIRED"
      BY <2>14, <3>1 DEF Lock!Seqs
    <3>4. s.prev <= lock_time
      BY <1>5, <2>3, <3>3
    <3>5. ~(lock_lost = 0 /\ ls[l].nr_readlock = 0 /\ ls[l].nr_trylock = 0)
      BY <2>5, <2>14
    <3> QED
      BY <2>9, <3>2, <3>3, <3>4, <3>5
  <2>15. CASE b.state = "READ_ACQUIRED" /\ b.read_count > 1
    <3>1. Lock!Note(p, Lock!NoSeq, [a EXCEPT !.nr_release = @ + 1])
      BY <1>1, <2>1, <2>2, <2>15 DEF Lock!Release
    <3> QED
      BY <2>9, <2>10, <3>1
  <2>16. CASE b.state \notin {"UNINITIALIZED", "ACQUIRED", "READ_ACQUIRED"}
    <3>1. Lock!Broken(p)
      BY <2>1, <2>2, <2>16 DEF Lock!Release
    <3>2. ~(lock_lost = 0 /\ ls[l].nr_readlock = 0 /\ ls[l].nr_trylock = 0)
      BY <2>5, <2>16
    <3> QED
      BY <1>1, <2>1, <3>1, <3>2, Breaks
  <2> QED
    BY <2>3, <2>11, <2>12, <2>13, <2>14, <2>15, <2>16
<1> QED
  BY <1>12, <1>13, <1>14

(* The first state. *)
LEMMA LockInitInv ==
  ASSUME Lock!LockConstants, Lock!Init
  PROVE  Lock!LockInv
<1>1. /\ lock_phase \in [Lock!Pairs -> Midway] /\ asked = [p \in Lock!Pairs |-> FALSE]
      /\ lock_since = [p \in Lock!Pairs |-> 0]
      /\ lock_time = 1 /\ lock_lost = 0 /\ lock_seq = [p \in Lock!Pairs |-> Lock!NoSeq]
      /\ ls = [l \in LockNames |-> Lock!NoStat]
      /\ waits = [l \in LockNames |-> {}] /\ waited = [l \in LockNames |-> 0]
      /\ taken = [l \in LockNames |-> 0]
      /\ missed = [p \in Lock!Pairs |-> 0] /\ gap = [l \in LockNames |-> FALSE]
  BY DEF Lock!Init, Lock!Pairs
<1>2. Lock!NoSeq \in Lock!Seqs /\ Lock!NoSeq.state = "UNINITIALIZED" /\ Lock!NoSeq.prev = 0
  BY DEF Lock!NoSeq, Lock!Seqs, Lock!States
<1>3. /\ Lock!NoStat \in Lock!Stats /\ ~Lock!NoStat.discard /\ Lock!NoStat.avg = 0
      /\ Lock!NoStat.nr_acquired = 0 /\ Lock!NoStat.total = 0
      /\ Lock!NoStat.nr_contended = 0 /\ Lock!NoStat.min = Lock!Far /\ Lock!NoStat.max = 0
  BY DEF Lock!NoStat, Lock!Stats, Lock!Far, Lock!LockConstants
<1>4. lock_phase \in [Lock!Pairs -> Lock!Phases]
  BY <1>1 DEF Lock!LockConstants
<1>5. Lock!TypeOK
  <2>1. /\ lock_seq \in [Lock!Pairs -> Lock!Seqs] /\ ls \in [LockNames -> Lock!Stats]
           /\ \A p \in Lock!Pairs : lock_seq[p].prev < lock_time
    BY <1>1, <1>2, <1>3
  <2>2. /\ asked \in [Lock!Pairs -> BOOLEAN] /\ missed \in [Lock!Pairs -> Nat]
        /\ lock_since \in [Lock!Pairs -> Nat]
        /\ \A p \in Lock!Pairs : lock_since[p] < lock_time
    BY <1>1
  <2>3. /\ waited \in [LockNames -> Nat] /\ taken \in [LockNames -> Nat]
        /\ gap \in [LockNames -> BOOLEAN]
        /\ DOMAIN waits = LockNames /\ \A l \in LockNames : waits[l] = {}
    BY <1>1
  <2>4. lock_time \in Nat /\ lock_time > 0 /\ lock_lost \in Nat
    BY <1>1
  <2> QED
    BY <1>4, <2>1, <2>2, <2>3, <2>4 DEF Lock!TypeOK
<1>6. ASSUME NEW p \in Lock!Pairs PROVE Lock!SeqFits(p) /\ Lock!InStep(p)
  <2>1. PICK l \in LockNames : l = p[2]
    BY DEF Lock!Pairs
  <2>2. /\ ~asked[p] /\ lock_since[p] = 0 /\ lock_seq[p].state = "UNINITIALIZED" /\ missed[p] = 0
        /\ ~gap[l]
        /\ ~ls[l].discard
    BY <1>1, <1>2, <1>3
  <2> QED
    BY <2>1, <2>2 DEF Lock!SeqFits, Lock!InStep, Lock!Asking
<1>7. ASSUME NEW l \in LockNames PROVE Lock!StatFits(l)
  <2>1. ls[l] = Lock!NoStat /\ waits[l] = {} /\ waited[l] = 0 /\ taken[l] = 0
    BY <1>1
  <2> QED
    BY <1>3, <2>1 DEF Lock!StatFits, Lock!Avg
<1> QED
  BY <1>5, <1>6, <1>7 DEF Lock!LockInv

(* Every step. *)
LEMMA LockNextInv ==
  ASSUME Lock!LockConstants, Lock!LockInv, [Lock!Next]_Lock!vars
  PROVE  Lock!LockInv'
<1>1. CASE UNCHANGED Lock!vars
  <2>1. /\ UNCHANGED <<lock_phase, asked, lock_since, lock_time, lock_lost, lock_seq, ls, waits,
           waited, taken, missed, gap>>
        /\ Lock!Pairs' = Lock!Pairs /\ Lock!Seqs' = Lock!Seqs /\ Lock!Stats' = Lock!Stats
        /\ Lock!Phases' = Lock!Phases
    BY <1>1 DEF Lock!vars, Lock!Pairs, Lock!Seqs, Lock!Stats, Lock!Phases, Lock!States
  <2>2. Lock!TypeOK'
    BY <2>1 DEF Lock!LockInv, Lock!TypeOK, Lock!WaitOf
  <2>3. \A p \in Lock!Pairs : Lock!SeqFits(p)' /\ Lock!InStep(p)'
    BY <2>1 DEF Lock!LockInv, Lock!SeqFits, Lock!InStep, Lock!Asking
  <2>4. \A l \in LockNames : Lock!StatFits(l)'
    BY <2>1 DEF Lock!LockInv, Lock!StatFits, Lock!Avg, Lock!WaitOf, Lock!Far
  <2> QED
    BY <2>1, <2>2, <2>3, <2>4 DEF Lock!LockInv
<1>2. CASE Lock!Next
  <2>1. PICK p \in Lock!Pairs :
          Lock!LockAcquire(p) \/ Lock!LockContended(p) \/ Lock!LockAcquired(p) \/ Lock!LockRelease(p)
    BY <1>2 DEF Lock!Next, Lock!Pairs
  <2> QED
    BY <2>1, AcquireInv, ContendedInv, AcquiredInv, ReleaseInv
<1> QED
  BY <1>1, <1>2

(* The properties follow. *)
LEMMA LockInvHolds ==
  ASSUME Lock!LockConstants, Lock!LockInv
  PROVE  Lock!WaitsAreCounted /\ Lock!TakenAreCounted /\ Lock!ExclusiveIsReported
<1>1. Lock!WaitsAreCounted /\ Lock!TakenAreCounted
  BY DEF Lock!LockInv, Lock!StatFits, Lock!WaitsAreCounted, Lock!TakenAreCounted
<1>2. ASSUME NEW l \in LockNames, lock_lost = 0, ls[l].nr_readlock = 0, ls[l].nr_trylock = 0
      PROVE  ~ls[l].discard
  <2>1. PICK t \in LockThreads : TRUE
    BY DEF Lock!LockConstants
  <2>2. <<t, l>> \in Lock!Pairs /\ <<t, l>>[2] = l
    BY DEF Lock!Pairs
  <2>3. Lock!InStep(<<t, l>>)
    BY <2>2 DEF Lock!LockInv
  <2> QED
    BY <1>2, <2>2, <2>3 DEF Lock!InStep
<1>3. Lock!ExclusiveIsReported
  BY <1>2 DEF Lock!ExclusiveIsReported
<1> QED
  BY <1>1, <1>3

(* perf lock, for any threads and locks and any number of events: the      *)
(* waits and acquisitions that report_lock_acquired_event() and its like   *)
(* count are those that were seen, or the lock is not reported; only three *)
(* events of a thread and lock lost in a row may go unnoticed.  A lock     *)
(* that is only taken exclusively is reported if none was lost.            *)
THEOREM LocksCounted == Lock!Spec => []LocksAreCounted
<1>1. Lock!Init => Lock!LockInv
  BY LockInitInv, ReportsAssumption
<1>2. Lock!LockInv /\ [Lock!Next]_Lock!vars => Lock!LockInv'
  BY LockNextInv, ReportsAssumption
<1>3. Lock!LockInv => LocksAreCounted
  BY LockInvHolds, ReportsAssumption DEF Lock!LockInv, LocksAreCounted
<1> QED
  BY <1>1, <1>2, <1>3, PTL DEF Lock!Spec
=============================================================================
