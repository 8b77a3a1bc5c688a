----------------------------- MODULE MapGroups -----------------------------
(* struct map_groups of tools/perf/util/map.c: which file an address of a   *)
(* process belongs to, kept up to date by PERF_RECORD_MMAP and              *)
(* PERF_RECORD_FORK.  The kernel says nothing of munmap() and of what an    *)
(* exec() unmaps, so the maps hold more than the process has, and a new map *)
(* cuts what it covers out of the old ones.  Addresses are counted in       *)
(* pages.  The two types of maps (functions, variables) are two trees       *)
(* treated alike; this is one of them.                                      *)
EXTENDS Integers, FiniteSets

CONSTANTS
  Procs,       \* process ids
  Files,       \* what can be mapped
  Anon,        \* the files, such as //anon, mapped with identity__map_ip()
  Addresses,   \* page addresses of a process
  Offsets,     \* page offsets into a file
  MayFail,     \* map__clone() may run out of memory
  MaxEvents    \* bound on the MMAP records of a behaviour

ASSUME AddressAssumption == Addresses \subseteq Nat /\ Offsets \subseteq Nat

VARIABLES
  maps,        \* thread->mg->maps[type] of every process that perf knows
  space,       \* the address spaces, as the kernel has them
  live,        \* the processes that run
  ever,        \* what was mapped where since the process was forked
  nevents

vars == <<maps, space, live, ever, nevents>>

Hole == [file |-> "hole", off |-> 0]

Cells == [file : Files, off : Int] \cup {Hole}

(* struct map: the pages from start up to, and without, end *)
Map == [start : Nat, end : Nat, pgoff : Int, dso : Files]

Within(pg, map) == map.start <= pg /\ pg < map.end

(* map__map_ip() or identity__map_ip(), as map__new() chose for the file *)
map_ip(map, ip) == IF map.dso \in Anon THEN ip ELSE ip - map.start + map.pgoff

map__overlap(l, r) == IF l.start > r.start THEN r.end > l.start ELSE l.end > r.start

(* The parts of pos that the new map leaves, clones of pos with another end *)
(* or another start                                                         *)
Before(pos, map) == IF map.start > pos.start THEN {[pos EXCEPT !.end = map.start]} ELSE {}

After_Missing(pos, map) == {}

After(pos, map) == IF map.end < pos.end THEN {[pos EXCEPT !.start = map.end]} ELSE {}

(* maps__fixup_overlappings() *)
maps__fixup_overlappings(mg, map) ==
  {pos \in mg : ~map__overlap(pos, map)}
    \cup UNION {Before(pos, map) \cup After(pos, map) : pos \in {m \in mg : map__overlap(m, map)}}

(* What it leaves when map__clone() fails for fail: the maps in front of    *)
(* fail are cut, fail is erased, with its first part kept if it was the     *)
(* second clone that failed, and the maps behind it are not looked at.      *)
FixupFailed(mg, map) ==
  LET cut(fail) == {pos \in mg : map__overlap(pos, map) /\ pos.start < fail.start}
      left(fail) == (mg \ (cut(fail) \cup {fail}))
                      \cup UNION {Before(pos, map) \cup After(pos, map) : pos \in cut(fail)}
      overlapped == {pos \in mg : map__overlap(pos, map)}
  IN {left(fail) : fail \in {pos \in overlapped : Before(pos, map) \cup After(pos, map) # {}}}
       \cup {left(fail) \cup Before(fail, map) :
               fail \in {pos \in overlapped : After(pos, map) # {}}}

(* maps__find(): the map it comes to.  Where maps overlap the tree decides  *)
(* which one that is, and may lead past all of them.                        *)
maps__find(mg, ip) == {map \in mg : Within(ip, map)}

-----------------------------------------------------------------------------

Init ==
  /\ live \in {{p} : p \in Procs}
  /\ maps = [p \in Procs |-> {}]
  /\ space = [p \in Procs |-> [a \in Addresses |-> Hole]]
  /\ ever = [p \in Procs |-> {}]
  /\ nevents = 0

Mapped(map) == {<<a, map.dso>> : a \in {b \in Addresses : Within(b, map)}}

(* The process maps a file, in place of what it had there, and the MMAP     *)
(* record is applied: thread__insert_map() inserts the map whatever the     *)
(* fixup returned.                                                          *)
Mmap(p, map) ==
  /\ p \in live
  /\ map.start < map.end
  /\ nevents < MaxEvents
  /\ nevents' = nevents + 1
  /\ space' = [space EXCEPT ![p] = [a \in Addresses |->
                  IF Within(a, map) THEN [file |-> map.dso, off |-> map_ip(map, a)] ELSE @[a]]]
  /\ \/ maps' = [maps EXCEPT ![p] = maps__fixup_overlappings(@, map) \cup {map}]
     \/ /\ MayFail
        /\ \E left \in FixupFailed(maps[p], map) : maps' = [maps EXCEPT ![p] = left \cup {map}]
  /\ ever' = [ever EXCEPT ![p] = @ \cup Mapped(map)]
  /\ UNCHANGED live

(* munmap(), of which there is no record *)
Munmap(p, from, to) ==
  /\ p \in live
  /\ \E a \in Addresses : from <= a /\ a < to /\ space[p][a] # Hole
  /\ space' = [space EXCEPT ![p] = [a \in Addresses |->
                  IF from <= a /\ a < to THEN Hole ELSE @[a]]]
  /\ UNCHANGED <<maps, live, ever, nevents>>

(* exec(): a COMM record, which leaves the maps as they are *)
Exec(p) ==
  /\ p \in live
  /\ space' = [space EXCEPT ![p] = [a \in Addresses |-> Hole]]
  /\ UNCHANGED <<maps, live, ever, nevents>>

(* fork(): the thread perf may still have of an earlier process c is        *)
(* removed, and the new one gets copies of the parent's maps.               *)
(* map_groups__clone() may fail half way.                                   *)
map_groups__clone(p, c) == maps[p]

Fork(p, c) ==
  /\ p \in live /\ c \notin live
  /\ live' = live \cup {c}
  /\ space' = [space EXCEPT ![c] = space[p]]
  /\ \/ maps' = [maps EXCEPT ![c] = map_groups__clone(p, c)]
     \/ /\ MayFail
        /\ \E fail \in maps[p] :
             maps' = [maps EXCEPT ![c] = {m \in maps[p] : m.start < fail.start}]
  /\ ever' = [ever EXCEPT ![c] = ever[p]]
  /\ UNCHANGED nevents

(* exit(): machine__process_exit_event() keeps the thread and its maps. *)
Exit(p) ==
  /\ p \in live
  /\ Cardinality(live) > 1
  /\ live' = live \ {p}
  /\ space' = [space EXCEPT ![p] = [a \in Addresses |-> Hole]]
  /\ UNCHANGED <<maps, ever, nevents>>

Next ==
  \/ \E p \in Procs, s \in Addresses, e \in Addresses, o \in Offsets, f \in Files :
       Mmap(p, [start |-> s, end |-> e, pgoff |-> o, dso |-> f])
  \/ \E p \in Procs, from \in Addresses, to \in Addresses : Munmap(p, from, to)
  \/ \E p \in Procs : Exec(p)
  \/ \E p \in Procs, c \in Procs : Fork(p, c)
  \/ \E p \in Procs : Exit(p)

Spec == Init /\ [][Next]_vars

-----------------------------------------------------------------------------

TypeOK ==
  /\ maps \in [Procs -> SUBSET Map]
  /\ space \in [Procs -> [Addresses -> Cells]]
  /\ live \subseteq Procs
  /\ ever \in [Procs -> SUBSET (Addresses \X Files)]
  /\ nevents \in Nat

(* maps__find() descends by start and end and is only right in a tree whose *)
(* maps are disjoint: no two maps of a process share an address, whatever   *)
(* was mapped over what, and no map is empty.                               *)
NoOverlap ==
  \A p \in Procs : \A l, r \in maps[p] :
    l.start < l.end /\ (l # r => ~map__overlap(l, r))

(* An address that a running process has mapped is found, and in the file   *)
(* it belongs to, although munmap() and exec() are not recorded.            *)
RightFile ==
  \A p \in live : \A a \in Addresses :
    space[p][a] # Hole =>
      /\ maps__find(maps[p], a) # {}
      /\ \A m \in maps__find(maps[p], a) : m.dso = space[p][a].file

(* Also when memory runs out half way, maps__find() never names a file that *)
(* was not mapped at that address in this process or in the parents it was  *)
(* copied from.                                                             *)
FoundWasMapped ==
  \A p \in Procs : \A a \in Addresses : \A m \in maps__find(maps[p], a) :
    <<a, m.dso>> \in ever[p]

(* map_ip() takes an address to the place in the file that is mapped there. *)
RightOffset ==
  \A p \in live : \A a \in Addresses :
    space[p][a] # Hole =>
      \A m \in maps__find(maps[p], a) : map_ip(m, a) = space[p][a].off
=============================================================================
