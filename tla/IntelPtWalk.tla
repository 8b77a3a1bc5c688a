---------------------------- MODULE IntelPtWalk -----------------------------
(* intel_pt_walk_next_insn() of tools/perf/util/intel-pt.c: the decoder     *)
(* asks how far the code runs from an address to the next branch, to a      *)
(* given address or for a number of instructions.  The answer is found by   *)
(* decoding the DSO, map by map, or in the auxtrace_cache of the DSO.       *)
EXTENDS Naturals, Sequences, FiniteSets

CONSTANTS
  Code,        \* Code[dso][offset]: [length, branch], where an instruction is
  ThreadMaps,  \* of each thread, the set of its maps [start, end, dso, pgoff],
               \* which do not overlap; those of a DSO show the same part of it
  MaxInsnCnts, \* values of max_insn_cnt; 0 for no maximum
  limit        \* of the caches

Binaries == DOMAIN Code
PtThreads == DOMAIN ThreadMaps

VARIABLES
  caches,      \* dso->auxtrace_cache
  query,       \* the last call: [thread, ip, to_ip, max]
  result       \* what it returned

vars == <<caches, query, result>>

(* struct intel_pt_cache_entry *)
EntryValue == [insn_cnt : Nat, byte_cnt : Nat, insn : [length : Nat, branch : BOOLEAN]]
Cache(d) == INSTANCE AuxCache WITH Keys <- DOMAIN Code[d], Values <- EntryValue,
                                   cache <- caches[d]

(* thread__find_addr_map() and map->map_ip() *)
MapsAt(t, ip) == {m \in ThreadMaps[t] : m.start <= ip /\ ip < m.end}
map_ip(m, ip) == ip - m.start + m.pgoff

Error == [err |-> TRUE]
Stop(ip, insn_cnt, insn) ==
  [err |-> FALSE, ip |-> ip, insn_cnt |-> insn_cnt, insn |-> insn, cacheable |-> FALSE]

(* The two loops of intel_pt_walk_next_insn() from an address within map m, *)
(* behind insn_cnt instructions; one_map as in the code.                    *)
RECURSIVE Decode(_, _, _, _, _)
Decode(q, m, ip, insn_cnt, one_map) ==
  LET offset == map_ip(m, ip)
  IN IF offset \notin DOMAIN Code[m.dso] THEN Error
     ELSE LET insn == Code[m.dso][offset]
              next == ip + insn.length
          IN CASE insn.branch -> [Stop(ip, insn_cnt + 1, insn) EXCEPT !.cacheable = one_map]
               [] ~insn.branch /\ q.max # 0 /\ insn_cnt + 1 >= q.max -> Stop(ip, insn_cnt + 1, insn)
               [] OTHER ->
                    IF q.to_ip # 0 /\ next = q.to_ip THEN Stop(next, insn_cnt + 1, insn)
                    ELSE IF next < m.end THEN Decode(q, m, next, insn_cnt + 1, one_map)
                    ELSE IF MapsAt(q.thread, next) = {} THEN Error
                    ELSE Decode(q, CHOOSE n \in MapsAt(q.thread, next) : TRUE,
                                next, insn_cnt + 1, FALSE)

NoInsn == [length |-> 0, branch |-> FALSE]

(* The walk without a cache *)
Uncached(q) ==
  IF q.to_ip # 0 /\ q.ip = q.to_ip THEN Stop(q.ip, 0, NoInsn)
  ELSE IF MapsAt(q.thread, q.ip) = {} THEN Error
  ELSE Decode(q, CHOOSE m \in MapsAt(q.thread, q.ip) : TRUE, q.ip, 0, TRUE)

NoQuery == [thread |-> CHOOSE t \in PtThreads : TRUE, ip |-> 0, to_ip |-> 0, max |-> 0]

Init ==
  /\ caches = [d \in Binaries |-> [entries |-> <<>>, cnt |-> 0]]
  /\ query = NoQuery /\ result = Error

(* The lookup in front of the walk: not with a to_ip, and an entry that     *)
(* goes beyond the maximum is not used.                                     *)
Cached_ToIp(q, m) ==
  LET offset == map_ip(m, q.ip)
  IN /\ Cache(m.dso)!Found(caches[m.dso], offset)
     /\ q.max # 0 =>
          Cache(m.dso)!auxtrace_cache__lookup(caches[m.dso], offset).insn_cnt <= q.max

Cached(q, m) ==
  LET offset == map_ip(m, q.ip)
  IN /\ q.to_ip = 0
     /\ Cache(m.dso)!Found(caches[m.dso], offset)
     /\ q.max # 0 =>
          Cache(m.dso)!auxtrace_cache__lookup(caches[m.dso], offset).insn_cnt <= q.max

FromCache(q, m) ==
  LET e == Cache(m.dso)!auxtrace_cache__lookup(caches[m.dso], map_ip(m, q.ip))
  IN [Stop(q.ip + e.byte_cnt, e.insn_cnt, e.insn) EXCEPT !.cacheable = TRUE]

(* out: what is added to the cache.  With a to_ip there was no lookup, so   *)
(* there is one now.                                                        *)
AddedToCache(q, m, r) ==
  /\ ~r.err /\ r.cacheable
  /\ q.to_ip = 0 \/ ~Cache(m.dso)!Found(caches[m.dso], map_ip(m, q.ip))

(* intel_pt_cache_add(), whose failure is ignored *)
intel_pt_cache_add(q, m, r) ==
  LET entry == [key |-> map_ip(m, q.ip),
                value |-> [insn_cnt |-> r.insn_cnt, byte_cnt |-> r.ip - q.ip, insn |-> r.insn]]
  IN \/ caches' = [caches EXCEPT ![m.dso] = Cache(m.dso)!auxtrace_cache__add(@, entry)]
     \/ UNCHANGED caches

intel_pt_walk_next_insn(q) ==
  /\ query' = q
  /\ IF MapsAt(q.thread, q.ip) = {} \/ q.ip = q.to_ip
     THEN result' = Uncached(q) /\ UNCHANGED caches
     ELSE LET m == CHOOSE n \in MapsAt(q.thread, q.ip) : TRUE
          IN IF Cached(q, m)
             THEN result' = FromCache(q, m) /\ UNCHANGED caches
             ELSE /\ result' = Uncached(q)
                  /\ IF AddedToCache(q, m, Uncached(q))
                     THEN intel_pt_cache_add(q, m, Uncached(q))
                     ELSE UNCHANGED caches

(* Addresses the decoder asks about: any in the thread's maps.             *)
Addresses(t) == UNION {m.start .. m.end - 1 : m \in ThreadMaps[t]}

Next ==
  \E t \in PtThreads : \E ip \in Addresses(t), to_ip \in Addresses(t) \union {0}, max \in MaxInsnCnts :
    intel_pt_walk_next_insn([thread |-> t, ip |-> ip, to_ip |-> to_ip, max |-> max])

Spec == Init /\ [][Next]_vars

-----------------------------------------------------------------------------

(* The cache is transparent: whatever was walked before, by any thread with *)
(* any target and maximum, and however often the cache was dropped, a walk  *)
(* returns what decoding the code returns.                                  *)
WalkIsUncached ==
  query # NoQuery =>
    LET r == Uncached(query)
    IN /\ result.err = r.err
       /\ ~r.err => result.ip = r.ip /\ result.insn_cnt = r.insn_cnt /\ result.insn = r.insn

(* "so do it now to prevent duplicate entries": no offset is cached twice,  *)
(* also not by a walk whose maximum kept it from using the entry.           *)
NoDuplicates ==
  \A d \in Binaries : \A i, j \in DOMAIN caches[d].entries :
    caches[d].entries[i].key = caches[d].entries[j].key => i = j

(* Walks add entries only through auxtrace_cache__add(): every DSO's cache  *)
(* has the bound that AuxCache shows.                                       *)
CachesBounded == \A d \in Binaries : Cache(d)!CacheBounded
=============================================================================
