------------------------------ MODULE AuxCache ------------------------------
(* struct auxtrace_cache of tools/perf/util/auxtrace.c: what a decoder of   *)
(* AUX area data remembers of a DSO, found by offset.  A hash bucket is a   *)
(* list to whose head entries are added, so the entries of the cache are    *)
(* kept here as one sequence, the newest first.                             *)
EXTENDS Naturals, Sequences

CONSTANTS
  Keys, Values,
  limit        \* (sz * limit_percent) / 100; 0 for no limit

ASSUME LimitAssumption == limit \in Nat

Entry == [key : Keys, value : Values]

(* auxtrace_cache__new() *)
NewCache == [entries |-> <<>>, cnt |-> 0]

(* auxtrace_cache__drop() *)
auxtrace_cache__drop(c) == [c EXCEPT !.entries = <<>>, !.cnt = 0]

(* auxtrace_cache__add(): counts, drops the cache when the count passes the *)
(* limit, and then adds the entry in any case.                              *)
auxtrace_cache__add_NoDrop(c, entry) ==
  [entries |-> <<entry>> \o c.entries, cnt |-> IF limit # 0 THEN c.cnt + 1 ELSE c.cnt]

auxtrace_cache__add(c, entry) ==
  LET counted == IF limit # 0 THEN [c EXCEPT !.cnt = @ + 1] ELSE c
      room == IF counted.cnt > limit THEN auxtrace_cache__drop(c) ELSE counted
  IN [room EXCEPT !.entries = <<entry>> \o @]

(* auxtrace_cache__lookup(): the entries that a walk of the bucket may      *)
(* return; the first of them is the newest.                                 *)
Matches(c, key) == {i \in 1 .. Len(c.entries) : c.entries[i].key = key}

Found(c, key) == Matches(c, key) # {}

auxtrace_cache__lookup(c, key) ==
  c.entries[CHOOSE i \in Matches(c, key) : \A j \in Matches(c, key) : i <= j].value

(* The cache alone, under any sequence of additions *)
VARIABLE cache

Init == cache = NewCache

Add(entry) == cache' = auxtrace_cache__add(cache, entry)

Next == \E entry \in Entry : Add(entry)

Spec == Init /\ [][Next]_cache

-----------------------------------------------------------------------------

TypeOK == cache \in [entries : Seq(Entry), cnt : Nat]

(* One more than the limit, and never more: the entry that finds the cache  *)
(* full is added to the empty cache without being counted.                  *)
CacheBounded == limit # 0 => Len(cache.entries) <= limit + 1

(* The strengthening that CacheBounded needs: the count is behind by at     *)
(* most the entry added at the last drop.                                   *)
CountBehindByOne ==
  limit # 0 => cache.cnt <= limit /\ Len(cache.entries) <= cache.cnt + 1

(* auxtrace.c of @limit: "limit the number of entries to this maximum".     *)
CacheLimit == limit # 0 => Len(cache.entries) <= limit
=============================================================================
