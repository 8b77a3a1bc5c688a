--------------------------- MODULE CallchainTree ----------------------------
(* The trees of call chains behind the entries of a histogram                *)
(* (tools/perf/util/callchain.c).  A node holds a run of calls; a chain that *)
(* leaves it in the middle splits it.  The trees of entries that collapse    *)
(* are merged.  A call is the key it is compared by, its function or its     *)
(* address; a tree is a record with the set of its children.                 *)
EXTENDS Naturals, Sequences, FiniteSets, FiniteSetsExt

CONSTANTS
  Keys,          \* what the calls of a chain are compared by
  MaxLen,        \* bound: the length of a chain
  Periods,       \* the periods of samples
  MaxSamples,    \* bound: samples altogether
  MaxMerges      \* bound: merges

Entries == {"he", "other"}

Chains == UNION {[1 .. n -> Keys] : n \in 1 .. MaxLen}

VARIABLES
  tree,          \* the callchain_root of two histogram entries
  samples,       \* history: the period and the number of samples with each chain
  nr, merges

vars == <<tree, samples, nr, merges>>

Node(val, hit, count) ==
  [val |-> val, hit |-> hit, count |-> count, children_hit |-> 0, children_count |-> 0,
   kids |-> {}]

CumulHits(n) == n.hit + n.children_hit
CumulCounts(n) == n.count + n.children_count

From(s, i) == SubSeq(s, i, Len(s))

(* How many calls of a node the rest of a chain agrees with *)
Matches(n, chain) ==
  CHOOSE k \in 0 .. Len(n.val) :
    /\ k <= Len(chain) /\ SubSeq(chain, 1, k) = SubSeq(n.val, 1, k)
    /\ k = Len(n.val) \/ k = Len(chain) \/ chain[k + 1] # n.val[k + 1]

(* Mutant: the hits stay with the upper part *)
SplitOff_Kept(n, k) ==
  [n EXCEPT !.val = From(@, k + 1), !.hit = 0, !.count = 0]

(* The lower part of a split node: it takes over hits and children. *)
SplitOff(n, k) == [n EXCEPT !.val = From(@, k + 1)]

(* split_add_child(): a chain that ends in the node, or leaves it there *)
SplitAddChild(n, k, rest, period) ==
  LET low == SplitOff(n, k)
      up == [n EXCEPT !.val = SubSeq(@, 1, k), !.kids = {low},
                      !.children_hit = CumulHits(low), !.children_count = CumulCounts(low)]
  IN IF rest = <<>>
       THEN [up EXCEPT !.hit = period, !.count = 1]
       ELSE [up EXCEPT !.hit = 0, !.count = 0, !.kids = @ \cup {Node(rest, period, 1)},
                       !.children_hit = @ + period, !.children_count = @ + 1]

(* "we match 100% of the path" *)
Whole(n, rest) == rest = <<>>

(* inc_children_hit *)
Passed(n, period) ==
  [n EXCEPT !.children_hit = @ + period, !.children_count = @ + 1]

(* The child that the search in the tree of children ends at, if any *)
SameChild(n, rest) == {c \in n.kids : c.val[1] = rest[1]}

RECURSIVE AppendChain(_, _, _)

(* append_chain_children(): the child that begins with the same call, or a *)
(* new one                                                                  *)
AppendChildren(n, rest, period) ==
  LET same == SameChild(n, rest)
  IN Passed([n EXCEPT !.kids = IF same = {} THEN @ \cup {Node(rest, period, 1)}
                               ELSE (@ \ same) \cup {AppendChain(c, rest, period) : c \in same}],
            period)

(* append_chain() of a node whose first call matches *)
AppendChain(n, chain, period) ==
  LET k == Matches(n, chain)
      rest == From(chain, k + 1)
  IN IF k < Len(n.val) THEN SplitAddChild(n, k, rest, period)
     ELSE IF Whole(n, rest) THEN [n EXCEPT !.hit = @ + period, !.count = @ + 1]
     ELSE AppendChildren(n, rest, period)

RECURSIVE MergeBranch(_, _, _), MergeAll(_, _, _)

(* merge_chain_branch(): the chain of a node that was hit is appended with *)
(* the cursor that leads to it, then those of its children.                 *)
MergeBranch(dst, src, prefix) ==
  LET chain == prefix \o src.val
      d == IF src.hit = 0 THEN dst ELSE AppendChildren(dst, chain, src.hit)
  IN MergeAll(d, src.kids, chain)

MergeAll(dst, srcs, prefix) ==
  IF srcs = {} THEN dst
  ELSE LET c == CHOOSE x \in srcs : TRUE
       IN MergeAll(MergeBranch(dst, c, prefix), srcs \ {c}, prefix)

Root == Node(<<>>, 0, 0)

NoSamples == [c \in Chains |-> [hit |-> 0, count |-> 0]]

Init ==
  /\ tree = [e \in Entries |-> Root]
  /\ samples = [e \in Entries |-> NoSamples]
  /\ nr = 0 /\ merges = 0

(* callchain_append() of a sample *)
AddSample(e) ==
  /\ nr < MaxSamples
  /\ \E c \in Chains, p \in Periods :
       /\ tree' = [tree EXCEPT ![e] = AppendChildren(@, c, p)]
       /\ samples' = [samples EXCEPT ![e][c] = [hit |-> @.hit + p, count |-> @.count + 1]]
  /\ nr' = nr + 1
  /\ UNCHANGED merges

(* callchain_merge(): the entry "other" collapses into "he" and is freed. *)
Merge ==
  /\ merges < MaxMerges /\ tree["other"] # Root
  /\ tree' = [he |-> MergeBranch(tree["he"], tree["other"], <<>>), other |-> Root]
  /\ samples' = [he |-> [c \in Chains |->
                           [hit |-> samples["he"][c].hit + samples["other"][c].hit,
                            count |-> samples["he"][c].count + samples["other"][c].count]],
                 other |-> NoSamples]
  /\ merges' = merges + 1
  /\ UNCHANGED nr

Next == Merge \/ \E e \in Entries : AddSample(e)

Spec == Init /\ [][Next]_vars

(* ----------------------------- properties ------------------------------- *)

RECURSIVE Paths(_, _)

(* All nodes of a tree with the chain that leads to their end *)
Paths(n, prefix) ==
  {<<prefix \o n.val, n>>} \cup UNION {Paths(c, prefix \o n.val) : c \in n.kids}

Nodes(e) == Paths(tree[e], <<>>)

(* A compressed tree: siblings begin with different calls, no node but the *)
(* root is empty, and one that is not hit leads to several others.         *)
Compressed ==
  \A e \in Entries : \A x \in Nodes(e) :
    LET n == x[2]
    IN /\ Cardinality({c.val[1] : c \in n.kids}) = Cardinality(n.kids)
       /\ n # tree[e] => n.val # <<>> /\ (n.hit # 0 \/ Cardinality(n.kids) >= 2)

(* Every sample is in the tree, at the end of its chain, with its period,    *)
(* whatever was split and merged since: the reference is a plain count of    *)
(* the samples (append_chain(), split_add_child(), merge_chain_branch()).    *)
HitsConserved ==
  \A e \in Entries :
    /\ \A x \in Nodes(e) : x[1] # <<>> => x[2].hit = samples[e][x[1]].hit
    /\ \A c \in Chains : samples[e][c].hit # 0 => \E x \in Nodes(e) : x[1] = c

Extends(c, p) == Len(p) <= Len(c) /\ SubSeq(c, 1, Len(p)) = p

HitsOf(e, cs) == MapThenSumSet(LAMBDA c : samples[e][c].hit, cs)

(* What is shown for a node, its hits and those below it, is the period of all *)
(* samples whose chain goes through it (callchain_cumul_hits()).               *)
CumulIsSubtree ==
  \A e \in Entries : \A x \in Nodes(e) :
    CumulHits(x[2]) = HitsOf(e, {c \in Chains : Extends(c, x[1])})

(* The count of a node is the number of its samples, as perf-report.txt says *)
(* of the value "count".                                                     *)
CountIsEvents ==
  \A e \in Entries : \A x \in Nodes(e) : x[1] # <<>> => x[2].count = samples[e][x[1]].count
=============================================================================
