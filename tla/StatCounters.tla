---------------------------- MODULE StatCounters ----------------------------
(***************************************************************************)
(* perf stat: how util/stat.c and builtin-stat.c make the numbers that are *)
(* printed of the counters that are read: one counter on several CPUs,     *)
(* read at the end of each run, or at intervals (-I).                      *)
(*                                                                         *)
(* A reading is a record of the count, the time enabled and the time       *)
(* running; when the kernel multiplexes counters the last two differ and   *)
(* the count is scaled up.  An event of a package counts for all CPUs of a *)
(* socket: each of them reads the same count, unless it did not run there. *)
(***************************************************************************)
EXTENDS Integers, FiniteSets, FiniteSetsExt

CONSTANTS Cpus,        \* 1..n
          Socket(_),   \* the socket of a CPU
          aggr_mode,   \* "global", "socket" or "none"
          interval,    \* -I is given
          per_pkg,     \* the event is one of a package
          run_count,   \* -r
          MaxTime,     \* bound: ticks of the clock in a run
          Wrap         \* counts are unsigned: computed modulo Wrap

VARIABLES hw,          \* the counter on each CPU
          time,
          run,         \* runs that are over
          counts,      \* evsel->counts
          aggr,        \* evsel->counts->aggr
          prev,        \* evsel->prev_raw_counts
          prev_aggr,   \* and its aggr
          zero,        \* the static variable of process_counter_values()
          res,         \* ps->res_stats: number and sum of val, ena, run
          base,        \* hw when it was printed last
          past,        \* the counts of earlier runs, added up
          out          \* what was printed last

vars == << hw, time, run, counts, aggr, prev, prev_aggr, zero, res, base, past, out >>

Zero == [val |-> 0, ena |-> 0, run |-> 0]
Fields == {"val", "ena", "run"}
Plus(a, b) == [f \in Fields |-> (a[f] + b[f]) % Wrap]
Minus(a, b) == [f \in Fields |-> (a[f] - b[f]) % Wrap]
Nothing == [value |-> [c \in Cpus |-> 0], enabled |-> 0, n |-> 0,
            since |-> [c \in Cpus |-> Zero], upto |-> [c \in Cpus |-> Zero]]

(* perf_counts_values__scale(), with scaling on: rounded to the nearest. *)
Scaled(v) ==
    [v EXCEPT !.val = IF v.run = 0 THEN 0
                      ELSE IF v.run < v.ena THEN (2 * v.val * v.ena + v.run) \div (2 * v.run)
                      ELSE v.val]

Init ==
    /\ hw = [c \in Cpus |-> Zero]
    /\ time = 0
    /\ run = 0
    /\ counts = [c \in Cpus |-> Zero]
    /\ aggr = Zero
    /\ prev = [c \in Cpus |-> Zero]
    /\ prev_aggr = Zero
    /\ zero = Zero
    /\ res = [f \in Fields |-> [n |-> 0, sum |-> 0]]
    /\ base = [c \in Cpus |-> Zero]
    /\ past = 0
    /\ out = Nothing

-----------------------------------------------------------------------------
(* The counters. *)

(* What a tick of the clock does to a counter that counts k events. *)
Counting(v, k) == [val |-> v.val + k, ena |-> v.ena + 1, run |-> v.run + 1]
Waiting(v) == [v EXCEPT !.ena = @ + 1]

OfSocket(c) == {d \in Cpus : Socket(d) = Socket(c)}
First(c) == \A d \in OfSocket(c) : c <= d

(* What the CPUs of a package that have run all read. *)
Package(h, c) ==
    LET d == CHOOSE d \in OfSocket(c) : \A e \in OfSocket(c) : h[e].run <= h[d].run
    IN  h[d]

Tick ==
    /\ run < run_count /\ time < MaxTime
    /\ time' = time + 1
    /\ \E k \in {1, 3}, on \in SUBSET Cpus :
          /\ per_pkg => \A c \in Cpus : hw[c].run > 0 => c \in on
          /\ hw' = [c \in Cpus |-> IF ~ per_pkg
                                   THEN IF c \in on THEN Counting(hw[c], k) ELSE Waiting(hw[c])
                                   ELSE IF c \in on THEN Counting(Package(hw, c), k) ELSE Zero]
    /\ UNCHANGED << run, counts, aggr, prev, prev_aggr, zero, res, base, past, out >>

-----------------------------------------------------------------------------
(* Processing.  The record s holds all that is changed by it. *)

(* check_per_pkg(): a package is marked by its first CPU that has run. *)
check_per_pkg(s, c) ==
    LET ran == s.counts[c].run # 0 /\ s.counts[c].ena # 0
    IN  [s EXCEPT !.mask = IF per_pkg /\ ran THEN @ \cup {Socket(c)} ELSE @,
                  !.skip = per_pkg /\ ran /\ Socket(c) \in s.mask]

(* Mutant: what was read is not kept for the next interval. *)
Deltas_Forget(s, c) ==
    [s EXCEPT !.counts[c] = IF interval THEN Minus(@, s.prev[c]) ELSE @]

(* perf_evsel__compute_deltas() of one CPU.  Where the CPU is skipped it   *)
(* is the static variable that is kept, and changed.                       *)
Deltas(s, c) ==
    LET v == IF s.skip THEN s.zero ELSE s.counts[c]
        d == IF interval THEN Minus(v, s.prev[c]) ELSE v
    IN  IF s.skip THEN [s EXCEPT !.prev[c] = v, !.zero = Scaled(d)]
        ELSE [s EXCEPT !.prev[c] = v, !.counts[c] = Scaled(d)]

AddUp(s, c) == [s EXCEPT !.aggr = Plus(@, IF s.skip THEN s.zero ELSE s.counts[c])]

(* process_counter_values() *)
process_counter_values(s0, c) ==
    LET s == check_per_pkg(s0, c)
    IN  IF aggr_mode = "global" THEN AddUp(s, c) ELSE Deltas(s, c)

(* process_counter_maps(): the CPUs in the order of the map. *)
process_counter_maps(s) ==
    LET f[c \in 0..Cardinality(Cpus)] ==
            IF c = 0 THEN s ELSE process_counter_values(f[c - 1], c)
    IN  f[Cardinality(Cpus)]

(* In interval mode the statistics begin anew: the code resets the first   *)
(* of the three.                                                           *)
ResetStats(r) == IF interval THEN [r EXCEPT !["val"] = [n |-> 0, sum |-> 0]] ELSE r

Update(r, v) == [f \in Fields |-> [n |-> r[f].n + 1, sum |-> r[f].sum + v[f]]]

(* perf_stat_process_counter(), behind read_counter(). *)
Processed ==
    LET s0 == [counts |-> hw, aggr |-> Zero, prev |-> prev, prev_aggr |-> prev_aggr,
               zero |-> zero, mask |-> {}, skip |-> FALSE, res |-> ResetStats(res)]
        s1 == process_counter_maps(s0)
        d == Scaled(IF interval THEN Minus(s1.aggr, prev_aggr) ELSE s1.aggr)
    IN  IF aggr_mode # "global" THEN s1
        ELSE [s1 EXCEPT !.aggr = d, !.prev_aggr = s1.aggr, !.res = Update(s1.res, d)]

read_counters ==
    LET s == Processed
    IN  /\ counts' = s.counts
        /\ aggr' = s.aggr
        /\ prev' = s.prev
        /\ prev_aggr' = s.prev_aggr
        /\ zero' = s.zero
        /\ res' = s.res

(* print_counters(): averages, the sum of a socket, or each CPU.  A sum is *)
(* put down with the first CPU of its socket.  n is the number of values   *)
(* that an average is made of; their sum is kept instead of the average.   *)
Printed(s) ==
    LET Total(c) == MapThenSumSet(LAMBDA d : s.counts[d].val, OfSocket(c))
    IN  [value |-> [c \in Cpus |->
                       CASE aggr_mode = "global" -> IF c = 1 THEN s.res["val"].sum ELSE 0
                         [] aggr_mode = "socket" -> IF First(c) THEN Total(c) % Wrap ELSE 0
                         [] aggr_mode = "none" -> s.counts[c].val],
         enabled |-> IF aggr_mode = "global" THEN s.res["ena"].sum ELSE 0,
         n |-> IF aggr_mode = "global" THEN s.res["ena"].n ELSE 1,
         since |-> base, upto |-> hw]

(* process_interval() *)
process_interval ==
    /\ interval /\ run < run_count
    /\ base # hw
    /\ read_counters
    /\ out' = Printed(Processed)
    /\ base' = hw
    /\ UNCHANGED << hw, time, run, past >>

(* All that was counted on all CPUs, each package once. *)
Whole(h) ==
    LET S == IF per_pkg THEN {c \in Cpus : First(c)} ELSE Cpus
        At(c) == IF per_pkg THEN Package(h, c) ELSE h[c]
    IN  [f \in Fields |-> MapThenSumSet(LAMBDA c : At(c)[f], S)]

(* A run ends: the counters are read once more and closed; behind the last *)
(* run the averages are printed.                                           *)
EndRun ==
    /\ run < run_count /\ time > 0
    /\ read_counters
    /\ run' = run + 1
    /\ past' = past + Scaled(Whole(hw)).val
    /\ out' = IF ~ interval /\ run' = run_count THEN Printed(Processed) ELSE out
    /\ hw' = [c \in Cpus |-> Zero]
    /\ base' = [c \in Cpus |-> Zero]
    /\ time' = 0

Next == Tick \/ process_interval \/ EndRun

Spec == Init /\ [][Next]_vars

-----------------------------------------------------------------------------
Reading == [Fields -> 0..(Wrap - 1)]

(* There is one value per interval, or per run, in the statistics. *)
TypeOK ==
    /\ res["val"].n \in 0..(IF interval THEN 1 ELSE run_count)
    /\ hw \in [Cpus -> Reading] /\ counts \in [Cpus -> Reading]
    /\ prev \in [Cpus -> Reading] /\ prev_aggr \in Reading
    /\ time \in 0..MaxTime /\ run \in 0..run_count

Delta(c) == Scaled(Minus(out.upto[c], out.since[c])).val

(* perf-stat.txt, -I: "Print count deltas every N milliseconds": what is   *)
(* printed is the count since the last time, of each CPU, of each socket   *)
(* or of all, scaled for the time in which the counter did not run.  An    *)
(* event of a package is printed for one of its CPUs.                      *)
DeltaIsReal ==
    interval /\ out.n > 0 =>
        CASE aggr_mode = "global" ->
                 out.value[1] = Scaled(Minus(Whole(out.upto), Whole(out.since))).val
          [] aggr_mode = "none" ->
                 \A c \in Cpus : out.value[c] \in {Delta(c)} \cup (IF per_pkg THEN {0} ELSE {})
          [] aggr_mode = "socket" ->
                 \A c \in Cpus : First(c) =>
                     out.value[c] = IF per_pkg
                                    THEN Scaled(Minus(Package(out.upto, c), Package(out.since, c))).val
                                    ELSE MapThenSumSet(Delta, OfSocket(c))

(* The comment in perf_stat_process_counter(): "We need to zero the stats  *)
(* for interval mode, otherwise overall avg running averages will be shown *)
(* for each interval": the times shown with a count are those of the       *)
(* interval, too.                                                          *)
TimesAreOfInterval ==
    interval /\ aggr_mode = "global" /\ out.n > 0 =>
        out.enabled = out.n * Minus(Whole(out.upto), Whole(out.since)).ena

(* -r: what is printed is the average over the runs, each of which counts  *)
(* all CPUs, and each package once, whichever of its CPUs have run.        *)
AverageIsReal ==
    ~ interval /\ out.n > 0 => out.n = run_count /\ out.value[1] = past
=============================================================================
