------------------------------ MODULE HistsTop ------------------------------
(***************************************************************************)
(* The histogram that the two threads of perf top share (builtin-top.c,    *)
(* util/hist.c).  The main thread reads samples and adds them to one of    *)
(* two trees; the display thread decays what it showed last, takes the     *)
(* tree away from the reader by switching to the other one, folds it into  *)
(* its own tree and sorts that for output.  Only the addition of a sample  *)
(* and the switch are done under hists->lock; the rest relies on each tree *)
(* having one thread at a time.  A warning about a sample gives the lock   *)
(* up in the middle of the addition.                                       *)
(***************************************************************************)
EXTENDS Integers, FiniteSets, FiniteSetsExt

CONSTANTS
  Keys,          \* what hist_entry__cmp() tells apart
  CollapseKey,   \* Keys -> what hist_entry__collapse() tells apart
  KernelKeys,    \* the keys of kernel symbols; the others are user symbols
  MaxSamples,    \* bound: samples read in one behaviour
  MaxPresses,    \* bound: keys pressed in one behaviour
  Browser        \* use_browser > 0: the TUI, which has no sym_filter_entry

VARIABLES
  entries_in,    \* hists->entries_in: the tree the reader adds to
  in,            \* hists->entries_in_array
  collapsed,     \* hists->entries_collapsed
  entries,       \* hists->entries, the tree that is shown
  he,            \* the entries: [key, period], or Free
  nr_entries, total_period,
  lock,          \* hists->lock: who has it
  rpc, rkey, rhe, root,      \* reader: place, sample, entry, tree it adds to
  dpc, droot,    \* display thread: place, tree it has taken
  hide, zero, sym_filter_entry, done,
  samples, presses,          \* counted against the bounds
  gone,          \* history: per collapsed key, the periods decayed or zapped
  added,         \* history: per collapsed key, the periods of its samples
  dropped,       \* history: the reader has given the lock up for a warning
  raced,         \* history: the reader made an entry since the statistics' reset
  shared         \* history: the reader has changed a tree that was walked

tree == <<entries_in, in, collapsed, entries, he>>
reader == <<rpc, rkey, rhe, root, samples, added, dropped, shared>>
display == <<dpc, droot, gone>>
keyboard == <<hide, zero, sym_filter_entry, done, presses>>
vars == <<tree, reader, display, keyboard, nr_entries, total_period, lock, raced>>

Free == [key |-> "free", period |-> 0]
None == 0
Ids == 1 .. MaxSamples + 1   \* enough: every entry needs a sample
CKeys == {CollapseKey[k] : k \in Keys}

Live(e) == e # None /\ he[e] # Free
Periods(S) == MapThenSumSet(LAMBDA e : he[e].period, S)
Level(e) == IF he[e].key \in KernelKeys THEN "kernel" ELSE "user"

\* perf top always sets this for the display thread to have its own tree.
need_collapse_Unset == FALSE
need_collapse == TRUE

\* The trees that the display thread walks without a lock, as seen by the
\* reader: the one it has taken, and the reader's own if there is no other.
Walked ==
  {i \in 0 .. 1 : \/ dpc = "collapse" /\ i = droot
                  \/ dpc \in {"decay", "resort"} /\ ~need_collapse /\ i = entries_in}

Init ==
  /\ entries_in = 0 /\ in = [i \in 0 .. 1 |-> {}]
  /\ collapsed = {} /\ entries = {} /\ he = [e \in Ids |-> Free]
  /\ nr_entries = 0 /\ total_period = 0 /\ lock = "none"
  /\ rpc = "read" /\ rkey \in Keys /\ rhe = None /\ root = 0
  /\ dpc = "wait" /\ droot = 0
  /\ hide = {} /\ zero = FALSE /\ sym_filter_entry = None /\ done = FALSE
  /\ samples = 0 /\ presses = 0
  /\ gone = [c \in CKeys |-> 0] /\ added = [c \in CKeys |-> 0]
  /\ dropped = FALSE /\ raced = FALSE /\ shared = FALSE

-----------------------------------------------------------------------------
(* The reader.  A sample of a hidden mode is consumed and nothing more.    *)

perf_top__mmap_read_idx(k) ==
  /\ rpc = "read" /\ ~done /\ samples < MaxSamples
  /\ samples' = samples + 1
  /\ rkey' = k
  /\ rpc' = IF (IF k \in KernelKeys THEN "kernel" ELSE "user") \in hide
            THEN "read" ELSE "lock"
  /\ UNCHANGED <<tree, display, keyboard, nr_entries, total_period, lock, raced,
                 rhe, root, added, dropped, shared>>

perf_event__process_sample_NoLock ==
  /\ rpc = "lock"
  /\ root' = entries_in /\ rpc' = "add"
  /\ UNCHANGED <<tree, display, keyboard, nr_entries, total_period, lock, raced,
                 rkey, rhe, samples, added, dropped, shared>>

\* Take the lock; hists__findnew_entry() begins with the root of the tree.
perf_event__process_sample ==
  /\ rpc = "lock" /\ lock = "none"
  /\ lock' = "reader"
  /\ root' = entries_in /\ rpc' = "add"
  /\ UNCHANGED <<tree, display, keyboard, nr_entries, total_period, raced,
                 rkey, rhe, samples, added, dropped, shared>>

\* An id that is not in use.  One that the reader still holds is not handed
\* out again, so that an entry freed behind its back stays free.
NewId == CHOOSE e \in Ids : he[e] = Free /\ e # rhe

hists__findnew_entry ==
  LET same == {e \in in[root] : he[e].key = rkey}
      e == IF same = {} THEN NewId ELSE CHOOSE x \in same : TRUE
  IN  /\ rpc = "add"
      /\ he' = [he EXCEPT ![e] = [key |-> rkey,
                                  period |-> IF same = {} THEN 1 ELSE @.period + 1]]
      /\ in' = [in EXCEPT ![root] = @ \union {e}]
      /\ nr_entries' = IF same = {} THEN nr_entries + 1 ELSE nr_entries
      /\ raced' = (raced \/ same = {})
      /\ shared' = (shared \/ root \in Walked)
      /\ added' = [added EXCEPT ![CollapseKey[rkey]] = @ + 1]
      /\ rhe' = e /\ rpc' = "callback"
      /\ UNCHANGED <<entries_in, collapsed, entries, display, keyboard, total_period,
                     lock, rkey, root, samples, dropped>>

\* Without the TUI only the symbol that is being annotated is accounted.  An
\* address outside of the symbol is warned about, with the lock given up.
perf_top__record_precise_ip(err) ==
  /\ rpc = "callback"
  /\ err => (Browser \/ (sym_filter_entry # None /\ he[sym_filter_entry].key = rkey))
  /\ rpc' = IF err THEN "warning" ELSE "finish"
  /\ lock' = IF err THEN "none" ELSE lock
  /\ dropped' = err
  /\ UNCHANGED <<tree, display, keyboard, nr_entries, total_period, raced,
                 rkey, rhe, root, samples, added, shared>>

\* pthread_mutex_lock(&he->hists->lock) behind the warning.
ui__warn_map_erange ==
  /\ rpc = "warning" /\ lock = "none"
  /\ lock' = "reader" /\ rpc' = "finish"
  /\ UNCHANGED <<tree, display, keyboard, nr_entries, total_period, raced,
                 rkey, rhe, root, samples, added, dropped, shared>>

\* The call chain is appended to the entry, then the lock is given back.
iter_finish_normal_entry ==
  /\ rpc = "finish"
  /\ lock' = "none" /\ rpc' = "read" /\ rhe' = None /\ dropped' = FALSE
  /\ UNCHANGED <<tree, display, keyboard, nr_entries, total_period, raced,
                 rkey, root, samples, added, shared>>

-----------------------------------------------------------------------------
(* The display thread.                                                     *)

\* While a symbol is annotated, perf_top__print_sym_table() shows its details
\* and leaves the histogram alone.
perf_top__print_sym_table ==
  /\ dpc = "wait" /\ ~done
  /\ dpc' = IF sym_filter_entry = None THEN "decay" ELSE "show"
  /\ UNCHANGED <<tree, reader, keyboard, nr_entries, total_period, lock, raced, droot, gone>>

he_stat__decay(p) == (p * 7) \div 8

\* What hists__delete_entries() (zero) or hists__decay_entries() deletes.
ToDelete ==
  {e \in entries : zero \/ Level(e) \in hide \/ he_stat__decay(he[e].period) = 0}

\* Entries that are deleted leave both trees they are in.
hists__delete_entry(S) == collapsed \ S

\* A zapped entry is not decayed first: total_period keeps what it had.
hists__decay_entries ==
  LET left(e) == IF e \in ToDelete THEN 0 ELSE he_stat__decay(he[e].period)
      lost(e) == he[e].period - left(e)
      zapped == {e \in entries : zero \/ Level(e) \in hide}
  IN  /\ dpc = "decay" /\ dpc' = "rotate"
      /\ he' = [e \in Ids |-> IF e \in ToDelete THEN Free
                              ELSE IF e \in entries THEN [he[e] EXCEPT !.period = left(e)]
                              ELSE he[e]]
      /\ entries' = entries \ ToDelete
      /\ IF need_collapse
         THEN collapsed' = hists__delete_entry(ToDelete) /\ in' = in
         ELSE in' = [in EXCEPT ![entries_in] = @ \ ToDelete] /\ collapsed' = collapsed
      /\ gone' = [c \in CKeys |-> gone[c] +
                    MapThenSumSet(lost, {e \in entries : CollapseKey[he[e].key] = c})]
      /\ total_period' = total_period - MapThenSumSet(lost, entries \ zapped)
      /\ nr_entries' = nr_entries - Cardinality(ToDelete)
      /\ UNCHANGED <<entries_in, reader, keyboard, lock, raced, droot>>

hists__get_rotate_entries_in(i) == 1 - i

\* The first half of hists__collapse_resort(): take the tree.
Rotate ==
  /\ dpc = "rotate"
  /\ need_collapse => lock = "none"
  /\ dpc' = IF need_collapse THEN "collapse" ELSE "resort"
  /\ nr_entries' = IF need_collapse THEN 0 ELSE nr_entries
  /\ droot' = entries_in
  /\ entries_in' = IF need_collapse THEN hists__get_rotate_entries_in(entries_in)
                   ELSE entries_in
  /\ UNCHANGED <<in, collapsed, entries, he, reader, keyboard, total_period, lock,
                 raced, gone>>

\* The period of an entry and of those that are collapsed into it.
he_stat__add_stat_Replaces(e, S) == Periods(S)
he_stat__add_stat(e, S) == Periods({e} \union S)

\* hists__collapse_insert_entry() for every entry of the tree: it is added to
\* the collapsed entry of its key and freed, or becomes that entry.
hists__collapse_resort ==
  LET of(S, c) == {e \in S : CollapseKey[he[e].key] = c}
      kept(c) == IF of(collapsed, c) # {} THEN CHOOSE e \in of(collapsed, c) : TRUE
                 ELSE CHOOSE e \in of(in[droot], c) : TRUE
      new == {c \in CKeys : of(in[droot], c) # {}}
      survivors == {kept(c) : c \in new}
  IN  /\ dpc = "collapse" /\ dpc' = "resort"
      /\ he' = [e \in Ids |->
                  IF e \in survivors
                  THEN LET c == CollapseKey[he[e].key]
                       IN  [he[e] EXCEPT !.period =
                              he_stat__add_stat(e, of(in[droot], c))]
                  ELSE IF e \in in[droot] THEN Free ELSE he[e]]
      /\ collapsed' = collapsed \union survivors
      /\ in' = [in EXCEPT ![droot] = {}]
      /\ nr_entries' = nr_entries + Cardinality(survivors \ collapsed)
      /\ UNCHANGED <<entries_in, entries, reader, keyboard, total_period, lock, raced,
                     droot, gone>>

hists__reset_stats == 0

\* The tree that is sorted for output.
OutputOf_Stale == entries
OutputOf == IF need_collapse THEN collapsed ELSE in[entries_in]

\* output_resort(): reset the statistics, sort the tree anew for output.
output_resort ==
  LET shown == OutputOf
  IN  /\ dpc = "resort" /\ dpc' = "show"
      /\ entries' = shown
      /\ total_period' = hists__reset_stats + Periods(shown)
      /\ nr_entries' = hists__reset_stats + Cardinality(shown)
      /\ raced' = FALSE
      /\ UNCHANGED <<entries_in, in, collapsed, he, reader, keyboard, lock, droot, gone>>

\* hists__fprintf() or the browser is done; the next key or refresh.
Refresh ==
  /\ dpc = "show" /\ dpc' = "wait"
  /\ UNCHANGED <<tree, reader, keyboard, nr_entries, total_period, lock, raced, droot, gone>>

perf_top__handle_keypress(c) ==
  /\ dpc = "wait" /\ ~done /\ presses < MaxPresses /\ presses' = presses + 1
  /\ \/ /\ c = "K"
        /\ hide' = IF "kernel" \in hide THEN hide \ {"kernel"} ELSE hide \union {"kernel"}
        /\ UNCHANGED <<zero, sym_filter_entry, done>>
     \/ /\ c = "U"
        /\ hide' = IF "user" \in hide THEN hide \ {"user"} ELSE hide \union {"user"}
        /\ UNCHANGED <<zero, sym_filter_entry, done>>
     \/ /\ c = "z" /\ zero' = ~zero
        /\ UNCHANGED <<hide, sym_filter_entry, done>>
     \/ /\ c = "s"   \* perf_top__prompt_symbol(); None: no such symbol
        /\ sym_filter_entry' \in entries \union {None}
        /\ UNCHANGED <<hide, zero, done>>
     \/ /\ c = "S" /\ sym_filter_entry' = None
        /\ UNCHANGED <<hide, zero, done>>
     \/ /\ c = "q" /\ done' = TRUE
        /\ UNCHANGED <<hide, zero, sym_filter_entry>>
  /\ UNCHANGED <<tree, reader, display, nr_entries, total_period, lock, raced>>

\* The keys of the stdio interface; the TUI's browser can quit and zero.
Pressed == IF Browser THEN {"z", "q"} ELSE {"K", "U", "z", "s", "S", "q"}

Terminated ==
  /\ done /\ rpc = "read" /\ dpc = "wait"
  /\ UNCHANGED vars

Reader ==
  \/ perf_event__process_sample
  \/ hists__findnew_entry
  \/ \E err \in BOOLEAN : perf_top__record_precise_ip(err)
  \/ ui__warn_map_erange
  \/ iter_finish_normal_entry

Display ==
  \/ perf_top__print_sym_table
  \/ hists__decay_entries
  \/ Rotate
  \/ hists__collapse_resort
  \/ output_resort
  \/ Refresh

Next ==
  \/ \E k \in Keys : perf_top__mmap_read_idx(k)
  \/ Reader
  \/ Display
  \/ \E c \in Pressed : perf_top__handle_keypress(c)
  \/ Terminated

Spec == Init /\ [][Next]_vars

\* Both threads go on with what they have begun, and the display thread's poll
\* of the keyboard times out; nobody has to press a key, no sample has to come.
FairSpec == Spec /\ WF_vars(Reader) /\ WF_vars(Display)
-----------------------------------------------------------------------------
TypeOK ==
  /\ entries_in \in 0 .. 1 /\ in \in [0 .. 1 -> SUBSET Ids]
  /\ collapsed \subseteq Ids /\ entries \subseteq Ids
  /\ \A e \in Ids : he[e] = Free \/ (he[e].key \in Keys /\ he[e].period \in 1 .. MaxSamples)
  /\ total_period \in 0 .. MaxSamples /\ nr_entries \in Int
  /\ lock \in {"none", "reader"}
  /\ rpc \in {"read", "lock", "add", "callback", "warning", "finish"}
  /\ dpc \in {"wait", "decay", "rotate", "collapse", "resort", "show"}
  /\ hide \subseteq {"user", "kernel"}

\* Every entry is in one of the trees that own entries, every entry of a tree
\* is alive, and the tree that is shown has no entry the display thread's own
\* tree lacks: nothing leaks and nothing freed is left in a tree, whichever
\* thread frees (hist_entry__delete()).
TreesOwnEntries ==
  /\ \A e \in Ids : he[e] # Free <=> e \in in[0] \union in[1] \union collapsed
  /\ in[0] \intersect in[1] = {} /\ (in[0] \union in[1]) \intersect collapsed = {}
  /\ entries \subseteq collapsed

\* The display thread never walks a tree while the reader adds to it: the
\* comment in cmd_top() says the display thread wants a different tree.
TreesExclusive == ~shared

\* The entry the reader has added to is alive until it is finished with it,
\* unless a warning made it give the lock up in between.
HeldIsLive == rhe # None /\ ~dropped => Live(rhe)

\* The entry that is annotated survives: nothing is decayed while one is.
FilterIsLive == sym_filter_entry # None => Live(sym_filter_entry)

\* No sample is lost or counted twice on its way through the trees.
PeriodsConserved ==
  \A c \in CKeys :
    added[c] = gone[c] + Periods({e \in Ids : he[e] # Free /\ CollapseKey[he[e].key] = c})

\* What is shown adds up: the percentages are of the sum of the entries shown,
\* and the number of entries is theirs unless the reader counted one of its
\* own into it since the reset (hists->nr_entries is both threads').
TotalsMatch ==
  dpc = "show" /\ sym_filter_entry = None =>
    /\ total_period = Periods(entries)
    /\ ~raced => nr_entries = Cardinality(entries)

ShownKeys == {CollapseKey[he[e].key] : e \in entries}

\* A sample of a mode that is not hidden is shown at some refresh, unless the
\* user annotates a symbol, or quits.
EverySampleShown ==
  \A k \in Keys :
    (\E e \in Ids : he[e].key = k) ~> (\/ CollapseKey[k] \in ShownKeys
                                       \/ sym_filter_entry # None \/ done)

ShowsKernel == dpc = "show" /\ \E e \in entries : he[e].key \in KernelKeys

\* "-K, --hide_kernel_symbols: Hide kernel symbols."
HiddenNotShown == "kernel" \in hide /\ sym_filter_entry = None => ~ShowsKernel
-----------------------------------------------------------------------------
(* The inductive invariant of the proofs, and what they assume.            *)

(* An entry that is free has no key of a sample. *)
TopConstants == MaxSamples \in Nat /\ "free" \notin Keys

EntryTypes ==
  /\ entries_in \in 0 .. 1 /\ root \in 0 .. 1 /\ droot \in 0 .. 1 /\ rkey \in Keys
  /\ in \in [0 .. 1 -> SUBSET Ids]
  /\ collapsed \subseteq Ids /\ entries \subseteq Ids
  /\ rhe \in Ids \union {None} /\ sym_filter_entry \in Ids \union {None}
  /\ he = [e \in Ids |-> [key |-> he[e].key, period |-> he[e].period]]
  /\ \A e \in Ids : he[e] = Free \/ he[e].key \in Keys

(* A sample that is read makes one entry at most: there is always one left. *)
Used == {e \in Ids : he[e] # Free}
RoomInv ==
  /\ samples \in 0 .. MaxSamples
  /\ Cardinality(Used) + (IF rpc \in {"lock", "add"} THEN 1 ELSE 0) <= samples

(* Where the reader is, it has the lock or has given it up: with it, the   *)
(* tree it adds to is not taken from it.                                   *)
ReaderInv ==
  /\ rpc \in {"read", "lock", "add", "callback", "warning", "finish"}
  /\ rpc \in {"add", "callback", "finish"} => lock = "reader"
  /\ rpc = "add" => root = entries_in
  /\ rhe # None <=> rpc \in {"callback", "warning", "finish"}
  /\ rpc = "warning" => dropped
  /\ dropped => rpc \in {"warning", "finish"}
  /\ rhe # None /\ ~dropped => rhe \in in[entries_in]

(* The tree that the display thread has taken is not the reader's, and     *)
(* while a symbol is annotated it takes none and deletes nothing.          *)
DisplayInv ==
  /\ dpc \in {"wait", "decay", "rotate", "collapse", "resort", "show"}
  /\ dpc = "collapse" => droot = 1 - entries_in
  /\ dpc \in {"decay", "rotate", "collapse", "resort"} => sym_filter_entry = None
  /\ sym_filter_entry # None => sym_filter_entry \in collapsed

TopInv ==
  EntryTypes /\ RoomInv /\ TreesOwnEntries /\ ReaderInv /\ DisplayInv /\ TreesExclusive
=============================================================================
