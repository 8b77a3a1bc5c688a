---------------------------- MODULE RecordProofs ----------------------------
(***************************************************************************)
(* Safety proofs about the main loop of perf record, for any number of     *)
(* buffers and events and any interleaving of kernel, signals and loop.    *)
(***************************************************************************)
EXTENDS Record, TLAPS

(* The steps of the loop and of the signal handlers that touch no buffer.  *)
LEMMA RingsUnchanged ==
  ASSUME RingTypes, RefInv,
         UNCHANGED <<head, prev, refcnt, mapped, polled, hup>>,
         wanted' \in [Maps -> Nat], cur' \in Nat \ {0}, kind' \in Kinds
  PROVE  RingTypes' /\ RefInv'
BY DEF RingTypes, RefInv

LEMMA RingsOfKernel ==
  ASSUME RingTypes, RefInv, NEW m \in Maps, KernelWrites(m) \/ EventDies(m)
  PROVE  RingTypes' /\ RefInv'
<1>1. CASE KernelWrites(m)
  <2>1. /\ head' = [head EXCEPT ![m] = @ + 1] /\ polled[m] > hup[m]
        /\ UNCHANGED <<prev, refcnt, mapped, polled, hup, wanted, cur, kind>>
    BY <1>1 DEF KernelWrites, pollVars, loopVars, historyVars
  <2>2. RingTypes'
    BY <2>1 DEF RingTypes
  <2>3. RefInv'
    BY <2>1 DEF RingTypes, RefInv
  <2> QED
    BY <2>2, <2>3
<1>2. CASE EventDies(m)
  <2>1. /\ hup' = [hup EXCEPT ![m] = @ + 1] /\ hup[m] < polled[m]
        /\ UNCHANGED <<head, prev, refcnt, mapped, polled, wanted, cur, kind>>
    BY <1>2 DEF EventDies, ringVars, loopVars, historyVars
  <2>2. RingTypes'
    BY <2>1 DEF RingTypes
  <2>3. RefInv'
    BY <2>1 DEF RingTypes, RefInv
  <2> QED
    BY <2>2, <2>3
<1> QED
  BY <1>1, <1>2

LEMMA RingsOfRead ==
  ASSUME RingTypes, RefInv, record__mmap_read
  PROVE  RingTypes' /\ RefInv'
<1> DEFINE m == <<kind, cur>>
<1>1. /\ UNCHANGED <<head, polled, hup, wanted, kind>> /\ cur' = cur + 1
      /\ \/ /\ mapped[m] /\ prev' = [prev EXCEPT ![m] = head[m]]
            /\ perf_mmap__consume(m)
         \/ UNCHANGED <<prev, refcnt, mapped>>
  BY DEF record__mmap_read, pollVars, historyVars
<1>2. CASE UNCHANGED <<prev, refcnt, mapped>>
  BY <1>1, <1>2 DEF RingTypes, RefInv
<1>3. CASE /\ mapped[m] /\ prev' = [prev EXCEPT ![m] = head[m]]
           /\ perf_mmap__consume(m)
  <2>0. m \in Maps
    BY RecordAssumption DEF record__mmap_read, Maps, RingTypes
  <2> HIDE DEF m
  <2>1. prev' \in [Maps -> Nat] /\ prev'[m] = head[m]
        /\ \A n \in Maps : n # m => prev'[n] = prev[n]
    BY <1>3, <2>0 DEF RingTypes
  <2>2. CASE UNCHANGED <<refcnt, mapped>>
    BY <1>1, <1>3, <2>0, <2>1, <2>2 DEF RingTypes, RefInv
  <2>3. CASE /\ refcnt[m] = 1
             /\ refcnt' = [refcnt EXCEPT ![m] = 0]
             /\ mapped' = [mapped EXCEPT ![m] = FALSE]
    <3>1. /\ refcnt' \in [Maps -> Nat] /\ refcnt'[m] = 0
          /\ \A n \in Maps : n # m => refcnt'[n] = refcnt[n]
      BY <2>0, <2>3 DEF RingTypes
    <3>2. /\ mapped' \in [Maps -> BOOLEAN] /\ ~mapped'[m]
          /\ \A n \in Maps : n # m => mapped'[n] = mapped[n]
      BY <2>0, <2>3 DEF RingTypes
    <3>3. polled[m] = 0
      BY <1>3, <2>0, <2>3 DEF RingTypes, RefInv
    <3>4. RingTypes'
      BY <1>1, <2>1, <3>1, <3>2 DEF RingTypes
    <3>5. RefInv'
      <4> SUFFICES ASSUME NEW n \in Maps
                   PROVE  /\ hup'[n] <= polled'[n]
                          /\ refcnt'[n] = IF mapped'[n] THEN polled'[n] + 1 ELSE 0
                          /\ ~mapped'[n] => polled'[n] = 0 /\ head'[n] = prev'[n]
        BY DEF RefInv
      <4>1. CASE n = m
        BY <1>1, <2>0, <2>1, <3>1, <3>2, <3>3, <4>1 DEF RefInv
      <4>2. CASE n # m
        BY <1>1, <2>1, <3>1, <3>2, <4>2 DEF RefInv
      <4> QED
        BY <4>1, <4>2
    <3> QED
      BY <3>4, <3>5
  <2> QED
    BY <1>3, <2>2, <2>3 DEF perf_mmap__consume, perf_mmap__empty
<1> QED
  BY <1>1, <1>2, <1>3

LEMMA RingsOfPollHup ==
  ASSUME RingTypes, RefInv, PollHup
  PROVE  RingTypes' /\ RefInv'
<1>1. /\ polled' = [m \in Maps |-> polled[m] - hup[m]]
      /\ refcnt' = [m \in Maps |-> refcnt[m] - hup[m]]
      /\ mapped' = [m \in Maps |-> mapped[m] /\ (hup[m] = 0 \/ refcnt'[m] > 0)]
      /\ hup' = [m \in Maps |-> 0]
      /\ UNCHANGED <<head, prev, wanted, cur, kind>>
  BY DEF PollHup, perf_evlist__filter_pollfd, historyVars
<1>2. ASSUME NEW m \in Maps
      PROVE  /\ polled[m] - hup[m] \in Nat /\ refcnt[m] - hup[m] \in Nat
             /\ mapped[m] => refcnt[m] - hup[m] = polled[m] - hup[m] + 1
             /\ ~mapped[m] => refcnt[m] = 0 /\ polled[m] = 0 /\ hup[m] = 0 /\ head[m] = prev[m]
  BY DEF RingTypes, RefInv
<1>3. ASSUME NEW m \in Maps
      PROVE  mapped'[m] <=> mapped[m]
  <2>1. refcnt'[m] = refcnt[m] - hup[m]
    BY <1>1
  <2>2. mapped[m] => refcnt'[m] > 0
    BY <1>2, <2>1
  <2>3. mapped'[m] <=> mapped[m] /\ (hup[m] = 0 \/ refcnt'[m] > 0)
    BY <1>1, Zenon
  <2> QED
    BY <2>2, <2>3
<1>4. RingTypes'
  <2>1. mapped' \in [Maps -> BOOLEAN]
    BY <1>1, Zenon
  <2> QED
    BY <1>1, <1>2, <2>1 DEF RingTypes
<1>5. RefInv'
  BY <1>1, <1>2, <1>3 DEF RefInv
<1> QED
  BY <1>4, <1>5

(* The pass goes on to the overwritable buffers only if there are any.     *)
LEMMA PassKind ==
  ASSUME RingTypes, StateInv, PassEnds
  PROVE  cur' \in Nat \ {0} /\ kind' \in Kinds
<1>1. CASE kind = "forward" /\ bkw_mmap_state = "DATA_PENDING"
  <2>1. kind' = "backward" /\ cur' = 1
    BY <1>1 DEF PassEnds
  <2>2. Backward
    BY <1>1 DEF StateInv
  <2> QED
    BY <2>1, <2>2 DEF Kinds
<1>2. CASE ~(kind = "forward" /\ bkw_mmap_state = "DATA_PENDING")
  BY <1>2 DEF PassEnds, RingTypes
<1> QED
  BY <1>1, <1>2

(* Every step keeps the references in line with the events alive. *)
LEMMA RingsStep ==
  ASSUME RingTypes, RefInv, StateInv, [Next]_vars
  PROVE  RingTypes' /\ RefInv'
<1>1. CASE \/ Start \/ Top \/ ReadFails \/ PassEnds \/ ReadSnapshot \/ NoSnapshot
           \/ CheckSwitch \/ record__switch_output \/ CheckIdle \/ Sleep \/ Disable \/ Finish
           \/ PollData \/ Signal \/ UNCHANGED vars
  <2>1. UNCHANGED <<head, prev, refcnt, mapped, polled, hup>>
    BY <1>1 DEF Start, Top, ReadFails, PassEnds, ReadSnapshot, NoSnapshot, CheckSwitch,
                record__switch_output, CheckIdle, Sleep, Disable, Finish, PollData, Signal,
                Sigchld, Sigint, snapshot_sig_handler, vars, ringVars, pollVars
  <2>2. wanted' = wanted \/ wanted' = head
    BY <1>1 DEF Start, Top, ReadFails, PassEnds, ReadSnapshot, NoSnapshot, CheckSwitch,
                record__switch_output, CheckIdle, Sleep, Disable, Finish, PollData, Signal,
                Sigchld, Sigint, snapshot_sig_handler, vars, historyVars
  <2>3. PassEnds \/ (cur' \in {cur, 1} /\ kind' \in {kind, "forward"})
    BY <1>1 DEF Start, Top, ReadFails, ReadSnapshot, NoSnapshot, CheckSwitch,
                record__switch_output, CheckIdle, Sleep, Disable, Finish, PollData, Signal,
                Sigchld, Sigint, snapshot_sig_handler, vars, loopVars
  <2>4. wanted' \in [Maps -> Nat]
    BY <2>2 DEF RingTypes
  <2>5. "forward" \in Kinds
    BY DEF Kinds
  <2>6. cur' \in Nat \ {0} /\ kind' \in Kinds
    BY <2>3, <2>5, PassKind DEF RingTypes
  <2> QED
    BY <2>1, <2>4, <2>6, RingsUnchanged
<1> QED
  BY <1>1, RingsOfKernel, RingsOfRead, RingsOfPollHup DEF Next, Loop, Kernel, Terminated

(* The snapshot trigger and the flag the loop looks at. *)
LEMMA SnapshotStep ==
  ASSUME SnapshotNotForgotten, [Next]_vars
  PROVE  SnapshotNotForgotten'
<1>1. CASE UNCHANGED <<auxtrace_snapshot_trigger, snapshot_started>>
  BY <1>1 DEF SnapshotNotForgotten
<1>2. CASE snapshot_sig_handler
  <2>1. CASE auxtrace_snapshot_trigger = "READY"
    BY <1>2, <2>1 DEF snapshot_sig_handler, trigger_error, SnapshotNotForgotten
  <2>2. CASE auxtrace_snapshot_trigger # "READY"
    BY <1>1, <1>2, <2>2 DEF snapshot_sig_handler
  <2> QED
    BY <2>1, <2>2
<1>3. CASE ReadFails \/ ReadSnapshot \/ Start
  BY <1>3 DEF ReadFails, ReadSnapshot, Start, trigger_ready, trigger_error,
              trigger_is_available, SnapshotNotForgotten
<1>4. CASE Disable \/ Finish
  <2>1. /\ \/ auxtrace_snapshot_trigger' = trigger_off(auxtrace_snapshot_trigger)
           \/ auxtrace_snapshot_trigger' = auxtrace_snapshot_trigger
        /\ snapshot_started' = snapshot_started
    BY <1>4 DEF Disable, Finish
  <2> QED
    BY <2>1 DEF trigger_off, trigger_is_available, SnapshotNotForgotten
<1>5. CASE \/ Top \/ record__mmap_read \/ PassEnds \/ NoSnapshot \/ CheckSwitch
           \/ record__switch_output \/ CheckIdle \/ Sleep \/ PollHup \/ PollData \/ Kernel
           \/ Sigchld \/ Sigint \/ UNCHANGED vars
  BY <1>1, <1>5
     DEF Top, record__mmap_read, PassEnds, NoSnapshot, CheckSwitch, record__switch_output,
         CheckIdle, Sleep, PollHup, PollData, Kernel, KernelWrites, EventDies, Sigchld, Sigint,
         vars, flagVars
<1> QED
  BY <1>2, <1>3, <1>4, <1>5 DEF Next, Loop, Signal, Terminated

(* What a step of the loop is to the flags and the overwritable buffers.   *)
LEMMA StateOfQuietStep ==
  ASSUME StateInv,
         UNCHANGED <<bkw_mmap_state, paused, kind, draining>>,
         done => done',
         \/ pc' = pc
         \/ pc = "poll" /\ pc' = "woken",
         switch_output_trigger = "HIT" => switch_output_trigger' = "HIT"
  PROVE  StateInv'
<1>1. bkw_mmap_state' = bkw_mmap_state /\ kind' = kind
  OBVIOUS
<1>2. (paused' <=> paused) /\ (draining' <=> draining)
  BY Zenon
<1> QED
  BY <1>1, <1>2 DEF StateInv

LEMMA StateOfSignal ==
  ASSUME StateInv, Signal
  PROVE  StateInv'
<1>1. UNCHANGED <<bkw_mmap_state, paused, kind, draining>>
  BY DEF Signal, Sigchld, Sigint, snapshot_sig_handler, kernelVars
<1>2. done => done'
  BY Zenon DEF Signal, Sigchld, Sigint, snapshot_sig_handler
<1>3. \/ pc' = pc /\ pc # "poll"
      \/ pc = "poll" /\ pc' = "woken"
  BY DEF Signal, Sigchld, Sigint, snapshot_sig_handler, InterruptsPoll
<1>4. switch_output_trigger = "HIT" => switch_output_trigger' = "HIT"
  BY DEF Signal, Sigchld, Sigint, snapshot_sig_handler
<1> QED
  BY <1>1, <1>2, <1>3, <1>4, StateOfQuietStep

(* The passes and what they do to the overwritable buffers. *)
LEMMA StateOfTop ==
  ASSUME StateInv, Top
  PROVE  StateInv'
<1>1. /\ pc = "top" /\ pc' = "pass" /\ kind' = "forward"
      /\ switch_output_trigger' = switch_output_trigger
  BY DEF Top, flagVars
<1>2. (done' <=> done) /\ (draining' <=> draining)
  BY Zenon DEF Top, flagVars
<1>3. CASE /\ switch_output_trigger = "HIT" \/ done \/ draining
           /\ bkw_mmap_state = "RUNNING"
  <2>1. Backward /\ <<bkw_mmap_state, "DATA_PENDING">> \in Toggles
    BY <1>3 DEF StateInv, Toggles
  <2>2. perf_evlist__toggle_bkw_mmap("DATA_PENDING")
    BY <1>3 DEF Top
  <2>3. bkw_mmap_state' = "DATA_PENDING"
    BY <2>1, <2>2 DEF perf_evlist__toggle_bkw_mmap
  <2>4. paused'
    BY <2>1, <2>2 DEF perf_evlist__toggle_bkw_mmap
  <2> QED
    BY <1>1, <1>2, <1>3, <2>1, <2>3, <2>4 DEF StateInv
<1>4. CASE ~(/\ switch_output_trigger = "HIT" \/ done \/ draining
             /\ bkw_mmap_state = "RUNNING")
  <2>1. bkw_mmap_state' = bkw_mmap_state /\ paused' = paused
    <3>1. CASE switch_output_trigger = "HIT" \/ done \/ draining
      <4>1. <<bkw_mmap_state, "DATA_PENDING">> \notin Toggles
        BY <1>4, <3>1 DEF Toggles
      <4> QED
        BY <3>1, <4>1 DEF Top, perf_evlist__toggle_bkw_mmap
    <3>2. CASE ~(switch_output_trigger = "HIT" \/ done \/ draining)
      BY <3>2 DEF Top
    <3> QED
      BY <3>1, <3>2
  <2>2. paused' <=> paused
    BY <2>1, Zenon
  <2> QED
    BY <1>1, <1>2, <1>4, <2>1, <2>2 DEF StateInv
<1> QED
  BY <1>3, <1>4

LEMMA StateOfPassEnds ==
  ASSUME RingTypes, StateInv, PassEnds
  PROVE  StateInv'
<1>1. /\ pc = "pass" /\ switch_output_trigger' = switch_output_trigger
  BY DEF PassEnds, flagVars
<1>2. (done' <=> done) /\ (draining' <=> draining)
  BY Zenon DEF PassEnds, flagVars
<1>3. kind \in {"forward", "backward"}
  BY DEF RingTypes, Kinds
<1>4. CASE kind = "forward" /\ bkw_mmap_state = "DATA_PENDING"
  <2>1. kind' = "backward" /\ pc' = pc /\ bkw_mmap_state' = bkw_mmap_state /\ paused' = paused
    BY <1>4 DEF PassEnds
  <2>2. paused' <=> paused
    BY <2>1, Zenon
  <2> QED
    BY <1>1, <1>2, <1>4, <2>1, <2>2 DEF StateInv
<1>5. CASE kind = "forward" /\ bkw_mmap_state # "DATA_PENDING"
  <2>1. kind' = kind /\ pc' = "snapshot" /\ bkw_mmap_state' = bkw_mmap_state /\ paused' = paused
    BY <1>5 DEF PassEnds
  <2>2. paused' <=> paused
    BY <2>1, Zenon
  <2> QED
    BY <1>1, <1>2, <1>5, <2>1, <2>2 DEF StateInv
<1>6. CASE kind = "backward"
  <2>1. bkw_mmap_state = "DATA_PENDING" /\ Backward
    BY <1>1, <1>6 DEF StateInv
  <2>2. kind' = kind /\ pc' = "snapshot" /\ perf_evlist__toggle_bkw_mmap("EMPTY")
    BY <1>6 DEF PassEnds
  <2>3. <<bkw_mmap_state, "EMPTY">> \in Toggles
    BY <2>1 DEF Toggles
  <2>4. bkw_mmap_state' = "EMPTY" /\ paused' = paused
    BY <2>1, <2>2, <2>3 DEF perf_evlist__toggle_bkw_mmap
  <2>5. paused' <=> paused
    BY <2>4, Zenon
  <2> QED
    BY <1>1, <1>2, <1>6, <2>1, <2>2, <2>4, <2>5 DEF StateInv
<1> QED
  BY <1>3, <1>4, <1>5, <1>6

LEMMA StateOfCheckSwitch ==
  ASSUME StateInv, CheckSwitch
  PROVE  StateInv'
<1>1. pc = "switch" /\ kind' = kind
  BY DEF CheckSwitch
<1>2. (done' <=> done) /\ (draining' <=> draining)
  BY Zenon DEF CheckSwitch
<1>3. CASE switch_output_trigger # "HIT" \/ bkw_mmap_state = "RUNNING"
  <2>1. /\ pc' \in {"top", "idle"} /\ switch_output_trigger' = switch_output_trigger
        /\ bkw_mmap_state' = bkw_mmap_state /\ paused' = paused
    BY <1>3 DEF CheckSwitch
  <2>2. paused' <=> paused
    BY <2>1, Zenon
  <2> QED
    BY <1>1, <1>2, <1>3, <2>1, <2>2 DEF StateInv
<1>4. CASE switch_output_trigger = "HIT" /\ bkw_mmap_state # "RUNNING"
  <2>1. pc' = "output" /\ perf_evlist__toggle_bkw_mmap("RUNNING")
    BY <1>4 DEF CheckSwitch
  <2>2. bkw_mmap_state \in {"NOTREADY", "EMPTY"}
    BY <1>1, <1>4 DEF StateInv
  <2>3. CASE bkw_mmap_state = "EMPTY"
    <3>1. Backward /\ <<bkw_mmap_state, "RUNNING">> \in Toggles
      BY <2>3 DEF StateInv, Toggles
    <3>2. bkw_mmap_state' = "RUNNING" /\ ~paused'
      BY <2>1, <3>1 DEF perf_evlist__toggle_bkw_mmap
    <3> QED
      BY <1>1, <1>2, <2>1, <3>1, <3>2 DEF StateInv
  <2>4. CASE bkw_mmap_state = "NOTREADY"
    <3>1. ~Backward
      BY <2>4 DEF StateInv
    <3>2. bkw_mmap_state' = bkw_mmap_state /\ paused' = paused
      BY <2>1, <3>1 DEF perf_evlist__toggle_bkw_mmap
    <3>3. paused' <=> paused
      BY <3>2, Zenon
    <3> QED
      BY <1>1, <1>2, <2>1, <2>4, <3>1, <3>2, <3>3 DEF StateInv
  <2> QED
    BY <2>2, <2>3, <2>4
<1> QED
  BY <1>3, <1>4

(* The steps that leave the overwritable buffers' state alone. *)
LEMMA StateOfMove ==
  ASSUME StateInv,
         UNCHANGED <<bkw_mmap_state, paused, kind, done>>,
         draining => draining',
         pc' = "pass" => pc = "pass",
         pc \in {"pass", "error", "failed"} /\ bkw_mmap_state = "DATA_PENDING" =>
           pc' \in {"pass", "error", "failed"},
         pc \in {"error", "failed"} => pc' \in {"error", "failed"},
         switch_output_trigger = "HIT" /\ pc \in {"pass", "snapshot", "switch"} =>
           \/ pc' \in {"error", "failed"}
           \/ switch_output_trigger' = "HIT" /\ pc' \in {"pass", "snapshot", "switch"},
         pc' \in {"sleep", "poll"} =>
           \/ pc \in {"sleep", "poll"}
           \/ pc = "idle" /\ ~done /\ ~draining
  PROVE  StateInv'
<1>1. bkw_mmap_state' = bkw_mmap_state /\ kind' = kind
  OBVIOUS
<1>2. (paused' <=> paused) /\ (done' <=> done)
  BY Zenon
<1> QED
  BY <1>1, <1>2 DEF StateInv

LEMMA StateOfLoopStep ==
  ASSUME StateInv,
         \/ Start \/ record__mmap_read \/ ReadFails \/ ReadSnapshot \/ NoSnapshot
         \/ record__switch_output \/ CheckIdle \/ Sleep \/ Disable \/ Finish \/ PollData \/ PollHup
  PROVE  StateInv'
<1> USE DEF kernelVars, flagVars, loopVars
<1>1. UNCHANGED <<bkw_mmap_state, paused, kind, done>>
  BY DEF Start, record__mmap_read, ReadFails, ReadSnapshot, NoSnapshot,
         record__switch_output, CheckIdle, Sleep, Disable, Finish, PollData, PollHup
<1>2. draining => draining'
  BY Zenon DEF Start, record__mmap_read, ReadFails, ReadSnapshot, NoSnapshot,
         record__switch_output, CheckIdle, Sleep, Disable, Finish, PollData, PollHup,
         perf_evlist__filter_pollfd
<1>3. /\ pc' = "pass" => pc = "pass"
      /\ pc \in {"pass", "error", "failed"} /\ bkw_mmap_state = "DATA_PENDING" =>
           pc' \in {"pass", "error", "failed"}
      /\ pc \in {"error", "failed"} => pc' \in {"error", "failed"}
  BY DEF Start, record__mmap_read, ReadFails, ReadSnapshot, NoSnapshot,
         record__switch_output, CheckIdle, Sleep, Disable, Finish, PollData, PollHup
<1>4. ASSUME switch_output_trigger = "HIT", pc \in {"pass", "snapshot", "switch"}
      PROVE  \/ pc' \in {"error", "failed"}
             \/ switch_output_trigger' = "HIT" /\ pc' \in {"pass", "snapshot", "switch"}
  BY <1>4 DEF Start, record__mmap_read, ReadFails, ReadSnapshot, NoSnapshot,
         record__switch_output, CheckIdle, Sleep, Disable, Finish, PollData, PollHup
<1>5. ASSUME pc' \in {"sleep", "poll"}
      PROVE  \/ pc \in {"sleep", "poll"}
             \/ pc = "idle" /\ ~done /\ ~draining
  <2>1. CheckIdle \/ pc = "sleep"
    BY <1>5 DEF Start, record__mmap_read, ReadFails, ReadSnapshot, NoSnapshot,
         record__switch_output, Sleep, Disable, Finish, PollData, PollHup
  <2> QED
    BY <1>5, <2>1 DEF CheckIdle
<1> QED
  BY <1>1, <1>2, <1>3, <1>4, <1>5, StateOfMove

(* Every step keeps the state of the overwritable buffers in line with     *)
(* what the kernel and the flags say.                                      *)
LEMMA StateStep ==
  ASSUME RingTypes, StateInv, [Next]_vars
  PROVE  StateInv'
<1>1. CASE Kernel \/ UNCHANGED vars
  <2>1. UNCHANGED <<bkw_mmap_state, paused, kind, draining, done, pc, switch_output_trigger>>
    BY <1>1 DEF Kernel, KernelWrites, EventDies, vars, kernelVars, flagVars, loopVars
  <2>2. done => done'
    BY <2>1, Zenon
  <2> QED
    BY <2>1, <2>2, StateOfQuietStep
<1> QED
  BY <1>1, StateOfSignal, StateOfTop, StateOfPassEnds, StateOfCheckSwitch, StateOfLoopStep
     DEF Next, Loop, Terminated

(* The steps that read nothing and write nothing. *)
LEMMA DumpOfQuietStep ==
  ASSUME RingTypes, DumpInv,
         UNCHANGED <<head, prev>>,
         wanted' = wanted \/ wanted' = head,
         bkw_mmap_state' = "EMPTY" =>
           bkw_mmap_state = "EMPTY" \/ (pc = "pass" /\ kind = "backward" /\ cur > NrMmaps),
         pc' = "pass" /\ kind' = "backward" =>
           cur' = 1 \/ (pc = "pass" /\ kind = "backward" /\ cur' = cur)
  PROVE  DumpInv'
<1> SUFFICES ASSUME NEW m \in BackwardMaps
             PROVE  /\ prev[m] <= head[m] /\ wanted'[m] <= head[m]
                    /\ bkw_mmap_state' = "EMPTY" => prev[m] = head[m]
                    /\ pc' = "pass" /\ kind' = "backward" /\ m[2] < cur' => prev[m] = head[m]
  BY DEF DumpInv
<1>1. m \in Maps /\ m[2] \in 1 .. NrMmaps
  BY DEF BackwardMaps, Maps
<1>2. head[m] \in Nat /\ prev[m] \in Nat
  BY <1>1 DEF RingTypes
<1>3. prev[m] <= head[m] /\ wanted[m] <= head[m]
  BY DEF DumpInv
<1>4. bkw_mmap_state' = "EMPTY" => prev[m] = head[m]
  <2>1. CASE bkw_mmap_state = "EMPTY"
    BY <2>1 DEF DumpInv
  <2>2. CASE pc = "pass" /\ kind = "backward" /\ cur > NrMmaps
    <3>1. m[2] < cur
      BY <1>1, <2>2, RecordAssumption DEF RingTypes
    <3> QED
      BY <2>2, <3>1 DEF DumpInv
  <2> QED
    BY <2>1, <2>2
<1>5. pc' = "pass" /\ kind' = "backward" /\ m[2] < cur' => prev[m] = head[m]
  BY <1>1 DEF DumpInv
<1> QED
  BY <1>2, <1>3, <1>4, <1>5

LEMMA DumpOfKernelWrites ==
  ASSUME RingTypes, StateInv, DumpInv, NEW n \in Maps, KernelWrites(n)
  PROVE  DumpInv'
<1>1. /\ head' = [head EXCEPT ![n] = @ + 1]
      /\ n[1] = "backward" => ~paused
      /\ UNCHANGED <<prev, wanted, pc, kind, cur, bkw_mmap_state>>
  BY DEF KernelWrites, loopVars, historyVars
<1> SUFFICES ASSUME NEW m \in BackwardMaps
             PROVE  /\ prev[m] <= head'[m] /\ wanted[m] <= head'[m]
                    /\ bkw_mmap_state = "EMPTY" => prev[m] = head'[m]
                    /\ pc = "pass" /\ kind = "backward" /\ m[2] < cur => prev[m] = head'[m]
  BY <1>1 DEF DumpInv
<1>2. m \in Maps /\ m[1] = "backward"
  BY DEF BackwardMaps
<1>3. CASE m = n
  <2>1. head'[m] = head[m] + 1
    BY <1>1, <1>2, <1>3 DEF RingTypes
  <2>2. ~paused
    BY <1>1, <1>2, <1>3
  <2>3. bkw_mmap_state # "EMPTY" /\ bkw_mmap_state # "DATA_PENDING"
    BY <2>2 DEF StateInv
  <2>4. ~(pc = "pass" /\ kind = "backward")
    BY <2>3 DEF StateInv
  <2>5. prev[m] <= head[m] /\ wanted[m] <= head[m]
    BY DEF DumpInv
  <2>6. prev[m] <= head'[m] /\ wanted[m] <= head'[m]
    BY <1>2, <2>1, <2>5 DEF RingTypes
  <2> QED
    BY <2>3, <2>4, <2>6
<1>4. CASE m # n
  <2>1. head'[m] = head[m]
    BY <1>1, <1>2, <1>4 DEF RingTypes
  <2> QED
    BY <2>1 DEF DumpInv
<1> QED
  BY <1>3, <1>4

LEMMA DumpOfRead ==
  ASSUME RingTypes, RefInv, DumpInv, record__mmap_read
  PROVE  DumpInv'
<1> DEFINE n == <<kind, cur>>
<1>1. /\ UNCHANGED <<head, wanted, pc, kind, bkw_mmap_state>> /\ cur' = cur + 1
      /\ cur <= NrMmaps
  BY DEF record__mmap_read, historyVars
<1>2. n \in Maps
  BY <1>1, RecordAssumption DEF Maps, RingTypes
<1>3. \/ /\ mapped[n] /\ HasData(n)
         /\ prev' = [prev EXCEPT ![n] = head[n]]
      \/ /\ ~mapped[n] \/ ~HasData(n)
         /\ prev' = prev
  BY DEF record__mmap_read
<1>4. ASSUME NEW m \in BackwardMaps, m # n
      PROVE  prev'[m] = prev[m]
  BY <1>2, <1>3, <1>4 DEF RingTypes, BackwardMaps
<1>5. ASSUME n \in BackwardMaps
      PROVE  prev'[n] = head[n]
  <2>1. CASE prev' = [prev EXCEPT ![n] = head[n]]
    BY <1>2, <2>1 DEF RingTypes
  <2>2. CASE ~mapped[n] /\ prev' = prev
    BY <1>2, <2>2 DEF RefInv
  <2>3. CASE ~HasData(n) /\ prev' = prev
    <3>1. head[n] = 0
      BY <1>5, <2>3 DEF HasData, BackwardMaps
    <3>2. prev[n] <= head[n]
      BY <1>5 DEF DumpInv
    <3> QED
      BY <1>2, <2>3, <3>1, <3>2 DEF RingTypes
  <2> QED
    BY <1>3, <2>1, <2>2, <2>3
<1> SUFFICES ASSUME NEW m \in BackwardMaps
             PROVE  /\ prev'[m] <= head[m] /\ wanted[m] <= head[m]
                    /\ bkw_mmap_state = "EMPTY" => prev'[m] = head[m]
                    /\ pc = "pass" /\ kind = "backward" /\ m[2] < cur + 1 => prev'[m] = head[m]
  BY <1>1 DEF DumpInv
<1>6. m \in Maps /\ m[1] = "backward" /\ m[2] \in Nat /\ m = <<m[1], m[2]>>
  BY RecordAssumption DEF BackwardMaps, Maps
<1>7. wanted[m] <= head[m] /\ head[m] \in Nat
  BY <1>6 DEF DumpInv, RingTypes
<1>8. CASE m = n
  BY <1>5, <1>7, <1>8
<1>9. CASE m # n
  <2>1. kind = "backward" => m[2] # cur
    BY <1>6, <1>9
  <2>2. kind = "backward" /\ m[2] < cur + 1 => m[2] < cur
    BY <1>6, <2>1 DEF RingTypes
  <2> HIDE DEF n
  <2> QED
    BY <1>4, <1>7, <1>9, <2>2 DEF DumpInv
<1> QED
  BY <1>8, <1>9

(* Every step keeps the dumps of the overwritable buffers complete. *)
LEMMA DumpStep ==
  ASSUME RingTypes, RefInv, StateInv, DumpInv, [Next]_vars
  PROVE  DumpInv'
<1>1. CASE \/ Start \/ ReadFails \/ ReadSnapshot \/ NoSnapshot \/ record__switch_output
           \/ CheckIdle \/ Sleep \/ Disable \/ Finish \/ PollData \/ PollHup \/ UNCHANGED vars
           \/ Signal \/ (\E m \in Maps : EventDies(m))
  <2>1. UNCHANGED <<head, prev, kind, cur, bkw_mmap_state>>
    BY <1>1 DEF Start, ReadFails, ReadSnapshot, NoSnapshot, record__switch_output,
                CheckIdle, Sleep, Disable, Finish, PollData, PollHup, Signal, Sigchld, Sigint,
                snapshot_sig_handler, EventDies, vars, ringVars, loopVars
  <2>2. wanted' = wanted \/ wanted' = head
    BY <1>1 DEF Start, ReadFails, ReadSnapshot, NoSnapshot, record__switch_output,
                CheckIdle, Sleep, Disable, Finish, PollData, PollHup, Signal, Sigchld, Sigint,
                snapshot_sig_handler, EventDies, vars, historyVars
  <2>3. pc' = "pass" => pc = "pass"
    BY <1>1 DEF Start, ReadFails, ReadSnapshot, NoSnapshot, record__switch_output,
                CheckIdle, Sleep, Disable, Finish, PollData, PollHup, Signal, Sigchld, Sigint,
                snapshot_sig_handler, InterruptsPoll, EventDies, vars, loopVars
  <2>4. bkw_mmap_state' = "EMPTY" =>
         bkw_mmap_state = "EMPTY" \/ (pc = "pass" /\ kind = "backward" /\ cur > NrMmaps)
    BY <2>1
  <2>5. pc' = "pass" /\ kind' = "backward" =>
         cur' = 1 \/ (pc = "pass" /\ kind = "backward" /\ cur' = cur)
    BY <2>1, <2>3
  <2> QED
    BY <2>1, <2>2, <2>4, <2>5, DumpOfQuietStep
<1>2. CASE Top
  <2>1. UNCHANGED <<head, prev, wanted>> /\ kind' = "forward"
    BY <1>2 DEF Top, ringVars, historyVars
  <2>2. bkw_mmap_state' \in {bkw_mmap_state, "DATA_PENDING"}
    BY <1>2 DEF Top, perf_evlist__toggle_bkw_mmap
  <2>3. bkw_mmap_state' = "EMPTY" =>
         bkw_mmap_state = "EMPTY" \/ (pc = "pass" /\ kind = "backward" /\ cur > NrMmaps)
    BY <2>1, <2>2
  <2>4. pc' = "pass" /\ kind' = "backward" =>
         cur' = 1 \/ (pc = "pass" /\ kind = "backward" /\ cur' = cur)
    BY <2>1, <2>2
  <2> QED
    BY <2>1, <2>3, <2>4, DumpOfQuietStep
<1>3. CASE CheckSwitch
  <2>1. UNCHANGED <<head, prev, wanted>> /\ pc' # "pass"
    BY <1>3 DEF CheckSwitch, ringVars, historyVars
  <2>2. bkw_mmap_state' \in {bkw_mmap_state, "RUNNING"}
    BY <1>3 DEF CheckSwitch, perf_evlist__toggle_bkw_mmap
  <2>3. bkw_mmap_state' = "EMPTY" =>
         bkw_mmap_state = "EMPTY" \/ (pc = "pass" /\ kind = "backward" /\ cur > NrMmaps)
    BY <2>1, <2>2
  <2>4. pc' = "pass" /\ kind' = "backward" =>
         cur' = 1 \/ (pc = "pass" /\ kind = "backward" /\ cur' = cur)
    BY <2>1, <2>2
  <2> QED
    BY <2>1, <2>3, <2>4, DumpOfQuietStep
<1>4. CASE PassEnds
  <2>1. UNCHANGED <<head, prev, wanted>> /\ pc = "pass" /\ cur > NrMmaps
    BY <1>4 DEF PassEnds, ringVars, historyVars
  <2>2. \/ cur' = 1 /\ bkw_mmap_state' = bkw_mmap_state
        \/ /\ pc' = "snapshot"
           /\ bkw_mmap_state' = bkw_mmap_state \/ kind = "backward"
    BY <1>4 DEF PassEnds
  <2>3. bkw_mmap_state' = "EMPTY" =>
         bkw_mmap_state = "EMPTY" \/ (pc = "pass" /\ kind = "backward" /\ cur > NrMmaps)
    BY <2>1, <2>2
  <2>4. pc' = "pass" /\ kind' = "backward" =>
         cur' = 1 \/ (pc = "pass" /\ kind = "backward" /\ cur' = cur)
    BY <2>1, <2>2
  <2> QED
    BY <2>1, <2>3, <2>4, DumpOfQuietStep
<1> QED
  BY <1>1, <1>2, <1>3, <1>4, DumpOfKernelWrites, DumpOfRead
     DEF Next, Loop, Kernel, Terminated

(* The steps that neither read nor write, nor touch the poll array. *)
LEMMA DrainOfQuietStep ==
  ASSUME DrainInv,
         UNCHANGED <<head, prev, polled, draining>>,
         pc' = "pass" => pc = "pass" /\ UNCHANGED <<kind, cur, bkw_mmap_state>>,
         pc' \in {"snapshot", "switch", "output", "idle", "out", "closed"} =>
           pc \in {"snapshot", "switch", "output", "idle", "out", "closed"}
  PROVE  DrainInv'
<1>1. draining' <=> draining
  BY Zenon
<1>2. head' = head /\ prev' = prev /\ polled' = polled
  OBVIOUS
<1> QED
  BY <1>1, <1>2 DEF DrainInv

(* Nobody writes to a buffer without events, and none of these dies. *)
LEMMA DrainOfKernel ==
  ASSUME RingTypes, DrainInv, NEW n \in Maps, KernelWrites(n) \/ EventDies(n)
  PROVE  DrainInv'
<1>1. polled[n] > hup[n] \/ hup[n] < polled[n]
  BY DEF KernelWrites, EventDies
<1>2. polled[n] # 0
  BY <1>1 DEF RingTypes
<1>3. ~draining
  BY <1>2 DEF DrainInv
<1>4. ~draining'
  BY <1>3, Zenon DEF KernelWrites, EventDies, loopVars
<1> QED
  BY <1>4 DEF DrainInv

LEMMA DrainOfPollHup ==
  ASSUME RingTypes, RefInv, DrainInv, PollHup
  PROVE  DrainInv'
<1>1. /\ polled' = [m \in Maps |-> polled[m] - hup[m]] /\ pc' = "woken"
  BY DEF PollHup, perf_evlist__filter_pollfd
<1>2. draining' => draining \/ \A m \in Maps : polled'[m] = 0
  BY Zenon DEF PollHup, perf_evlist__filter_pollfd
<1>3. draining => \A m \in Maps : polled'[m] = 0
  BY <1>1 DEF DrainInv, RingTypes, RefInv
<1>4. draining' => \A m \in Maps : polled'[m] = 0
  BY <1>2, <1>3
<1> QED
  BY <1>1, <1>4 DEF DrainInv

LEMMA DrainOfRead ==
  ASSUME RingTypes, RefInv, DumpInv, DrainInv, record__mmap_read
  PROVE  DrainInv'
<1> DEFINE n == <<kind, cur>>
<1>1. /\ UNCHANGED <<head, polled, kind, bkw_mmap_state>> /\ cur' = cur + 1
      /\ pc = "pass" /\ pc' = "pass" /\ cur <= NrMmaps
  BY DEF record__mmap_read, pollVars
<1>2. draining' <=> draining
  BY Zenon DEF record__mmap_read
<1>3. n \in Maps
  BY <1>1, RecordAssumption DEF Maps, RingTypes
<1>4. \/ prev' = [prev EXCEPT ![n] = head[n]]
      \/ /\ ~mapped[n] \/ ~HasData(n)
         /\ prev' = prev
  BY DEF record__mmap_read
<1>5. ASSUME NEW m \in Maps, prev[m] = head[m]
      PROVE  prev'[m] = head[m]
  BY <1>3, <1>4, <1>5 DEF RingTypes
<1>6. ASSUME n[1] = "forward"
      PROVE  prev'[n] = head[n]
  <2>1. CASE prev' = [prev EXCEPT ![n] = head[n]]
    BY <1>3, <2>1 DEF RingTypes
  <2>2. CASE ~mapped[n] /\ prev' = prev
    BY <1>3, <2>2 DEF RefInv
  <2>3. CASE ~HasData(n) /\ prev' = prev
    BY <1>6, <2>3 DEF HasData
  <2> QED
    BY <1>4, <2>1, <2>2, <2>3
<1> SUFFICES ASSUME draining, NEW m \in Maps
             PROVE  /\ polled[m] = 0
                    /\ m[1] = "forward" /\ (kind = "backward" \/ m[2] < cur + 1) =>
                         prev'[m] = head[m]
                    /\ m[1] = "backward" =>
                         bkw_mmap_state = "DATA_PENDING" \/ prev'[m] = head[m]
  BY <1>1, <1>2 DEF DrainInv
<1>7. m[2] \in Nat /\ cur \in Nat /\ m = <<m[1], m[2]>>
  BY RecordAssumption DEF Maps, RingTypes
<1>8. CASE m[1] = "forward" /\ kind = "forward" /\ m[2] = cur
  <2>1. m = n
    BY <1>7, <1>8
  <2> QED
    BY <1>6, <1>8, <2>1 DEF DrainInv
<1>9. CASE ~(m[1] = "forward" /\ kind = "forward" /\ m[2] = cur)
  <2>1. m[2] < cur + 1 => m[2] < cur \/ m[2] = cur
    BY <1>7
  <2>2. kind \in {"forward", "backward"}
    BY DEF RingTypes, Kinds
  <2> HIDE DEF n
  <2> QED
    BY <1>1, <1>5, <1>9, <2>1, <2>2 DEF DrainInv
<1> QED
  BY <1>8, <1>9

(* The last pass begins: the overwritable buffers are read too, unless all *)
(* they hold was read before.                                              *)
LEMMA DrainOfTop ==
  ASSUME RingTypes, StateInv, DumpInv, DrainInv, Top
  PROVE  DrainInv'
<1>1. /\ UNCHANGED <<head, prev, polled>> /\ pc' = "pass" /\ kind' = "forward" /\ cur' = 1
      /\ pc = "top"
  BY DEF Top, ringVars, pollVars
<1>2. draining' <=> draining
  BY Zenon DEF Top
<1> SUFFICES ASSUME draining, NEW m \in Maps
             PROVE  /\ polled[m] = 0
                    /\ m[1] = "forward" => ~(m[2] < 1)
                    /\ m[1] = "backward" =>
                         bkw_mmap_state' = "DATA_PENDING" \/ prev[m] = head[m]
  BY <1>1, <1>2 DEF DrainInv
<1>3. polled[m] = 0 /\ ~(m[2] < 1)
  BY RecordAssumption DEF DrainInv, Maps
<1>4. ASSUME m[1] = "backward"
      PROVE  bkw_mmap_state' = "DATA_PENDING" \/ prev[m] = head[m]
  <2>1. m \in BackwardMaps /\ Backward
    BY <1>4 DEF BackwardMaps, Maps, Kinds
  <2>2. bkw_mmap_state \in {"RUNNING", "EMPTY"}
    BY <1>1, <2>1 DEF StateInv
  <2>3. CASE bkw_mmap_state = "EMPTY"
    BY <2>1, <2>3 DEF DumpInv
  <2>4. CASE bkw_mmap_state = "RUNNING"
    <3>1. perf_evlist__toggle_bkw_mmap("DATA_PENDING")
      BY DEF Top
    <3>2. <<bkw_mmap_state, "DATA_PENDING">> \in Toggles
      BY <2>4 DEF Toggles
    <3> QED
      BY <2>1, <3>1, <3>2 DEF perf_evlist__toggle_bkw_mmap
  <2> QED
    BY <2>2, <2>3, <2>4
<1> QED
  BY <1>3, <1>4

LEMMA DrainOfPassEnds ==
  ASSUME RingTypes, DumpInv, DrainInv, PassEnds
  PROVE  DrainInv'
<1>1. /\ UNCHANGED <<head, prev, polled>> /\ pc = "pass" /\ cur > NrMmaps
  BY DEF PassEnds, ringVars, pollVars
<1>2. draining' <=> draining
  BY Zenon DEF PassEnds
<1>3. ASSUME NEW m \in Maps
      PROVE  m[2] < cur /\ m[1] \in {"forward", "backward"}
  BY <1>1, RecordAssumption DEF Maps, Kinds, RingTypes
<1>4. CASE kind = "forward" /\ bkw_mmap_state = "DATA_PENDING"
  <2>1. pc' = "pass" /\ kind' = "backward" /\ bkw_mmap_state' = "DATA_PENDING"
    BY <1>1, <1>4 DEF PassEnds
  <2> QED
    BY <1>1, <1>2, <1>3, <2>1 DEF DrainInv
<1>5. CASE ~(kind = "forward" /\ bkw_mmap_state = "DATA_PENDING")
  <2>1. pc' = "snapshot"
    BY <1>5 DEF PassEnds
  <2>2. kind \in {"forward", "backward"}
    BY DEF RingTypes, Kinds
  <2>3. ASSUME draining, NEW m \in Maps
        PROVE  polled[m] = 0 /\ prev[m] = head[m]
    <3>1. CASE m[1] = "forward"
      BY <1>1, <1>3, <2>3, <3>1 DEF DrainInv
    <3>2. CASE m[1] = "backward" /\ kind = "backward"
      <4>1. m \in BackwardMaps
        BY <3>2 DEF BackwardMaps
      <4> QED
        BY <1>1, <1>3, <2>3, <3>2, <4>1 DEF DrainInv, DumpInv
    <3>3. CASE m[1] = "backward" /\ kind = "forward"
      BY <1>1, <1>5, <2>3, <3>3 DEF DrainInv
    <3> QED
      BY <1>3, <2>2, <3>1, <3>2, <3>3
  <2> QED
    BY <1>1, <1>2, <2>1, <2>3 DEF DrainInv
<1> QED
  BY <1>4, <1>5

(* Every step keeps the promise of the last pass. *)
LEMMA DrainStep ==
  ASSUME RingTypes, RefInv, StateInv, DumpInv, DrainInv, [Next]_vars
  PROVE  DrainInv'
<1>1. CASE \/ Start \/ ReadFails \/ ReadSnapshot \/ NoSnapshot \/ CheckSwitch
           \/ record__switch_output \/ CheckIdle \/ Sleep \/ Disable \/ Finish
           \/ PollData \/ Signal \/ UNCHANGED vars
  <2>1. UNCHANGED <<head, prev, polled, draining>>
    BY <1>1 DEF Start, ReadFails, ReadSnapshot, NoSnapshot, CheckSwitch,
                record__switch_output, CheckIdle, Sleep, Disable, Finish, PollData, Signal,
                Sigchld, Sigint, snapshot_sig_handler, vars, ringVars, pollVars, loopVars
  <2>2. pc' = "pass" => pc = "pass" /\ UNCHANGED <<kind, cur, bkw_mmap_state>>
    BY <1>1 DEF Start, ReadFails, ReadSnapshot, NoSnapshot, CheckSwitch,
                record__switch_output, CheckIdle, Sleep, Disable, Finish, PollData, Signal,
                Sigchld, Sigint, snapshot_sig_handler, InterruptsPoll, vars, loopVars
  <2>3. pc' \in {"snapshot", "switch", "output", "idle", "out", "closed"} =>
          pc \in {"snapshot", "switch", "output", "idle", "out", "closed"}
    BY <1>1 DEF Start, ReadFails, ReadSnapshot, NoSnapshot, CheckSwitch,
                record__switch_output, CheckIdle, Sleep, Disable, Finish, PollData, Signal,
                Sigchld, Sigint, snapshot_sig_handler, InterruptsPoll, vars, loopVars
  <2> QED
    BY <2>1, <2>2, <2>3, DrainOfQuietStep
<1> QED
  BY <1>1, DrainOfKernel, DrainOfRead, DrainOfPollHup, DrainOfTop, DrainOfPassEnds
     DEF Next, Loop, Kernel, Terminated

(* The loop is left only where done and draining are looked at. *)
LEMMA OutStep ==
  ASSUME OutInv, [Next]_vars
  PROVE  OutInv'
<1>1. done => done'
  <2>1. CASE \/ Start \/ record__mmap_read \/ ReadFails \/ ReadSnapshot \/ NoSnapshot
             \/ record__switch_output \/ CheckIdle \/ Sleep \/ Disable \/ Finish \/ PollData
    BY <2>1 DEF Start, record__mmap_read, ReadFails, ReadSnapshot, NoSnapshot,
           record__switch_output, CheckIdle, Sleep, Disable, Finish, PollData, flagVars
  <2>2. CASE Top \/ PassEnds \/ CheckSwitch \/ PollHup
    BY <2>2 DEF Top, PassEnds, CheckSwitch, PollHup, perf_evlist__filter_pollfd, flagVars
  <2>3. CASE Signal \/ UNCHANGED vars
    BY <2>3, Zenon DEF Signal, Sigchld, Sigint, snapshot_sig_handler, vars, flagVars
  <2>4. CASE Kernel
    BY <2>4 DEF Kernel, KernelWrites, EventDies, flagVars
  <2> QED
    BY <2>1, <2>2, <2>3, <2>4 DEF Next, Loop, Terminated
<1>3. draining => draining'
  <2>1. CASE \/ Start \/ record__mmap_read \/ ReadFails \/ ReadSnapshot \/ NoSnapshot
             \/ record__switch_output \/ CheckIdle \/ Sleep \/ Disable \/ Finish \/ PollData
    BY <2>1 DEF Start, record__mmap_read, ReadFails, ReadSnapshot, NoSnapshot,
           record__switch_output, CheckIdle, Sleep, Disable, Finish, PollData, loopVars
  <2>2. CASE Top \/ PassEnds \/ CheckSwitch
    BY <2>2 DEF Top, PassEnds, CheckSwitch, loopVars
  <2>3. CASE PollHup
    BY <2>3, Zenon DEF PollHup, perf_evlist__filter_pollfd, loopVars
  <2>4. CASE Signal \/ Kernel \/ UNCHANGED vars
    BY <2>4 DEF Signal, Sigchld, Sigint, snapshot_sig_handler, Kernel, KernelWrites,
           EventDies, vars, loopVars
  <2> QED
    BY <2>1, <2>2, <2>3, <2>4 DEF Next, Loop, Terminated
<1>2. pc' \in {"out", "closed"} =>
        pc \in {"out", "closed"} \/ (pc = "idle" /\ (done \/ draining))
  BY DEF Next, Loop, Kernel, Signal, Terminated, KernelWrites, EventDies, Sigchld,
         Sigint, snapshot_sig_handler, InterruptsPoll, Start, Top, record__mmap_read,
         ReadFails, PassEnds, ReadSnapshot, NoSnapshot, CheckSwitch, record__switch_output,
         CheckIdle, Sleep, PollHup, PollData, Disable, Finish, vars, loopVars
<1> QED
  BY <1>1, <1>2, <1>3 DEF OutInv

(***************************************************************************)
(* The types.  The cursor of a pass never runs past the buffers, and the   *)
(* poll array never holds more entries than there are events.              *)
(***************************************************************************)

LEMMA CursorStep ==
  ASSUME TypeOK, [Next]_vars
  PROVE  /\ cur' \in 1 .. NrMmaps + 1
         /\ hits' \in Nat /\ samples' \in Nat
<1>1. CASE Top \/ record__mmap_read \/ PassEnds
  BY <1>1, RecordAssumption DEF TypeOK, Top, record__mmap_read, PassEnds
<1>2. CASE ReadSnapshot \/ record__switch_output
  BY <1>2 DEF TypeOK, ReadSnapshot, record__switch_output
<1>3. CASE \/ Start \/ ReadFails \/ NoSnapshot \/ CheckSwitch \/ CheckIdle \/ Sleep
           \/ PollHup \/ PollData \/ Disable \/ Finish \/ Kernel \/ Signal \/ UNCHANGED vars
  <2>1. UNCHANGED <<cur, hits, samples>>
    BY <1>3 DEF Start, ReadFails, NoSnapshot, CheckSwitch, CheckIdle, Sleep, PollHup,
           PollData, Disable, Finish, Kernel, KernelWrites, EventDies, Signal, Sigchld,
           Sigint, snapshot_sig_handler, vars, loopVars
  <2> QED
    BY <2>1 DEF TypeOK
<1> QED
  BY <1>1, <1>2, <1>3 DEF Next, Loop, Terminated

LEMMA PolledStep ==
  ASSUME TypeOK, RefInv, [Next]_vars
  PROVE  polled' \in [Maps -> 0 .. NrFds] /\ hup' \in [Maps -> 0 .. NrFds]
<1>1. CASE PollHup
  BY <1>1, RecordAssumption DEF TypeOK, RefInv, PollHup, perf_evlist__filter_pollfd
<1>2. CASE Kernel
  <2>1. PICK m \in Maps : KernelWrites(m) \/ EventDies(m)
    BY <1>2 DEF Kernel
  <2>2. polled' = polled /\ (hup' = hup \/ (hup[m] < polled[m] /\ hup' = [hup EXCEPT ![m] = @ + 1]))
    BY <2>1 DEF KernelWrites, EventDies, pollVars
  <2> QED
    BY <2>2, RecordAssumption DEF TypeOK
<1>3. CASE \/ Start \/ Top \/ record__mmap_read \/ ReadFails \/ PassEnds \/ ReadSnapshot
           \/ NoSnapshot \/ CheckSwitch \/ record__switch_output \/ CheckIdle \/ Sleep
           \/ PollData \/ Disable \/ Finish \/ Signal \/ UNCHANGED vars
  <2>1. UNCHANGED <<polled, hup>>
    BY <1>3 DEF Start, Top, record__mmap_read, ReadFails, PassEnds, ReadSnapshot, NoSnapshot,
           CheckSwitch, record__switch_output, CheckIdle, Sleep, PollData, Disable, Finish,
           Signal, Sigchld, Sigint, snapshot_sig_handler, vars, pollVars
  <2> QED
    BY <2>1 DEF TypeOK
<1> QED
  BY <1>1, <1>2, <1>3 DEF Next, Loop, Terminated

LEMMA TriggersStep ==
  ASSUME TypeOK, [Next]_vars
  PROVE  {switch_output_trigger', auxtrace_snapshot_trigger'} \subseteq TriggerStates
<1>1. /\ switch_output_trigger' \in TriggerStates
      /\ auxtrace_snapshot_trigger' \in TriggerStates
  BY DEF TypeOK, TriggerStates, trigger_is_available, trigger_ready, trigger_hit,
         trigger_off, trigger_error, Next, Loop, Kernel, Signal, Terminated, KernelWrites,
         EventDies, Sigchld, Sigint, snapshot_sig_handler, Start, Top, record__mmap_read,
         ReadFails, PassEnds, ReadSnapshot, NoSnapshot, CheckSwitch, record__switch_output,
         CheckIdle, Sleep, PollHup, PollData, Disable, Finish, vars, flagVars
<1> QED
  BY <1>1

LEMMA ControlStep ==
  ASSUME TypeOK, [Next]_vars
  PROVE  pc' \in {"setup", "top", "pass", "snapshot", "switch", "output", "idle", "sleep",
                  "poll", "woken", "out", "error", "closed", "failed"}
BY DEF TypeOK, Next, Loop, Kernel, Signal, Terminated, KernelWrites, EventDies, Sigchld,
       Sigint, snapshot_sig_handler, InterruptsPoll, Start, Top, record__mmap_read,
       ReadFails, PassEnds, ReadSnapshot, NoSnapshot, CheckSwitch, record__switch_output,
       CheckIdle, Sleep, PollHup, PollData, Disable, Finish, vars, loopVars

LEMMA FlagsStep ==
  ASSUME TypeOK, [Next]_vars
  PROVE  {paused', enabled', done', child_finished', snapshot_started', draining', disabled'}
           \subseteq BOOLEAN
<1>1. paused' \in BOOLEAN
  BY DEF TypeOK, Next, Loop, Kernel, Signal, Terminated, KernelWrites, EventDies, Sigchld,
       Sigint, snapshot_sig_handler, Start, Top, record__mmap_read,
       ReadFails, PassEnds, ReadSnapshot, NoSnapshot, CheckSwitch, record__switch_output,
       CheckIdle, Sleep, PollHup, PollData, Disable, Finish, vars, kernelVars,
       perf_evlist__toggle_bkw_mmap, Toggles
<1>2. enabled' \in BOOLEAN /\ disabled' \in BOOLEAN
  BY DEF TypeOK, Next, Loop, Kernel, Signal, Terminated, KernelWrites, EventDies, Sigchld,
       Sigint, snapshot_sig_handler, Start, Top, record__mmap_read,
       ReadFails, PassEnds, ReadSnapshot, NoSnapshot, CheckSwitch, record__switch_output,
       CheckIdle, Sleep, PollHup, PollData, Disable, Finish, vars, kernelVars, loopVars
<1>3. done' \in BOOLEAN /\ child_finished' \in BOOLEAN /\ snapshot_started' \in BOOLEAN
  BY DEF TypeOK, Next, Loop, Kernel, Signal, Terminated, KernelWrites, EventDies, Sigchld,
       Sigint, snapshot_sig_handler, Start, Top, record__mmap_read,
       ReadFails, PassEnds, ReadSnapshot, NoSnapshot, CheckSwitch, record__switch_output,
       CheckIdle, Sleep, PollHup, PollData, Disable, Finish, vars, flagVars
<1>4. draining' \in BOOLEAN
  <2>1. CASE PollHup
    <3>1. draining' = (draining \/ \A m \in Maps : polled'[m] = 0)
      BY <2>1 DEF PollHup, perf_evlist__filter_pollfd
    <3> QED
      BY <3>1, Zenon
  <2>2. CASE ~PollHup
    <3>1. UNCHANGED draining
      BY <2>2 DEF Next, Loop, Kernel, Signal, Terminated, KernelWrites, EventDies, Sigchld,
       Sigint, snapshot_sig_handler, Start, Top, record__mmap_read,
       ReadFails, PassEnds, ReadSnapshot, NoSnapshot, CheckSwitch, record__switch_output,
       CheckIdle, Sleep, PollData, Disable, Finish, vars, loopVars
    <3> QED
      BY <3>1 DEF TypeOK
  <2> QED
    BY <2>1, <2>2
<1> QED
  BY <1>1, <1>2, <1>3, <1>4

(***************************************************************************)
(* The theorems.                                                           *)
(***************************************************************************)

LEMMA InitRecInv == Init => RecInv
<1> SUFFICES ASSUME Init PROVE RecInv
  OBVIOUS
<1>1. "forward" \in Kinds
  BY DEF Kinds
<1>2. RingTypes
  BY <1>1, RecordAssumption DEF Init, RingTypes
<1>3. RefInv
  BY RecordAssumption DEF Init, RefInv
<1>4. StateInv
  <2>1. pc = "setup" /\ bkw_mmap_state = IF Backward THEN "RUNNING" ELSE "NOTREADY"
    BY DEF Init
  <2>2. ~paused
    BY DEF Init
  <2> QED
    BY <2>1, <2>2 DEF StateInv
<1>5. DumpInv
  BY DEF Init, DumpInv, BackwardMaps
<1>6. SnapshotNotForgotten
  BY DEF Init, trigger_on, SnapshotNotForgotten
<1>7. DrainInv /\ OutInv
  <2>1. ~draining /\ pc = "setup"
    BY DEF Init
  <2> QED
    BY <2>1 DEF DrainInv, OutInv
<1> QED
  BY <1>2, <1>3, <1>4, <1>5, <1>6, <1>7 DEF RecInv

(* The inductive invariant of the recording loop. *)
THEOREM RecordInvariant == Spec => []RecInv
<1>1. RecInv /\ [Next]_vars => RecInv'
  BY RingsStep, StateStep, DumpStep, SnapshotStep, DrainStep, OutStep DEF RecInv
<1> QED
  BY <1>1, InitRecInv, PTL DEF Spec

(* The types hold: in particular a pass never looks at a buffer that does   *)
(* not exist, and the poll array only shrinks below what was opened.       *)
THEOREM RecordTypes == Spec => []TypeOK
<1>1. Init => TypeOK
  <2> SUFFICES ASSUME Init PROVE TypeOK
    OBVIOUS
  <2>1. RingTypes /\ StateInv
    BY InitRecInv DEF RecInv
  <2>2. {switch_output_trigger, auxtrace_snapshot_trigger} \subseteq TriggerStates
    BY DEF Init, trigger_on, TriggerStates
  <2>3. {paused, enabled, done, child_finished, snapshot_started, draining, disabled}
          \subseteq BOOLEAN
    BY DEF Init
  <2>4. /\ polled \in [Maps -> 0 .. NrFds] /\ hup \in [Maps -> 0 .. NrFds]
        /\ cur \in 1 .. NrMmaps + 1 /\ hits \in Nat /\ samples \in Nat /\ pc = "setup"
    BY RecordAssumption DEF Init
  <2> QED
    BY <2>1, <2>2, <2>3, <2>4 DEF TypeOK, RingTypes, StateInv
<1>2. TypeOK /\ RecInv /\ RecInv' /\ [Next]_vars => TypeOK'
  <2> SUFFICES ASSUME TypeOK, RecInv, RecInv', [Next]_vars PROVE TypeOK'
    OBVIOUS
  <2>1. RingTypes' /\ StateInv' /\ RefInv
    BY DEF RecInv
  <2> QED
    BY <2>1, CursorStep, PolledStep, TriggersStep, ControlStep, FlagsStep
       DEF TypeOK, RingTypes, StateInv
<1> QED
  BY <1>1, <1>2, RecordInvariant, PTL DEF Spec

(* No buffer is unmapped before its last event was read: the loop of perf  *)
(* record loses nothing to an event that dies.                             *)
THEOREM NothingUnmappedEarly == Spec => []UnmappedOnlyWhenDrained
<1>1. RecInv => UnmappedOnlyWhenDrained
  BY DEF RecInv, RefInv, UnmappedOnlyWhenDrained
<1> QED
  BY <1>1, RecordInvariant, PTL

(* The reference count of a buffer is that of its reader and its events,   *)
(* so perf_mmap__put() never meets a count of zero.                        *)
THEOREM ReferencesCounted == Spec => []RefcntMatchesPolled
<1>1. RecInv => RefcntMatchesPolled
  BY DEF RecInv, RefInv, RefcntMatchesPolled
<1> QED
  BY <1>1, RecordInvariant, PTL

(* The kernel is kept out of an overwritable buffer while it is read.      *)
THEOREM ReadsArePaused == Spec => []BackwardReadWhilePaused
<1>1. RecInv => BackwardReadWhilePaused
  BY DEF RecInv, StateInv, BackwardReadWhilePaused
<1> QED
  BY <1>1, RecordInvariant, PTL

(* perf never goes to sleep with the overwritable buffers paused.          *)
THEOREM NeverSleepsPaused == Spec => []SleepsOnlyWhileRecording
<1>1. RecInv => SleepsOnlyWhileRecording
  BY DEF RecInv, StateInv, SleepsOnlyWhileRecording
<1> QED
  BY <1>1, RecordInvariant, PTL

(* When perf stops because all events have died, nothing they wrote is     *)
(* left in any buffer, forward or overwritable.                            *)
THEOREM DrainedIsRead == Spec => []DrainedMeansRead
<1>1. RecInv => DrainedMeansRead
  <2> SUFFICES ASSUME RecInv, pc = "closed", ~done, NEW m \in Maps
               PROVE  head[m] = prev[m]
    BY DEF DrainedMeansRead
  <2>1. draining
    BY DEF RecInv, OutInv
  <2> QED
    BY <2>1 DEF RecInv, DrainInv
<1> QED
  BY <1>1, RecordInvariant, PTL

(* A snapshot that was asked for stays on the loop's list.                 *)
THEOREM SnapshotsStayAsked == Spec => []SnapshotNotForgotten
BY RecordInvariant, PTL DEF RecInv

(* The output is switched only after the overwritable buffers were dumped. *)
THEOREM SwitchAfterDump == Spec => SwitchedAfterDump
<1>1. ASSUME RecInv, [Next]_vars, pc = "switch", pc' = "output",
             NEW m \in BackwardMaps
      PROVE  prev[m] >= wanted[m]
  <2>1. CheckSwitch
    BY <1>1 DEF Next, Loop, Kernel, Signal, Terminated, KernelWrites, EventDies, Sigchld,
                Sigint, snapshot_sig_handler, InterruptsPoll, Start, Top,
                record__mmap_read, ReadFails, PassEnds, ReadSnapshot, NoSnapshot,
                record__switch_output, CheckIdle, Sleep, PollHup, PollData, Disable, Finish,
                vars, loopVars
  <2>2. bkw_mmap_state # "RUNNING" /\ bkw_mmap_state # "DATA_PENDING"
    BY <1>1, <2>1 DEF CheckSwitch, RecInv, StateInv
  <2>3. m \in Maps /\ Backward
    BY DEF BackwardMaps, Maps, Kinds
  <2>4. bkw_mmap_state = "EMPTY"
    BY <1>1, <2>2, <2>3 DEF RecInv, StateInv
  <2> QED
    BY <1>1, <2>3, <2>4 DEF RecInv, DumpInv, RingTypes
<1>2. RecInv /\ [Next]_vars =>
        [pc = "switch" /\ pc' = "output" => \A m \in BackwardMaps : prev[m] >= wanted[m]]_vars
  BY <1>1
<1> QED
  BY <1>2, RecordInvariant, PTL DEF Spec, SwitchedAfterDump
=============================================================================
