----------------------------- MODULE EvselOpen -----------------------------
(* How perf record opens its events (record__open() of builtin-record.c and *)
(* __perf_evsel__open() of tools/perf/util/evsel.c): a file descriptor per  *)
(* CPU and thread of each event.  What the running kernel does not know is  *)
(* found out by dropping one feature after the other until the kernel takes *)
(* the event; what was dropped stays dropped for all later events.          *)
(*                                                                          *)
(* The slots of an event are counted in the order of the two loops over     *)
(* CPUs and threads.                                                        *)
EXTENDS Naturals, FiniteSets, Sequences

CONSTANTS
  Asks,        \* the features that each event of the evlist asks for
  NrSlots,     \* CPUs times threads
  Hard,        \* rlim_max of RLIMIT_NOFILE
  Increase,    \* what the limit is increased by, 1000 in the code
  MayBeBad     \* the kernel may refuse a slot whatever the event asks for

Evsels == 1 .. Len(Asks)
Slots == 1 .. NrSlots

(* perf_missing_features, without clockid_wrong, the newest first, as Linux *)
(* got them: a kernel lacks the newest ones.                                *)
Age == <<"write_backward", "lbr_flags", "clockid", "cloexec", "mmap2", "exclude_guest",
         "sample_id_all">>

Features == {Age[i] : i \in 1 .. Len(Age)}

VARIABLES
  missing,     \* perf_missing_features
  kernel,      \* what the running kernel lacks and allows
  attr,        \* evsel->attr of each event: what it still asks for
  flags,       \* whether PERF_FLAG_FD_CLOEXEC is used
  FD,          \* evsel->fd: what each file was opened with, none for -1
  nopen,       \* files open in the process
  soft, hard,  \* RLIMIT_NOFILE
  set_rlimit,
  e,           \* the event being opened
  slot,        \* the loops over CPUs and threads
  pc, err

vars == <<missing, kernel, attr, flags, FD, nopen, soft, hard, set_rlimit, e, slot, pc, err>>

Closed == {}

(* What an event asks for: features, the hardware cycles, kernel samples, a *)
(* BPF program; its clock may be one the kernel refuses.                    *)
AttrOf(asks) == [uses |-> asks \cap Features, bpf |-> "bpf" \in asks,
                 clock |-> IF "clockid" \in asks THEN "asked" ELSE "none",
                 cycles |-> "cycles" \in asks, excl |-> "kernel" \notin asks]

Init ==
  /\ missing = {}
  /\ kernel \in [lacks : {{Age[j] : j \in 1 .. i} : i \in 0 .. Len(Age)},
                 clock : BOOLEAN, pmu : BOOLEAN, paranoid : BOOLEAN, root : BOOLEAN,
                 bad : IF MayBeBad THEN {{}} \cup {{b} : b \in Evsels \X Slots} ELSE {{}}]
  /\ attr = [v \in Evsels |-> AttrOf(Asks[v])]
  /\ flags = TRUE
  /\ FD = [v \in Evsels |-> [s \in Slots |-> Closed]]
  /\ nopen = 0
  /\ soft \in {1, Hard} /\ hard = Hard
  /\ set_rlimit = 0
  /\ e = 1 /\ slot = 1
  /\ pc = "open" /\ err = "ok"

(* fallback_missing_features: what is known to be missing is not asked for. *)
Dropped(a) ==
  [a EXCEPT !.uses = @ \ (missing \ {"write_backward"}),
            !.clock = IF "clockid" \in missing THEN "none"
                      ELSE IF "clockid_wrong" \in missing THEN "monotonic" ELSE @]

(* sys_perf_event_open(): the errors it has for this event *)
Uses(a) == a.uses \cup (IF flags THEN {"cloexec"} ELSE {})

Refused ==
  LET a == attr[e]
  IN IF \/ Uses(a) \cap kernel.lacks # {}
        \/ "clockid" \in a.uses /\ a.clock = "asked" /\ ~kernel.clock
     THEN "EINVAL"
     ELSE IF kernel.paranoid /\ ~a.excl THEN "EACCES"
     ELSE IF nopen >= soft THEN "EMFILE"
     ELSE IF a.cycles /\ ~kernel.pmu THEN "ENOENT"
     ELSE IF <<e, slot>> \in kernel.bad THEN "EINVAL"
     ELSE "ok"

-----------------------------------------------------------------------------

(* The entry of __perf_evsel__open() *)
Enter ==
  /\ pc = "open"
  /\ flags' = TRUE /\ set_rlimit' = 0
  /\ pc' = "fallback"
  /\ UNCHANGED <<missing, kernel, attr, FD, nopen, soft, hard, e, slot, err>>

(* fallback_missing_features and retry_sample_id, up to the loops *)
Fallback ==
  /\ pc = "fallback"
  /\ attr' = [attr EXCEPT ![e] = Dropped(@)]
  /\ flags' = (flags /\ "cloexec" \notin missing)
  /\ slot' = 1
  /\ pc' = "syscall"
  /\ UNCHANGED <<missing, kernel, FD, nopen, soft, hard, set_rlimit, e, err>>

(* retry_open, and what follows a file that was opened: the BPF program is  *)
(* attached, and a clock that had to be given up fails the event.           *)
ClockKilled == missing \cap {"clockid", "clockid_wrong"} # {}

Proceed_Short ==
  /\ set_rlimit' = 0
  /\ UNCHANGED err
  /\ slot' = IF slot < NrSlots - 1 THEN slot + 1 ELSE slot
  /\ pc' = IF slot < NrSlots - 1 THEN "syscall" ELSE "next"

Proceed ==
  /\ set_rlimit' = 0
  /\ UNCHANGED err
  /\ slot' = IF slot < NrSlots THEN slot + 1 ELSE slot
  /\ pc' = IF slot < NrSlots THEN "syscall" ELSE "next"

GiveUp ==
  /\ err' = "EINVAL" /\ pc' = "close"
  /\ UNCHANGED <<set_rlimit, slot>>

Opened ==
  /\ pc = "syscall" /\ Refused = "ok"
  /\ FD' = [FD EXCEPT ![e][slot] = {[attr |-> attr[e], cloexec |-> flags]}]
  /\ nopen' = nopen + 1
  /\ \/ attr[e].bpf /\ GiveUp
     \/ ClockKilled /\ GiveUp
     \/ ~ClockKilled /\ Proceed
  /\ UNCHANGED <<missing, kernel, attr, flags, soft, hard, e>>

NotOpened ==
  /\ pc = "syscall" /\ Refused # "ok"
  /\ err' = Refused /\ pc' = "try_fallback"
  /\ UNCHANGED <<missing, kernel, attr, flags, FD, nopen, soft, hard, set_rlimit, e, slot>>

(* try_fallback: first up to the hard limit, then, for root, beyond it *)
CanRaise == err = "EMFILE" /\ (set_rlimit = 0 \/ (set_rlimit = 1 /\ kernel.root))

RaiseLimit ==
  /\ pc = "try_fallback" /\ CanRaise
  /\ hard' = IF set_rlimit = 0 THEN hard ELSE hard + Increase
  /\ soft' = hard'
  /\ set_rlimit' = set_rlimit + 1
  /\ pc' = "syscall"
  /\ UNCHANGED <<missing, kernel, attr, flags, FD, nopen, e, slot, err>>

(* The chain of probes: each feature with the condition on the event *)
Probes ==
  <<<<"write_backward", "write_backward" \in attr[e].uses>>,
    <<"clockid_wrong", "clockid" \in attr[e].uses>>,
    <<"clockid", "clockid" \in attr[e].uses>>,
    <<"cloexec", flags>>,
    <<"mmap2", "mmap2" \in attr[e].uses>>,
    <<"exclude_guest", "exclude_guest" \in attr[e].uses>>,
    <<"sample_id_all", TRUE>>,
    <<"lbr_flags", "lbr_flags" \in attr[e].uses>>>>

Candidates == {i \in 1 .. Len(Probes) : Probes[i][1] \notin missing /\ Probes[i][2]}

MayProbe == err = "EINVAL" /\ slot = 1 /\ Candidates # {}

Probed_Not(feature) == UNCHANGED missing

Probed(feature) == missing' = missing \cup {feature}

Probe ==
  /\ pc = "try_fallback" /\ MayProbe
  /\ LET feature == Probes[CHOOSE i \in Candidates : \A j \in Candidates : i <= j][1]
     IN /\ Probed(feature)
        /\ pc' = IF feature = "write_backward" THEN "close" ELSE "fallback"
  /\ UNCHANGED <<kernel, attr, flags, FD, nopen, soft, hard, set_rlimit, e, slot, err>>

NoFallback ==
  /\ pc = "try_fallback" /\ ~CanRaise /\ ~MayProbe
  /\ pc' = "close"
  /\ UNCHANGED <<missing, kernel, attr, flags, FD, nopen, soft, hard, set_rlimit, e, slot, err>>

(* out_close: the files in front of the slot *)
Behind == {s \in Slots : s < slot}

Close ==
  /\ pc = "close"
  /\ FD' = [FD EXCEPT ![e] = [s \in Slots |-> IF s \in Behind THEN Closed ELSE @[s]]]
  /\ nopen' = nopen - Cardinality({s \in Behind : FD[e][s] # Closed})
  /\ pc' = "error"
  /\ UNCHANGED <<missing, kernel, attr, flags, soft, hard, set_rlimit, e, slot, err>>

(* record__open(): with perf_evsel__fallback() the event is tried again as  *)
(* a clock, or without the kernel.                                          *)
TryAgain ==
  /\ pc = "error"
  /\ \/ /\ err = "ENOENT" /\ attr[e].cycles
        /\ attr' = [attr EXCEPT ![e].cycles = FALSE]
     \/ /\ err = "EACCES" /\ ~attr[e].excl /\ kernel.paranoid
        /\ attr' = [attr EXCEPT ![e].excl = TRUE]
  /\ pc' = "open"
  /\ UNCHANGED <<missing, kernel, flags, FD, nopen, soft, hard, set_rlimit, e, slot, err>>

Fail ==
  /\ pc = "error"
  /\ ~(err = "ENOENT" /\ attr[e].cycles)
  /\ ~(err = "EACCES" /\ ~attr[e].excl /\ kernel.paranoid)
  /\ pc' = "failed"
  /\ UNCHANGED <<missing, kernel, attr, flags, FD, nopen, soft, hard, set_rlimit, e, slot, err>>

NextEvsel ==
  /\ pc = "next"
  /\ IF e = Len(Asks) THEN pc' = "opened" /\ UNCHANGED e ELSE pc' = "open" /\ e' = e + 1
  /\ UNCHANGED <<missing, kernel, attr, flags, FD, nopen, soft, hard, set_rlimit, slot, err>>

Done == pc \in {"opened", "failed"}

Next ==
  \/ Enter \/ Fallback \/ Opened \/ NotOpened \/ RaiseLimit \/ Probe \/ NoFallback
  \/ Close \/ TryAgain \/ Fail \/ NextEvsel
  \/ Done /\ UNCHANGED vars

Spec == Init /\ [][Next]_vars

(* Opening does not wait for anybody. *)
FairSpec == Spec /\ WF_vars(Next)

-----------------------------------------------------------------------------

InTable == {f \in Evsels \X Slots : FD[f[1]][f[2]] # Closed}

TypeOK ==
  /\ missing \subseteq Features \cup {"clockid_wrong"}
  /\ nopen \in Nat /\ soft \in Nat /\ hard \in Nat
  /\ set_rlimit \in 0 .. 2
  /\ e \in Evsels /\ slot \in Slots
  /\ err \in {"ok", "EINVAL", "EACCES", "EMFILE", "ENOENT"}

(* Every file that is open is in a table that can close it, however often   *)
(* the loops were started again.                                            *)
NoLeak == nopen = Cardinality(InTable)

(* An event that was opened has a file in every slot, all opened with the   *)
(* same attr and flags, and with the clock that was asked for: no feature   *)
(* was dropped half way, and a clock is never given up in silence.          *)
OpenedAlike ==
  \A v \in Evsels : v < e \/ (v = e /\ pc \in {"next", "opened"}) =>
    /\ \A s \in Slots : FD[v][s] # Closed /\ FD[v][s] = FD[v][1]
    /\ \A f \in FD[v][1] : f.attr.clock = AttrOf(Asks[v]).clock

(* An event that the kernel refused has no file open; only the file that    *)
(* was open when the clock or the BPF program failed stays in the table.    *)
RefusedIsClosed ==
  pc = "failed" =>
    \A s \in Slots : FD[e][s] # Closed => s = slot /\ (ClockKilled \/ attr[e].bpf)

(* It runs out of files only where the limit cannot be raised. *)
LimitExhausted ==
  pc \in {"close", "error"} /\ err = "EMFILE" => ~kernel.root /\ soft = hard /\ soft <= Hard

(* On a kernel that refuses an event only for a feature it lacks, no        *)
(* feature is dropped that the kernel has.                                  *)
OnlyMissingDropped ==
  missing \subseteq kernel.lacks
    \cup (IF kernel.clock /\ "clockid" \notin kernel.lacks THEN {} ELSE {"clockid_wrong"})

(* Such a kernel, and no event so far that asks for branches without flags, *)
(* which are probed last, nor for a clock and write_backward, which is      *)
(* probed first: what is probed next is then what the kernel lacks.         *)
AskedInOrder ==
  /\ kernel.bad = {}
  /\ \A v \in 1 .. e : "lbr_flags" \notin Asks[v] /\ ~({"write_backward", "clockid"} \subseteq Asks[v])

(* All of it. *)
DescriptorsKept ==
  /\ NoLeak /\ OpenedAlike /\ RefusedIsClosed /\ LimitExhausted
  /\ AskedInOrder => OnlyMissingDropped

(* Every retry uses something up: opening ends. *)
OpenEnds == <>Done

-----------------------------------------------------------------------------
(* What the proofs need.                                                    *)

(* PERF_FLAG_FD_CLOEXEC is nothing an event asks for. *)
EvselOpenConstants ==
  /\ Asks \in Seq(SUBSET (STRING \ {"cloexec"})) /\ Asks # <<>>
  /\ NrSlots \in Nat \ {0} /\ Hard \in Nat \ {0} /\ Increase \in Nat \ {0}

(* The shape of the tables. *)
TablesOK ==
  /\ pc \in {"open", "fallback", "syscall", "try_fallback", "close", "error", "next", "opened",
             "failed"}
  /\ DOMAIN FD = Evsels /\ \A v \in Evsels : DOMAIN FD[v] = Slots
  /\ DOMAIN attr = Evsels /\ \A v \in Evsels : DOMAIN attr[v] = {"uses", "bpf", "clock", "cycles", "excl"}

Looping == {"syscall", "try_fallback"}

(* Which slots have a file: those of earlier events, and of this one those  *)
(* in front of the loops.                                                   *)
TablesFilled ==
  /\ \A v \in Evsels : v > e => \A s \in Slots : FD[v][s] = Closed
  /\ pc \in {"open", "fallback"} => \A s \in Slots : FD[e][s] = Closed
  /\ pc \in Looping =>
       \A s \in Slots : FD[e][s] = IF s < slot THEN {[attr |-> attr[e], cloexec |-> flags]} ELSE Closed
  /\ pc \in {"close", "error", "failed"} =>
       /\ \A s \in Slots : s > slot => FD[e][s] = Closed
       /\ FD[e][slot] # Closed => err = "EINVAL" /\ (ClockKilled \/ attr[e].bpf)
  /\ pc \in {"error", "failed"} => \A s \in Behind : FD[e][s] = Closed
  /\ pc \in {"next", "opened"} =>
       \A s \in Slots : FD[e][s] = {[attr |-> attr[e], cloexec |-> flags]}

(* A clock is changed only where that is remembered, and fails the event. *)
ClocksKept ==
  /\ ~ClockKilled => \A v \in Evsels : v >= e => attr[v].clock = AttrOf(Asks[v]).clock
  /\ pc \in {"next", "opened"} => ~ClockKilled
  /\ pc \in Looping /\ slot > 1 => ~ClockKilled
  /\ \A v \in Evsels : v < e => /\ \A s \in Slots : FD[v][s] # Closed /\ FD[v][s] = FD[v][1]
                               /\ \A f \in FD[v][1] : f.attr.clock = AttrOf(Asks[v]).clock

(* The files open and the two limits. *)
LimitsKept ==
  /\ nopen <= soft /\ soft <= hard
  /\ ~kernel.root => hard = Hard
  /\ set_rlimit > 0 => soft = hard
  /\ set_rlimit = 2 => kernel.root
  /\ pc \in {"fallback"} \cup Looping /\ set_rlimit = 2 => nopen < soft
  /\ pc = "try_fallback" /\ err = "EMFILE" => nopen >= soft

(* What is given up: the kernel lacks the newest features, an event asks    *)
(* for nothing new, and in the loops for nothing that is known to be        *)
(* missing.                                                                 *)
DropsKept ==
  /\ kernel.bad = {} /\ kernel.lacks \subseteq Features
  /\ \A i, j \in 1 .. Len(Age) : i <= j /\ Age[j] \in kernel.lacks => Age[i] \in kernel.lacks
  /\ \A v \in Evsels : attr[v].uses \subseteq Asks[v] \cap Features
  /\ OnlyMissingDropped
  /\ "write_backward" \in missing => pc \in {"close", "error", "failed"} /\ err = "EINVAL"
  /\ pc \in Looping => /\ attr[e].uses \cap missing = {}
                       /\ flags => "cloexec" \notin missing
                       /\ attr[e].clock = "asked" => ~ClockKilled
  /\ pc = "try_fallback" => err = Refused

OpenInv ==
  TypeOK /\ TablesOK /\ TablesFilled /\ ClocksKept /\ NoLeak /\ LimitsKept /\ LimitExhausted
=============================================================================
