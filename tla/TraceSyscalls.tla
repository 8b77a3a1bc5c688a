--------------------------- MODULE TraceSyscalls ---------------------------
(***************************************************************************)
(* perf trace: the handlers of builtin-trace.c that make lines of output   *)
(* of the tracepoints raw_syscalls:sys_enter, raw_syscalls:sys_exit and    *)
(* vfs_getname.                                                            *)
(*                                                                         *)
(* Threads make system calls and migrate between CPUs; each CPU has a ring *)
(* buffer.  trace__run() empties one buffer behind the other, in no order  *)
(* of time.  With one CPU the events come in order, as they do in          *)
(* trace__replay(), whose session sorts them.                              *)
(*                                                                         *)
(* A call is named by its thread and the time of its start; the text of    *)
(* its entry line by the call.  Each thread is a process with a file table *)
(* of its own.                                                             *)
(***************************************************************************)
EXTENDS Integers, Sequences, FiniteSets

CONSTANTS Tids,
          Cpus,        \* 1..n
          Names,       \* of files
          Kinds,       \* the system calls made, see Call
          MaxTime,     \* bound: events that are written
          MaxLost,     \* bound: events that the kernel drops
          duration_filter,
          Wrap,        \* durations are unsigned: computed modulo Wrap
          None

fd == 3                \* the one file descriptor that is followed

VARIABLES now,         \* the clock: events so far
          run,         \* the call each thread is in, or None
          file,        \* what fd names in each thread
          rings,       \* the buffer of each CPU
          lost,
          cpu,         \* the buffer that trace__run() empties
          tt,          \* struct thread_trace of each thread
          current,     \* trace->current
          line,        \* the last exit line: call, text and duration shown
          stat,        \* the last duration that went into the summary
          path,        \* the last file name shown for fd, and the real one
          inserted,    \* the last name put into an entry line
          shown,       \* how often the entry of each call was shown
          entered,     \* calls whose sys_enter was handled
          ended        \* calls whose sys_exit was handled, and when it was written

kernel == << now, run, file, lost >>
output == << line, stat, path, inserted, shown >>
vars == << kernel, rings, cpu, tt, current, output, entered, ended >>

Call(t, t0) == << t, t0 >>
Calls == Tids \X (0..MaxTime)

-----------------------------------------------------------------------------
(* The traced threads. *)

(* An event goes to the buffer of the CPU the thread is on, or is lost. *)
Write(e) ==
    /\ now < MaxTime
    /\ now' = now + 1
    /\ \/ \E c \in Cpus : rings' = [rings EXCEPT ![c] = Append(@, e)]
          /\ UNCHANGED lost
       \/ lost < MaxLost /\ lost' = lost + 1 /\ UNCHANGED rings

Quiet == UNCHANGED << cpu, tt, current, output, entered, ended >>

Enter(t) ==
    \E k \in Kinds :
        /\ run[t] = None
        /\ k = "close" => file[t] # None
        /\ run' = [run EXCEPT ![t] = [kind |-> k, call |-> Call(t, now + 1), name |-> None]]
        /\ Write([type |-> "enter", tid |-> t, kind |-> k, time |-> now + 1,
                  call |-> Call(t, now + 1), file |-> file[t]])
        /\ UNCHANGED file
        /\ Quiet

(* The kernel reads the name that open() or rename() was given.  Where the *)
(* pointer is bad there is nothing to read.                                *)
Getname(t) ==
    \E n \in Names :
        /\ run[t] # None
        /\ run[t].kind \in {"open", "rename"} /\ run[t].name = None
        /\ run' = [run EXCEPT ![t].name = n]
        /\ Write([type |-> "getname", tid |-> t, kind |-> run[t].kind, time |-> now + 1,
                  call |-> run[t].call, name |-> n])
        /\ UNCHANGED file
        /\ Quiet

Exit(t) ==
    /\ run[t] # None
    /\ run[t].kind \notin {"exit"}
    /\ run[t].kind \in {"open", "rename"} => run[t].name # None
    /\ \E ok \in IF run[t].kind = "open" /\ file[t] = None THEN BOOLEAN ELSE {FALSE} :
          /\ file' = [file EXCEPT ![t] = IF ok THEN run[t].name
                                         ELSE IF run[t].kind = "close" THEN None ELSE @]
          /\ Write([type |-> "exit", tid |-> t, kind |-> run[t].kind, time |-> now + 1,
                    call |-> run[t].call, ret |-> IF ok THEN fd ELSE -1])
    /\ run' = [run EXCEPT ![t] = None]
    /\ Quiet

-----------------------------------------------------------------------------
(* The handlers.  Each one takes the record of all that it may change.     *)

NoTrace == [entry_time |-> 0, entry_pending |-> FALSE, entry |-> None,
            pending_open |-> FALSE, name |-> None, ptr |-> None, path |-> None]

(* Mutant: the entry stays pending though it was shown. *)
Interrupted_Again(s) ==
    IF s.current = None THEN s
    ELSE IF ~ s.tt[s.current].entry_pending THEN s
    ELSE [s EXCEPT !.shown[s.tt[s.current].entry] = @ + 1]

(* trace__printf_interrupted_entry(): the entry line of the current thread *)
(* is shown before its end is known.                                       *)
Interrupted(s) ==
    IF s.current = None THEN s
    ELSE IF ~ s.tt[s.current].entry_pending THEN s
    ELSE [s EXCEPT !.shown[s.tt[s.current].entry] = @ + 1,
                   !.tt[s.current].entry_pending = FALSE]

(* The arguments that leave a trace when they are formatted: the position  *)
(* of a file name that vfs_getname will supply, the end of a file name.    *)
Args(tr, e) ==
    [tr EXCEPT !.ptr = IF e.kind \in {"open", "badopen"} THEN e.call ELSE @,
               !.path = IF e.kind = "close" THEN None ELSE @]

(* The file name shown with fd. *)
PathShown(s, e) ==
    IF e.kind \in {"read", "close"}
    THEN [s EXCEPT !.path = [shown |-> s.tt[e.tid].path, real |-> e.file]]
    ELSE s

Pending(tr) == [tr EXCEPT !.entry_pending = TRUE, !.pending_open = FALSE]

(* trace__sys_enter() *)
sys_enter(s0, e) ==
    LET s1 == IF duration_filter > 0 THEN s0 ELSE Interrupted(s0)
        s2 == PathShown([s1 EXCEPT !.tt[e.tid].entry_time = e.time,
                                   !.tt[e.tid].entry = e.call], e)
        s3 == [s2 EXCEPT !.tt[e.tid] = Args(@, e)]
        s4 == IF e.kind # "exit" THEN [s3 EXCEPT !.tt[e.tid] = Pending(@)]
              ELSE IF duration_filter > 0 THEN s3
              ELSE [s3 EXCEPT !.shown[e.call] = @ + 1]
    IN  [s4 EXCEPT !.current = e.tid]

(* thread__update_stats() *)
StatDuration(tr, e) ==
    IF tr.entry_time # 0 /\ e.time > tr.entry_time THEN e.time - tr.entry_time ELSE 0

Duration(tr, e) == IF tr.entry_time # 0 THEN (e.time - tr.entry_time) % Wrap ELSE 0

Filtered(tr, e) ==
    IF tr.entry_time # 0 THEN Duration(tr, e) < duration_filter ELSE duration_filter > 0

(* open() has returned a descriptor for the name that vfs_getname told. *)
Opened(tr, e) ==
    IF e.kind = "open" /\ e.ret >= 0 /\ tr.pending_open
    THEN [tr EXCEPT !.path = tr.name, !.pending_open = FALSE]
    ELSE tr

(* trace__sys_exit() *)
sys_exit(s, e) ==
    LET tr == s.tt[e.tid]
        s1 == [s EXCEPT !.stat = [call |-> e.call, end |-> e.time,
                                 duration |-> StatDuration(tr, e)],
                        !.tt[e.tid] = [Opened(tr, e) EXCEPT !.entry_pending = FALSE]]
        s2 == [s1 EXCEPT !.line = [call |-> e.call, end |-> e.time,
                                  duration |-> Duration(tr, e)]]
    IN  IF Filtered(tr, e) THEN s1
        ELSE IF tr.entry_pending THEN [s2 EXCEPT !.shown[tr.entry] = @ + 1]
        ELSE s2

(* trace__vfs_getname(): without an earlier event of the thread there is   *)
(* no struct thread_trace, and nothing to do.                              *)
vfs_getname(s, e) ==
    LET tr == s.tt[e.tid]
    IN  IF e.tid \notin {c[1] : c \in entered \cup {x.call : x \in ended}} THEN s
        ELSE [s EXCEPT !.tt[e.tid] = [tr EXCEPT !.name = e.name, !.pending_open = TRUE,
                                                !.ptr = None],
                       !.inserted = IF tr.ptr = None THEN @
                                    ELSE [pointer |-> tr.ptr, name |-> e.call]]

Handled(s, e) ==
    CASE e.type = "enter" -> sys_enter(s, e)
      [] e.type = "exit" -> sys_exit(s, e)
      [] e.type = "getname" -> vfs_getname(s, e)

(* One turn of the inner loop of trace__run(). *)
Read ==
    LET e == Head(rings[cpu])
        s == Handled([tt |-> tt, current |-> current, line |-> line, stat |-> stat,
                      path |-> path, inserted |-> inserted, shown |-> shown], e)
    IN  /\ rings[cpu] # << >>
        /\ rings' = [rings EXCEPT ![cpu] = Tail(@)]
        /\ tt' = s.tt
        /\ current' = s.current
        /\ line' = s.line
        /\ stat' = s.stat
        /\ path' = s.path
        /\ inserted' = s.inserted
        /\ shown' = s.shown
        /\ entered' = IF e.type = "enter" THEN entered \cup {e.call} ELSE entered
        /\ ended' = IF e.type = "exit" THEN ended \cup {[call |-> e.call, end |-> e.time]}
                   ELSE ended
        /\ UNCHANGED << kernel, cpu >>

(* The buffer is empty: on to the next one. *)
NextRing ==
    /\ rings[cpu] = << >>
    /\ \E c \in Cpus : rings[c] # << >>
    /\ cpu' = IF cpu = Cardinality(Cpus) THEN 1 ELSE cpu + 1
    /\ UNCHANGED << kernel, rings, tt, current, output, entered, ended >>

(* A thread may be in a call when tracing begins. *)
Init ==
    /\ now = 0
    /\ run \in [Tids -> {None}] \cup
              {[t \in Tids |-> [kind |-> "read", call |-> Call(t, 0), name |-> None]]}
    /\ file = [t \in Tids |-> None]
    /\ rings = [c \in Cpus |-> << >>]
    /\ lost = 0
    /\ cpu = 1
    /\ tt = [t \in Tids |-> NoTrace]
    /\ current = None
    /\ line = None /\ stat = None /\ path = None /\ inserted = None
    /\ shown = [c \in Calls |-> 0]
    /\ entered = {}
    /\ ended = {}

Next ==
    \/ \E t \in Tids : Enter(t) \/ Getname(t) \/ Exit(t)
    \/ Read
    \/ NextRing

Spec == Init /\ [][Next]_vars

-----------------------------------------------------------------------------
TypeOK ==
    /\ now \in 0..MaxTime
    /\ lost \in 0..MaxLost
    /\ cpu \in Cpus
    /\ current \in Tids \cup {None}
    /\ tt \in [Tids -> [entry_time : 0..MaxTime, entry_pending : BOOLEAN,
                        entry : Calls \cup {None}, pending_open : BOOLEAN,
                        name : Names \cup {None}, ptr : Calls \cup {None},
                        path : Names \cup {None}]]
    /\ shown \in [Calls -> Nat]
    /\ entered \subseteq Calls /\ ended \subseteq [call : Calls, end : 0..MaxTime]

(* How long a call lasted whose end was written at time end; 0 if tracing  *)
(* began behind its start.                                                 *)
Real(c, end) == IF c[2] = 0 THEN 0 ELSE end - c[2]

(* The entry line of a call is shown once: with its end, or before that    *)
(* when a line of another thread comes in between (trace->current).  With  *)
(* a filter it is shown if and only if the call lasted long enough.        *)
EntryShownOnce ==
    /\ \A c \in Calls : shown[c] <= 1
    /\ \A x \in ended : x.call \in entered =>
          (shown[x.call] = 1 <=> Real(x.call, x.end) >= duration_filter)

(* Only the entry of the current thread waits for its end, so that one     *)
(* look at trace->current finds all lines that must be shown first.        *)
OnlyCurrentPending ==
    duration_filter = 0 => \A t \in Tids : tt[t].entry_pending => current = t

(* The duration shown, and the one counted in the summary, is the time     *)
(* between the start and the end of that very call.                        *)
DurationsAreReal ==
    \A x \in {line, stat} \ {None} : x.duration = Real(x.call, x.end)

(* perf-trace.txt, --duration: "Show only events that had a duration       *)
(* greater than N.M ms".                                                   *)
FilterIsReal ==
    line # None => line.call[2] = 0 \/ Real(line.call, line.end) >= duration_filter

(* The file name shown with a descriptor, which sys_exit of open() and     *)
(* vfs_getname told earlier, is that of the file it stands for now.        *)
PathsAreReal == path # None => path.shown \in {None, path.real}

(* The comment of struct thread_trace: filename.ptr is "The filename char  *)
(* pointer that will be vfs_getname'd", entry_str_pos "Where to insert the *)
(* string translated from filename.ptr": the name that is inserted is the  *)
(* one of the call that left the pointer.                                  *)
NameIsOfPointer == inserted # None => inserted.name = inserted.pointer
=============================================================================
