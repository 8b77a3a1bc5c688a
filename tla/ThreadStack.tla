---------------------------- MODULE ThreadStack ----------------------------
(* The call stack that the decoders of hardware traces keep for a thread     *)
(* (tools/perf/util/thread-stack.c), next to the program that is traced.     *)
(* Calls and returns seen in the trace push and pop; calls made before the   *)
(* trace began were not seen, parts of the trace are lost, tracing stops and *)
(* goes on.  Either only call chains are made of the stack                   *)
(* (thread_stack__event()), or calls are matched with their returns for the  *)
(* database export (thread_stack__process()), or both are asked for.         *)
(*                                                                           *)
(* Functions are numbered, those of the kernel from KernelStart on; each has *)
(* one place that calls, so that recursion repeats return addresses.  A      *)
(* branch has a time of its own, which is the reference of its sample too.   *)
EXTENDS Integers, Sequences, FiniteSets

CONSTANTS
  NrFuncs,        \* functions of the program and the kernel
  KernelStart,    \* the first function of the kernel
  Mode,           \* "event", "process" or "both"
  EveryBranch,    \* the decoder tells the trace number with every branch (Intel
                  \* PT) or only where a buffer begins (BTS snapshots)
  EarlyLoss,      \* trace is lost also before the stack has a trace number
  Growth,         \* STACK_GROWTH
  MemoryMayFail,
  MaxTime,        \* bound: branches
  MaxDepth,       \* bound: calls on the real stack
  MaxLost,        \* bound: how often trace is lost
  MaxExec,        \* bound: calls of exec
  LongJumps       \* the program leaves calls without returning

Funcs == 1 .. NrFuncs
Kernel(f) == f >= KernelStart

(* The addresses of a function: where it begins, calls and returns *)
Entry(f) == 10 * f
CallSite(f) == 10 * f + 1
InsnLen == 1
ReturnSite(f) == 10 * f + 5

VARIABLES
  real,           \* the program's stack: where each call returns to, and its time
  cur,            \* the function that runs
  tracing,        \* whether branches are traced
  offAt,          \* when tracing ended last
  comm,           \* the program, another one after each exec
  trace_nr,       \* the decoder's trace number
  begins,         \* the next branch is the first of a buffer
  time,
  lost,
  ts,             \* thread->ts, and what it reported
  completed       \* history: the times of calls that were traced, with their returns,
                  \* and of the gaps in which nothing was

vars == <<real, cur, tracing, offAt, comm, trace_nr, begins, time, lost, ts, completed>>

(* --------------------------- the thread stack --------------------------- *)

(* out: history, what the call/return processor was told; pushed: history, *)
(* how many entries there were                                             *)
NoStack == [on |-> FALSE, crp |-> FALSE, stack |-> <<>>, sz |-> 0, trace_nr |-> 0,
            branch_count |-> 0, last_time |-> 0, comm |-> 0, err |-> 0,
            out |-> <<>>, pushed |-> 0]

New(s, crp, mem) ==
  IF mem THEN [s EXCEPT !.on = TRUE, !.crp = crp, !.stack = <<>>, !.sz = Growth, !.trace_nr = 0,
                        !.branch_count = 0, !.last_time = 0, !.comm = comm, !.err = 0]
         ELSE [s EXCEPT !.on = FALSE, !.stack = <<>>, !.err = -1]

Cnt(s) == Len(s.stack)

Top(s) == s.stack[Cnt(s)]

(* thread_stack__call_return() *)
CallReturn(s, e, t, no_return) ==
  [cp |-> e.cp, call_time |-> e.time, return_time |-> t,
   branch_count |-> s.branch_count - e.branch_count,
   flags |-> (IF e.no_call THEN {"NO_CALL"} ELSE {}) \cup (IF no_return THEN {"NO_RETURN"} ELSE {})]

(* Reports and pops the entries down to i, the last one as returned or not. *)
PopDown(s, i, t, no_return) ==
  [s EXCEPT !.stack = SubSeq(@, 1, i - 1),
            !.out = @ \o [j \in 1 .. Cnt(s) - i + 1 |->
                            CallReturn(s, s.stack[Cnt(s) - j + 1], t,
                                       no_return \/ Cnt(s) - j + 1 # i)]]

(* __thread_stack__flush() *)
Flush(s) ==
  IF ~s.crp THEN [s EXCEPT !.stack = <<>>]
  ELSE IF s.stack = <<>> THEN s ELSE PopDown(s, 1, s.last_time, TRUE)

(* Mutant: the stack outlives the trace *)
SetTraceNr_NoFlush(s, nr) == [s EXCEPT !.trace_nr = nr]

(* thread_stack__set_trace_nr(), also at the start of thread_stack__event() *)
SetTraceNr(s, nr) ==
  IF ~s.on \/ nr = s.trace_nr THEN s
  ELSE [(IF s.trace_nr # 0 THEN Flush(s) ELSE s) EXCEPT !.trace_nr = nr]

Bare(ret) == [ret_addr |-> ret, time |-> 0, branch_count |-> 0, cp |-> <<>>, no_call |-> FALSE,
              trace |-> <<trace_nr, comm>>]

Full(s, mem) == Cnt(s) = s.sz /\ ~mem

Grown(s) == IF Cnt(s) = s.sz THEN s.sz + Growth ELSE s.sz

(* thread_stack__push(): when the stack cannot grow it starts anew. *)
Push(s, ret, mem) ==
  IF Full(s, mem) THEN [s EXCEPT !.stack = <<Bare(ret)>>]
  ELSE [s EXCEPT !.stack = Append(@, Bare(ret)), !.sz = Grown(s)]

LastWith(s, ret) ==
  LET at == {i \in 1 .. Cnt(s) : s.stack[i].ret_addr = ret}
  IN IF at = {} THEN 0 ELSE CHOOSE i \in at : \A j \in at : j <= i

(* thread_stack__pop(): an address that is not found leaves the stack alone. *)
Pop(s, ret) ==
  IF LastWith(s, ret) = 0 THEN s ELSE [s EXCEPT !.stack = SubSeq(@, 1, LastWith(s, ret) - 1)]

(* thread_stack__event() with the stack there *)
Event(s, b, mem) ==
  IF s.crp THEN s
  ELSE IF b.flag = "call"
    THEN IF b.to = 0 \/ b.from + InsnLen = b.to THEN s ELSE Push(s, b.from + InsnLen, mem)
    ELSE IF b.flag = "return" /\ b.from # 0 THEN Pop(s, b.to) ELSE s

HandleEvent(s, b, mem) ==
  IF s.on THEN Event(SetTraceNr(s, trace_nr), b, mem)
  ELSE IF mem THEN Event([New(s, FALSE, mem) EXCEPT !.trace_nr = trace_nr], b, mem) ELSE s

(* A call path: the functions from the outermost on, 0 where tracing ended *)
InKernel(s) == Cnt(s) # 0 /\ LET cp == Top(s).cp IN Kernel(cp[Len(cp)])

ParentPath(s) == IF Cnt(s) = 0 THEN <<>> ELSE Top(s).cp

(* thread_stack__push_cp() *)
PushCp(s, ret, cp, no_call, mem) ==
  IF Full(s, mem) THEN [s EXCEPT !.err = -1]
  ELSE [s EXCEPT !.stack = Append(@, [ret_addr |-> ret, time |-> time,
                                      branch_count |-> s.branch_count, cp |-> cp,
                                      no_call |-> no_call, trace |-> <<trace_nr, comm>>]),
                 !.sz = Grown(s), !.pushed = @ + 1]

(* Mutant: the entry on top goes, whatever it returns to *)
PopCp_TopOnly(s, ret, sym) ==
  IF Cnt(s) = 0 THEN [s EXCEPT !.err = 1] ELSE PopDown(s, Cnt(s), time, FALSE)

(* thread_stack__pop_cp(): entries above the one that returns did not return. *)
PopCp(s, ret, sym) ==
  IF Cnt(s) = 1 /\ Top(s).cp = <<sym>> THEN PopDown(s, 1, time, FALSE)
  ELSE IF LastWith(s, ret) # 0 THEN PopDown(s, LastWith(s, ret), time, FALSE)
  ELSE [s EXCEPT !.err = 1]

(* thread_stack__bottom() *)
Bottom(s, b, mem) ==
  IF b.from # 0 THEN PushCp(s, b.from, <<b.fromSym>>, TRUE, mem)
  ELSE IF b.to # 0 THEN PushCp(s, b.to, <<b.toSym>>, TRUE, mem) ELSE s

OutOfKernel(s) ==
  LET in == {i \in 1 .. Cnt(s) : \A j \in i .. Cnt(s) :
               Kernel(s.stack[j].cp[Len(s.stack[j].cp)])}
  IN IF in = {} THEN s
     ELSE PopDown(s, CHOOSE i \in in : \A j \in in : i <= j, time, TRUE)

(* This 'return' had no 'call': push and pop. *)
PushAndPop(s, b, mem) ==
  LET p == PushCp(s, b.to, Append(ParentPath(s), b.fromSym), TRUE, mem)
  IN IF p.err < 0 THEN p ELSE PopCp(p, b.to, b.toSym)

(* thread_stack__no_call_return() *)
NoCallReturn(s, b, mem) ==
  IF Kernel(b.fromSym) /\ ~Kernel(b.toSym)
    THEN IF OutOfKernel(s).stack = <<>>
           THEN PushCp(OutOfKernel(s), 0, <<b.toSym>>, TRUE, mem)
           ELSE PushAndPop(OutOfKernel(s), b, mem)
  ELSE IF InKernel(s) /\ ~Kernel(b.fromSym) THEN PushAndPop(OutOfKernel(s), b, mem)
  ELSE PushAndPop(s, b, mem)

TraceBegin(s) ==
  IF Cnt(s) # 0 /\ Top(s).cp[Len(Top(s).cp)] = 0 THEN PopDown(s, Cnt(s), time, FALSE) ELSE s

TraceEnd(s, b, mem) ==
  IF Cnt(s) = 0 \/ (Cnt(s) = 1 /\ s.stack[1].time = time) THEN s
  ELSE PushCp(s, b.from + InsnLen, Append(Top(s).cp, 0), FALSE, mem)

Return(s, b, mem) ==
  IF b.from = 0 \/ b.to = 0 THEN s
  ELSE LET p == PopCp(s, b.to, b.fromSym)
       IN IF p.err = 1 THEN NoCallReturn([p EXCEPT !.err = 0], b, mem) ELSE p

Call(s, b, mem) ==
  IF b.from = 0 \/ b.to = 0 \/ b.from + InsnLen = b.to THEN s
  ELSE PushCp(s, b.from + InsnLen, Append(Top(s).cp, b.toSym), FALSE, mem)

(* The branch itself, once there is something on the stack *)
Branch(s, b, mem) ==
  CASE s.err < 0           -> s
    [] b.flag = "call"     -> Call(s, b, mem)
    [] b.flag = "return"   -> Return(s, b, mem)
    [] b.flag = "begin"    -> TraceBegin(s)
    [] b.flag = "end"      -> TraceEnd(s, b, mem)
    [] OTHER               -> s

Counted(s) ==
  IF s.err < 0 THEN s ELSE [s EXCEPT !.branch_count = @ + 1, !.last_time = time]

WithBottom(s, b, mem) == IF Cnt(s) = 0 THEN Bottom(s, b, mem) ELSE s

(* Flush stack on exec *)
AfterExec(s) == IF s.comm # comm THEN [Flush(s) EXCEPT !.comm = comm] ELSE s

(* thread_stack__process(): supersedes a stack of thread_stack__event() *)
Process(s, b, mem) ==
  LET n == IF s.on /\ s.crp THEN s ELSE New(s, TRUE, mem)
  IN IF n.err < 0 THEN n
     ELSE Branch(Counted(WithBottom(AfterExec(n), b, mem)), b, mem)

(* intel_pt_sample(), or the buffers of intel_bts_process_queue(): the trace *)
(* number, then the branch                                                   *)
Sample(b, mem) ==
  LET s == IF Mode \in {"event", "both"} THEN HandleEvent(ts, b, mem)
           ELSE IF EveryBranch \/ begins THEN SetTraceNr(ts, trace_nr) ELSE ts
  IN IF Mode = "event" THEN s ELSE Process(s, b, mem)

(* ------------------------- the traced program --------------------------- *)

(* Functions that have called each other, the kernel only on top *)
Chain == {fs \in UNION {[1 .. n -> Funcs] : n \in 1 .. 3} :
            \A i \in 1 .. Len(fs) - 1 : Kernel(fs[i]) => Kernel(fs[i + 1])}

(* Calls that the trace did not see have no time. *)
StackOf(fs) ==
  [i \in 1 .. Len(fs) - 1 |-> [ret |-> CallSite(fs[i]) + InsnLen, f |-> fs[i], t |-> 0]]

Init ==
  /\ \E fs \in Chain : real = StackOf(fs) /\ cur = fs[Len(fs)]
  /\ tracing = TRUE /\ offAt = 0
  /\ comm = 1 /\ trace_nr = 1 /\ begins = TRUE
  /\ time = 1 /\ lost = 0
  /\ ts = NoStack /\ completed = {}

Can == time <= MaxTime /\ ts.err >= 0

Traced(flag, from, to, fromSym, toSym) ==
  /\ \E mem \in {TRUE, ~MemoryMayFail} :
       ts' = Sample([flag |-> flag, from |-> from, to |-> to, fromSym |-> fromSym,
                     toSym |-> toSym], mem)
  /\ time' = time + 1
  /\ begins' = FALSE
  /\ UNCHANGED <<trace_nr, comm, lost>>

DoCall(g) ==
  /\ Can /\ tracing /\ Len(real) < MaxDepth
  /\ Kernel(cur) => Kernel(g)
  /\ Traced("call", CallSite(cur), Entry(g), cur, g)
  /\ real' = Append(real, [ret |-> CallSite(cur) + InsnLen, f |-> cur, t |-> time])
  /\ cur' = g
  /\ UNCHANGED <<tracing, offAt, completed>>

(* A call of the next instruction, to find out where the code is *)
ZeroLengthCall ==
  /\ Can /\ tracing
  /\ Traced("call", CallSite(cur), CallSite(cur) + InsnLen, cur, cur)
  /\ UNCHANGED <<real, cur, tracing, offAt, completed>>

(* A return to the caller *)
DoReturn ==
  /\ Can /\ tracing /\ real # <<>>
  /\ LET frame == real[Len(real)]
     IN /\ Traced("return", ReturnSite(cur), frame.ret, cur, frame.f)
        /\ real' = SubSeq(real, 1, Len(real) - 1)
        /\ cur' = frame.f
        /\ completed' = IF frame.t = 0 THEN completed ELSE completed \cup {<<"call", frame.t, time>>}
  /\ UNCHANGED <<tracing, offAt>>

(* A jump to another function, as a tail call *)
DoJump(g) ==
  /\ Can /\ tracing /\ (Kernel(g) <=> Kernel(cur)) /\ g # cur
  /\ Traced("jump", CallSite(cur), Entry(g), cur, g)
  /\ cur' = g
  /\ UNCHANGED <<real, tracing, offAt, completed>>

(* longjmp(): calls are left that never return.  Where they share a return  *)
(* address with a call that remains, the trace does not tell which of them  *)
(* returns later.                                                            *)
LongJump ==
  /\ LongJumps /\ Can /\ tracing
  /\ \E n \in 1 .. Len(real) :
       /\ \A i \in 1 .. (n - 1), j \in n .. Len(real) : real[i].ret # real[j].ret
       /\ Traced("jump", CallSite(cur), ReturnSite(real[n].f), cur, real[n].f)
       /\ real' = SubSeq(real, 1, n - 1)
       /\ cur' = real[n].f
  /\ UNCHANGED <<tracing, offAt, completed>>

(* Tracing ends, and begins again in the same place. *)
TraceOff ==
  /\ Can /\ tracing
  /\ Traced("end", CallSite(cur), 0, cur, cur)
  /\ tracing' = FALSE /\ offAt' = time
  /\ UNCHANGED <<real, cur, completed>>

TraceOn ==
  /\ Can /\ ~tracing
  /\ Traced("begin", 0, CallSite(cur), cur, cur)
  /\ tracing' = TRUE
  /\ completed' = IF offAt = 0 THEN completed ELSE completed \cup {<<"gap", offAt, time>>}
  /\ UNCHANGED <<real, cur, offAt>>

(* A part of the trace is lost: the program is somewhere else when it goes on. *)
Lose ==
  /\ Can /\ lost < MaxLost /\ (EarlyLoss \/ ts.trace_nr = trace_nr)
  /\ \E fs \in Chain : real' = StackOf(fs) /\ cur' = fs[Len(fs)]
  /\ trace_nr' = trace_nr + 1 /\ begins' = TRUE /\ lost' = lost + 1
  /\ tracing' = FALSE /\ offAt' = 0
  /\ UNCHANGED <<comm, time, ts, completed>>

(* The program becomes another one. *)
Exec ==
  /\ Can /\ tracing /\ comm <= MaxExec
  /\ comm' = comm + 1
  /\ real' = <<>> /\ cur' \in {f \in Funcs : ~Kernel(f)}
  /\ offAt' = 0
  /\ UNCHANGED <<tracing, trace_nr, begins, time, lost, ts, completed>>

(* perf_session__flush_thread_stacks(), at the end of the session *)
End ==
  /\ ts.on /\ ts.err >= 0 /\ time <= MaxTime + 1
  /\ ts' = Flush(ts)
  /\ time' = MaxTime + 2
  /\ UNCHANGED <<real, cur, tracing, offAt, comm, trace_nr, begins, lost, completed>>

Next ==
  \/ \E g \in Funcs : DoCall(g) \/ DoJump(g)
  \/ ZeroLengthCall \/ DoReturn \/ LongJump \/ TraceOff \/ TraceOn \/ Lose \/ Exec \/ End

Spec == Init /\ [][Next]_vars

(* ----------------------------- properties ------------------------------- *)

(* The shape of the stack, within its allocation *)
TypeOK ==
  /\ ts.sz \in Nat /\ Cnt(ts) <= ts.sz /\ ts.err \in {-1, 0}
  /\ ts.branch_count \in 0 .. MaxTime /\ ts.last_time \in 0 .. MaxTime
  /\ \A i \in 1 .. Cnt(ts) : ts.stack[i].cp \in Seq(0 .. NrFuncs)

(* thread_stack__sample(): the return addresses from the top down *)
ChainOf(s, sz) == [i \in 1 .. (IF sz < Cnt(s) THEN sz ELSE Cnt(s)) |-> s.stack[Cnt(s) - i + 1].ret_addr]

(* Every call chain that is reported is a part of the program's own: what    *)
(* the trace did not see is missing at the far end, and nothing is made up,  *)
(* over lost trace, recursion, zero-length calls and a stack that could not  *)
(* grow (thread_stack__event(), thread_stack__pop()).                        *)
ChainIsReal ==
  LET chain == ChainOf(ts, MaxDepth + 1)
  IN ts.trace_nr = trace_nr =>
       /\ Len(chain) <= Len(real)
       /\ \A i \in 1 .. Len(chain) : chain[i] = real[Len(real) - i + 1].ret

(* A call reported with neither flag is one the program made, with the return *)
(* that belongs to it; so is the time in which nothing was traced             *)
(* (thread_stack__pop_cp(), thread_stack__trace_begin()).                     *)
PairsAreReal ==
  \A i \in 1 .. Len(ts.out) :
    ts.out[i].flags = {} =>
      \E c \in completed : ts.out[i].call_time = c[2] /\ ts.out[i].return_time = c[3]

(* Every call that was traced, and whose return was, is reported once. *)
PairsAreReported ==
  Mode = "process" /\ ts.err = 0 /\ lost = 0 /\ comm = 1 /\ ~MemoryMayFail =>
    \A c \in completed :
      c[1] = "call" =>
        Cardinality({i \in 1 .. Len(ts.out) :
          ts.out[i].flags = {} /\ ts.out[i].call_time = c[2] /\ ts.out[i].return_time = c[3]}) = 1

(* Whatever pushes and pops there are, each entry is on the stack or was *)
(* reported, once, and in the end all were (__thread_stack__flush()).    *)
EntriesConserved ==
  /\ ts.crp => ts.pushed = Len(ts.out) + Cnt(ts)
  /\ time = MaxTime + 2 => Cnt(ts) = 0

(* The call path of an entry leads through the entries below it, also when *)
(* kernel entries were thrown away or a return had no call                 *)
(* (thread_stack__no_call_return()).                                       *)
PathsFollowStack ==
  ts.crp => \A i \in 1 .. Cnt(ts) :
    LET cp == ts.stack[i].cp
    IN SubSeq(cp, 1, Len(cp) - 1) = (IF i = 1 THEN <<>> ELSE ts.stack[i - 1].cp)

(* Nothing of a lost trace or of another program is on the stack when a *)
(* branch has been handled (the comment in thread_stack__event()).      *)
OneTrace == \A i \in 1 .. Cnt(ts) : ts.stack[i].trace = ts.stack[1].trace
=============================================================================
