------------------------- MODULE SchedReplayProofs -------------------------
(***************************************************************************)
(* Proofs about perf sched replay: for any trace, any number of tasks and  *)
(* any number of runs, a run that was measured is one run of every task,   *)
(* and leaves the semaphores as it found them.                             *)
(***************************************************************************)
EXTENDS SchedReplay, TLAPS

(***************************************************************************)
(* The atoms.                                                              *)
(***************************************************************************)

(* Lists of atoms that only gained atoms without a semaphore. *)
Grown(al, bs, atom) ==
  /\ atom.wait_sem = 0
  /\ \A p \in Pids : \A n \in 1 .. Len(al[p]) :
       n \in 1 .. Len(bs[p]) /\ bs[p][n] = al[p][n]
  /\ \A p \in Pids : \A n \in 1 .. Len(bs[p]) :
       (n \in 1 .. Len(al[p]) /\ bs[p][n] = al[p][n]) \/ bs[p][n] = atom

LEMMA MoreAtoms ==
  ASSUME NEW al, NEW bs, NEW ns \in Nat, NEW atom, AtomsOK(al, ns), Grown(al, bs, atom)
  PROVE  AtomsOK(bs, ns)
<1> USE DEF Grown
<1>1. ASSUME NEW p \in Pids, NEW n \in 1 .. Len(bs[p])
      PROVE  /\ bs[p][n].wait_sem \in 0 .. ns
             /\ bs[p][n].type = "RUN" => bs[p][n].wait_sem = 0
  <2>1. CASE bs[p][n] = atom
    BY <2>1
  <2>2. CASE n \in 1 .. Len(al[p]) /\ bs[p][n] = al[p][n]
    BY <2>2 DEF AtomsOK, SemsInRange
  <2> QED
    BY <2>1, <2>2
<1>2. ASSUME NEW p \in Pids, NEW q \in Pids, NEW n \in 1 .. Len(bs[p]), NEW m \in 1 .. Len(bs[q]),
             bs[p][n] = bs[q][m], bs[p][n].wait_sem # 0
      PROVE  p = q /\ n = m
  <2>1. /\ n \in 1 .. Len(al[p]) /\ bs[p][n] = al[p][n]
        /\ m \in 1 .. Len(al[q]) /\ bs[q][m] = al[q][m]
    BY <1>2
  <2>2. al[p][n] = al[q][m] /\ al[p][n].wait_sem # 0
    BY <1>2, <2>1
  <2> QED
    BY <2>1, <2>2 DEF AtomsOK, SemsUsedOnce
<1>3. ASSUME NEW k \in 1 .. ns, NEW ty \in {"SLEEP", "WAKEUP"}
      PROVE  \E p \in Pids : \E n \in 1 .. Len(bs[p]) :
               bs[p][n].type = ty /\ bs[p][n].wait_sem = k
  <2>0. SemsUsed(al, ns) /\ k \in 1 .. ns /\ ty \in {"SLEEP", "WAKEUP"}
    BY DEF AtomsOK
  <2>1. PICK p \in Pids : \E n \in 1 .. Len(al[p]) :
                            al[p][n].type = ty /\ al[p][n].wait_sem = k
    BY ONLY <2>0, Zenon DEF SemsUsed
  <2>2. PICK n \in 1 .. Len(al[p]) : al[p][n].type = ty /\ al[p][n].wait_sem = k
    BY <2>1
  <2>3. n \in 1 .. Len(bs[p]) /\ bs[p][n] = al[p][n]
    OBVIOUS
  <2> QED
    BY <2>2, <2>3, Zenon
<1>4. SemsInRange(bs, ns)
  BY <1>1 DEF SemsInRange
<1>5. SemsUsedOnce(bs)
  BY <1>2 DEF SemsUsedOnce
<1>6. SemsUsed(bs, ns)
  BY <1>3 DEF SemsUsed
<1> QED
  BY <1>4, <1>5, <1>6 DEF AtomsOK

(* A sleep and a wakeup that had none got a semaphore of their own. *)
Paired(al, bs, ns, pid, m, wakee, n) ==
  /\ pid \in Pids /\ wakee \in Pids /\ pid # wakee
  /\ \A p \in Pids : Len(bs[p]) = Len(al[p])
  /\ n \in 1 .. Len(al[wakee]) /\ m \in 1 .. Len(al[pid])
  /\ bs[wakee][n] = [type |-> "SLEEP", wait_sem |-> ns + 1]
  /\ bs[pid][m] = [type |-> "WAKEUP", wait_sem |-> ns + 1]
  /\ al[wakee][n].wait_sem = 0 /\ al[pid][m].wait_sem = 0
  /\ \A p \in Pids : \A k \in 1 .. Len(al[p]) :
       (p = wakee /\ k = n) \/ (p = pid /\ k = m) \/ bs[p][k] = al[p][k]

LEMMA PairedAtoms ==
  ASSUME NEW al, NEW bs, NEW ns \in Nat, AtomsOK(al, ns),
         NEW pid, NEW wakee, NEW m, NEW n, Paired(al, bs, ns, pid, m, wakee, n)
  PROVE  AtomsOK(bs, ns + 1)
<1> USE DEF Paired
<1>1. ASSUME NEW p \in Pids, NEW k \in 1 .. Len(bs[p])
      PROVE  /\ bs[p][k].wait_sem \in 0 .. ns + 1
             /\ bs[p][k].type = "RUN" => bs[p][k].wait_sem = 0
             /\ bs[p][k] = al[p][k] => bs[p][k].wait_sem # ns + 1
  <2>1. CASE p = wakee /\ k = n
    BY <2>1
  <2>2. CASE p = pid /\ k = m
    BY <2>2
  <2>3. CASE bs[p][k] = al[p][k]
    BY <2>3 DEF AtomsOK, SemsInRange
  <2> QED
    BY <2>1, <2>2, <2>3
<1>2. ASSUME NEW p \in Pids, NEW q \in Pids, NEW k \in 1 .. Len(bs[p]), NEW l \in 1 .. Len(bs[q]),
             bs[p][k] = bs[q][l], bs[p][k].wait_sem # 0
      PROVE  p = q /\ k = l
  <2>1. CASE bs[p][k] = al[p][k] /\ bs[q][l] = al[q][l]
    <3>1. al[p][k] = al[q][l] /\ al[p][k].wait_sem # 0
      BY <1>2, <2>1
    <3>2. k \in 1 .. Len(al[p]) /\ l \in 1 .. Len(al[q])
      OBVIOUS
    <3> QED
      BY <3>1, <3>2 DEF AtomsOK, SemsUsedOnce
  <2>2. CASE ~(bs[p][k] = al[p][k] /\ bs[q][l] = al[q][l])
    <3>0. bs[p][k].wait_sem = bs[q][l].wait_sem
      BY <1>2
    <3>1. bs[p][k].wait_sem = ns + 1 /\ bs[q][l].wait_sem = ns + 1
      <4>1. CASE bs[p][k] # al[p][k]
        BY <4>1, <3>0, SMTT(30)
      <4>2. CASE bs[q][l] # al[q][l]
        BY <4>2, <3>0
      <4> QED
        BY <2>2, <4>1, <4>2
    <3>2. bs[p][k] # al[p][k] /\ bs[q][l] # al[q][l]
      BY <3>1, <1>1
    <3>3. bs[p][k].type = bs[q][l].type
      BY <1>2
    <3> QED
      BY <3>2, <3>3, SMTT(30)
  <2> QED
    BY <2>1, <2>2
<1>3. ASSUME NEW k \in 1 .. ns + 1, NEW ty \in {"SLEEP", "WAKEUP"}
      PROVE  \E p \in Pids : \E l \in 1 .. Len(bs[p]) :
               bs[p][l].type = ty /\ bs[p][l].wait_sem = k
  <2>1. CASE k = ns + 1 /\ ty = "SLEEP"
    <3>1. n \in 1 .. Len(bs[wakee]) /\ bs[wakee][n].type = ty /\ bs[wakee][n].wait_sem = k
      BY <2>1
    <3> QED
      BY <3>1, Zenon
  <2>2. CASE k = ns + 1 /\ ty = "WAKEUP"
    <3>1. m \in 1 .. Len(bs[pid]) /\ bs[pid][m].type = ty /\ bs[pid][m].wait_sem = k
      BY <2>2
    <3> QED
      BY <3>1, Zenon
  <2>3. CASE k # ns + 1
    <3>1. k \in 1 .. ns
      BY <2>3
    <3>2. PICK p \in Pids : \E l \in 1 .. Len(al[p]) :
                              al[p][l].type = ty /\ al[p][l].wait_sem = k
      BY <3>1 DEF AtomsOK, SemsUsed
    <3>3. PICK l \in 1 .. Len(al[p]) : al[p][l].type = ty /\ al[p][l].wait_sem = k
      BY <3>2
    <3>4. bs[p][l] = al[p][l] /\ l \in 1 .. Len(bs[p])
      BY <3>3, SMTT(30)
    <3> QED
      BY <3>3, <3>4, Zenon
  <2> QED
    BY <2>1, <2>2, <2>3
<1>4. SemsInRange(bs, ns + 1)
  BY <1>1 DEF SemsInRange
<1>5. SemsUsedOnce(bs)
  BY <1>2, SMTT(30) DEF SemsUsedOnce
<1>6. SemsUsed(bs, ns + 1)
  BY <1>3 DEF SemsUsed
<1> QED
  BY <1>4, <1>5, <1>6 DEF AtomsOK

(* A list in which one atom gets a semaphore. *)
LEMMA SemGiven ==
  ASSUME NEW a \in Seq(Atom), NEW n \in 1 .. Len(a), NEW sem \in Nat
  PROVE  /\ WithSem(a, n, sem) \in Seq(Atom)
         /\ Len(WithSem(a, n, sem)) = Len(a)
         /\ \A k \in 1 .. Len(a) : k # n => WithSem(a, n, sem)[k] = a[k]
         /\ WithSem(a, n, sem)[n] = [type |-> a[n].type, wait_sem |-> sem]
<1>1. a[n] \in Atom
  OBVIOUS
<1>2. DEFINE x == [type |-> a[n].type, wait_sem |-> sem]
<1>3. [a[n] EXCEPT !.wait_sem = sem] = x /\ x \in Atom
  BY <1>1 DEF Atom
<1>4. WithSem(a, n, sem) = [a EXCEPT ![n] = x]
  BY <1>3 DEF WithSem
<1> HIDE DEF x
<1>5. [a EXCEPT ![n] = x] \in Seq(Atom) /\ Len([a EXCEPT ![n] = x]) = Len(a)
  BY <1>3
<1>6. \A k \in 1 .. Len(a) : [a EXCEPT ![n] = x][k] = IF k = n THEN x ELSE a[k]
  BY <1>3
<1> QED
  BY <1>4, <1>5, <1>6 DEF x

(***************************************************************************)
(* The trace.                                                              *)
(***************************************************************************)

TraceRecord == [tasks : Seq(Pids), atoms : [Pids -> Seq(Atom)], sems : Seq(Nat)]

(* An atom without a semaphore is added to the task of pid, which is       *)
(* registered with it if it was not before.                                *)
Added(s, t, pid, atom) ==
  /\ pid \in Pids /\ atom \in Atom /\ atom.wait_sem = 0
  /\ t \in TraceRecord /\ t.sems = s.sems
  /\ t.atoms = [s.atoms EXCEPT ![pid] = Append(@, atom)]
  /\ \A n, m \in 1 .. Len(t.tasks) : t.tasks[n] = t.tasks[m] => n = m
  /\ \A p \in Pids : (\E n \in 1 .. Len(t.tasks) : t.tasks[n] = p)
                      <=> (p = pid \/ \E n \in 1 .. Len(s.tasks) : s.tasks[n] = p)

LEMMA AtomAdded ==
  ASSUME NEW s, NEW t, NEW pid, NEW atom, TraceOK(s), Added(s, t, pid, atom)
  PROVE  TraceOK(t)
<1> USE DEF Added
<1>1. /\ s.atoms \in [Pids -> Seq(Atom)] /\ Len(s.sems) \in Nat
      /\ AtomsOK(s.atoms, Len(s.sems))
      /\ \A p \in Pids : s.atoms[p] # <<>> <=> \E n \in 1 .. Len(s.tasks) : s.tasks[n] = p
  BY DEF TraceOK
<1>2. /\ \A p \in Pids : p # pid => t.atoms[p] = s.atoms[p]
      /\ t.atoms[pid] = Append(s.atoms[pid], atom)
  BY <1>1
<1>3. \A p \in Pids : \A n \in 1 .. Len(s.atoms[p]) :
        n \in 1 .. Len(t.atoms[p]) /\ t.atoms[p][n] = s.atoms[p][n]
  BY <1>1, <1>2
<1>4. \A p \in Pids : \A n \in 1 .. Len(t.atoms[p]) :
        (n \in 1 .. Len(s.atoms[p]) /\ t.atoms[p][n] = s.atoms[p][n]) \/ t.atoms[p][n] = atom
  BY <1>1, <1>2
<1>5. AtomsOK(t.atoms, Len(t.sems))
  <2>1. Grown(s.atoms, t.atoms, atom)
    BY <1>3, <1>4 DEF Grown
  <2> QED
    BY <1>1, <2>1, MoreAtoms
<1>6. \A p \in Pids : t.atoms[p] # <<>> <=> \E n \in 1 .. Len(t.tasks) : t.tasks[n] = p
  <2>1. t.atoms[pid] # <<>>
    BY <1>1, <1>2
  <2> QED
    BY <1>1, <1>2, <2>1
<1> QED
  BY <1>5, <1>6 DEF TraceOK, TraceRecord

(* register_pid(): an unknown pid gets a task that sleeps. *)
LEMMA RegisterOK ==
  ASSUME NEW s, TraceOK(s), NEW pid \in Pids
  PROVE  /\ TraceOK(register_pid(s, pid))
         /\ register_pid(s, pid).sems = s.sems
         /\ \A p \in Pids : s.atoms[p] # <<>> => register_pid(s, pid).atoms[p] # <<>>
         /\ register_pid(s, pid).atoms[pid] # <<>>
<1>1. CASE \E n \in 1 .. Len(s.tasks) : s.tasks[n] = pid
  <2>1. register_pid(s, pid) = s
    BY <1>1 DEF register_pid
  <2> QED
    BY <1>1, <2>1 DEF TraceOK
<1>2. CASE ~ \E n \in 1 .. Len(s.tasks) : s.tasks[n] = pid
  <2> DEFINE t == register_pid(s, pid)
  <2>1. t = [[s EXCEPT !.tasks = Append(@, pid)] EXCEPT !.atoms[pid] = Append(@, Sleep)]
    BY <1>2 DEF register_pid, get_new_event
  <2>2. s \in TraceRecord
    BY DEF TraceOK, TraceRecord
  <2>3. Sleep \in Atom /\ Sleep.wait_sem = 0
    BY DEF Sleep, Atom
  <2>4. /\ t.tasks = Append(s.tasks, pid) /\ t.sems = s.sems
        /\ t.atoms = [s.atoms EXCEPT ![pid] = Append(@, Sleep)]
    BY <2>1, <2>2 DEF TraceRecord
  <2>5. t \in TraceRecord
    <3>1. /\ Append(s.tasks, pid) \in Seq(Pids)
          /\ [s.atoms EXCEPT ![pid] = Append(@, Sleep)] \in [Pids -> Seq(Atom)]
      BY <2>2, <2>3 DEF TraceRecord
    <3>2. t = [tasks |-> t.tasks, atoms |-> t.atoms, sems |-> t.sems]
      BY <2>1, <2>2 DEF TraceRecord
    <3> QED
      BY <2>2, <2>4, <3>1, <3>2 DEF TraceRecord
  <2> HIDE DEF t
  <2>6. \A n, m \in 1 .. Len(t.tasks) : t.tasks[n] = t.tasks[m] => n = m
    BY <1>2, <2>2, <2>4 DEF TraceRecord, TraceOK
  <2>7. \A p \in Pids : (\E n \in 1 .. Len(t.tasks) : t.tasks[n] = p)
                         <=> (p = pid \/ \E n \in 1 .. Len(s.tasks) : s.tasks[n] = p)
    BY <2>2, <2>4 DEF TraceRecord
  <2>8. TraceOK(t)
    <3>1. Added(s, t, pid, Sleep)
      BY <2>3, <2>4, <2>5, <2>6, <2>7 DEF Added
    <3> QED
      BY <3>1, AtomAdded
  <2>9. \A p \in Pids : (s.atoms[p] # <<>> \/ p = pid) => t.atoms[p] # <<>>
    <3>1. s.atoms \in [Pids -> Seq(Atom)]
      BY <2>2 DEF TraceRecord
    <3>2. t.atoms[pid] = Append(s.atoms[pid], Sleep)
      BY <2>4, <3>1
    <3>3. t.atoms[pid] # <<>>
      BY <3>1, <3>2, <2>3
    <3>4. \A p \in Pids : p # pid => t.atoms[p] = s.atoms[p]
      BY <2>4, <3>1
    <3> QED
      BY <3>3, <3>4
  <2> QED
    BY <2>4, <2>8, <2>9 DEF t
<1> QED
  BY <1>1, <1>2

(* Any other atom that the trace adds belongs to a registered task. *)
LEMMA AtomOK ==
  ASSUME NEW s, TraceOK(s), NEW pid \in Pids, s.atoms[pid] # <<>>,
         NEW atom \in Atom, atom.wait_sem = 0
  PROVE  /\ TraceOK(get_new_event(s, pid, atom))
         /\ get_new_event(s, pid, atom).tasks = s.tasks
         /\ get_new_event(s, pid, atom).sems = s.sems
         /\ get_new_event(s, pid, atom).atoms = [s.atoms EXCEPT ![pid] = Append(@, atom)]
<1> DEFINE t == get_new_event(s, pid, atom)
<1>0. t = [s EXCEPT !.atoms[pid] = Append(@, atom)]
  BY DEF get_new_event
<1> HIDE DEF t
<1>1. s \in TraceRecord
  BY DEF TraceOK, TraceRecord
<1>2. /\ t.tasks = s.tasks /\ t.sems = s.sems
      /\ t.atoms = [s.atoms EXCEPT ![pid] = Append(@, atom)]
  BY <1>0, <1>1 DEF TraceRecord
<1>3. t \in TraceRecord
  <2>1. [s.atoms EXCEPT ![pid] = Append(@, atom)] \in [Pids -> Seq(Atom)]
    BY <1>1 DEF TraceRecord
  <2>2. t = [tasks |-> t.tasks, atoms |-> t.atoms, sems |-> t.sems]
    BY <1>0, <1>1 DEF TraceRecord
  <2> QED
    BY <1>1, <1>2, <2>1, <2>2 DEF TraceRecord
<1>4. /\ \A n, m \in 1 .. Len(t.tasks) : t.tasks[n] = t.tasks[m] => n = m
      /\ \E n \in 1 .. Len(s.tasks) : s.tasks[n] = pid
  BY <1>2 DEF TraceOK
<1>5. Added(s, t, pid, atom)
  BY <1>2, <1>3, <1>4 DEF Added
<1> QED
  BY <1>2, <1>5, AtomAdded DEF t

(* add_sched_event_wakeup() *)
LEMMA WakeupOK ==
  ASSUME NEW s, TraceOK(s), NEW pid \in Pids, NEW wakee \in Pids,
         s.atoms[pid] # <<>>, s.atoms[wakee] # <<>>,
         NEW u, u = add_sched_event_wakeup(s, pid, wakee)
  PROVE  /\ TraceOK(u) /\ u.tasks = s.tasks
         /\ u.sems = s.sems \/ u.sems = Append(s.sems, 0)
<1> DEFINE t == get_new_event(s, pid, Wakeup)
           sem == Len(s.sems) + 1
<1>1. Wakeup \in Atom /\ Wakeup.wait_sem = 0 /\ Wakeup.type = "WAKEUP"
  BY DEF Atom, Wakeup
<1>4. u = IF t.atoms[wakee][Len(t.atoms[wakee])].type # "SLEEP"
             \/ t.atoms[wakee][Len(t.atoms[wakee])].wait_sem # 0 THEN t
          ELSE [t EXCEPT !.atoms[wakee] = WithSem(@, Len(@), sem),
                         !.atoms[pid] = WithSem(@, Len(@), sem),
                         !.sems = Append(@, 0)]
  BY DEF add_sched_event_wakeup
<1>2. /\ TraceOK(t) /\ t.tasks = s.tasks /\ t.sems = s.sems
      /\ t.atoms = [s.atoms EXCEPT ![pid] = Append(@, Wakeup)]
  BY <1>1, AtomOK
<1> HIDE DEF t
<1>3. /\ s \in TraceRecord /\ t \in TraceRecord /\ sem \in Nat
  BY <1>2, SMTT(30) DEF TraceOK, TraceRecord
<1> DEFINE n == Len(t.atoms[wakee])
           m == Len(t.atoms[pid])
<1>5. CASE t.atoms[wakee][n].type # "SLEEP" \/ t.atoms[wakee][n].wait_sem # 0
  BY <1>2, <1>4, <1>5
<1>6. CASE t.atoms[wakee][n].type = "SLEEP" /\ t.atoms[wakee][n].wait_sem = 0
  <2>1. /\ t.atoms[pid] = Append(s.atoms[pid], Wakeup)
        /\ t.atoms \in [Pids -> Seq(Atom)]
    BY <1>1, <1>2, <1>3 DEF TraceRecord
  <2>2. t.atoms[pid][m] = Wakeup /\ m \in 1 .. Len(t.atoms[pid])
    BY <1>1, <1>3, <2>1 DEF TraceRecord
  <2>3. pid # wakee
    BY <1>1, <1>6, <2>2
  <2>4. n \in 1 .. Len(t.atoms[wakee])
    BY <1>2, <1>3, <2>1, <2>3 DEF TraceRecord
  <2>5. u = [t EXCEPT !.atoms[wakee] = WithSem(@, Len(@), sem),
                      !.atoms[pid] = WithSem(@, Len(@), sem),
                      !.sems = Append(@, 0)]
    BY <1>4, <1>6
  <2> DEFINE wl == WithSem(t.atoms[wakee], n, sem)
             pl == WithSem(t.atoms[pid], m, sem)
  <2>6. /\ u.tasks = t.tasks /\ u.sems = Append(t.sems, 0)
        /\ u.atoms = [t.atoms EXCEPT ![wakee] = wl, ![pid] = pl]
        /\ u = [tasks |-> u.tasks, atoms |-> u.atoms, sems |-> u.sems]
    BY <1>3, <2>3, <2>5 DEF TraceRecord
  <2>7. /\ wl \in Seq(Atom) /\ Len(wl) = n
        /\ \A k \in 1 .. n : k # n => wl[k] = t.atoms[wakee][k]
        /\ wl[n] = [type |-> "SLEEP", wait_sem |-> sem]
    BY <1>3, <1>6, <2>1, <2>4, SemGiven, SMTT(30)
  <2>8. /\ pl \in Seq(Atom) /\ Len(pl) = m
        /\ \A k \in 1 .. m : k # m => pl[k] = t.atoms[pid][k]
        /\ pl[m] = [type |-> "WAKEUP", wait_sem |-> sem]
    <3>1. t.atoms[pid][m].type = "WAKEUP" /\ t.atoms[pid] \in Seq(Atom)
      BY <1>1, <2>1, <2>2
    <3> QED
      BY <1>3, <2>2, <3>1, SemGiven
  <2> HIDE DEF wl, pl
  <2>9. /\ u.atoms[wakee] = wl /\ u.atoms[pid] = pl
        /\ \A p \in Pids : p \notin {pid, wakee} => u.atoms[p] = t.atoms[p]
        /\ u.atoms \in [Pids -> Seq(Atom)]
    BY <2>1, <2>3, <2>6, <2>7, <2>8
  <2>10. Paired(t.atoms, u.atoms, Len(s.sems), pid, m, wakee, n)
    <3>1. \A p \in Pids : Len(u.atoms[p]) = Len(t.atoms[p])
      BY <2>7, <2>8, <2>9
    <3>2. t.atoms[pid][m].wait_sem = 0
      BY <1>1, <2>2
    <3>3. \A p \in Pids : \A k \in 1 .. Len(t.atoms[p]) :
            (p = wakee /\ k = n) \/ (p = pid /\ k = m) \/ u.atoms[p][k] = t.atoms[p][k]
      BY <2>7, <2>8, <2>9
    <3> QED
      BY <1>6, <2>2, <2>3, <2>4, <2>7, <2>8, <2>9, <3>1, <3>2, <3>3 DEF Paired
  <2>11. AtomsOK(u.atoms, Len(u.sems))
    <3>1. Len(s.sems) \in Nat /\ AtomsOK(t.atoms, Len(s.sems))
      BY <1>2, <1>3 DEF TraceOK, TraceRecord
    <3>2. AtomsOK(u.atoms, Len(s.sems) + 1)
      BY <2>10, <3>1, PairedAtoms
    <3>3. Len(u.sems) = Len(s.sems) + 1
      BY <1>2, <1>3, <2>6 DEF TraceRecord
    <3> QED
      BY <3>2, <3>3
  <2>12. u \in TraceRecord
    <3>1. u.tasks \in Seq(Pids) /\ u.sems \in Seq(Nat)
      BY <1>3, <2>6 DEF TraceRecord
    <3> QED
      BY <2>6, <2>9, <3>1 DEF TraceRecord
  <2>13. \A p \in Pids : u.atoms[p] # <<>> <=> t.atoms[p] # <<>>
    <3>1. u.atoms[pid] # <<>> /\ u.atoms[wakee] # <<>>
      BY <2>2, <2>4, <2>7, <2>8, <2>9
    <3>2. t.atoms[pid] # <<>> /\ t.atoms[wakee] # <<>>
      BY <2>2, <2>4
    <3> QED
      BY <2>9, <3>1, <3>2
  <2>14. TraceOK(u)
    <3>1. u.tasks = t.tasks
      BY <2>6
    <3>2. \A p \in Pids : u.atoms[p] # <<>> <=> \E k \in 1 .. Len(u.tasks) : u.tasks[k] = p
      <4>1. \A p \in Pids : t.atoms[p] # <<>> <=> \E k \in 1 .. Len(t.tasks) : t.tasks[k] = p
        BY <1>2 DEF TraceOK
      <4> QED
        BY <2>13, <3>1, <4>1
    <3>3. \A k, l \in 1 .. Len(u.tasks) : u.tasks[k] = u.tasks[l] => k = l
      BY <1>2, <3>1 DEF TraceOK
    <3> QED
      BY <2>11, <2>12, <3>2, <3>3 DEF TraceOK, TraceRecord
  <2> QED
    BY <1>2, <2>6, <2>14
<1> QED
  BY <1>5, <1>6

(***************************************************************************)
(* The gates: each step of a thread and of the main thread.                *)
(***************************************************************************)

TasksOK ==
  /\ tasks \in Seq(Pids)
  /\ \A n, m \in 1 .. Len(tasks) : tasks[n] = tasks[m] => n = m

(* What a thread does to its own state is nothing to the other tasks. *)
LEMMA OwnTask ==
  ASSUME TasksOK, ThreadTypes, NEW p \in Pids, pc[p] # "none"
  PROVE  \E n0 \in 1 .. Len(tasks) :
           tasks[n0] = p /\ \A n \in 1 .. Len(tasks) : n # n0 => tasks[n] # p
<1>1. PICK n0 \in 1 .. Len(tasks) : tasks[n0] = p
  BY DEF ThreadTypes, Registered
<1> QED
  BY <1>1 DEF TasksOK

LEMMA PostReadyGate ==
  ASSUME TasksOK, GateInv, NEW p \in Pids, PostReady(p)
  PROVE  GateInv'
<1> USE DEF GateInv
<1>1. pc[p] = "again" /\ pc[p] # "none"
  BY DEF PostReady
<1>2. PICK n0 \in 1 .. Len(tasks) :
        tasks[n0] = p /\ \A n \in 1 .. Len(tasks) : n # n0 => tasks[n] # p
  BY <1>1, OwnTask
<1>3. mpc \in {"run", "ready", "ready_init", "open"}
  BY <1>1, <1>2 DEF ThreadTypes, ReadInv, DuringRun
<1>4. ~Awaited(n0)
  BY <1>1, <1>2, <1>3 DEF BetweenRuns
<1>5. /\ pc' = [pc EXCEPT ![p] = "start"]
      /\ ready_for_work' = [ready_for_work EXCEPT ![p] = @ + 1]
      /\ UNCHANGED <<tasks, mpc, i, nr_runs, counted, replayed, curr_event, cpu_usage, work_done_sem,
                     start_work_mutex, work_done_wait_mutex>>
  BY DEF PostReady, main, trace
<1>6. ThreadTypes'
  BY <1>1, <1>5, SMTT(30) DEF ThreadTypes, Registered, Locations
<1>7. ReadInv' /\ DuringRun'
  BY <1>3, <1>5 DEF ReadInv, DuringRun
<1>8. CountedInv'
  BY <1>5 DEF CountedInv
<1>9. BetweenRuns'
  <2>1. \A n \in 1 .. Len(tasks) : Awaited(n)' <=> Awaited(n)
    BY <1>5 DEF Awaited
  <2>2. ASSUME NEW n \in 1 .. Len(tasks) PROVE tasks[n] \in Pids
    BY DEF TasksOK
  <2> QED
    BY <1>1, <1>2, <1>3, <1>4, <1>5, <2>1, <2>2 DEF BetweenRuns, ThreadTypes
<1> QED
  BY <1>6, <1>7, <1>8, <1>9

LEMMA StartGateGate ==
  ASSUME TasksOK, GateInv, NEW p \in Pids, StartGate(p)
  PROVE  GateInv'
<1> USE DEF GateInv
<1>1. pc[p] \in {"start", "started"} /\ (pc[p] = "start" => start_work_mutex = "none")
  BY DEF StartGate
<1>2. PICK n0 \in 1 .. Len(tasks) :
        tasks[n0] = p /\ \A n \in 1 .. Len(tasks) : n # n0 => tasks[n] # p
  BY <1>1, OwnTask
<1>3. mpc \in {"work", "work_init"}
  BY <1>1, <1>2 DEF ThreadTypes, ReadInv, BetweenRuns
<1>4. ~Awaited(n0)
  BY <1>1, <1>2, <1>3 DEF DuringRun
<1>5. /\ pc' \in {[pc EXCEPT ![p] = "started"], [pc EXCEPT ![p] = "work"]}
      /\ start_work_mutex' \in {"none", "thread"}
      /\ curr_event' \in {curr_event, [curr_event EXCEPT ![p] = 1]}
      /\ UNCHANGED <<tasks, mpc, i, nr_runs, counted, replayed, ready_for_work, cpu_usage,
                     work_done_sem, work_done_wait_mutex>>
  BY DEF StartGate, main, trace
<1>6. ThreadTypes'
  <2>1. pc' \in [Pids -> Locations] /\ \A q \in Pids : pc'[q] # "none" => pc[q] # "none"
    <3>1. PICK loc \in {"started", "work"} : pc' = [pc EXCEPT ![p] = loc]
      BY <1>5
    <3> QED
      BY <1>1, <3>1 DEF ThreadTypes, Locations
  <2>2. curr_event' \in [Pids -> Nat \ {0}]
    <3>1. [curr_event EXCEPT ![p] = 1] \in [Pids -> Nat \ {0}]
      BY DEF ThreadTypes
    <3> QED
      BY <1>5, <3>1 DEF ThreadTypes
  <2> QED
    BY <1>5, <2>1, <2>2 DEF ThreadTypes, Registered
<1>7. ReadInv' /\ BetweenRuns'
  BY <1>3, <1>5 DEF ReadInv, BetweenRuns
<1>8. CountedInv'
  BY <1>5 DEF CountedInv
<1>9. DuringRun'
  <2>1. \A n \in 1 .. Len(tasks) : Awaited(n)' <=> Awaited(n)
    BY <1>5 DEF Awaited
  <2>2. ASSUME NEW n \in 1 .. Len(tasks) PROVE tasks[n] \in Pids
    BY DEF TasksOK
  <2> QED
    BY <1>1, <1>2, <1>3, <1>4, <1>5, <2>1, <2>2 DEF DuringRun, ThreadTypes
<1> QED
  BY <1>6, <1>7, <1>8, <1>9

LEMMA AtomGate ==
  ASSUME TasksOK, GateInv, NEW p \in Pids, perf_sched__process_event(p)
  PROVE  GateInv'
<1> USE DEF GateInv
<1>1. /\ curr_event' = [curr_event EXCEPT ![p] = @ + 1]
      /\ UNCHANGED <<tasks, pc, mpc, i, nr_runs, counted, replayed, ready_for_work, cpu_usage,
                     work_done_sem, start_work_mutex, work_done_wait_mutex>>
  BY DEF perf_sched__process_event, main, gates
<1>2. ThreadTypes'
  BY <1>1 DEF ThreadTypes, Registered
<1>3. ReadInv' /\ CountedInv'
  BY <1>1 DEF ReadInv, CountedInv
<1>4. BetweenRuns'
  BY <1>1 DEF BetweenRuns, Awaited
<1>5. DuringRun'
  BY <1>1 DEF DuringRun, Awaited
<1> QED
  BY <1>2, <1>3, <1>4, <1>5

LEMMA PostDoneGate ==
  ASSUME TasksOK, GateInv, NEW p \in Pids, PostDone(p)
  PROVE  GateInv'
<1> USE DEF GateInv
<1>1. pc[p] = "work" /\ pc[p] # "none"
  BY DEF PostDone
<1>2. PICK n0 \in 1 .. Len(tasks) :
        tasks[n0] = p /\ \A n \in 1 .. Len(tasks) : n # n0 => tasks[n] # p
  BY <1>1, OwnTask
<1>3. mpc \in {"work", "work_init"}
  BY <1>1, <1>2 DEF ThreadTypes, ReadInv, BetweenRuns
<1>4. ~Awaited(n0) /\ n0 >= i
  BY <1>1, <1>2, <1>3 DEF DuringRun, Awaited, ThreadTypes
<1>5. /\ pc' = [pc EXCEPT ![p] = "done"]
      /\ cpu_usage' = [cpu_usage EXCEPT ![p] = replayed[p] + 1]
      /\ replayed' = [replayed EXCEPT ![p] = @ + 1]
      /\ work_done_sem' = [work_done_sem EXCEPT ![p] = @ + 1]
      /\ UNCHANGED <<tasks, mpc, i, nr_runs, counted, curr_event, ready_for_work,
                     start_work_mutex, work_done_wait_mutex>>
  BY DEF PostDone, main, trace
<1>6. ThreadTypes'
  BY <1>1, <1>5, SMTT(30) DEF ThreadTypes, Registered, Locations
<1>7. ReadInv' /\ BetweenRuns'
  BY <1>3, <1>5 DEF ReadInv, BetweenRuns
<1>8. CountedInv'
  BY <1>5 DEF CountedInv
<1>9. DuringRun'
  <2> DEFINE Waiting(n) ==
        /\ pc[tasks[n]] \in {"start", "started", "work", "done"}
        /\ Awaited(n) => pc[tasks[n]] = "done"
        /\ ready_for_work[tasks[n]] = 0
        /\ work_done_sem[tasks[n]] = IF pc[tasks[n]] = "done" /\ ~Awaited(n) THEN 1 ELSE 0
        /\ pc[tasks[n]] = "done" /\ n >= i => cpu_usage[tasks[n]] = nr_runs + 1
        /\ pc[tasks[n]] # "done" \/ n < i => cpu_usage[tasks[n]] = 0
        /\ replayed[tasks[n]] = IF pc[tasks[n]] = "done" THEN nr_runs + 1 ELSE nr_runs
  <2>1. \A n \in 1 .. Len(tasks) : Awaited(n)' <=> Awaited(n)
    BY <1>5 DEF Awaited
  <2>2. ASSUME NEW n \in 1 .. Len(tasks) PROVE tasks[n] \in Pids
    BY DEF TasksOK
  <2>3. /\ work_done_wait_mutex = "main" /\ start_work_mutex # "main"
        /\ \A n \in 1 .. Len(tasks) : Waiting(n)
    BY <1>3 DEF DuringRun
  <2>4. ASSUME NEW n \in 1 .. Len(tasks) PROVE Waiting(n)'
    <3>1. CASE n = n0
      <4>1. /\ pc[p] = "work" /\ ready_for_work[p] = 0 /\ work_done_sem[p] = 0
            /\ replayed[p] = nr_runs
        BY <1>1, <1>2, <2>3
      <4>2. /\ pc'[p] = "done" /\ ready_for_work'[p] = 0 /\ work_done_sem'[p] = 1
            /\ cpu_usage'[p] = nr_runs + 1 /\ replayed'[p] = nr_runs + 1
        BY <1>5, <4>1 DEF ThreadTypes
      <4>3. tasks'[n] = p /\ ~Awaited(n)' /\ ~(n < i') /\ nr_runs' = nr_runs
        BY <1>2, <1>4, <1>5, <2>1, <3>1 DEF ThreadTypes
      <4> QED
        BY <4>2, <4>3
    <3>2. CASE n # n0
      <4>1. tasks[n] \in Pids /\ tasks[n] # p
        BY <1>2, <2>2, <3>2
      <4>2. /\ pc'[tasks[n]] = pc[tasks[n]]
            /\ cpu_usage'[tasks[n]] = cpu_usage[tasks[n]]
            /\ replayed'[tasks[n]] = replayed[tasks[n]]
            /\ work_done_sem'[tasks[n]] = work_done_sem[tasks[n]]
        BY <1>5, <4>1 DEF ThreadTypes
      <4> QED
        BY <1>5, <2>1, <2>3, <4>2
    <3> QED
      BY <3>1, <3>2
  <2> HIDE DEF Waiting
  <2>5. Len(tasks') = Len(tasks) /\ \A n \in 1 .. Len(tasks') : Waiting(n)'
    BY <1>5, <2>4
  <2> USE DEF Waiting
  <2> QED
    BY <1>5, <2>3, <2>5 DEF DuringRun
<1> QED
  BY <1>6, <1>7, <1>8, <1>9

LEMMA DoneGateGate ==
  ASSUME TasksOK, GateInv, NEW p \in Pids, DoneGate(p)
  PROVE  GateInv'
<1> USE DEF GateInv
<1>1. pc[p] \in {"done", "passing"} /\ (pc[p] = "done" => work_done_wait_mutex = "none")
  BY DEF DoneGate
<1>2. PICK n0 \in 1 .. Len(tasks) :
        tasks[n0] = p /\ \A n \in 1 .. Len(tasks) : n # n0 => tasks[n] # p
  BY <1>1, OwnTask
<1>3. mpc \in {"run", "ready", "ready_init", "open"}
  BY <1>1, <1>2 DEF ThreadTypes, ReadInv, DuringRun
<1>4. ~Awaited(n0) /\ mpc \in {"ready", "ready_init"}
  BY <1>1, <1>2, <1>3 DEF BetweenRuns, Awaited
<1>5. /\ pc' \in {[pc EXCEPT ![p] = "passing"], [pc EXCEPT ![p] = "again"]}
      /\ work_done_wait_mutex' \in {"none", "thread"}
      /\ UNCHANGED <<tasks, mpc, i, nr_runs, counted, replayed, ready_for_work, cpu_usage,
                     curr_event, work_done_sem, start_work_mutex>>
  BY DEF DoneGate, main, trace
<1>6. ThreadTypes'
  <2>1. pc' \in [Pids -> Locations] /\ \A q \in Pids : pc'[q] # "none" => pc[q] # "none"
    <3>1. PICK loc \in {"passing", "again"} : pc' = [pc EXCEPT ![p] = loc]
      BY <1>5
    <3> QED
      BY <1>1, <3>1 DEF ThreadTypes, Locations
  <2> QED
    BY <1>5, <2>1 DEF ThreadTypes, Registered
<1>7. ReadInv' /\ DuringRun'
  BY <1>3, <1>5 DEF ReadInv, DuringRun
<1>8. CountedInv'
  BY <1>5 DEF CountedInv
<1>9. BetweenRuns'
  <2>1. \A n \in 1 .. Len(tasks) : Awaited(n)' <=> Awaited(n)
    BY <1>5 DEF Awaited
  <2>2. ASSUME NEW n \in 1 .. Len(tasks) PROVE tasks[n] \in Pids
    BY DEF TasksOK
  <2> QED
    BY <1>1, <1>2, <1>3, <1>4, <1>5, <2>1, <2>2 DEF BetweenRuns, ThreadTypes
<1> QED
  BY <1>6, <1>7, <1>8, <1>9

(* The main thread asks for the next run, and waits for the threads. *)
LEMMA WaitReadyGate ==
  ASSUME TasksOK, GateInv, OpenDoneGate \/ WaitReady \/ CloseDoneGate
  PROVE  GateInv'
<1> USE DEF GateInv
<1>0. \A n \in 1 .. Len(tasks) : tasks[n] \in Pids
  BY DEF TasksOK
<1>1. CASE OpenDoneGate
  <2>1. /\ mpc = "run" /\ mpc' = "ready" /\ i' = 1 /\ work_done_wait_mutex' = "none"
        /\ nr_runs < replay_repeat
        /\ UNCHANGED <<tasks, nr_runs, counted, replayed, ready_for_work, cpu_usage,
                       pc, curr_event, work_done_sem, start_work_mutex>>
    BY <1>1 DEF OpenDoneGate, trace, threads
  <2>2. \A n \in 1 .. Len(tasks) : ~Awaited(n) /\ ~Awaited(n)'
    BY <2>1 DEF Awaited
  <2>3. ThreadTypes' /\ ReadInv' /\ DuringRun' /\ CountedInv'
    BY <2>1 DEF ThreadTypes, Registered, ReadInv, DuringRun, CountedInv
  <2>4. BetweenRuns'
    BY <2>1, <2>2 DEF BetweenRuns
  <2> QED
    BY <2>3, <2>4
<1>2. CASE WaitReady /\ mpc = "ready"
  <2>1. /\ mpc = "ready" /\ mpc' = "ready_init" /\ i' = i /\ i \in 1 .. Len(tasks)
        /\ ready_for_work[tasks[i]] > 0
        /\ ready_for_work' = [ready_for_work EXCEPT ![tasks[i]] = @ - 1]
        /\ UNCHANGED <<tasks, nr_runs, counted, replayed, cpu_usage, pc, curr_event,
                       work_done_sem, start_work_mutex, work_done_wait_mutex>>
    BY <1>2 DEF WaitReady, trace, threads, ThreadTypes
  <2>2. /\ pc[tasks[i]] = "start" /\ ready_for_work[tasks[i]] = 1
        /\ \A n \in 1 .. Len(tasks) : Awaited(n)' <=> (Awaited(n) \/ n = i)
    BY <2>1 DEF BetweenRuns, Awaited, ThreadTypes
  <2>3. ThreadTypes' /\ ReadInv' /\ DuringRun' /\ CountedInv'
    BY <1>0, <2>1, <2>2 DEF ThreadTypes, Registered, ReadInv, DuringRun, CountedInv
  <2>4. BetweenRuns'
    <3>1. ready_for_work'[tasks[i]] = 0
      BY <1>0, <2>1, <2>2 DEF ThreadTypes
    <3>2. \A n \in 1 .. Len(tasks) : n # i => ready_for_work'[tasks[n]] = ready_for_work[tasks[n]]
      BY <1>0, <2>1 DEF ThreadTypes, TasksOK
    <3>3. \A n \in 1 .. Len(tasks) :
            /\ Awaited(n)' => pc[tasks[n]] = "start"
            /\ ready_for_work'[tasks[n]] = IF pc[tasks[n]] = "start" /\ ~Awaited(n)' THEN 1 ELSE 0
      BY <2>1, <2>2, <3>1, <3>2 DEF BetweenRuns
    <3> QED
      BY <2>1, <3>3 DEF BetweenRuns
  <2> QED
    BY <2>3, <2>4
<1>3. CASE WaitReady /\ mpc = "ready_init"
  <2>1. /\ mpc = "ready_init" /\ mpc' = "ready" /\ i' = i + 1 /\ i \in 1 .. Len(tasks)
        /\ ready_for_work' = [ready_for_work EXCEPT ![tasks[i]] = 0]
        /\ UNCHANGED <<tasks, nr_runs, counted, replayed, cpu_usage, pc, curr_event,
                       work_done_sem, start_work_mutex, work_done_wait_mutex>>
    BY <1>3 DEF WaitReady, trace, threads, ThreadTypes
  <2>2. \A n \in 1 .. Len(tasks) : (Awaited(n)' <=> Awaited(n)) /\ (n = i => Awaited(n))
    BY <2>1 DEF Awaited, ThreadTypes
  <2>3. ThreadTypes' /\ ReadInv' /\ DuringRun' /\ CountedInv'
    BY <1>0, <2>1 DEF ThreadTypes, Registered, ReadInv, DuringRun, CountedInv
  <2>4. BetweenRuns'
    BY <1>0, <2>1, <2>2 DEF BetweenRuns, ThreadTypes, TasksOK
  <2> QED
    BY <2>3, <2>4
<1>4. CASE CloseDoneGate
  <2>1. /\ mpc = "ready" /\ mpc' = "open" /\ i > Len(tasks) /\ work_done_wait_mutex' = "main"
        /\ UNCHANGED <<tasks, i, nr_runs, counted, replayed, ready_for_work, cpu_usage,
                       pc, curr_event, work_done_sem, start_work_mutex>>
    BY <1>4 DEF CloseDoneGate, trace, threads
  <2>2. \A n \in 1 .. Len(tasks) : Awaited(n) /\ Awaited(n)'
    BY <2>1 DEF Awaited, ThreadTypes, TasksOK
  <2>3. ThreadTypes' /\ ReadInv' /\ DuringRun' /\ CountedInv'
    BY <2>1 DEF ThreadTypes, Registered, ReadInv, DuringRun, CountedInv
  <2>4. BetweenRuns'
    BY <2>1, <2>2 DEF BetweenRuns
  <2> QED
    BY <2>3, <2>4
<1>5. WaitReady => mpc \in {"ready", "ready_init"}
  BY DEF WaitReady
<1> QED
  BY <1>1, <1>2, <1>3, <1>4, <1>5

(* The main thread lets the run go, and sums up what the threads used. *)
LEMMA WaitDoneGate ==
  ASSUME TasksOK, GateInv, OpenStartGate \/ WaitDone \/ CloseStartGate
  PROVE  GateInv'
<1> USE DEF GateInv
<1>0. \A n \in 1 .. Len(tasks) : tasks[n] \in Pids
  BY DEF TasksOK
<1>1. CASE OpenStartGate
  <2>1. /\ mpc = "open" /\ mpc' = "work" /\ i' = 1 /\ start_work_mutex' = "none"
        /\ UNCHANGED <<tasks, nr_runs, counted, replayed, ready_for_work, cpu_usage,
                       pc, curr_event, work_done_sem, work_done_wait_mutex>>
    BY <1>1 DEF OpenStartGate, trace, threads
  <2>2. \A n \in 1 .. Len(tasks) : Awaited(n) /\ ~Awaited(n)'
    BY <2>1 DEF Awaited
  <2>3. ThreadTypes' /\ ReadInv' /\ BetweenRuns'
    BY <2>1 DEF ThreadTypes, Registered, ReadInv, BetweenRuns
  <2>4. CountedInv'
    BY <2>1 DEF CountedInv, ThreadTypes
  <2>5. DuringRun'
    BY <2>1, <2>2 DEF BetweenRuns, DuringRun
  <2> QED
    BY <2>3, <2>4, <2>5
<1>2. CASE WaitDone /\ mpc = "work"
  <2>1. /\ mpc = "work" /\ mpc' = "work_init" /\ i' = i /\ i \in 1 .. Len(tasks)
        /\ work_done_sem[tasks[i]] > 0
        /\ work_done_sem' = [work_done_sem EXCEPT ![tasks[i]] = @ - 1]
        /\ UNCHANGED <<tasks, nr_runs, counted, replayed, cpu_usage, pc, curr_event,
                       ready_for_work, start_work_mutex, work_done_wait_mutex>>
    BY <1>2 DEF WaitDone, trace, threads, ThreadTypes
  <2>2. /\ pc[tasks[i]] = "done" /\ work_done_sem[tasks[i]] = 1
        /\ \A n \in 1 .. Len(tasks) : Awaited(n)' <=> (Awaited(n) \/ n = i)
    BY <2>1 DEF DuringRun, Awaited, ThreadTypes
  <2>3. ThreadTypes' /\ ReadInv' /\ BetweenRuns' /\ CountedInv'
    BY <1>0, <2>1, <2>2 DEF ThreadTypes, Registered, ReadInv, BetweenRuns, CountedInv
  <2>4. DuringRun'
    <3>1. work_done_sem'[tasks[i]] = 0
      BY <1>0, <2>1, <2>2 DEF ThreadTypes
    <3>2. \A n \in 1 .. Len(tasks) : n # i => work_done_sem'[tasks[n]] = work_done_sem[tasks[n]]
      BY <1>0, <2>1 DEF ThreadTypes, TasksOK
    <3>3. \A n \in 1 .. Len(tasks) :
            /\ Awaited(n)' => pc[tasks[n]] = "done"
            /\ work_done_sem'[tasks[n]] = IF pc[tasks[n]] = "done" /\ ~Awaited(n)' THEN 1 ELSE 0
      BY <2>1, <2>2, <3>1, <3>2 DEF DuringRun
    <3> QED
      BY <2>1, <3>3 DEF DuringRun
  <2> QED
    BY <2>3, <2>4
<1>3. CASE WaitDone /\ mpc = "work_init"
  <2>1. /\ mpc = "work_init" /\ mpc' = "work" /\ i' = i + 1 /\ i \in 1 .. Len(tasks)
        /\ work_done_sem' = [work_done_sem EXCEPT ![tasks[i]] = 0]
        /\ counted' = counted \union {<<tasks[i], cpu_usage[tasks[i]]>>}
        /\ cpu_usage' = [cpu_usage EXCEPT ![tasks[i]] = 0]
        /\ UNCHANGED <<tasks, nr_runs, replayed, pc, curr_event,
                       ready_for_work, start_work_mutex, work_done_wait_mutex>>
    BY <1>3 DEF WaitDone, trace, threads, ThreadTypes
  <2>2. \A n \in 1 .. Len(tasks) : (Awaited(n)' <=> Awaited(n)) /\ (n = i => Awaited(n))
    BY <2>1 DEF Awaited, ThreadTypes
  <2>3. ThreadTypes' /\ ReadInv' /\ BetweenRuns'
    BY <1>0, <2>1 DEF ThreadTypes, Registered, ReadInv, BetweenRuns
  <2>4. pc[tasks[i]] = "done" /\ cpu_usage[tasks[i]] = nr_runs + 1
    BY <2>1, <2>2 DEF DuringRun, ThreadTypes
  <2>5. CountedInv'
    <3>1. \A c \in counted' : c[2] \in 1 .. nr_runs + 1
      <4>1. <<tasks[i], cpu_usage[tasks[i]]>>[2] = nr_runs + 1
        BY <2>4
      <4> QED
        BY <2>1, <4>1 DEF CountedInv, ThreadTypes
    <3>2. \A n \in 1 .. Len(tasks) : \A r \in 1 .. nr_runs : <<tasks[n], r>> \in counted'
      BY <2>1 DEF CountedInv
    <3>3. \A n \in 1 .. Len(tasks) : n < i + 1 => <<tasks[n], nr_runs + 1>> \in counted'
      BY <2>1, <2>4 DEF CountedInv
    <3> QED
      BY <2>1, <3>1, <3>2, <3>3 DEF CountedInv
  <2>6. DuringRun'
    <3>1. /\ work_done_sem'[tasks[i]] = 0 /\ work_done_sem[tasks[i]] = 0
          /\ cpu_usage'[tasks[i]] = 0
      BY <1>0, <2>1, <2>2 DEF ThreadTypes, DuringRun
    <3>2. \A n \in 1 .. Len(tasks) : n # i => /\ work_done_sem'[tasks[n]] = work_done_sem[tasks[n]]
                                             /\ cpu_usage'[tasks[n]] = cpu_usage[tasks[n]]
      BY <1>0, <2>1 DEF ThreadTypes, TasksOK
    <3>3. \A n \in 1 .. Len(tasks) :
            /\ work_done_sem'[tasks[n]] = work_done_sem[tasks[n]]
            /\ pc[tasks[n]] = "done" /\ n >= i + 1 => cpu_usage'[tasks[n]] = nr_runs + 1
            /\ pc[tasks[n]] # "done" \/ n < i + 1 => cpu_usage'[tasks[n]] = 0
      BY <2>1, <2>4, <3>1, <3>2 DEF DuringRun, ThreadTypes
    <3> QED
      BY <2>1, <2>2, <3>3 DEF DuringRun
  <2> QED
    BY <2>3, <2>5, <2>6
<1>4. CASE CloseStartGate
  <2>1. /\ mpc = "work" /\ mpc' = "run" /\ i > Len(tasks) /\ start_work_mutex' = "main"
        /\ nr_runs' = nr_runs + 1
        /\ UNCHANGED <<tasks, i, counted, replayed, ready_for_work, cpu_usage,
                       pc, curr_event, work_done_sem, work_done_wait_mutex>>
    BY <1>4 DEF CloseStartGate, trace, threads
  <2>2. \A n \in 1 .. Len(tasks) : n < i /\ Awaited(n) /\ ~Awaited(n)'
    BY <2>1 DEF Awaited, ThreadTypes, TasksOK
  <2>3. ThreadTypes' /\ ReadInv' /\ DuringRun'
    BY <2>1 DEF ThreadTypes, Registered, ReadInv, DuringRun
  <2>4. CountedInv'
    BY <2>1, <2>2, ReplayAssumption, SMTT(30) DEF CountedInv, ThreadTypes
  <2>5. BetweenRuns'
    BY <2>1, <2>2 DEF BetweenRuns, DuringRun, ThreadTypes
  <2> QED
    BY <2>3, <2>4, <2>5
<1>5. WaitDone => mpc \in {"work", "work_init"}
  BY DEF WaitDone
<1> QED
  BY <1>1, <1>2, <1>3, <1>4, <1>5

(* Both gates are closed when the first thread is started. *)
LEMMA CreateGate ==
  ASSUME TasksOK, GateInv, create_tasks
  PROVE  GateInv'
<1> USE DEF GateInv
<1>1. /\ mpc = "cross" /\ mpc' = "run"
      /\ start_work_mutex' = "main" /\ work_done_wait_mutex' = "main"
      /\ pc' = [p \in Pids |-> IF p \in Registered THEN "again" ELSE "none"]
      /\ UNCHANGED <<tasks, i, nr_runs, counted, replayed, ready_for_work, cpu_usage,
                     curr_event, work_done_sem>>
  BY DEF create_tasks, trace
<1>2. \A n \in 1 .. Len(tasks) : tasks[n] \in Pids /\ tasks[n] \in Registered
  BY DEF TasksOK, Registered
<1>3. ThreadTypes'
  BY <1>1 DEF ThreadTypes, Registered, Locations
<1>4. ReadInv' /\ DuringRun' /\ CountedInv'
  BY <1>1 DEF ReadInv, DuringRun, CountedInv
<1>5. BetweenRuns'
  BY <1>1, <1>2 DEF ReadInv, BetweenRuns, Awaited
<1> QED
  BY <1>3, <1>4, <1>5

(***************************************************************************)
(* The trace is read.                                                      *)
(***************************************************************************)

(* What the main thread has built so far is replaced by s. *)
Built(s) ==
  /\ TraceOK(s) /\ (s.sems = sems \/ s.sems = Append(sems, 0))
  /\ tasks' = s.tasks /\ atoms' = s.atoms /\ sems' = s.sems
  /\ mpc \in {"read", "cross"} /\ mpc' = mpc /\ i' \in Nat \ {0}
  /\ UNCHANGED <<threads, gates, nr_runs, counted, cpu_usage>>

LEMMA BuiltStep ==
  ASSUME ReplayInv, NEW s, Built(s)
  PROVE  ReplayInv'
<1> USE DEF ReplayInv, Built
<1>1. s \in TraceRecord
  BY DEF TraceOK, TraceRecord
<1>2. TraceOK(Read)'
  <2>1. s = [tasks |-> s.tasks, atoms |-> s.atoms, sems |-> s.sems]
    BY <1>1 DEF TraceRecord
  <2>2. [tasks |-> tasks', atoms |-> atoms', sems |-> sems'] = s
    BY <2>1
  <2>3. TraceOK([tasks |-> tasks', atoms |-> atoms', sems |-> sems'])
    BY <2>2, Zenon
  <2> QED
    BY <2>3 DEF Read, TraceOK, AtomsOK, SemsInRange, SemsUsedOnce, SemsUsed
<1>3. /\ UNCHANGED <<pc, curr_event, replayed, ready_for_work, work_done_sem, start_work_mutex,
                     work_done_wait_mutex>>
  BY DEF threads, gates
<1>4. /\ nr_runs = 0 /\ counted = {}
      /\ \A p \in Pids : /\ pc[p] = "none" /\ replayed[p] = 0
                         /\ ready_for_work[p] = 0 /\ work_done_sem[p] = 0
  BY DEF GateInv, ReadInv
<1>5. GateInv'
  <2>1. ThreadTypes'
    BY <1>3, <1>4 DEF ThreadTypes, GateInv
  <2>2. ReadInv' /\ BetweenRuns' /\ DuringRun'
    BY <1>3 DEF ReadInv, BetweenRuns, DuringRun, GateInv
  <2>3. CountedInv'
    BY <1>4 DEF CountedInv, GateInv
  <2> QED
    BY <2>1, <2>2, <2>3 DEF GateInv
<1>6. IdleInv'
  BY <1>3, <1>4 DEF IdleInv
<1>7. sems' \in Seq(Nat) /\ \A k \in 1 .. Len(sems') : sems'[k] = 0
  <2>1. sems \in Seq(Nat) /\ \A k \in 1 .. Len(sems) : sems[k] = 0
    BY DEF SemsUnused, TraceOK, Read
  <2>2. CASE sems' = sems
    BY <2>1, <2>2
  <2>3. CASE sems' = Append(sems, 0)
    BY <2>1, <2>3
  <2> QED
    BY <2>2, <2>3
<1>8. SemsUnused'
  BY <1>7 DEF SemsUnused
<1>9. SemInv'
  <2>1. \A p \in Pids : \A n \in 1 .. Len(atoms'[p]) : Times(p, n)' = 0
    BY <1>3, <1>4 DEF Times
  <2>2. \A p \in Pids : \A n \in 1 .. Len(atoms'[p]) :
          atoms'[p][n].wait_sem \in 0 .. Len(sems')
    BY DEF TraceOK, AtomsOK, SemsInRange
  <2>3. SUFFICES ASSUME NEW p \in Pids, NEW q \in Pids, NEW n \in 1 .. Len(atoms'[p]),
                        NEW m \in 1 .. Len(atoms'[q]), atoms'[p][n].wait_sem # 0
                 PROVE  sems'[atoms'[p][n].wait_sem] = Times(p, n)' - Times(q, m)'
    BY DEF SemInv
  <2>4. atoms'[p][n].wait_sem \in 1 .. Len(sems')
    BY <1>7, <2>2, <2>3
  <2> QED
    BY <1>7, <2>1, <2>4, SMTT(30)
<1> QED
  BY <1>2, <1>5, <1>6, <1>8, <1>9

LEMMA ReadingBuilds ==
  ASSUME ReplayInv, NEW s, TraceOK(s), s.sems = sems \/ s.sems = Append(sems, 0), Reading(s)
  PROVE  ReplayInv'
<1>1. Built(s)
  BY DEF Reading, Built, main, ReplayInv, GateInv, ThreadTypes
<1> QED
  BY <1>1, BuiltStep

LEMMA TwoRegistered ==
  ASSUME ReplayInv, NEW p \in Pids, NEW q \in Pids, NEW s,
         s = register_pid(register_pid(Read, p), q)
  PROVE  TraceOK(s) /\ s.sems = sems /\ s.atoms[p] # <<>> /\ s.atoms[q] # <<>>
<1> DEFINE r == register_pid(Read, p)
<1>1. TraceOK(r) /\ r.sems = Read.sems /\ r.atoms[p] # <<>>
  BY RegisterOK DEF ReplayInv
<1>2. Read.sems = sems
  BY DEF Read
<1> HIDE DEF r
<1>3. s = register_pid(r, q)
  BY DEF r
<1>4. /\ TraceOK(s) /\ s.sems = r.sems /\ s.atoms[q] # <<>>
      /\ \A x \in Pids : r.atoms[x] # <<>> => s.atoms[x] # <<>>
  BY <1>1, <1>3, RegisterOK
<1> QED
  BY <1>1, <1>2, <1>4

LEMMA WakeupEventStep ==
  ASSUME ReplayInv, NEW p \in Pids, NEW q \in Pids, replay_wakeup_event(p, q)
  PROVE  ReplayInv'
<1> DEFINE s == register_pid(register_pid(Read, p), q)
           u == add_sched_event_wakeup(s, p, q)
<1>1. TraceOK(s) /\ s.sems = sems /\ s.atoms[p] # <<>> /\ s.atoms[q] # <<>>
  BY TwoRegistered
<1>2. Reading(u)
  BY DEF replay_wakeup_event
<1> HIDE DEF s
<1>3. TraceOK(u) /\ (u.sems = s.sems \/ u.sems = Append(s.sems, 0))
  BY <1>1, WakeupOK
<1> HIDE DEF u
<1> QED
  BY <1>1, <1>2, <1>3, ReadingBuilds

LEMMA SwitchEventStep ==
  ASSUME ReplayInv, NEW p \in Pids, NEW q \in Pids, replay_switch_event(p, q)
  PROVE  ReplayInv'
<1> DEFINE s == register_pid(register_pid(Read, p), q)
           r == add_sched_event_run(s, p)
           u == add_sched_event_sleep(r, p)
<1>1. TraceOK(s) /\ s.sems = sems /\ s.atoms[p] # <<>>
  BY TwoRegistered
<1>2. Reading(u)
  BY DEF replay_switch_event
<1> HIDE DEF s
<1>3. Run \in Atom /\ Run.wait_sem = 0 /\ Sleep \in Atom /\ Sleep.wait_sem = 0
  BY DEF Run, Sleep, Atom
<1>4. TraceOK(r) /\ r.sems = sems /\ r.atoms[p] # <<>>
  <2>1. CASE r = s
    BY <1>1, <2>1
  <2>2. CASE r = get_new_event(s, p, Run)
    <3>1. TraceOK(r) /\ r.sems = s.sems /\ r.atoms = [s.atoms EXCEPT ![p] = Append(@, Run)]
      BY <1>1, <1>3, <2>2, AtomOK
    <3>2. s.atoms \in [Pids -> Seq(Atom)]
      BY <1>1 DEF TraceOK
    <3>3. r.atoms[p] = Append(s.atoms[p], Run) /\ s.atoms[p] \in Seq(Atom)
      BY <3>1, <3>2
    <3>4. r.atoms[p] # <<>>
      BY <1>3, <3>3
    <3> QED
      BY <1>1, <3>1, <3>4
  <2> QED
    BY <2>1, <2>2 DEF add_sched_event_run
<1> HIDE DEF r
<1>5. TraceOK(u) /\ u.sems = sems
  BY <1>3, <1>4, AtomOK DEF add_sched_event_sleep
<1> HIDE DEF u
<1> QED
  BY <1>2, <1>5, ReadingBuilds

LEMMA ForkEventStep ==
  ASSUME ReplayInv, NEW p \in Pids, NEW q \in Pids, replay_fork_event(p, q)
  PROVE  ReplayInv'
<1> DEFINE s == register_pid(register_pid(Read, p), q)
<1>1. TraceOK(s) /\ s.sems = sems
  BY TwoRegistered
<1>2. Reading(s)
  BY DEF replay_fork_event
<1> HIDE DEF s
<1> QED
  BY <1>1, <1>2, ReadingBuilds

(* The tasks are woken up in turn: all of them have atoms. *)
LEMMA CrossWakeupStep ==
  ASSUME ReplayInv, add_cross_task_wakeups
  PROVE  ReplayInv'
<1> DEFINE next == IF i = Len(tasks) THEN 1 ELSE i + 1
           u == add_sched_event_wakeup(Read, tasks[i], tasks[next])
<1>1. /\ mpc = "cross" /\ i <= Len(tasks) /\ i' = i + 1
      /\ tasks' = u.tasks /\ atoms' = u.atoms /\ sems' = u.sems
      /\ UNCHANGED <<threads, gates, mpc, nr_runs, counted, cpu_usage>>
  BY DEF add_cross_task_wakeups
<1>2. /\ TraceOK(Read) /\ tasks \in Seq(Pids) /\ i \in Nat \ {0}
      /\ Read.tasks = tasks /\ Read.sems = sems
  BY DEF ReplayInv, TraceOK, Read, GateInv, ThreadTypes
<1>3. i \in 1 .. Len(tasks) /\ next \in 1 .. Len(tasks)
  BY <1>1, <1>2
<1>4. /\ tasks[i] \in Pids /\ tasks[next] \in Pids
      /\ Read.atoms[tasks[i]] # <<>> /\ Read.atoms[tasks[next]] # <<>>
  <2>1. \A n \in 1 .. Len(tasks) : tasks[n] \in Pids /\ Read.atoms[tasks[n]] # <<>>
    BY <1>2 DEF TraceOK
  <2> QED
    BY <1>3, <2>1
<1>5. TraceOK(u) /\ (u.sems = sems \/ u.sems = Append(sems, 0))
  BY <1>2, <1>4, WakeupOK
<1> HIDE DEF u
<1>6. Built(u)
  BY <1>1, <1>2, <1>5 DEF Built
<1> QED
  BY <1>6, BuiltStep

(***************************************************************************)
(* The semaphores of the atoms.                                            *)
(***************************************************************************)

(* A step between two atoms: no thread has got past an atom by it. *)
LEMMA SemsKept ==
  ASSUME SemInv, UNCHANGED <<atoms, sems>>,
         \A p \in Pids : \A n \in 1 .. Len(atoms[p]) : Times(p, n)' = Times(p, n)
  PROVE  SemInv'
<1>1. ASSUME NEW p \in Pids, NEW q \in Pids, NEW n \in 1 .. Len(atoms'[p]),
             NEW m \in 1 .. Len(atoms'[q]),
             atoms'[p][n].type = "WAKEUP", atoms'[q][m].type = "SLEEP",
             atoms'[p][n].wait_sem = atoms'[q][m].wait_sem, atoms'[p][n].wait_sem # 0
      PROVE  sems'[atoms'[p][n].wait_sem] = Times(p, n)' - Times(q, m)'
  <2>1. n \in 1 .. Len(atoms[p]) /\ m \in 1 .. Len(atoms[q])
    OBVIOUS
  <2>2. sems[atoms[p][n].wait_sem] = Times(p, n) - Times(q, m)
    BY <1>1, <2>1 DEF SemInv
  <2> QED
    BY <1>1, <2>1, <2>2
<1> QED
  BY <1>1 DEF SemInv

LEMMA SemMoved ==
  ASSUME NEW s \in Seq(Nat), NEW k \in 1 .. Len(s), NEW v \in Nat
  PROVE  /\ [s EXCEPT ![k] = v] \in Seq(Nat) /\ Len([s EXCEPT ![k] = v]) = Len(s)
         /\ \A l \in 1 .. Len(s) : l # k => [s EXCEPT ![k] = v][l] = s[l]
         /\ [s EXCEPT ![k] = v][k] = v
OBVIOUS

(* Who posts a semaphore is one atom, and so is who waits for it: the step *)
(* of an atom counts for the semaphore that it moves, and for no other.    *)
LEMMA AtomSems ==
  ASSUME ReplayInv, NEW p \in Pids, perf_sched__process_event(p)
  PROVE  SemInv' /\ TraceOK(Read)'
<1> DEFINE n0 == curr_event[p]
           atom == atoms[p][n0]
           k0 == atom.wait_sem
<1>1. /\ pc[p] = "work" /\ n0 \in 1 .. Len(atoms[p])
      /\ curr_event' = [curr_event EXCEPT ![p] = n0 + 1]
      /\ UNCHANGED <<tasks, atoms, pc, replayed>>
  BY DEF perf_sched__process_event, ReplayInv, GateInv, ThreadTypes, TraceOK, Read
<1>2. /\ TraceOK(Read) /\ SemInv
      /\ atoms \in [Pids -> Seq(Atom)] /\ sems \in Seq(Nat) /\ tasks \in Seq(Pids)
      /\ SemsInRange(atoms, Len(sems)) /\ SemsUsedOnce(atoms)
      /\ curr_event \in [Pids -> Nat \ {0}] /\ replayed \in [Pids -> Nat]
  BY DEF TraceOK, Read, AtomsOK, ReplayInv, GateInv, ThreadTypes
<1>4. /\ k0 = 0 => sems' = sems
      /\ k0 # 0 /\ atom.type = "SLEEP" => sems[k0] > 0 /\ sems' = [sems EXCEPT ![k0] = sems[k0] - 1]
      /\ k0 # 0 /\ atom.type # "SLEEP" => sems' = [sems EXCEPT ![k0] = sems[k0] + 1]
  BY DEF perf_sched__process_event
<1>3. /\ atom \in Atom /\ k0 \in 0 .. Len(sems)
      /\ atom.type = "RUN" => k0 = 0
  <2>1. atoms[p] \in Seq(Atom)
    BY <1>2
  <2> QED
    BY <1>1, <1>2, <2>1 DEF SemsInRange
<1>n. n0 = curr_event[p] /\ atom = atoms[p][n0]
  OBVIOUS
<1> HIDE DEF n0, atom
<1>5. /\ sems' \in Seq(Nat) /\ Len(sems') = Len(sems)
      /\ \A k \in 1 .. Len(sems) : k # k0 => sems'[k] = sems[k]
      /\ k0 # 0 /\ atom.type = "SLEEP" => sems'[k0] = sems[k0] - 1
      /\ k0 # 0 /\ atom.type # "SLEEP" => sems'[k0] = sems[k0] + 1
  <2>1. CASE k0 = 0
    BY <1>2, <1>4, <2>1
  <2>2. CASE k0 # 0 /\ atom.type = "SLEEP"
    <3>1. k0 \in 1 .. Len(sems) /\ sems[k0] - 1 \in Nat
      BY <1>2, <1>3, <1>4, <2>2
    <3>2. sems' = [sems EXCEPT ![k0] = sems[k0] - 1]
      BY <1>4, <2>2
    <3> HIDE DEF k0
    <3> QED
      BY <1>2, <2>2, <3>1, <3>2, SemMoved
  <2>3. CASE k0 # 0 /\ atom.type # "SLEEP"
    <3>1. k0 \in 1 .. Len(sems) /\ sems[k0] + 1 \in Nat
      BY <1>2, <1>3, <2>3
    <3>2. sems' = [sems EXCEPT ![k0] = sems[k0] + 1]
      BY <1>4, <2>3
    <3> HIDE DEF k0
    <3> QED
      BY <1>2, <2>3, <3>1, <3>2, SemMoved
  <2> QED
    BY <2>1, <2>2, <2>3
<1>6. TraceOK(Read)'
  BY <1>1, <1>2, <1>5 DEF TraceOK, Read
<1>7. ASSUME NEW q \in Pids, NEW n \in 1 .. Len(atoms[q])
      PROVE  /\ Times(q, n) \in Nat
             /\ q = p /\ n = n0 => Times(q, n)' = Times(q, n) + 1
             /\ ~(q = p /\ n = n0) => Times(q, n)' = Times(q, n)
  <2>0. n0 \in Nat /\ n \in Nat /\ Len(atoms[q]) \in Nat
    BY <1>1, <1>2
  <2>1. CASE q = p
    <3>1. curr_event[q] = n0 /\ curr_event'[q] = n0 + 1 /\ pc'[q] = "work" /\ pc[q] = "work"
      BY <1>1, <1>2, <1>n, <2>1
    <3> QED
      BY <1>1, <1>2, <2>0, <2>1, <3>1 DEF Times
  <2>2. CASE q # p
    <3>1. curr_event'[q] = curr_event[q]
      BY <1>1, <1>2, <2>2
    <3> QED
      BY <1>1, <1>2, <2>2, <3>1 DEF Times
  <2> QED
    BY <2>1, <2>2
<1>8. ASSUME NEW a \in Pids, NEW b \in Pids, NEW n \in 1 .. Len(atoms'[a]),
             NEW m \in 1 .. Len(atoms'[b]),
             atoms'[a][n].type = "WAKEUP", atoms'[b][m].type = "SLEEP",
             atoms'[a][n].wait_sem = atoms'[b][m].wait_sem, atoms'[a][n].wait_sem # 0
      PROVE  sems'[atoms'[a][n].wait_sem] = Times(a, n)' - Times(b, m)'
  <2> DEFINE k == atoms[a][n].wait_sem
  <2>1. /\ n \in 1 .. Len(atoms[a]) /\ m \in 1 .. Len(atoms[b])
        /\ atoms[a][n].type = "WAKEUP" /\ atoms[b][m].type = "SLEEP"
        /\ k = atoms[b][m].wait_sem /\ k # 0 /\ k = atoms'[a][n].wait_sem
    BY <1>1, <1>8
  <2>2. sems[k] = Times(a, n) - Times(b, m)
    BY <1>2, <2>1 DEF SemInv
  <2>a. k \in 1 .. Len(sems)
    <3>1. SemsInRange(atoms, Len(sems)) /\ a \in Pids /\ n \in 1 .. Len(atoms[a])
      BY <1>2, <2>1
    <3>2. atoms[a][n].wait_sem \in 0 .. Len(sems)
      BY ONLY <3>1, Zenon DEF SemsInRange
    <3>3. Len(sems) \in Nat
      BY <1>2
    <3> QED
      BY <2>1, <3>2, <3>3
  <2>b. atoms[a][n] \in Atom /\ atoms[b][m] \in Atom
    <3>1. atoms[a] \in Seq(Atom) /\ atoms[b] \in Seq(Atom)
      BY <1>2
    <3> QED
      BY <2>1, <3>1
  <2>c. /\ Times(a, n) \in Nat /\ Times(b, m) \in Nat
        /\ a = p /\ n = n0 => Times(a, n)' = Times(a, n) + 1
        /\ ~(a = p /\ n = n0) => Times(a, n)' = Times(a, n)
        /\ b = p /\ m = n0 => Times(b, m)' = Times(b, m) + 1
        /\ ~(b = p /\ m = n0) => Times(b, m)' = Times(b, m)
    BY <2>1, <1>7
  <2> SUFFICES sems'[k] = Times(a, n)' - Times(b, m)'
    BY <2>1
  <2>3. CASE k # k0
    <3>1. ~(a = p /\ n = n0) /\ ~(b = p /\ m = n0)
      BY <1>n, <2>1, <2>3
    <3> QED
      BY <1>5, <2>2, <2>3, <2>a, <2>c, <3>1
  <2>4. CASE k = k0 /\ atom.type = "SLEEP"
    <3>0. atoms[b][m].type = atom.type /\ atoms[b][m].wait_sem = atom.wait_sem
      BY <2>1, <2>4
    <3>1. atoms[b][m] = atom
      BY <1>3, <2>b, <3>0 DEF Atom
    <3>4. atoms[b][m] = atoms[p][n0] /\ atoms[b][m].wait_sem # 0
      BY <1>n, <2>1, <3>1
    <3>5. /\ SemsUsedOnce(atoms) /\ p \in Pids /\ n0 \in 1 .. Len(atoms[p])
          /\ b \in Pids /\ m \in 1 .. Len(atoms[b])
      BY <1>1, <1>2, <2>1
    <3>2. b = p /\ m = n0
      BY ONLY <3>4, <3>5 DEF SemsUsedOnce
    <3>3. ~(a = p /\ n = n0)
      BY <1>n, <2>1, <2>4
    <3> HIDE DEF k, k0
    <3> QED
      BY <1>2, <1>5, <2>1, <2>2, <2>4, <2>a, <2>c, <3>2, <3>3
  <2>5. CASE k = k0 /\ atom.type # "SLEEP"
    <3>1. atoms[a][n] = atom
      BY <1>3, <2>1, <2>b, <2>5 DEF Atom
    <3>2. a = p /\ n = n0
      BY <1>1, <1>2, <1>n, <2>1, <3>1, SMTT(30) DEF SemsUsedOnce
    <3>3. ~(b = p /\ m = n0)
      BY <1>n, <2>1, <2>5
    <3> HIDE DEF k, k0
    <3> QED
      BY <1>2, <1>5, <2>1, <2>2, <2>5, <2>a, <2>c, <3>2, <3>3
  <2> QED
    BY <2>3, <2>4, <2>5
<1> QED
  BY <1>6, <1>8 DEF SemInv

(* All other steps of the threads and of the main thread. *)
LEMMA GateSems ==
  ASSUME ReplayInv,
         \/ \E p \in Pids : PostReady(p) \/ StartGate(p) \/ PostDone(p) \/ DoneGate(p)
         \/ create_tasks
         \/ wait_for_tasks
  PROVE  SemInv' /\ TraceOK(Read)'
<1> USE DEF ReplayInv
<1>1. UNCHANGED <<tasks, atoms, sems>>
  BY DEF PostReady, StartGate, PostDone, DoneGate, create_tasks, wait_for_tasks, OpenDoneGate,
         WaitReady, CloseDoneGate, OpenStartGate, WaitDone, CloseStartGate, trace
<1>2. TraceOK(Read)'
  BY <1>1 DEF TraceOK, Read
<1>3. /\ pc \in [Pids -> Locations] /\ curr_event \in [Pids -> Nat \ {0}]
      /\ replayed \in [Pids -> Nat] /\ \A p \in Pids : Len(atoms[p]) \in Nat
  BY DEF TraceOK, Read, GateInv, ThreadTypes
<1>4. \A p \in Pids : \A n \in 1 .. Len(atoms[p]) : Times(p, n)' = Times(p, n)
  <2>1. ASSUME NEW q \in Pids, PostReady(q) \/ DoneGate(q)
        PROVE  \A p \in Pids : \A n \in 1 .. Len(atoms[p]) : Times(p, n)' = Times(p, n)
    <3>1. /\ pc[q] # "work" /\ UNCHANGED <<curr_event, replayed>>
          /\ \E loc \in {"start", "passing", "again"} : pc' = [pc EXCEPT ![q] = loc]
      BY <2>1 DEF PostReady, DoneGate
    <3> QED
      BY <1>3, <3>1 DEF Times
  <2>2. ASSUME NEW q \in Pids, StartGate(q)
        PROVE  \A p \in Pids : \A n \in 1 .. Len(atoms[p]) : Times(p, n)' = Times(p, n)
    <3>1. CASE pc[q] = "start"
      <4>1. pc' = [pc EXCEPT ![q] = "started"] /\ UNCHANGED <<curr_event, replayed>>
        BY <2>2, <3>1 DEF StartGate
      <4> QED
        BY <1>3, <3>1, <4>1 DEF Times
    <3>2. CASE pc[q] = "started"
      <4>1. /\ pc' = [pc EXCEPT ![q] = "work"] /\ UNCHANGED replayed
            /\ curr_event' = [curr_event EXCEPT ![q] = 1]
        BY <2>2, <3>2 DEF StartGate
      <4> QED
        BY <1>3, <3>2, <4>1 DEF Times
    <3> QED
      BY <2>2, <3>1, <3>2 DEF StartGate
  <2>3. ASSUME NEW q \in Pids, PostDone(q)
        PROVE  \A p \in Pids : \A n \in 1 .. Len(atoms[p]) : Times(p, n)' = Times(p, n)
    <3>1. /\ pc[q] = "work" /\ curr_event[q] > Len(atoms[q]) /\ UNCHANGED curr_event
          /\ pc' = [pc EXCEPT ![q] = "done"]
          /\ replayed' = [replayed EXCEPT ![q] = @ + 1]
      BY <2>3 DEF PostDone
    <3> QED
      BY <1>3, <3>1 DEF Times
  <2>4. CASE create_tasks
    <3>1. /\ pc' = [p \in Pids |-> IF p \in Registered THEN "again" ELSE "none"]
          /\ mpc = "cross" /\ UNCHANGED <<curr_event, replayed>>
      BY <2>4 DEF create_tasks
    <3>2. \A p \in Pids : pc[p] = "none"
      BY <3>1 DEF GateInv, ReadInv
    <3>3. \A p \in Pids : pc[p] # "work" /\ pc'[p] # "work"
      BY <3>1, <3>2
    <3> QED
      BY <3>1, <3>3 DEF Times
  <2>5. CASE wait_for_tasks
    <3>1. UNCHANGED <<pc, curr_event, replayed>>
      BY <2>5 DEF wait_for_tasks, OpenDoneGate, WaitReady, CloseDoneGate, OpenStartGate,
                  WaitDone, CloseStartGate, threads
    <3> QED
      BY <3>1 DEF Times
  <2> QED
    BY <2>1, <2>2, <2>3, <2>4, <2>5
<1> QED
  BY <1>1, <1>2, <1>4, SemsKept

(***************************************************************************)
(* Together.                                                               *)
(***************************************************************************)

(* A semaphore that a step touches belongs to a task. *)
LEMMA IdleStep ==
  ASSUME TasksOK, ThreadTypes, IdleInv,
         \/ \E p \in Pids : thread_func(p)
         \/ create_tasks
         \/ wait_for_tasks
  PROVE  IdleInv'
<1>1. \A n \in 1 .. Len(tasks) : tasks[n] \in Registered
  BY DEF Registered
<1>2. /\ ready_for_work \in [Pids -> Nat] /\ work_done_sem \in [Pids -> Nat]
      /\ \A p \in Pids : pc[p] # "none" => p \in Registered
  BY DEF ThreadTypes
<1>3. Registered' = Registered
  BY DEF Registered, thread_func, PostReady, StartGate, perf_sched__process_event, PostDone,
         DoneGate, create_tasks, wait_for_tasks, OpenDoneGate, WaitReady, CloseDoneGate,
         OpenStartGate, WaitDone, CloseStartGate, trace
<1>4. ASSUME NEW q \in Pids, q \notin Registered
      PROVE  ready_for_work'[q] = ready_for_work[q] /\ work_done_sem'[q] = work_done_sem[q]
  <2>1. ASSUME NEW p \in Pids, thread_func(p)
        PROVE  ready_for_work'[q] = ready_for_work[q] /\ work_done_sem'[q] = work_done_sem[q]
    <3>1. pc[p] # "none"
      BY <2>1 DEF thread_func, PostReady, StartGate, perf_sched__process_event, PostDone, DoneGate
    <3>2. p # q
      BY <1>2, <1>4, <3>1
    <3> QED
      BY <1>2, <2>1, <3>2 DEF thread_func, PostReady, StartGate, perf_sched__process_event,
                              PostDone, DoneGate, gates
  <2>2. CASE create_tasks
    BY <2>2 DEF create_tasks
  <2>3. CASE WaitReady
    <3>1. i \in Nat \ {0} /\ i <= Len(tasks) /\ Len(tasks) \in Nat /\ UNCHANGED work_done_sem
      BY <2>3 DEF WaitReady, ThreadTypes, TasksOK
    <3>2. tasks[i] # q
      BY <1>1, <1>4, <3>1
    <3>3. ready_for_work'[q] = ready_for_work[q]
      BY <1>2, <2>3, <3>2 DEF WaitReady
    <3> QED
      BY <3>1, <3>3
  <2>4. CASE WaitDone
    <3>1. i \in Nat \ {0} /\ i <= Len(tasks) /\ Len(tasks) \in Nat /\ UNCHANGED ready_for_work
      BY <2>4 DEF WaitDone, ThreadTypes, TasksOK
    <3>2. tasks[i] # q
      BY <1>1, <1>4, <3>1
    <3>3. work_done_sem'[q] = work_done_sem[q]
      BY <1>2, <2>4, <3>2 DEF WaitDone
    <3> QED
      BY <3>1, <3>3
  <2>5. CASE OpenDoneGate \/ CloseDoneGate \/ OpenStartGate \/ CloseStartGate
    BY <2>5 DEF OpenDoneGate, CloseDoneGate, OpenStartGate, CloseStartGate
  <2> QED
    BY <2>1, <2>2, <2>3, <2>4, <2>5 DEF wait_for_tasks
<1> QED
  BY <1>3, <1>4 DEF IdleInv

(* The trace ends, well or badly. *)
LEMMA EndOfTraceStep ==
  ASSUME ReplayInv, TraceError \/ EndOfTrace
  PROVE  ReplayInv'
<1> USE DEF ReplayInv
<1>1. /\ mpc = "read" /\ mpc' \in {"failed", "cross"}
      /\ UNCHANGED <<tasks, atoms, sems, pc, curr_event, replayed, ready_for_work, work_done_sem,
                     start_work_mutex, work_done_wait_mutex, i, nr_runs, counted, cpu_usage>>
  BY DEF TraceError, EndOfTrace, trace, threads, gates
<1>2. TraceOK(Read)'
  BY <1>1 DEF TraceOK, Read
<1>3. GateInv'
  <2>1. ThreadTypes'
    BY <1>1 DEF GateInv, ThreadTypes, Registered
  <2>2. ReadInv' /\ BetweenRuns' /\ DuringRun' /\ CountedInv'
    BY <1>1 DEF GateInv, ReadInv, BetweenRuns, DuringRun, CountedInv
  <2> QED
    BY <2>1, <2>2 DEF GateInv
<1>4. IdleInv' /\ SemsUnused'
  BY <1>1 DEF IdleInv, SemsUnused, Registered
<1>5. SemInv'
  BY <1>1, SemsKept DEF Times
<1> QED
  BY <1>2, <1>3, <1>4, <1>5

LEMMA RunStep ==
  ASSUME ReplayInv,
         \/ \E p \in Pids : thread_func(p)
         \/ create_tasks
         \/ wait_for_tasks
  PROVE  ReplayInv'
<1>1. TasksOK /\ GateInv /\ ThreadTypes /\ IdleInv
  BY DEF ReplayInv, TasksOK, TraceOK, Read, GateInv
<1>2. GateInv'
  <2>1. ASSUME NEW p \in Pids, thread_func(p) PROVE GateInv'
    BY <1>1, <2>1, PostReadyGate, StartGateGate, AtomGate, PostDoneGate, DoneGateGate
       DEF thread_func
  <2>2. CASE create_tasks
    BY <1>1, <2>2, CreateGate
  <2>3. CASE wait_for_tasks
    BY <1>1, <2>3, WaitReadyGate, WaitDoneGate DEF wait_for_tasks
  <2> QED
    BY <2>1, <2>2, <2>3
<1>3. IdleInv'
  BY <1>1, IdleStep
<1>4. SemInv' /\ TraceOK(Read)'
  BY AtomSems, GateSems DEF thread_func
<1>5. mpc' \notin {"read", "cross", "failed"}
  <2>1. ASSUME NEW p \in Pids, thread_func(p) PROVE mpc' \notin {"read", "cross", "failed"}
    <3>1. pc[p] # "none" /\ mpc' = mpc
      BY <2>1 DEF thread_func, PostReady, StartGate, perf_sched__process_event, PostDone,
                  DoneGate, main
    <3> QED
      BY <1>1, <3>1 DEF GateInv, ReadInv
  <2>2. CASE create_tasks
    BY <2>2 DEF create_tasks
  <2>3. CASE wait_for_tasks
    BY <2>3 DEF wait_for_tasks, OpenDoneGate, WaitReady, CloseDoneGate, OpenStartGate, WaitDone,
                CloseStartGate
  <2> QED
    BY <2>1, <2>2, <2>3
<1> QED
  BY <1>2, <1>3, <1>4, <1>5 DEF ReplayInv, SemsUnused

LEMMA InitReplay == Init => ReplayInv
<1> SUFFICES ASSUME Init PROVE ReplayInv
  OBVIOUS
<1> USE DEF Init
<1>1. TraceOK(Read)
  <2>1. Read \in TraceRecord /\ Read.tasks = <<>> /\ Read.sems = <<>>
        /\ Read.atoms = [p \in Pids |-> <<>>]
    BY DEF Read, TraceRecord
  <2>2. \A p \in Pids : Read.atoms[p] = <<>> /\ Len(Read.atoms[p]) = 0
    BY <2>1
  <2>3. Len(Read.sems) = 0 /\ Len(Read.tasks) = 0
    BY <2>1
  <2>4. AtomsOK(Read.atoms, Len(Read.sems))
    BY <2>2, <2>3 DEF AtomsOK, SemsInRange, SemsUsedOnce, SemsUsed
  <2> QED
    BY <2>1, <2>2, <2>3, <2>4 DEF TraceOK, TraceRecord
<1>2. GateInv
  BY ReplayAssumption DEF GateInv, ThreadTypes, ReadInv, BetweenRuns, DuringRun, CountedInv, Locations
<1>3. IdleInv /\ SemInv /\ SemsUnused
  BY DEF IdleInv, SemInv, SemsUnused
<1> QED
  BY <1>1, <1>2, <1>3 DEF ReplayInv

LEMMA NextReplay == ReplayInv /\ [Next]_vars => ReplayInv'
<1> SUFFICES ASSUME ReplayInv, [Next]_vars PROVE ReplayInv'
  OBVIOUS
<1>1. ASSUME NEW p \in Pids, NEW q \in Pids,
             \/ replay_wakeup_event(p, q)
             \/ replay_switch_event(p, q)
             \/ replay_fork_event(p, q)
      PROVE  ReplayInv'
  BY <1>1, WakeupEventStep, SwitchEventStep, ForkEventStep
<1>2. CASE TraceError \/ EndOfTrace
  BY <1>2, EndOfTraceStep
<1>3. CASE add_cross_task_wakeups
  BY <1>3, CrossWakeupStep
<1>4. CASE create_tasks \/ wait_for_tasks \/ \E p \in Pids : thread_func(p)
  BY <1>4, RunStep
<1>5. CASE UNCHANGED vars
  <2>1. UNCHANGED <<tasks, atoms, sems, pc, curr_event, replayed, ready_for_work, work_done_sem,
                    start_work_mutex, work_done_wait_mutex, mpc, i, nr_runs, counted, cpu_usage>>
    BY <1>5 DEF vars, trace, threads, gates, main
  <2>2. TraceOK(Read)' /\ IdleInv' /\ SemsUnused'
    BY <2>1 DEF ReplayInv, TraceOK, Read, IdleInv, Registered, SemsUnused
  <2>3. ThreadTypes' /\ ReadInv' /\ CountedInv'
    BY <2>1 DEF ReplayInv, GateInv, ThreadTypes, Registered, ReadInv, CountedInv
  <2>4. BetweenRuns' /\ DuringRun'
    BY <2>1 DEF ReplayInv, GateInv, BetweenRuns, DuringRun, Awaited
  <2>5. SemInv'
    BY <2>1, SemsKept DEF ReplayInv, Times
  <2> QED
    BY <2>2, <2>3, <2>4, <2>5 DEF ReplayInv, GateInv
<1> QED
  BY <1>1, <1>2, <1>3, <1>4, <1>5 DEF Next, Terminated

(* A task has done every atom of its list as often as it has taken part in *)
(* a run: the sleeps and the wakeups of a pair differ by one at most.      *)
LEMMA SemsBounded ==
  ASSUME ReplayInv, NEW k \in 1 .. Len(sems)
  PROVE  sems[k] \in 0 .. 1 /\ (mpc = "run" => sems[k] = 0)
<1>1. CASE mpc \in {"read", "cross", "failed"}
  BY <1>1 DEF ReplayInv, SemsUnused
<1>2. CASE mpc \notin {"read", "cross", "failed"}
  <2>0. /\ sems \in Seq(Nat) /\ SemsUsed(atoms, Len(sems)) /\ nr_runs \in Nat
        /\ \A x \in Pids : atoms[x] # <<>> => \E l \in 1 .. Len(tasks) : tasks[l] = x
        /\ atoms \in [Pids -> Seq(Atom)]
    BY DEF ReplayInv, TraceOK, Read, AtomsOK, GateInv, ThreadTypes
  <2>1. PICK p \in Pids : \E n \in 1 .. Len(atoms[p]) :
                            atoms[p][n].type = "WAKEUP" /\ atoms[p][n].wait_sem = k
    BY <2>0 DEF SemsUsed
  <2>2. PICK n \in 1 .. Len(atoms[p]) : atoms[p][n].type = "WAKEUP" /\ atoms[p][n].wait_sem = k
    BY <2>1
  <2>3. PICK q \in Pids : \E m \in 1 .. Len(atoms[q]) :
                            atoms[q][m].type = "SLEEP" /\ atoms[q][m].wait_sem = k
    BY <2>0 DEF SemsUsed
  <2>4. PICK m \in 1 .. Len(atoms[q]) : atoms[q][m].type = "SLEEP" /\ atoms[q][m].wait_sem = k
    BY <2>3
  <2>5. sems[k] = Times(p, n) - Times(q, m)
    BY <2>2, <2>4, SMTT(30) DEF ReplayInv, SemInv
  <2>6. ASSUME NEW x \in Pids, NEW l \in 1 .. Len(atoms[x])
        PROVE  Times(x, l) \in nr_runs .. nr_runs + 1 /\ (mpc = "run" => Times(x, l) = nr_runs)
    <3>1. atoms[x] # <<>>
      BY <2>0
    <3>2. PICK t \in 1 .. Len(tasks) : tasks[t] = x
      BY <2>0, <3>1
    <3>3. CASE mpc \in {"run", "ready", "ready_init", "open"}
      <4>1. replayed[x] = nr_runs /\ pc[x] # "work"
        BY <3>2, <3>3 DEF ReplayInv, GateInv, BetweenRuns
      <4> QED
        BY <2>0, <4>1, SMTT(30) DEF Times
    <3>4. CASE mpc \in {"work", "work_init"}
      <4>1. replayed[x] = IF pc[x] = "done" THEN nr_runs + 1 ELSE nr_runs
        BY <3>2, <3>4 DEF ReplayInv, GateInv, DuringRun
      <4> QED
        BY <2>0, <3>4, <4>1, SMTT(30) DEF Times
    <3> QED
      BY <1>2, <3>3, <3>4 DEF ReplayInv, GateInv, ThreadTypes
  <2>7. /\ Times(p, n) \in nr_runs .. nr_runs + 1 /\ Times(q, m) \in nr_runs .. nr_runs + 1
        /\ mpc = "run" => Times(p, n) = nr_runs /\ Times(q, m) = nr_runs
    BY <2>6
  <2>8. sems[k] \in Nat
    BY <2>0
  <2>9. nr_runs \in Nat
    BY <2>0
  <2> QED
    BY ONLY <2>5, <2>7, <2>8, <2>9
<1> QED
  BY <1>1, <1>2

LEMMA ReplayInvMeans == ReplayInv => ReplaysAreWhole
<1> SUFFICES ASSUME ReplayInv PROVE ReplaysAreWhole
  OBVIOUS
<1>1. TasksOK /\ GateInv /\ ThreadTypes /\ CountedInv /\ ReadInv /\ BetweenRuns /\ DuringRun
  BY DEF ReplayInv, TasksOK, TraceOK, Read, GateInv
<1>2. \A p \in Pids : p \in Registered => \E n \in 1 .. Len(tasks) : tasks[n] = p
  BY DEF Registered
<1>3. mpc \in {"read", "cross", "failed"} \/ mpc \in {"run", "ready", "ready_init", "open"}
        \/ mpc \in {"work", "work_init"}
  BY <1>1 DEF ThreadTypes
<1>4. TypeOK
  <2>1. ASSUME NEW p \in Pids, NEW k \in 1 .. Len(atoms[p])
        PROVE  /\ atoms[p][k].type \in {"SLEEP", "RUN", "WAKEUP"}
               /\ atoms[p][k].wait_sem \in 0 .. Len(sems)
    <3>1. atoms[p] \in Seq(Atom) /\ SemsInRange(atoms, Len(sems))
      BY DEF ReplayInv, TraceOK, Read, AtomsOK
    <3>2. atoms[p][k] \in Atom
      BY <3>1
    <3> QED
      BY <3>1, <3>2 DEF Atom, SemsInRange
  <2>2. ASSUME NEW p \in Pids
        PROVE  ready_for_work[p] \in 0 .. 1 /\ work_done_sem[p] \in 0 .. 1
    <3>1. CASE p \notin Registered
      BY <3>1 DEF ReplayInv, IdleInv
    <3>2. CASE p \in Registered
      <4>1. PICK n \in 1 .. Len(tasks) : tasks[n] = p
        BY <1>2, <3>2
      <4>2. CASE mpc \in {"read", "cross", "failed"}
        BY <1>1, <4>2 DEF ReadInv
      <4>3. CASE mpc \in {"run", "ready", "ready_init", "open"}
        BY <1>1, <4>1, <4>3 DEF BetweenRuns
      <4>4. CASE mpc \in {"work", "work_init"}
        BY <1>1, <4>1, <4>4 DEF DuringRun
      <4> QED
        BY <1>3, <4>2, <4>3, <4>4
    <3> QED
      BY <3>1, <3>2
  <2>3. ready_for_work \in [Pids -> 0 .. 1] /\ work_done_sem \in [Pids -> 0 .. 1]
    BY <1>1, <2>2 DEF ThreadTypes
  <2>4. \A k \in 1 .. Len(sems) : sems[k] \in 0 .. 1
    BY SemsBounded
  <2>5. /\ {start_work_mutex, work_done_wait_mutex} \subseteq {"none", "main", "thread"}
        /\ nr_runs \in 0 .. replay_repeat
    BY <1>1, ReplayAssumption DEF ThreadTypes, CountedInv
  <2> QED
    BY <2>1, <2>3, <2>4, <2>5 DEF TypeOK
<1>5. RunsAreSeparate
  <2>1. ASSUME NEW p \in Pids, pc[p] \in {"started", "work"}
        PROVE  mpc \in {"work", "work_init"}
    <3>1. PICK n \in 1 .. Len(tasks) : tasks[n] = p
      BY <1>1, <2>1, OwnTask
    <3> QED
      BY <1>1, <1>3, <2>1, <3>1 DEF ReadInv, BetweenRuns
  <2> QED
    BY <2>1 DEF RunsAreSeparate
<1>6. RunsAreWhole
  <2>1. ASSUME mpc = "run", NEW p \in Registered PROVE replayed[p] = nr_runs
    <3>1. PICK n \in 1 .. Len(tasks) : tasks[n] = p
      BY DEF Registered
    <3> QED
      BY <1>1, <2>1, <3>1 DEF BetweenRuns
  <2> QED
    BY <2>1, SemsBounded DEF RunsAreWhole
<1>7. UsageOfRun
  <2>1. \A c \in counted : c[2] \in 1 .. nr_runs + 1
    <3>1. nr_runs \in Nat
      BY <1>1 DEF ThreadTypes
    <3> QED
      BY <1>1, <3>1 DEF CountedInv
  <2>2. \A p \in Registered : \A r \in 1 .. nr_runs : <<p, r>> \in counted
    BY <1>1 DEF CountedInv, Registered
  <2> QED
    BY <2>1, <2>2 DEF UsageOfRun
<1> QED
  BY <1>4, <1>5, <1>6, <1>7 DEF ReplaysAreWhole

(* For any trace and any number of runs: a run that perf sched replay has  *)
(* measured is one run of every task, the times it has summed are those of *)
(* that run, no thread replays its atoms outside of a run, and every       *)
(* semaphore of the atoms is back at 0 behind it.                          *)
THEOREM ReplayWhole == Spec => []ReplaysAreWhole
<1>1. Init => ReplayInv
  BY InitReplay
<1>2. ReplayInv /\ [Next]_vars => ReplayInv'
  BY NextReplay
<1>3. ReplayInv => ReplaysAreWhole
  BY ReplayInvMeans
<1> QED
  BY <1>1, <1>2, <1>3, PTL DEF Spec
=============================================================================
