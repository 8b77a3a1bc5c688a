------------------------------ MODULE AuxHeap ------------------------------
(***************************************************************************)
(* struct auxtrace_heap (auxtrace.c): the binary heap that a decoder keeps *)
(* its queues in, by the time of the next buffer of each.  A heap is a     *)
(* record of the array, the number of items in use and the size the array  *)
(* was allocated with.                                                     *)
(***************************************************************************)
EXTENDS Integers, Sequences, SequencesExt

CONSTANT InitNrQueues  \* AUXTRACE_INIT_NR_QUEUES: 32

Item(queue_nr, ordinal) == [queue_nr |-> queue_nr, ordinal |-> ordinal]
NoItem == Item(-1, 0)

EmptyHeap == [array |-> <<>>, cnt |-> 0, sz |-> 0]

Parent(pos) == (pos - 1) \div 2
Left(pos) == 2 * pos + 1

(* The smallest size, doubling from the initial one, that is more than nr. *)
Enough(nr) ==
  LET Double[sz \in Nat] == IF sz > nr THEN sz ELSE Double[2 * sz]
  IN  Double[InitNrQueues]

Realloc(array, sz) ==
  [i \in 0 .. (sz - 1) |-> IF i \in DOMAIN array THEN array[i] ELSE NoItem]

(* An item moves up from a free position past every larger parent.         *)
heapify(array, pos, item) ==
  LET Stop[p \in 0 .. pos] ==
        IF p = 0 \/ array[Parent(p)].ordinal <= item.ordinal
        THEN p ELSE Stop[Parent(p)]
      OnPath[p \in 0 .. pos] ==
        IF p = Stop[pos] THEN {} ELSE {p} \cup OnPath[Parent(p)]
  IN  [i \in DOMAIN array |->
         IF i = Stop[pos] THEN item
         ELSE IF i \in OnPath[pos] THEN array[Parent(i)]
         ELSE array[i]]

(* The array grows by the number of the queue, not by the items in use.    *)
auxtrace_heap__add(heap, queue_nr, ordinal) ==
  LET sz    == IF queue_nr >= heap.sz THEN Enough(queue_nr) ELSE heap.sz
      array == Realloc(heap.array, sz)
  IN  [array |-> IF heap.cnt < sz
                 THEN heapify(array, heap.cnt, Item(queue_nr, ordinal)) ELSE array,
       cnt   |-> heap.cnt + 1, sz |-> sz]

Top(heap) == heap.array[0]

(* What is left behind the items in use is never read. *)
Forget(array, cnt) == [i \in DOMAIN array |-> IF i < cnt THEN array[i] ELSE NoItem]

(* Mutant: the hole at the top is filled with the last item as it is. *)
auxtrace_heap__pop_NoSift(heap) ==
  IF heap.cnt = 0 THEN heap
  ELSE [heap EXCEPT !.cnt = @ - 1, !.array[0] = heap.array[heap.cnt - 1]]

(* The hole at the top goes down past the smaller child; the last item is  *)
(* put in where it ends, unless the last item is what was moved up last.   *)
auxtrace_heap__pop(heap) ==
  LET cnt   == heap.cnt
      array == heap.array
      Smaller(p) == IF array[Left(p)].ordinal < array[Left(p) + 1].ordinal
                    THEN Left(p) ELSE Left(p) + 1
      Down[p \in 0 .. cnt] ==
        IF Left(p) >= cnt THEN <<p>>
        ELSE IF Left(p) + 1 >= cnt THEN <<p, Left(p)>>
        ELSE <<p>> \o Down[Smaller(p)]
      path  == Down[0]
      moved == [i \in DOMAIN array |->
                  IF \E k \in 1 .. Len(path) - 1 : path[k] = i
                  THEN array[path[1 + (CHOOSE k \in 1 .. Len(path) - 1 : path[k] = i)]]
                  ELSE array[i]]
      alone == /\ Len(path) > 1 /\ path[Len(path)] = cnt - 1
               /\ Left(Parent(cnt - 1)) = cnt - 1
      popped == IF alone THEN moved
                ELSE heapify(moved, path[Len(path)], array[cnt - 1])
  IN  IF cnt = 0 THEN heap
      ELSE [array |-> Forget(popped, cnt - 1), cnt |-> cnt - 1, sz |-> heap.sz]

(* The queues on a heap, and the time of each. *)
OnHeap(heap) == {heap.array[i].queue_nr : i \in 0 .. (heap.cnt - 1)}
=============================================================================
