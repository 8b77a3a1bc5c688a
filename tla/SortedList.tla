----------------------------- MODULE SortedList -----------------------------
(***************************************************************************)
(* What the users of a tree of tools/lib/rbtree.c see of it: the sequence  *)
(* of its nodes in sort order.  Nodes with equal keys stay in the order of *)
(* their arrival.  Balancing is no step of this specification.             *)
(***************************************************************************)
EXTENDS Naturals, Sequences

CONSTANTS Nodes,      \* the objects that can be linked into the tree
          Key(_)      \* what the comparison function of the user compares

VARIABLE list

(* The position of a new node: behind every node with no greater key. *)
Place(n, s) == Len(SelectSeq(s, LAMBDA m : Key(m) <= Key(n)))

Init == list = << >>

Insert(n) ==
    LET k == Place(n, list)
    IN  /\ \A i \in 1..Len(list) : list[i] # n
        /\ list' = SubSeq(list, 1, k) \o << n >> \o SubSeq(list, k + 1, Len(list))

Erase(n) ==
    /\ \E i \in 1..Len(list) : list[i] = n
    /\ list' = SelectSeq(list, LAMBDA m : m # n)

(* One node takes the place of another one that sorts alike. *)
Replace(n, m) ==
    /\ Key(n) = Key(m)
    /\ \A i \in 1..Len(list) : list[i] # m
    /\ \E i \in 1..Len(list) : list[i] = n /\ list' = [list EXCEPT ![i] = m]

Next == \E n \in Nodes : \/ Insert(n)
                         \/ Erase(n)
                         \/ \E m \in Nodes : Replace(n, m)

Spec == Init /\ [][Next]_list
=============================================================================
