------------------------------ MODULE PollList ------------------------------
(* What an evlist expects of its poll array (tools/lib/api/fd/array.h): a   *)
(* list of descriptors, each with the ring buffer it belongs to.  One is    *)
(* added behind the others, and those that are dead leave it; the others    *)
(* keep their order and their ring buffers.                                 *)
EXTENDS Naturals, Sequences

CONSTANTS Fds, Maps

VARIABLES list,   \* <<descriptor, ring buffer>> pairs
          dead    \* descriptors that hung up

Init == list = <<>> /\ dead = {}

Add(fd, map) ==
  /\ \A i \in DOMAIN list : list[i][1] # fd
  /\ list' = Append(list, <<fd, map>>)
  /\ UNCHANGED dead

(* kept names the places of T, one behind the other. *)
InOrder(kept, T) ==
  /\ \A a \in DOMAIN kept : kept[a] \in T
  /\ \A a, b \in DOMAIN kept : a < b => kept[a] < kept[b]
  /\ \A i \in T : \E a \in DOMAIN kept : kept[a] = i

(* The descriptors of S leave the list: a hang up that nobody saw yet may  *)
(* stay.                                                                    *)
Drop(S) ==
  /\ \E n \in 0 .. Len(list) : \E kept \in [1 .. n -> 1 .. Len(list)] :
       /\ InOrder(kept, {i \in 1 .. Len(list) : list[i][1] \notin S})
       /\ list' = [a \in 1 .. n |-> list[kept[a]]]
  /\ UNCHANGED dead

HangUp(fd) == dead' = dead \union {fd} /\ UNCHANGED list

Delete == list' = <<>> /\ UNCHANGED dead

Next ==
  \/ \E fd \in Fds, map \in Maps : Add(fd, map)
  \/ \E S \in SUBSET dead : Drop(S)
  \/ \E fd \in Fds : HangUp(fd)
  \/ Delete

Spec == Init /\ [][Next]_<<list, dead>>
=============================================================================
