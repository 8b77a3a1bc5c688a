------------------------------- MODULE RbTree -------------------------------
(***************************************************************************)
(* The red-black tree of tools/lib/rbtree.c and its simplest users: the    *)
(* sorted list of util/rblist.c, whose keys are unique, and the output     *)
(* tree of util/hist.c, which keeps entries that compare equal.            *)
(*                                                                         *)
(* The tree is a record of the fields of its nodes.  The two children of a *)
(* node are one function of the side, so that a case of the code and its   *)
(* mirror image are one definition.  Each turn of the loops of             *)
(* __rb_insert() and ____rb_erase_color() is an action.  The users hold a  *)
(* lock, or have one thread: operations do not interleave.                 *)
(***************************************************************************)
EXTENDS Naturals, Sequences, FiniteSets, SequencesExt

CONSTANTS Keys,       \* a set of naturals
          Copies,     \* how many objects can have the same key
          Unique,     \* the user is a rblist, not the output tree of hists
          None

Nodes == Keys \X (1..Copies)
Key(n) == n[1]
Sides == {"left", "right"}
Opp(s) == IF s = "left" THEN "right" ELSE "left"

VARIABLES t,          \* the tree: root, and kid, parent and color of each node
          pc,         \* "idle", or the loop that runs: "insert", "erase"
          node,       \* the local variables of that loop
          parent,
          nr_entries, \* of the rblist
          deleting,   \* rblist__delete() runs
          next        \* its cursor

vars == << t, pc, node, parent, nr_entries, deleting, next >>

-----------------------------------------------------------------------------
(* Elementary writes. *)
rb_set_parent(r, n, p) == [r EXCEPT !.parent[n] = p]
rb_set_parent_color(r, n, p, c) == [r EXCEPT !.parent[n] = p, !.color[n] = c]
rb_is_red(r, n) == n # None /\ r.color[n] = "red"

__rb_change_child(r, old, new, p) ==
    IF p = None THEN [r EXCEPT !.root = new]
    ELSE IF r.kid[p]["left"] = old THEN [r EXCEPT !.kid[p]["left"] = new]
    ELSE [r EXCEPT !.kid[p]["right"] = new]

(* new takes the place and the color of old, which becomes its child. *)
__rb_rotate_set_parents(r, old, new, c) ==
    __rb_change_child(
        [r EXCEPT !.parent = [@ EXCEPT ![new] = r.parent[old], ![old] = new],
                  !.color  = [@ EXCEPT ![new] = r.color[old], ![old] = c]],
        old, new, r.parent[old])

(* The pointers of a rotation that lifts new, the child of old on side s:  *)
(* the inner subtree of new changes hands.                                 *)
Swing(r, old, new, s) ==
    [r EXCEPT !.kid[old][s] = r.kid[new][Opp(s)], !.kid[new][Opp(s)] = old]

Adopt(r, n, p, c) == IF n = None THEN r ELSE rb_set_parent_color(r, n, p, c)

-----------------------------------------------------------------------------
(* __rb_insert() *)

(* Case 1 - color flips: the loop goes on at the grandparent. *)
InsertFlip(r, p, g, uncle) ==
    LET r1 == rb_set_parent_color(r, uncle, g, "black")
        r2 == rb_set_parent_color(r1, p, g, "black")
    IN  rb_set_parent_color(r2, g, r2.parent[g], "red")

(* Case 2 - rotate at the parent, which is a child of side s. *)
InsertStraighten(r, n, p, s) ==
    LET inner == r.kid[n][s]
        r1 == [r EXCEPT !.kid[p][Opp(s)] = inner, !.kid[n][s] = p]
    IN  rb_set_parent_color(Adopt(r1, inner, p, "black"), p, n, "red")

(* Case 3 - rotate at the grandparent. *)
InsertRotate(r, p, g, s) ==
    LET inner == r.kid[p][Opp(s)]
    IN  __rb_rotate_set_parents(Adopt(Swing(r, g, p, s), inner, g, "black"),
                                g, p, "red")

-----------------------------------------------------------------------------
(* ____rb_erase_color(): s is the side of the sibling. *)

SiblingSide(r, n, p) == IF n # r.kid[p]["right"] THEN "right" ELSE "left"

(* Case 1 - rotate at the parent if the sibling is red. *)
EraseRedSibling(r, p, s) ==
    LET sibling == r.kid[p][s]
        inner == r.kid[sibling][Opp(s)]
    IN  IF rb_is_red(r, sibling)
        THEN __rb_rotate_set_parents(
                 rb_set_parent_color(Swing(r, p, sibling, s), inner, p, "black"),
                 p, sibling, "red")
        ELSE r

BlackKids(r, sibling) == \A s \in Sides : ~ rb_is_red(r, r.kid[sibling][s])

(* Case 3 - rotate at the sibling if its outer child is black.  The parent  *)
(* of the node lifted is left to case 4.                                   *)
EraseStraighten(r, p, s) ==
    LET sibling == r.kid[p][s]
        lifted == r.kid[sibling][Opp(s)]
        outer == r.kid[lifted][s]
        r1 == [r EXCEPT !.kid[sibling][Opp(s)] = outer,
                        !.kid[lifted][s] = sibling,
                        !.kid[p][s] = lifted]
    IN  IF rb_is_red(r, r.kid[sibling][s]) THEN r
        ELSE Adopt(r1, outer, sibling, "black")

(* Mutant: the inner child of the sibling keeps its parent. *)
EraseRotate_Orphan(r, p, s) ==
    LET sibling == r.kid[p][s]
    IN  __rb_rotate_set_parents(
            rb_set_parent_color(Swing(r, p, sibling, s), r.kid[sibling][s], sibling, "black"),
            p, sibling, "black")

(* Case 4 - rotate at the parent, and color flips. *)
EraseRotate(r, p, s) ==
    LET sibling == r.kid[p][s]
        inner == r.kid[sibling][Opp(s)]
        r1 == rb_set_parent_color(Swing(r, p, sibling, s), r.kid[sibling][s], sibling, "black")
        r2 == IF inner = None THEN r1 ELSE rb_set_parent(r1, inner, p)
    IN  __rb_rotate_set_parents(r2, p, sibling, "black")

-----------------------------------------------------------------------------
(* __rb_erase_augmented(): the tree without the node, and the node at      *)
(* which the colors must be put right.                                     *)

RECURSIVE Deepest(_, _, _)
(* From n as far as the tree goes to side s. *)
Deepest(r, n, s) == IF r.kid[n][s] = None THEN n ELSE Deepest(r, r.kid[n][s], s)

(* Case 1: at most one child, which takes over the color. *)
EraseEasy(r, n) ==
    LET child == IF r.kid[n]["left"] = None THEN r.kid[n]["right"] ELSE r.kid[n]["left"]
        p == r.parent[n]
        r1 == __rb_change_child(r, n, child, p)
    IN  IF child = None
        THEN [tree |-> r1, rebalance |-> IF rb_is_red(r, n) THEN None ELSE p]
        ELSE [tree |-> rb_set_parent_color(r1, child, p, r.color[n]), rebalance |-> None]

(* Cases 2 and 3: the successor takes the place and the color of the node. *)
EraseInner(r, n) ==
    LET right == r.kid[n]["right"]
        left == r.kid[n]["left"]
        successor == Deepest(r, right, "left")
        child2 == r.kid[successor]["right"]
        p == IF successor = right THEN successor ELSE r.parent[successor]
        r1 == IF successor = right THEN r
              ELSE rb_set_parent([r EXCEPT !.kid[p]["left"] = child2,
                                           !.kid[successor]["right"] = right],
                                 right, successor)
        r2 == rb_set_parent([r1 EXCEPT !.kid[successor]["left"] = left], left, successor)
        r3 == __rb_change_child(r2, n, successor, r.parent[n])
        r4 == rb_set_parent_color(r3, successor, r.parent[n], r.color[n])
    IN  IF child2 = None
        THEN [tree |-> r4, rebalance |-> IF rb_is_red(r, successor) THEN None ELSE p]
        ELSE [tree |-> rb_set_parent_color(r4, child2, p, "black"), rebalance |-> None]

__rb_erase_augmented(r, n) ==
    IF None \in {r.kid[n][s] : s \in Sides} THEN EraseEasy(r, n) ELSE EraseInner(r, n)

-----------------------------------------------------------------------------
(* Traversals. *)
rb_first(r) == IF r.root = None THEN None ELSE Deepest(r, r.root, "left")
rb_last(r) == IF r.root = None THEN None ELSE Deepest(r, r.root, "right")

RECURSIVE Up(_, _, _)
(* Up from n as long as it is the child of side s; then the parent. *)
Up(r, n, s) ==
    LET p == r.parent[n]
    IN  IF p = None THEN None ELSE IF n = r.kid[p][s] THEN Up(r, p, s) ELSE p

(* The neighbour of n on side s: rb_next() is the right one. *)
Neighbour(r, n, s) ==
    IF r.kid[n][s] # None THEN Deepest(r, r.kid[n][s], Opp(s)) ELSE Up(r, n, s)

rb_next(r, n) == Neighbour(r, n, "right")
rb_prev(r, n) == Neighbour(r, n, "left")

RECURSIVE rb_left_deepest_node(_, _)
rb_left_deepest_node(r, n) ==
    IF r.kid[n]["left"] # None THEN rb_left_deepest_node(r, r.kid[n]["left"])
    ELSE IF r.kid[n]["right"] # None THEN rb_left_deepest_node(r, r.kid[n]["right"])
    ELSE n

rb_first_postorder(r) == IF r.root = None THEN None ELSE rb_left_deepest_node(r, r.root)

rb_next_postorder(r, n) ==
    LET p == r.parent[n]
    IN  IF p = None THEN None
        ELSE IF n = r.kid[p]["left"] /\ r.kid[p]["right"] # None
             THEN rb_left_deepest_node(r, r.kid[p]["right"])
             ELSE p

-----------------------------------------------------------------------------
(* In sort order, the nodes below n, read off the child pointers. *)
RECURSIVE Below(_, _)
Below(r, n) == IF n = None THEN << >>
               ELSE Below(r, r.kid[n]["left"]) \o << n >> \o Below(r, r.kid[n]["right"])

InOrder == Below(t, t.root)
InTree == {InOrder[i] : i \in 1..Len(InOrder)}

Empty == [root |-> None,
          kid |-> [n \in Nodes |-> [s \in Sides |-> None]],
          parent |-> [n \in Nodes |-> None],
          color |-> [n \in Nodes |-> "red"]]

(* The fields of a node outside the tree are never read: rb_link_node()    *)
(* writes all of them.                                                     *)
Forget(r, n) == [r EXCEPT !.kid[n] = Empty.kid[n], !.parent[n] = None, !.color[n] = "red"]

Init ==
    /\ t = Empty
    /\ pc = "idle"
    /\ node = None
    /\ parent = None
    /\ nr_entries = 0
    /\ deleting = FALSE
    /\ next = None

Ready == pc = "idle" /\ ~ deleting

RECURSIVE Descend_Left(_, _, _)
(* Mutant: equal entries are put in front of each other. *)
Descend_Left(r, m, n) ==
    LET s == IF Key(n) <= Key(m) THEN "left" ELSE "right"
    IN  IF r.kid[m][s] = None THEN << m, s >> ELSE Descend_Left(r, r.kid[m][s], n)

RECURSIVE Descend(_, _, _)
(* Where the search for the place of n ends, from m on: << parent, side >>, *)
(* or << m, "here" >> where a rblist meets an equal key.                    *)
Descend(r, m, n) ==
    LET s == IF Key(n) < Key(m) THEN "left" ELSE "right"
    IN  IF Unique /\ Key(n) = Key(m) THEN << m, "here" >>
        ELSE IF r.kid[m][s] = None THEN << m, s >>
        ELSE Descend(r, r.kid[m][s], n)

(* Mutant: the new node is black, as if there were nothing to put right. *)
rb_link_node_Black(r, n, p, s) ==
    LET r1 == [r EXCEPT !.parent[n] = p, !.color[n] = "black"]
    IN  IF p = None THEN [r1 EXCEPT !.root = n] ELSE [r1 EXCEPT !.kid[p][s] = n]

rb_link_node(r, n, p, s) ==
    LET r1 == [r EXCEPT !.parent[n] = p, !.color[n] = "red"]
    IN  IF p = None THEN [r1 EXCEPT !.root = n] ELSE [r1 EXCEPT !.kid[p][s] = n]

Counted == nr_entries + 1

(* rblist__add_node(), rblist__findnew() and hists' __hists__insert_output_entry(). *)
Add(n) ==
    LET place == IF t.root = None THEN << None, "left" >> ELSE Descend(t, t.root, n)
    IN  /\ Ready
        /\ n \notin InTree
        /\ place[2] # "here"
        /\ t' = rb_link_node(t, n, place[1], place[2])
        /\ pc' = "insert"
        /\ node' = n
        /\ parent' = place[1]
        /\ nr_entries' = Counted
        /\ UNCHANGED << deleting, next >>

Idle == pc' = "idle" /\ node' = None /\ parent' = None

InsertDone ==
    /\ pc = "insert"
    /\ ~ rb_is_red(t, parent)
    /\ t' = IF parent = None THEN rb_set_parent_color(t, node, None, "black") ELSE t
    /\ Idle
    /\ UNCHANGED << nr_entries, deleting, next >>

InsertFix ==
    LET g == t.parent[parent]
        s == IF parent # t.kid[g]["right"] THEN "left" ELSE "right"
        uncle == t.kid[g][Opp(s)]
    IN  /\ pc = "insert"
        /\ rb_is_red(t, parent)
        /\ \/ /\ rb_is_red(t, uncle)
              /\ t' = InsertFlip(t, parent, g, uncle)
              /\ node' = g
              /\ parent' = t.parent[g]
              /\ pc' = pc
           \/ /\ ~ rb_is_red(t, uncle)
              /\ t' = IF node = t.kid[parent][Opp(s)]
                      THEN InsertRotate(InsertStraighten(t, node, parent, s), node, g, s)
                      ELSE InsertRotate(t, parent, g, s)
              /\ Idle
        /\ UNCHANGED << nr_entries, deleting, next >>

(* rb_erase() up to its loop. *)
Erase(n) ==
    LET e == __rb_erase_augmented(t, n)
    IN  /\ t' = Forget(e.tree, n)
        /\ pc' = IF e.rebalance = None THEN "idle" ELSE "erase"
        /\ node' = None
        /\ parent' = e.rebalance
        /\ nr_entries' = nr_entries - 1

(* rblist__remove_node() *)
remove_node(n) ==
    /\ Ready
    /\ n \in InTree
    /\ Erase(n)
    /\ UNCHANGED << deleting, next >>

(* Case 2 - sibling color flip, behind case 1: done if the parent is red,  *)
(* else the loop goes on at the parent.                                    *)
EraseFlip ==
    LET s == SiblingSide(t, node, parent)
        r == EraseRedSibling(t, parent, s)
        sibling == r.kid[parent][s]
        flipped == rb_set_parent_color(r, sibling, parent, "red")
        up == r.parent[parent]
    IN  /\ pc = "erase"
        /\ BlackKids(r, sibling)
        /\ \/ /\ rb_is_red(r, parent)
              /\ t' = [flipped EXCEPT !.color[parent] = "black"]
              /\ Idle
           \/ /\ ~ rb_is_red(r, parent)
              /\ t' = flipped
              /\ IF up = None THEN Idle
                 ELSE pc' = pc /\ node' = parent /\ parent' = up
        /\ UNCHANGED << nr_entries, deleting, next >>

EraseFix ==
    LET s == SiblingSide(t, node, parent)
        r == EraseRedSibling(t, parent, s)
    IN  /\ pc = "erase"
        /\ ~ BlackKids(r, r.kid[parent][s])
        /\ t' = EraseRotate(EraseStraighten(r, parent, s), parent, s)
        /\ Idle
        /\ UNCHANGED << nr_entries, deleting, next >>

(* rb_replace_node(): m sorts like n and is not in the tree. *)
Replace(n, m) ==
    LET Reparent(r, k) == IF k = None THEN r ELSE rb_set_parent(r, k, m)
        r1 == __rb_change_child(t, n, m, t.parent[n])
        r2 == Reparent(Reparent(r1, t.kid[n]["left"]), t.kid[n]["right"])
    IN  /\ Ready
        /\ n \in InTree /\ m \notin InTree
        /\ Key(n) = Key(m)
        /\ t' = Forget([r2 EXCEPT !.kid[m] = t.kid[n], !.parent[m] = t.parent[n],
                                  !.color[m] = t.color[n]], n)
        /\ UNCHANGED << pc, node, parent, nr_entries, deleting, next >>

(* rblist__delete(): the cursor is moved on before its node is erased. *)
DeleteStart ==
    /\ Ready
    /\ deleting' = TRUE
    /\ next' = rb_first(t)
    /\ UNCHANGED << t, pc, node, parent, nr_entries >>

DeleteNext ==
    /\ deleting /\ pc = "idle" /\ next # None
    /\ next' = rb_next(t, next)
    /\ Erase(next)
    /\ UNCHANGED deleting

(* The list is freed; a new one begins. *)
DeleteEnd ==
    /\ deleting /\ pc = "idle" /\ next = None
    /\ deleting' = FALSE
    /\ UNCHANGED << t, pc, node, parent, nr_entries, next >>

Rebalance == InsertDone \/ InsertFix \/ EraseFlip \/ EraseFix

Next ==
    \/ \E n \in Nodes : Add(n) \/ remove_node(n)
    \/ \E n, m \in Nodes : Replace(n, m)
    \/ Rebalance
    \/ DeleteStart \/ DeleteNext \/ DeleteEnd

Spec == Init /\ [][Next]_vars

-----------------------------------------------------------------------------
TypeOK ==
    /\ t \in [root : Nodes \cup {None},
              kid : [Nodes -> [Sides -> Nodes \cup {None}]],
              parent : [Nodes -> Nodes \cup {None}],
              color : [Nodes -> {"red", "black"}]]
    /\ pc \in {"idle", "insert", "erase"}
    /\ node \in Nodes \cup {None}
    /\ parent \in Nodes \cup {None}
    /\ nr_entries \in Nat
    /\ deleting \in BOOLEAN
    /\ next \in Nodes \cup {None}

(* The parent pointers mirror the child pointers between any two turns of  *)
(* a loop, and no node is reached twice.                                   *)
PointersAgree ==
    /\ Cardinality(InTree) = Len(InOrder)
    /\ t.root # None => t.parent[t.root] = None
    /\ \A n \in InTree, s \in Sides :
          t.kid[n][s] # None => t.parent[t.kid[n][s]] = n

RECURSIVE BlackHeights(_, _)
(* The numbers of black nodes on the paths from n to a leaf. *)
BlackHeights(r, n) ==
    IF n = None THEN {0}
    ELSE {h + (IF r.color[n] = "black" THEN 1 ELSE 0) :
             h \in BlackHeights(r, r.kid[n]["left"]) \cup BlackHeights(r, r.kid[n]["right"])}

RedHasBlackKids(n) == rb_is_red(t, n) => BlackKids(t, n)

(* The comment that opens rbtree.c: whenever no operation runs the root is *)
(* black, the children of a red node are black and every path from the     *)
(* root to a leaf has the same number of black nodes.                      *)
RedBlack ==
    pc = "idle" =>
        /\ ~ rb_is_red(t, t.root)
        /\ \A n \in InTree : RedHasBlackKids(n)
        /\ Cardinality(BlackHeights(t, t.root)) = 1

(* The loop invariant of __rb_insert(): node is red, and it and its parent *)
(* (or node as a red root) are all that is wrong with the tree.            *)
InsertLoop ==
    pc = "insert" =>
        /\ rb_is_red(t, node) /\ t.parent[node] = parent
        /\ \A n \in InTree \ {parent} : RedHasBlackKids(n)
        /\ rb_is_red(t, parent) => ~ rb_is_red(t, t.parent[parent]) /\ parent # t.root
        /\ Cardinality(BlackHeights(t, t.root)) = 1

(* The loop invariants of ____rb_erase_color(): node is black or NULL, it  *)
(* is not the root, and the paths through parent and node are one black    *)
(* node short.                                                             *)
EraseLoop ==
    pc = "erase" =>
        LET s == SiblingSide(t, node, parent)
            short == BlackHeights(t, node)
        IN  /\ ~ rb_is_red(t, node)
            /\ t.kid[parent][Opp(s)] = node /\ t.kid[parent][s] # None
            /\ \A n \in InTree : RedHasBlackKids(n)
            /\ Cardinality(short) = 1
            /\ BlackHeights(t, t.kid[parent][s]) = {h + 1 : h \in short}

RECURSIVE Walk(_, _, _)
(* The nodes that an iterator meets from n on; no more than the tree has. *)
Walk(Step(_), n, k) ==
    IF n = None \/ k = 0 THEN << >> ELSE << n >> \o Walk(Step, Step(n), k - 1)

(* rb_first() and rb_next(), rb_last() and rb_prev() meet all nodes in     *)
(* sort order and against it, whatever rotations the tree has seen, and    *)
(* also in the midst of an operation.                                      *)
TraversalsAgree ==
    LET Forth(n) == rb_next(t, n)
        Back(n) == rb_prev(t, n)
        k == Len(InOrder) + 1
    IN  /\ Walk(Forth, rb_first(t), k) = InOrder
        /\ Walk(Back, rb_last(t), k) = Reverse(InOrder)

(* rbtree.h: "Postorder iteration - always visit the parent after its      *)
(* children": every node is met once, behind its children.                 *)
PostorderIsBottomUp ==
    LET Step(n) == rb_next_postorder(t, n)
        w == Walk(Step, rb_first_postorder(t), Len(InOrder) + 1)
    IN  /\ Len(w) = Len(InOrder)
        /\ {w[i] : i \in 1..Len(w)} = InTree
        /\ \A i, j \in 1..Len(w) : t.parent[w[i]] = w[j] => i < j

(* rblist__delete() takes the next node before it erases one: the cursor   *)
(* stays the smallest node left however the tree is rebalanced, and the    *)
(* loop ends with nothing left in the tree and none counted.               *)
DeleteMeetsAll ==
    /\ deleting => next = IF InOrder = << >> THEN None ELSE InOrder[1]
    /\ nr_entries = Len(InOrder)

(* The tree behaves like a sorted list. *)
List == INSTANCE SortedList WITH list <- InOrder
=============================================================================
