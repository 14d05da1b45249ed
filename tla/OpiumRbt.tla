----------------------------- MODULE OpiumRbt -----------------------------
(***************************************************************************)
(* The tree of project/core/opium_rbt.c, one thread, a client that inserts *)
(* and deletes keys and keeps the nodes that opium_rbt_insert returns.     *)
(* Descending by one node is a step; so is what follows the descent.       *)
(*                                                                         *)
(* The nodes and the sentinel are objects of one slab.  What rebalances    *)
(* the tree (InsertRound, DeleteRound), and what removes a node below the  *)
(* root (Removed, Unhung), is part of the actions, and never has anything  *)
(* to do: NothingToRebalance, and OnlyHeadIsFound, which is what the       *)
(* descent of insert (line 214) leaves of the tree.  Left and right are    *)
(* mirrored in the code; here a side is a parameter.                       *)
(***************************************************************************)
EXTENDS Integers, FiniteSets

CONSTANTS
    Nodes,       \* the objects the slab can serve, besides the sentinel
    Keys,        \* the keys the client uses
    Sentinel,
    NULL

ASSUME NodesAssumption ==
    /\ Sentinel \notin Nodes
    /\ NULL \notin Nodes \cup {Sentinel}

ASSUME KeysAssumption == Keys \subseteq Nat

VARIABLES
    head,        \* rbt->head, or NULL when the tree is closed
    node,        \* the contents of sentinel and nodes
    allocated,   \* the objects that are taken from the slab
    call,        \* the call in progress: "insert", "delete" or "none"
    key,         \* its key
    parent,      \* the locals of the descent
    current,
    handed       \* ghost: the key for which the client was given a node, or -1

descent == <<call, key, parent, current>>
vars == <<head, node, allocated, descent, handed>>

Objects == Nodes \cup {Sentinel}

\* The key of the sentinel is never written; the page was fresh, so it is 0.
SentinelKey == 0

\* Mutant: the sentinel is left red.
RedSentinel == [parent |-> Sentinel, left |-> Sentinel, right |-> Sentinel,
                key |-> SentinelKey, color |-> "red"]

\* opium_rbt_sentinel_init
FreshSentinel == [parent |-> Sentinel, left |-> Sentinel, right |-> Sentinel,
                  key |-> SentinelKey, color |-> "black"]

\* opium_rbt_node_init
NewNode(p, k) == [parent |-> p, left |-> Sentinel, right |-> Sentinel,
                  key |-> k, color |-> "red"]

Child(o, k) == IF node[o].key < k THEN node[o].right ELSE node[o].left

Painted(f, o, c) == [f EXCEPT ![o].color = c]

Blackened(f, o) == Painted(f, o, "black")

\* A tree in the making: the contents of the nodes and the root.
Tree(f, h) == [node |-> f, head |-> h]

Opposite(side) == IF side = "left" THEN "right" ELSE "left"

\* The links of a parent when `new' takes the place of `old'.
Relinked(p, old, new) ==
    IF p.right = old THEN [p EXCEPT !.right = new]
    ELSE IF p.left = old THEN [p EXCEPT !.left = new] ELSE p

\* y sinks to its side, below x; the inner child of x takes the place of x.
Sunk(f, y, x, inner, side) ==
    [o \in Objects |->
        IF o = y THEN [f[y] EXCEPT ![Opposite(side)] = inner, !.parent = x]
        ELSE IF o = x THEN [f[x] EXCEPT ![side] = y, !.parent = f[y].parent]
        ELSE IF o = inner /\ inner # Sentinel THEN [f[o] EXCEPT !.parent = y]
        ELSE f[o]]

\* Below the parent of y, if it has one, x takes the place of y.
Raised(t, y, x, p, side) ==
    IF p = NULL THEN Tree(Sunk(t.node, y, x, t.node[x][side], side), x)
    ELSE Tree([Sunk(t.node, y, x, t.node[x][side], side) EXCEPT ![p] = Relinked(@, y, x)],
              t.head)

\* opium_rbt_left_rotate and opium_rbt_right_rotate.
Rotated(t, y, side) ==
    LET x == t.node[y][Opposite(side)]
    IN IF x = Sentinel THEN t ELSE Raised(t, y, x, t.node[y].parent, side)

Returns == /\ call' = "none"
           /\ UNCHANGED <<key, parent, current>>

(***************************************************************************)
(* opium_rbt_insert.  The root is painted black at its end.                *)
(***************************************************************************)
StartInsert(k) ==
    /\ call = "none"
    /\ head # NULL
    /\ call' = "insert"
    /\ key' = k
    /\ parent' = NULL
    /\ current' = head
    /\ UNCHANGED <<head, node, allocated, handed>>

\* The loop at 214 has ended.
DescentEnds == parent = Sentinel

\* One round of the loop that finds no node with the key.
Descend ==
    /\ call = "insert"
    /\ ~DescentEnds
    /\ node[current].key # key
    /\ parent' = current
    /\ current' = Child(current, key)
    /\ UNCHANGED <<head, node, allocated, call, key, handed>>

\* The slab serves n, or refuses and the caller is returned NULL.
Serves(n) ==
    /\ call = "insert"
    /\ DescentEnds
    /\ n \in Nodes \ allocated
    /\ allocated' = allocated \cup {n}
    /\ Returns

InsertRefused ==
    /\ call = "insert"
    /\ DescentEnds
    /\ Returns
    /\ UNCHANGED <<head, node, allocated, handed>>

InsertRoot(n) ==
    /\ Serves(n)
    /\ head = Sentinel
    /\ head' = n
    /\ node' = Blackened([node EXCEPT ![n] = NewNode(NULL, key)], n)
    /\ handed' = [handed EXCEPT ![n] = key]

\* The new node hangs below the last one the descent has passed.
Attached(n) ==
    LET made == [node EXCEPT ![n] = NewNode(parent, key)]
    IN IF key < node[parent].key THEN [made EXCEPT ![parent].left = n]
                                 ELSE [made EXCEPT ![parent].right = n]

\* The test at 297 and 298: o is red below a red node that is not the root.
IsRedBelowRed(t, o) ==
    /\ o # t.head
    /\ t.node[t.node[o].parent].color = "red"
    /\ t.node[t.node[o].parent].parent # NULL

\* A red uncle: parent and uncle are painted, the grandparent is next.
Ascends(r, p, uncle, g) ==
    [tree |-> Tree(Painted(Blackened(Blackened(r.tree.node, p), uncle), g, "red"),
                   r.tree.head),
     at |-> g]

\* The node is on the other side of its parent than that is of the grandparent.
Straightened(r, p, side) ==
    IF r.at = r.tree.node[p][Opposite(side)]
    THEN [tree |-> Rotated(r.tree, p, side), at |-> p] ELSE r

\* The grandparent sinks, red, below the parent, which is black.
Settled(r, mid, side) ==
    LET top == r.tree.node[mid].parent
    IN [tree |-> Rotated(Tree(Painted(Blackened(r.tree.node, mid), top, "red"), r.tree.head),
                         top, Opposite(side)),
        at |-> r.at]

Settles(r, side) == Settled(r, r.tree.node[r.at].parent, side)

RoundBelow(r, p, g, side) ==
    LET uncle == r.tree.node[g][Opposite(side)]
    IN IF r.tree.node[uncle].color = "red" THEN Ascends(r, p, uncle, g)
       ELSE Settles(Straightened(r, p, side), side)

\* One round of the loop, on a tree and the node it has come to.
InsertRound(r) ==
    LET p == r.tree.node[r.at].parent
        g == r.tree.node[p].parent
    IN RoundBelow(r, p, g, IF p = r.tree.node[g].right THEN "right" ELSE "left")

\* The loop: a round goes up by two nodes or ends it.
Rebalanced(t, o) ==
    LET Round[k \in 0 .. Cardinality(Nodes)] ==
            IF k = 0 THEN [tree |-> t, at |-> o]
            ELSE IF IsRedBelowRed(Round[k - 1].tree, Round[k - 1].at)
                 THEN InsertRound(Round[k - 1]) ELSE Round[k - 1]
    IN IF IsRedBelowRed(t, o) THEN Round[Cardinality(Nodes)] ELSE [tree |-> t, at |-> o]

\* A node with the key, the sentinel for the key 0, is taken as it is.  What is
\* returned is the node at which the loop has ended.
InsertExisting ==
    LET last == Rebalanced(Tree(node, head), current) IN
    /\ call = "insert"
    /\ ~DescentEnds
    /\ node[current].key = key
    /\ head' = last.tree.head
    /\ node' = Blackened(last.tree.node, last.tree.head)
    /\ handed' = [handed EXCEPT ![last.at] = key]
    /\ Returns
    /\ UNCHANGED allocated

InsertBelow(n) ==
    LET last == Rebalanced(Tree(Attached(n), head), n) IN
    /\ Serves(n)
    /\ head # Sentinel
    /\ head' = last.tree.head
    /\ node' = Blackened(last.tree.node, last.tree.head)
    /\ handed' = [handed EXCEPT ![last.at] = key]

(***************************************************************************)
(* opium_rbt_delete.                                                       *)
(***************************************************************************)
StartDelete(k) ==
    /\ call = "none"
    /\ head # NULL
    /\ call' = "delete"
    /\ key' = k
    /\ parent' = NULL
    /\ current' = head
    /\ UNCHANGED <<head, node, allocated, handed>>

SearchOn ==
    /\ call = "delete"
    /\ current # Sentinel
    /\ node[current].key # key
    /\ current' = Child(current, key)
    /\ UNCHANGED <<head, node, allocated, call, key, parent, handed>>

DeleteNothing ==
    /\ call = "delete"
    /\ current = Sentinel
    /\ Returns
    /\ UNCHANGED <<head, node, allocated, handed>>

Leftmost[o \in Objects] ==
    IF node[o].left = Sentinel THEN o ELSE Leftmost[node[o].left]

\* The node that goes: the one found, or its successor when it has two children.
Removed ==
    IF node[current].left # Sentinel /\ node[current].right # Sentinel
    THEN Leftmost[node[current].right] ELSE current

\* The child that takes its place.
Heir == IF node[Removed].left # Sentinel THEN node[Removed].left ELSE node[Removed].right

\* The node found has the key of the one that goes, the child its parent.
Adopted ==
    LET moved == [node EXCEPT ![current].key = node[Removed].key]
    IN IF Heir = Sentinel THEN moved
       ELSE [moved EXCEPT ![Heir].parent = node[Removed].parent]

\* The node that goes is unhung from its parent.
Unhung ==
    LET p == node[Removed].parent
    IN IF Removed = node[p].left THEN [Adopted EXCEPT ![p].left = Heir]
                                 ELSE [Adopted EXCEPT ![p].right = Heir]

IsBlack(f, o) == o = Sentinel \/ f[o].color = "black"

\* The test at 505: a black is missing above r.at, which is not the root.
LacksBlack(r) == ~r.done /\ r.at # r.tree.head /\ IsBlack(r.tree.node, r.at)

\* Case 1: a red sibling rises above the parent p, which becomes red.
SiblingBlack(t, p, side) ==
    LET sibling == t.node[p][Opposite(side)]
    IN IF t.node[sibling].color = "red"
       THEN Rotated(Tree(Blackened(Painted(t.node, p, "red"), sibling), t.head), p, side)
       ELSE t

\* Case 3: of the children of the sibling s only the near one is red; it rises.
FarRed(t, s, side) ==
    IF IsBlack(t.node, t.node[s][Opposite(side)])
    THEN Rotated(Tree(Blackened(Painted(t.node, s, "red"), t.node[s][side]), t.head),
                 s, Opposite(side))
    ELSE t

\* Case 4: the far child of the sibling s is red; s rises with the colour of p.
SiblingRises(t, p, s, side) ==
    Rotated(Tree(Blackened(Blackened(Painted(t.node, s, t.node[p].color), p),
                           t.node[s][Opposite(side)]), t.head),
            p, side)

LastRotation(t, p, side) == SiblingRises(t, p, t.node[p][Opposite(side)], side)

GoesOn(t, o, p) == [tree |-> t, at |-> o, parent |-> p, done |-> FALSE]
ToHead(t, p) == GoesOn(t, t.head, p)

\* Below p a black is missing on this side, and the sibling s on the other is black.
\* With black children it becomes red (case 2): that ends it or moves it up to p.
Refilled(r, t, p, s, side) ==
    IF ~ (IsBlack(t.node, t.node[s].left) /\ IsBlack(t.node, t.node[s].right))
    THEN ToHead(LastRotation(FarRed(t, s, side), p, side), p)
    ELSE IF t.node[p].color = "red"
    THEN [tree |-> Tree(Blackened(Painted(t.node, s, "red"), p), t.head),
          at |-> r.at, parent |-> p, done |-> TRUE]
    ELSE GoesOn(Tree(Painted(t.node, s, "red"), t.head), p, p)

RefillRound(r, t, p, side) == Refilled(r, t, p, t.node[p][Opposite(side)], side)

\* One round of the loop at 505.  The sentinel counts as a left child.
DeleteRound(r) ==
    LET p    == IF r.at = Sentinel THEN r.parent ELSE r.tree.node[r.at].parent
        side == IF r.at \in {r.tree.node[p].left, Sentinel} THEN "left" ELSE "right"
    IN RefillRound(r, SiblingBlack(r.tree, p, side), p, side)

\* What the rounds leave, with the node they came to painted black.
Closed(r) ==
    Tree(IF r.at = Sentinel THEN r.tree.node ELSE Blackened(r.tree.node, r.at), r.tree.head)

\* A black node has gone from below another.
Recoloured ==
    LET Round[k \in 0 .. Cardinality(Objects)] ==
            IF k = 0 THEN GoesOn(Tree(Unhung, head), Heir, node[Removed].parent)
            ELSE IF LacksBlack(Round[k - 1]) THEN DeleteRound(Round[k - 1])
                 ELSE Round[k - 1]
    IN Closed(Round[Cardinality(Objects)])

HeadBlack(t) == Tree(Blackened(t.node, t.head), t.head)

\* The tree without the node: its child is the root, or takes its colour, or a
\* black is missing.
Rest ==
    IF Removed = head
    THEN Tree(IF Heir = Sentinel THEN Adopted ELSE Blackened(Adopted, Heir), Heir)
    ELSE IF node[Removed].color = "red" \/ ~IsBlack(Adopted, Heir)
    THEN HeadBlack(Tree(IF Heir = Sentinel THEN Unhung ELSE Blackened(Unhung, Heir), head))
    ELSE HeadBlack(Recoloured)

\* Mutant: the node is not given back.
KeepsRemoved(o) == allocated

GivesBack(o) == allocated \ {o}

Delete ==
    /\ call = "delete"
    /\ current # Sentinel
    /\ node[current].key = key
    /\ head' = Rest.head
    /\ node' = Rest.node
    /\ allocated' = GivesBack(Removed)
    /\ handed' = [handed EXCEPT ![current] = handed[Removed], ![Removed] = -1]
    /\ Returns

(***************************************************************************)
(* opium_rbt_exit, and opium_rbt_init anew.                                *)
(***************************************************************************)
Exit ==
    /\ call = "none"
    /\ head # NULL
    /\ head' = NULL
    /\ allocated' = {}
    /\ handed' = [o \in Objects |-> -1]
    /\ UNCHANGED <<node, descent>>

Reopen ==
    /\ call = "none"
    /\ head = NULL
    /\ head' = Sentinel
    /\ node' = [o \in Objects |-> FreshSentinel]
    /\ allocated' = {Sentinel}
    /\ UNCHANGED <<descent, handed>>

Init ==
    /\ head = Sentinel
    /\ node = [o \in Objects |-> FreshSentinel]
    /\ allocated = {Sentinel}
    /\ handed = [o \in Objects |-> -1]
    /\ call = "none"
    /\ key = 0
    /\ parent = NULL
    /\ current = NULL

Next ==
    \/ \E k \in Keys : StartInsert(k) \/ StartDelete(k)
    \/ Descend
    \/ InsertExisting
    \/ InsertRefused
    \/ \E n \in Nodes : InsertRoot(n) \/ InsertBelow(n)
    \/ SearchOn
    \/ DeleteNothing
    \/ Delete
    \/ Exit
    \/ Reopen

Spec == Init /\ [][Next]_vars

(***************************************************************************)
(* Properties.                                                             *)
(***************************************************************************)

\* A consequence of the descent that ends one node too deep, not something the
\* tree should do (InsertedIsFound is): a search finds the root or nothing, so a
\* deletion never has to look for a successor, to relink a parent or to repair
\* black heights (opium_rbt.c:439, 458, 487, 505).
OnlyHeadIsFound ==
    call = "delete" => current \in {head, Sentinel}

\* The node below which a new one is hung is black, so the loop that repaints
\* and rotates after an insertion is never entered (opium_rbt.c:297).
NothingToRebalance ==
    call = "insert" /\ DescentEnds /\ head # Sentinel => node[parent].color = "black"

\* The slab has given out exactly the nodes the client was given and did not
\* delete, each with the key it was asked for, those the tree has lost included:
\* none leaks before opium_rbt_exit, none is given out twice (opium_rbt.c:227, 485).
NodesAreHanded ==
    head # NULL =>
        /\ allocated = {Sentinel} \cup {n \in Nodes : handed[n] # -1}
        /\ \A n \in allocated \ {Sentinel} : node[n].key = handed[n]

\* A search that finds nothing was for a key of which the client holds no node:
\* the descent finds "a location in the tree where a new node with the key can
\* be inserted" (opium_rbt.c:196).
InsertedIsFound ==
    call = "delete" /\ current = Sentinel =>
        \A n \in Nodes : handed[n] # key
===========================================================================
