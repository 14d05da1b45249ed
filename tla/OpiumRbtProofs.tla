-------------------------- MODULE OpiumRbtProofs --------------------------
(***************************************************************************)
(* The safety properties of OpiumRbt, for every set of nodes and of keys.  *)
(***************************************************************************)
EXTENDS OpiumRbt, TLAPS

Node == [parent : Objects \cup {NULL}, left : Objects, right : Objects,
         key : Nat, color : {"red", "black"}]

RbtTypeOK ==
    /\ head \in Objects \cup {NULL}
    /\ node \in [Objects -> Node]
    /\ allocated \subseteq Objects
    /\ handed \in [Objects -> Int]
    /\ call \in {"none", "insert", "delete"}
    /\ key \in Nat

\* Nothing hangs below the root, and to the left of the sentinel there is
\* nothing either; all that is not a root hangs to the right of the sentinel.
ShapeInv ==
    /\ node[Sentinel].left = Sentinel
    /\ node[Sentinel].parent = Sentinel
    /\ node[Sentinel].key = 0
    /\ node[Sentinel].color = "black"
    /\ head \in Nodes =>
          /\ node[head].left = Sentinel
          /\ node[head].right = Sentinel
          /\ handed[head] # -1

\* Where a descent may be.
DescentInv ==
    /\ call # "none" => head # NULL
    /\ call = "insert" => \/ parent = NULL /\ current = head
                          \/ parent = head /\ head \in Nodes /\ current = Sentinel
                          \/ parent = Sentinel
    /\ call = "delete" => current \in {head, Sentinel}

\* What the client holds of an open tree is what the slab has served.
HandedInv ==
    /\ NodesAreHanded
    /\ head = NULL => handed = [o \in Objects |-> -1]

RbtInv == RbtTypeOK /\ ShapeInv /\ DescentInv /\ HandedInv

\* The invariant holds initially.
LEMMA RbtInit == Init => RbtInv
BY NodesAssumption DEF Init, RbtInv, RbtTypeOK, ShapeInv, DescentInv, HandedInv,
   NodesAreHanded, Objects, Node, FreshSentinel, SentinelKey

\* Every action of opium_rbt_insert, opium_rbt_delete and opium_rbt_exit keeps it.
LEMMA RbtNext == RbtInv /\ [Next]_vars => RbtInv'
<1> SUFFICES ASSUME RbtInv, [Next]_vars PROVE RbtInv'
  OBVIOUS
<1> USE NodesAssumption, KeysAssumption DEF RbtInv, RbtTypeOK, Objects
<1>1. ASSUME NEW k \in Keys, StartInsert(k) \/ StartDelete(k) PROVE RbtInv'
  BY <1>1 DEF StartInsert, StartDelete, ShapeInv, DescentInv, HandedInv, NodesAreHanded
<1>2. CASE Descend
  BY <1>2 DEF Descend, DescentEnds, Child, ShapeInv, DescentInv, HandedInv, NodesAreHanded
<1>3. CASE InsertExisting
  <2>1. current \in {head, Sentinel} /\ head # NULL
    BY <1>3 DEF InsertExisting, DescentEnds, DescentInv
  <2>2. ~IsRedBelowRed(Tree(node, head), current)
    BY <2>1 DEF IsRedBelowRed, Tree, ShapeInv
  <2>3. Rebalanced(Tree(node, head), current) = [tree |-> Tree(node, head), at |-> current]
    BY <2>2 DEF Rebalanced
  <2>4. head' = head /\ node' = Blackened(node, head)
        /\ handed' = [handed EXCEPT ![current] = key] /\ call' = "none"
        /\ UNCHANGED <<allocated, key, parent, current>>
    <3> DEFINE last == Rebalanced(Tree(node, head), current)
    <3>1. /\ head' = last.tree.head
          /\ node' = Blackened(last.tree.node, last.tree.head)
          /\ handed' = [handed EXCEPT ![last.at] = key]
          /\ call' = "none"
          /\ UNCHANGED <<allocated, key, parent, current>>
      BY <1>3 DEF InsertExisting, Returns
    <3>2. last.tree = Tree(node, head) /\ last.at = current
      BY <2>3
    <3>3. last.tree.node = node /\ last.tree.head = head
      BY <3>2 DEF Tree
    <3> HIDE DEF last
    <3>4. QED
      BY <3>1, <3>2, <3>3
  <2>5. [node[head] EXCEPT !.color = "black"] \in Node
    BY <2>1 DEF Node
  <2>6. node' \in [Objects -> Node]
    BY <2>4, <2>5 DEF Blackened, Painted
  <2>7. node[current].key = key
    BY <1>3 DEF InsertExisting
  <2>8. \A o \in Objects : /\ node'[o].left = node[o].left
                           /\ node'[o].right = node[o].right
                           /\ node'[o].parent = node[o].parent
                           /\ node'[o].key = node[o].key
    BY <2>1, <2>4 DEF Blackened, Painted, Node
  <2>9. node'[Sentinel].color = "black"
    BY <2>1, <2>4 DEF Blackened, Painted, Node, ShapeInv
  <2>10. RbtTypeOK'
    BY <2>1, <2>4, <2>6
  <2>11. ShapeInv' /\ DescentInv'
    BY <2>1, <2>4, <2>8, <2>9 DEF ShapeInv, DescentInv
  <2>12. HandedInv'
    BY <2>1, <2>4, <2>7, <2>8 DEF HandedInv, NodesAreHanded, ShapeInv
  <2>13. QED
    BY <2>10, <2>11, <2>12
<1>4. CASE InsertRefused
  BY <1>4 DEF InsertRefused, Returns, ShapeInv, DescentInv, HandedInv, NodesAreHanded
<1>5. ASSUME NEW n \in Nodes, InsertRoot(n) PROVE RbtInv'
  BY <1>5 DEF InsertRoot, Serves, Returns, NewNode, Blackened, Painted, Node, ShapeInv, DescentInv,
     HandedInv, NodesAreHanded
<1>6. ASSUME NEW n \in Nodes, InsertBelow(n) PROVE RbtInv'
  <2>1. head \in Nodes /\ n # head /\ n # Sentinel /\ ~(key < node[parent].key)
    BY <1>6 DEF InsertBelow, Serves, DescentEnds, DescentInv, ShapeInv, HandedInv, NodesAreHanded
  <2> DEFINE hung == [node EXCEPT ![n] = NewNode(Sentinel, key)]
             below == [hung EXCEPT ![Sentinel].right = n]
  <2>a. parent = Sentinel
    BY <1>6 DEF InsertBelow, Serves, DescentEnds
  <2>b. Attached(n) = below
    BY <2>1, <2>a DEF Attached
  <2>c. ~IsRedBelowRed(Tree(below, head), n)
    <3>1. below[n].parent = Sentinel
      BY <2>1 DEF NewNode
    <3>2. below[Sentinel].color = "black"
      BY <2>1 DEF ShapeInv, Node
    <3>3. QED
      BY <3>1, <3>2 DEF IsRedBelowRed, Tree
  <2>d. Rebalanced(Tree(below, head), n) = [tree |-> Tree(below, head), at |-> n]
    BY <2>c DEF Rebalanced
  <2>2. /\ node' = Blackened(below, head) /\ head' = head
        /\ handed' = [handed EXCEPT ![n] = key]
    <3> HIDE DEF below
    <3> DEFINE last == Rebalanced(Tree(Attached(n), head), n)
    <3>1. /\ head' = last.tree.head
          /\ node' = Blackened(last.tree.node, last.tree.head)
          /\ handed' = [handed EXCEPT ![last.at] = key]
      BY <1>6 DEF InsertBelow
    <3>2. last.tree = Tree(below, head) /\ last.at = n
      BY <2>b, <2>d
    <3>3. last.tree.node = below /\ last.tree.head = head
      BY <3>2 DEF Tree
    <3> HIDE DEF last
    <3>4. QED
      BY <3>1, <3>2, <3>3
  <2>3. hung \in [Objects -> Node] /\ below \in [Objects -> Node]
    <3>1. NewNode(Sentinel, key) \in Node
      BY DEF NewNode, Node
    <3>2. hung \in [Objects -> Node]
      BY <3>1
    <3>3. [hung[Sentinel] EXCEPT !.right = n] \in Node
      BY <3>2 DEF Node
    <3>4. QED
      BY <3>2, <3>3
  <2>4. node' \in [Objects -> Node]
    <3>1. [below[head] EXCEPT !.color = "black"] \in Node
      BY <2>1, <2>3 DEF Node
    <3>2. QED
      BY <2>2, <2>3, <3>1 DEF Blackened, Painted
  <2>5. /\ \A o \in Nodes \ {n} : /\ node'[o].left = node[o].left
                                  /\ node'[o].right = node[o].right
                                  /\ node'[o].key = node[o].key
        /\ node'[Sentinel].left = node[Sentinel].left
        /\ node'[Sentinel].parent = node[Sentinel].parent
        /\ node'[Sentinel].key = node[Sentinel].key
        /\ node'[Sentinel].color = node[Sentinel].color
        /\ node'[n].key = key
    BY <2>1, <2>2, <2>3 DEF NewNode, Blackened, Painted, Node
  <2>6. /\ head' = head /\ key' = key /\ call' = "none"
        /\ allocated' = allocated \cup {n}
        /\ handed' = [handed EXCEPT ![n] = key]
        /\ n \notin allocated
    BY <1>6, <2>2 DEF InsertBelow, Serves, Returns
  <2>7. handed' \in [Objects -> Int] /\ handed'[n] = key
        /\ \A o \in Objects \ {n} : handed'[o] = handed[o]
    BY <2>6
  <2>8. RbtTypeOK'
    BY <2>4, <2>6, <2>7
  <2>9. ShapeInv'
    BY <2>1, <2>5, <2>6, <2>7 DEF ShapeInv
  <2>10. DescentInv'
    BY <2>6 DEF DescentInv
  <2>11. HandedInv'
    <3>1. allocated' = {Sentinel} \cup {o \in Nodes : handed'[o] # -1}
      BY <2>1, <2>6, <2>7 DEF HandedInv, NodesAreHanded
    <3>2. \A o \in allocated' \ {Sentinel} : node'[o].key = handed'[o]
      BY <2>1, <2>5, <2>6, <2>7 DEF HandedInv, NodesAreHanded
    <3>3. QED
      BY <2>1, <2>6, <3>1, <3>2 DEF HandedInv, NodesAreHanded
  <2>12. QED
    BY <2>8, <2>9, <2>10, <2>11
<1>7. CASE SearchOn
  BY <1>7 DEF SearchOn, Child, ShapeInv, DescentInv, HandedInv, NodesAreHanded
<1>8. CASE DeleteNothing
  BY <1>8 DEF DeleteNothing, Returns, ShapeInv, DescentInv, HandedInv, NodesAreHanded
<1>9. CASE Delete
  <2>1. head \in Nodes /\ current = head /\ node[head].left = Sentinel /\ node[head].right = Sentinel
    BY <1>9 DEF Delete, DescentInv, ShapeInv
  <2>2. Removed = head /\ Heir = Sentinel
    <3>1. Removed = head
      BY <2>1 DEF Removed
    <3>2. QED
      BY <2>1, <3>1 DEF Heir
  <2>3. Adopted = node
    BY <2>1, <2>2 DEF Adopted, Node
  <2>4. Rest = Tree(node, Sentinel)
    BY <2>2, <2>3 DEF Rest
  <2>5. head' = Sentinel /\ node' = node /\ allocated' = allocated \ {head}
        /\ handed' = [handed EXCEPT ![head] = -1] /\ call' = "none" /\ UNCHANGED key
    BY <1>9, <2>1, <2>2, <2>4 DEF Delete, Returns, Tree, GivesBack
  <2>6. handed' \in [Objects -> Int] /\ handed'[head] = -1
        /\ \A o \in Objects \ {head} : handed'[o] = handed[o]
    BY <2>1, <2>5
  <2>7. RbtTypeOK'
    BY <2>5, <2>6
  <2>8. ShapeInv' /\ DescentInv'
    BY <2>5 DEF ShapeInv, DescentInv
  <2>9. HandedInv'
    BY <2>1, <2>5, <2>6 DEF HandedInv, NodesAreHanded
  <2>10. QED
    BY <2>7, <2>8, <2>9
<1>10. CASE Exit
  BY <1>10 DEF Exit, descent, ShapeInv, DescentInv, HandedInv, NodesAreHanded
<1>11. CASE Reopen
  BY <1>11 DEF Reopen, descent, FreshSentinel, SentinelKey, Node, ShapeInv, DescentInv,
     HandedInv, NodesAreHanded
<1>12. CASE UNCHANGED vars
  BY <1>12 DEF vars, descent, ShapeInv, DescentInv, HandedInv, NodesAreHanded
<1>13. QED
  BY <1>1, <1>2, <1>3, <1>4, <1>5, <1>6, <1>7, <1>8, <1>9, <1>10, <1>11, <1>12 DEF Next

\* The invariant holds always.
THEOREM RbtInvariant == Spec => []RbtInv
  BY RbtInit, RbtNext, PTL DEF Spec

\* A search in opium_rbt_delete ends at the root or at the sentinel, whatever was
\* inserted: the code for successors and black heights is never reached.
THEOREM RbtOnlyHeadIsFound == Spec => []OnlyHeadIsFound
<1>1. RbtInv => OnlyHeadIsFound
  BY DEF RbtInv, DescentInv, OnlyHeadIsFound
<1>2. QED
  BY <1>1, RbtInvariant, PTL

\* No insertion in opium_rbt_insert leaves a red node below a red one.
THEOREM RbtNothingToRebalance == Spec => []NothingToRebalance
<1>1. RbtInv => NothingToRebalance
  BY DEF RbtInv, ShapeInv, DescentEnds, NothingToRebalance
<1>2. QED
  BY <1>1, RbtInvariant, PTL

\* The slab of the tree has served exactly the nodes that the client holds.
THEOREM RbtNodesAreHanded == Spec => []NodesAreHanded
<1>1. RbtInv => NodesAreHanded
  BY DEF RbtInv, HandedInv
<1>2. QED
  BY <1>1, RbtInvariant, PTL
===========================================================================
