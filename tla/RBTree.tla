-------------------------------- MODULE RBTree --------------------------------
(***************************************************************************)
(* The red-black tree CRBTree with its pool of nodes.  A node is named by  *)
(* the datum it holds: its address matters to nobody, and Del moves a      *)
(* datum to another node, which takes the name.  The mirrored halves of    *)
(* the code are one definition with a side.  m_bData_Free is FALSE: Del    *)
(* would release the datum it moved (RBTree.h:224), and the trace, whose   *)
(* tree owns its data, never calls it.                                     *)
(***************************************************************************)
EXTENDS Integers, FiniteSets

CONSTANTS
  Data, KeyOf,      \* what is stored; Is_Qual and Is_Key_Less compare its integer key
  Nil, NoData,      \* the sentinel m_pNIL, and NULL
  NodeSegment,      \* m_dwPool_Size
  MaxNodeSegments   \* bound: segments there is memory for

ASSUME RBTreeAssumption ==
  /\ KeyOf \in [Data -> Int]
  /\ Nil \notin Data /\ NoData \notin Data \cup {Nil}
  /\ NodeSegment \in Nat \ {0} /\ MaxNodeSegments \in Nat

VARIABLES
  tree,             \* m_pRoot, and the node of each datum and of the sentinel
  spareNodes,       \* how many nodes hang at m_pPool_Node_First
  nodeSegments,     \* how many segments hang at m_pPool_First
  found             \* what the last call asked for and returned, NULL if nothing

treeVars == <<tree, spareNodes, nodeSegments, found>>

Keys == {KeyOf[d] : d \in Data}
Answer(k, d) == [key |-> k, datum |-> d]
Sides == {"left", "right"}
Other(s) == IF s = "left" THEN "right" ELSE "left"

NewNode(parent, red) == [child |-> [s \in Sides |-> Nil], parent |-> parent, red |-> red]

Child(t, n, s) == t.node[n].child[s]
Parent(t, n)   == t.node[n].parent
Red(t, n)      == t.node[n].red
Stored(t)      == DOMAIN t.node \ {Nil}

\* On which side of n key k belongs
Toward(k, n) == IF k < KeyOf[n] THEN "left" ELSE "right"

\* On which side of its parent a node hangs; == with pLeft is what the code tests.
SideOf(t, n) == IF n = Child(t, Parent(t, n), "left") THEN "left" ELSE "right"

\* What hung at parent p as n is now m.
Replace(t, p, n, m) ==
  IF p = NoData THEN [t EXCEPT !.root = m]
  ELSE [t EXCEPT !.node[p].child[IF n = Child(t, p, "left") THEN "left" ELSE "right"] = m]

SetParent(t, n, p) == [t EXCEPT !.node[n].parent = p]
Paint(t, n, red)   == [t EXCEPT !.node[n].red = red]

\* The trees over some nodes (the sentinel may keep a parent that is gone), and such
\* a tree with the node that a repair is at
TreesOver(nodes) ==
  [root : nodes,
   node : [nodes -> [child : [Sides -> nodes], parent : Data \cup {NoData}, red : BOOLEAN]]]
RepairsOf(t) == [tree : TreesOver(DOMAIN t.node), node : DOMAIN t.node]
Repair(t, n) == [tree |-> t, node |-> n]

\* What a loop makes of x in that many rounds; a round changes nothing at the end.
\* No loop over a tree takes more rounds than it has nodes.
Looped(round, x, rounds) ==
  LET after[k \in 0 .. rounds] == IF k = 0 THEN x ELSE round[after[k - 1]] IN after[rounds]
Rounds(t) == Cardinality(Stored(t))

-----------------------------------------------------------------------------
(* Rotations and repairs.                                                  *)

\* c hangs at side s of n.  The sentinel does not learn of it.
Hang(t, n, s, c) ==
  [t EXCEPT !.node[n].child[s] = c, !.node[c].parent = IF c = Nil THEN @ ELSE n]

\* Rotate_Left and Rotate_Right
Rotate(t, n, s) ==
  LET p  == Parent(t, n)
      r  == Child(t, n, Other(s))
      t1 == Hang(t, n, Other(s), Child(t, r, s))
      t2 == IF r = Nil THEN t1 ELSE SetParent(t1, r, p)
  IN Hang(Replace(t2, p, n, r), r, s, n)

\* The parent of n, which is red too, takes the place of its parent.
Lifted(t, n, s) ==
  LET p == Parent(t, n)
      g == Parent(t, p)
  IN Rotate(Paint(Paint(t, p, FALSE), g, TRUE), g, Other(s))

\* n is red, and so may be its parent.
PushRound(t, n) ==
  LET p == Parent(t, n)
      g == Parent(t, p)
      s == SideOf(t, p)
      uncle == Child(t, g, Other(s))
  IN IF n = t.root \/ ~Red(t, p) THEN Repair(t, n)
     ELSE IF Red(t, uncle)
     THEN Repair(Paint(Paint(Paint(t, p, FALSE), uncle, FALSE), g, TRUE), g)
     ELSE IF n = Child(t, p, Other(s)) THEN Repair(Lifted(Rotate(t, p, s), p, s), p)
     ELSE Repair(Lifted(t, n, s), n)

FixPush(t, n) ==
  LET end == Looped([a \in RepairsOf(t) |-> PushRound(a.tree, a.node)], Repair(t, n), Rounds(t))
  IN Paint(end.tree, end.tree.root, FALSE)

\* Below p, the brother of the child at side s becomes black, ...
BrotherBlack(t, p, s) ==
  LET b == Child(t, p, Other(s)) IN
  IF Red(t, b) THEN Rotate(Paint(Paint(t, b, FALSE), p, TRUE), p, s) ELSE t

\* ... his child on the other side red, ...
NephewRed(t, p, s) ==
  LET b == Child(t, p, Other(s)) IN
  IF Red(t, Child(t, b, Other(s))) THEN t
  ELSE Rotate(Paint(Paint(t, Child(t, b, s), FALSE), b, TRUE), b, Other(s))

\* ... and he takes the place of p.
BrotherLifted(t, p, s) ==
  LET b == Child(t, p, Other(s)) IN
  Rotate(Paint(Paint(Paint(t, b, Red(t, p)), p, FALSE), Child(t, b, Other(s)), FALSE), p, s)

\* The paths through n lack one black node.
DelRound(t, n) ==
  LET p == Parent(t, n)
      s == SideOf(t, n)
      u == BrotherBlack(t, p, s)
      b == Child(u, p, Other(s))
      end == BrotherLifted(NephewRed(u, p, s), p, s)
  IN IF n = t.root \/ Red(t, n) THEN Repair(t, n)
     ELSE IF \A c \in Sides : ~Red(u, Child(u, b, c)) THEN Repair(Paint(u, b, TRUE), p)
     ELSE Repair(end, end.root)

FixDel(t, n) ==
  LET end == Looped([a \in RepairsOf(t) |-> DelRound(a.tree, a.node)], Repair(t, n), Rounds(t))
  IN Paint(end.tree, end.node, FALSE)

-----------------------------------------------------------------------------
(* The walks.                                                              *)

\* The node of key k, or the sentinel, and the node it hangs at
Descend(t, k) ==
  LET nodes == DOMAIN t.node
      Sought(n) == n = Nil \/ KeyOf[n] = k
      round == [at \in [node : nodes, parent : nodes \cup {NoData}] |->
                  IF Sought(at.node) THEN at
                  ELSE [node |-> Child(t, at.node, Toward(k, at.node)), parent |-> at.node]]
  IN Looped(round, [node |-> t.root, parent |-> NoData], Rounds(t))

Leftmost(t, n) ==
  LET round == [m \in Stored(t) |-> IF Child(t, m, "left") = Nil THEN m ELSE Child(t, m, "left")]
  IN Looped(round, n, Rounds(t))

\* The nodes that a walk from the root visits, with their depths, as Get_Depth counts
\* them, and how many nodes above them are black
Visits(t) ==
  LET Under(v) == [node : {Child(t, v.node, s) : s \in Sides},
                  depth : {v.depth + 1},
                  blacks : {v.blacks + (IF Red(t, v.node) THEN 0 ELSE 1)}]
      round == [seen \in SUBSET [node : DOMAIN t.node, depth : Nat, blacks : Nat] |->
                  seen \cup UNION {Under(v) : v \in {w \in seen : w.node # Nil}}]
  IN Looped(round, {[node |-> t.root, depth |-> 1, blacks |-> 0]}, Rounds(t))

\* The nodes that Clear visits
Reached(t) == {v.node : v \in Visits(t)} \ {Nil}

\* Get_Depth: the depths of the nodes without children
LeafDepths(t) ==
  {v.depth : v \in {w \in Visits(t) : w.node # Nil /\ \A s \in Sides : Child(t, w.node, s) = Nil}}

\* The numbers of black nodes on the ways to the sentinel
BlackHeights(t) == {v.blacks : v \in {w \in Visits(t) : w.node = Nil}}

-----------------------------------------------------------------------------
TreeInit ==
  /\ tree = [root |-> Nil, node |-> [n \in {Nil} |-> NewNode(NoData, FALSE)]]
  /\ spareNodes = 0 /\ nodeSegments = 0
  /\ found = NoData

PoolSegmentCreate ==
  /\ nodeSegments < MaxNodeSegments
  /\ nodeSegments' = nodeSegments + 1

\* Node_Allocate makes a segment when there is no spare node, and takes one.
NodeAllocate ==
  \/ spareNodes > 0 /\ spareNodes' = spareNodes - 1 /\ UNCHANGED nodeSegments
  \/ spareNodes = 0 /\ PoolSegmentCreate /\ spareNodes' = NodeSegment - 1

\* Node_Free, n times
NodeFree(n) == spareNodes' = spareNodes + n /\ UNCHANGED nodeSegments

\* The tree with a red node for d at the end of the search
Hung(t, d, parent) ==
  LET added == [t EXCEPT !.node = [n \in DOMAIN t.node \cup {d} |->
                                     IF n = d THEN NewNode(parent, TRUE) ELSE t.node[n]]]
  IN IF parent = NoData THEN [added EXCEPT !.root = d]
     ELSE [added EXCEPT !.node[parent].child[Toward(KeyOf[d], parent)] = d]

Push(d) ==
  LET end == Descend(tree, KeyOf[d]) IN
  \/ end.node # Nil /\ found' = Answer(KeyOf[d], end.node) /\ UNCHANGED <<tree, spareNodes, nodeSegments>>
  \/ /\ end.node = Nil /\ NodeAllocate
     /\ tree' = FixPush(Hung(tree, d, end.parent), d)
     /\ found' = Answer(KeyOf[d], d)
  \/ /\ end.node = Nil /\ spareNodes = 0 /\ nodeSegments = MaxNodeSegments
     /\ found' = Answer(KeyOf[d], NoData)
     /\ UNCHANGED <<tree, spareNodes, nodeSegments>>

Find(k) ==
  /\ found' = LET end == Descend(tree, k)
              IN Answer(k, IF end.node = Nil THEN NoData ELSE end.node)
  /\ UNCHANGED <<tree, spareNodes, nodeSegments>>

\* Mutant: the search for the successor begins on the wrong side.
UnlinkedLeft(t, d) ==
  IF \E s \in Sides : Child(t, d, s) = Nil THEN d ELSE Leftmost(t, Child(t, d, "left"))

\* The node that is unlinked: that of d, or of its successor when d has two children
Unlinked(t, d) ==
  IF \E s \in Sides : Child(t, d, s) = Nil THEN d ELSE Leftmost(t, Child(t, d, "right"))

\* The datum of y moves to the node of d, and the node of y is free.
Moved(t, d, y) ==
  LET now(n) == IF n = d THEN y ELSE n
      was(n) == IF n = y THEN d ELSE n
  IN [root |-> now(t.root),
      node |-> [n \in DOMAIN t.node \ {d} |->
                  [child  |-> [s \in Sides |-> now(Child(t, was(n), s))],
                   parent |-> now(Parent(t, was(n))),
                   red    |-> Red(t, was(n))]]]

\* Mutant: the tree is only repaired when a datum was moved.
RemovedCareless(t, d) ==
  LET y == Unlinked(t, d)
      x == Child(t, y, IF Child(t, y, "left") # Nil THEN "left" ELSE "right")
      cut == Replace(SetParent(t, x, Parent(t, y)), Parent(t, y), y, x)
  IN IF Red(t, y) \/ y = d THEN Moved(cut, d, y) ELSE FixDel(Moved(cut, d, y), x)

Removed(t, d) ==
  LET y == Unlinked(t, d)
      x == Child(t, y, IF Child(t, y, "left") # Nil THEN "left" ELSE "right")
      cut == Replace(SetParent(t, x, Parent(t, y)), Parent(t, y), y, x)
  IN IF Red(t, y) THEN Moved(cut, d, y) ELSE FixDel(Moved(cut, d, y), x)

Del(d) ==
  /\ d \in Stored(tree)
  /\ tree' = Removed(tree, d)
  /\ NodeFree(1)
  /\ found' = NoData

TreeClear ==
  /\ tree' = [root |-> Nil, node |-> [n \in {Nil} |-> tree.node[Nil]]]
  /\ NodeFree(Cardinality(Reached(tree)))
  /\ found' = NoData

TreeNext ==
  \/ \E d \in Data : Push(d) \/ Del(d)
  \/ \E k \in Keys : Find(k)
  \/ TreeClear

TreeSpec == TreeInit /\ [][TreeNext]_treeVars

-----------------------------------------------------------------------------
(* Properties.                                                             *)

\* Every node is where its parent says, and reached from the root.
LinksAgree ==
  /\ tree.root # Nil => Parent(tree, tree.root) = NoData
  /\ \A n \in Stored(tree), s \in Sides :
       Child(tree, n, s) # Nil => Parent(tree, Child(tree, n, s)) = n
  /\ Reached(tree) = Stored(tree)

ColoursBalance ==
  /\ ~Red(tree, tree.root) /\ ~Red(tree, Nil)
  /\ \A n \in Stored(tree), s \in Sides : Red(tree, n) => ~Red(tree, Child(tree, n, s))
  /\ Cardinality(BlackHeights(tree)) = 1

\* "Depth error" of the test at the end of RBTree.h
DepthsAreClose ==
  \A a, b \in LeafDepths(tree) : b <= 2 * a

NodesAreConserved ==
  spareNodes + Cardinality(Stored(tree)) = nodeSegments * NodeSegment

\* Whatever is stored and deleted, in whatever order: the links of the tree agree
\* both ways, it is balanced, no leaf is twice as deep as another, and each node
\* of the pool is in the tree or spare.
TreeIsSound == LinksAgree /\ ColoursBalance /\ DepthsAreClose /\ NodesAreConserved

\* The datum of each key
Held(t) ==
  [k \in Keys |-> IF \E d \in Stored(t) : KeyOf[d] = k
                 THEN CHOOSE d \in Stored(t) : KeyOf[d] = k ELSE NoData]

\* The tree is the dictionary its users take it for: a search finds the datum of
\* the key and nothing else, as long as it is not deleted.
AsDictionary == INSTANCE Dictionary WITH answer <- found, held <- Held(tree)

TreeIsDictionary == AsDictionary!Spec
=============================================================================
