------------------------------- MODULE AVLTree -------------------------------
(***************************************************************************)
(* The balanced tree of a memtable (src/avl_tree.h).  A node is a record,  *)
(* so that an operation returns the new tree instead of changing it.       *)
(***************************************************************************)
EXTENDS Integers, Sequences

nullptr == [height |-> 0]

Node(key, value) == [key |-> key, value |-> value, left |-> nullptr,
                     right |-> nullptr, height |-> 1]

Height(node) == IF node = nullptr THEN 0 ELSE node.height

BalanceFactor(node) ==
  IF node = nullptr THEN 0 ELSE Height(node.left) - Height(node.right)

UpdateHeight(node) ==
  LET lh == Height(node.left)
      rh == Height(node.right)
  IN  [node EXCEPT !.height = 1 + (IF lh > rh THEN lh ELSE rh)]

RotateRight(y) ==
  LET x == y.left
  IN  UpdateHeight([x EXCEPT !.right = UpdateHeight([y EXCEPT !.left = x.right])])

\* Mutant: the height of the node that goes down is not brought up to date.
RotateLeftStale(x) ==
  LET y == x.right
  IN  UpdateHeight([y EXCEPT !.left = [x EXCEPT !.right = y.left]])

RotateLeft(x) ==
  LET y == x.right
  IN  UpdateHeight([y EXCEPT !.left = UpdateHeight([x EXCEPT !.right = y.left])])

Balance(node) ==
  LET n == UpdateHeight(node)
      bf == BalanceFactor(n)
  IN  CASE bf > 1 ->
             RotateRight(IF BalanceFactor(n.left) < 0
                           THEN [n EXCEPT !.left = RotateLeft(@)] ELSE n)
        [] bf < -1 ->
             RotateLeft(IF BalanceFactor(n.right) > 0
                          THEN [n EXCEPT !.right = RotateRight(@)] ELSE n)
        [] OTHER -> n

\* The tree, and whether a node was created.
RECURSIVE Insert(_, _, _)
Insert(node, key, value) ==
  IF node = nullptr THEN [node |-> Node(key, value), inserted |-> TRUE]
  ELSE IF key < node.key THEN
    LET below == Insert(node.left, key, value)
    IN  [below EXCEPT !.node = Balance([node EXCEPT !.left = below.node])]
  ELSE IF node.key < key THEN
    LET below == Insert(node.right, key, value)
    IN  [below EXCEPT !.node = Balance([node EXCEPT !.right = below.node])]
  ELSE [node |-> [node EXCEPT !.value = value], inserted |-> FALSE]

RECURSIVE FindMin(_)
FindMin(node) == IF node.left = nullptr THEN node ELSE FindMin(node.left)

\* The tree, and whether the key was there.
RECURSIVE Remove(_, _)
Remove(node, key) ==
  IF node = nullptr THEN [node |-> nullptr, found |-> FALSE]
  ELSE IF key < node.key THEN
    LET below == Remove(node.left, key)
    IN  [below EXCEPT !.node = Balance([node EXCEPT !.left = below.node])]
  ELSE IF node.key < key THEN
    LET below == Remove(node.right, key)
    IN  [below EXCEPT !.node = Balance([node EXCEPT !.right = below.node])]
  ELSE IF node.left = nullptr THEN [node |-> node.right, found |-> TRUE]
  ELSE IF node.right = nullptr THEN [node |-> node.left, found |-> TRUE]
  ELSE LET successor == FindMin(node.right)
           below == Remove(node.right, successor.key)
       IN  [node |-> Balance([node EXCEPT !.key = successor.key,
                                          !.value = successor.value,
                                          !.right = below.node]),
            found |-> TRUE]

\* The node of a key, or nullptr.
RECURSIVE Find(_, _)
Find(node, key) ==
  IF node = nullptr THEN nullptr
  ELSE IF key < node.key THEN Find(node.left, key)
  ELSE IF node.key < key THEN Find(node.right, key)
  ELSE node

(* The iterator is a stack of nodes, the top one first. *)
RECURSIVE PushLeft(_, _)
PushLeft(stack, node) ==
  IF node = nullptr THEN stack ELSE PushLeft(<<node>> \o stack, node.left)

\* Mutant: the right subtree of a node is left out.
AdvanceInSpine(stack) == Tail(stack)

\* Mutant: it is put behind the nodes that wait.
AdvanceQueued(stack) == Tail(stack) \o PushLeft(<< >>, Head(stack).right)

\* operator++
Advance(stack) == PushLeft(Tail(stack), Head(stack).right)

-----------------------------------------------------------------------------
(* What makes a tree an AVL tree. *)

RECURSIVE Nodes(_)
Nodes(node) == IF node = nullptr THEN {}
               ELSE {node} \cup Nodes(node.left) \cup Nodes(node.right)

RECURSIVE TrueHeight(_)
TrueHeight(node) ==
  IF node = nullptr THEN 0
  ELSE LET lh == TrueHeight(node.left)
           rh == TrueHeight(node.right)
       IN  1 + (IF lh > rh THEN lh ELSE rh)

Ordered(node) ==
  /\ \A n \in Nodes(node.left) : n.key < node.key
  /\ \A n \in Nodes(node.right) : node.key < n.key

IsAVLTree(root) ==
  \A node \in Nodes(root) :
    /\ Ordered(node)
    /\ node.height = TrueHeight(node)
    /\ BalanceFactor(node) \in -1 .. 1
=============================================================================
