------------------------------ MODULE AvlTree -------------------------------
(***************************************************************************)
(* The AVL tree of src/common/avl-tree.c as the hash map of hash-map.c     *)
(* uses it: the key of a node is the hash of what the caller stores, two   *)
(* callers' keys may collide, and the map never compares the keys          *)
(* themselves, so the tree holds several nodes with one key.               *)
(*                                                                         *)
(* The heap is kept as the code keeps it, a record for each node.  A       *)
(* recursive function of the code is an operator of the heap it is called  *)
(* with; applied to the root of a subtree it gives the heap afterwards and *)
(* the root the code returns.  Each of them calls itself before it writes  *)
(* anything, so one heap serves the whole descent.  tree_insert and        *)
(* node_init have no return statement: in the unoptimised build of the     *)
(* repository the value of the last call is what the caller gets, and this *)
(* is what is modelled.                                                    *)
(*                                                                         *)
(* The parent of a node is NULL until a rotation or a removal sets it, and *)
(* tree_rotate_left sets it from a variable that has no value: Wild, which *)
(* a walk along the parents reads through.                                 *)
(* The data of a node is left out: nothing in the tree moves it from one   *)
(* node to another.                                                        *)
(***************************************************************************)
EXTENDS Integers, Sequences, SequencesExt

CONSTANTS
  Nodes,      \* the addresses the allocator may return, positive numbers
  Keys        \* the hashes

ASSUME TreeAssumption ==
  Nodes \subseteq Nat \ {0} /\ IsFiniteSet(Nodes) /\ Keys \subseteq Int /\ Keys # {}

VARIABLES
  heap,       \* the nodes: key, left, right, parent, height
  root,       \* struct avl_tree
  held,       \* the nodes that are allocated
  stored,     \* how many entries the caller has stored under each key
  tree_up     \* FALSE after avl_tree_deinit

treevars == <<heap, root, held, stored, tree_up>>

Null == 0
Wild == -1       \* a pointer without a value
Undefined == -2  \* what a function gives that reads through such a pointer
Links == Nodes \cup {Null}
Blank == [key |-> CHOOSE k \in Keys : TRUE, left |-> Null, right |-> Null, parent |-> Null, height |-> 0]

Heaps == [Nodes -> [key : Keys, left : Links, right : Links, parent : Links \cup {Wild}, height : Nat]]

\* A type-correct state of the tree.
TreeTypeOK ==
  /\ heap \in Heaps
  /\ root \in Links
  /\ held \subseteq Nodes
  /\ stored \in [Keys -> 0..Cardinality(Nodes)]
  /\ tree_up \in BOOLEAN

\* avl_tree_init, hash_map_init
TreeInit ==
  /\ heap = [n \in Nodes |-> Blank] /\ root = Null /\ held = {}
  /\ stored = [k \in Keys |-> 0] /\ tree_up = TRUE

-----------------------------------------------------------------------------
NodeHeight(h, n) == IF n = Null THEN 0 ELSE h[n].height

BalanceFactor(h, n) == NodeHeight(h, h[n].right) - NodeHeight(h, h[n].left)

FixHeight(h, n) ==
  [h EXCEPT ![n].height = Max({NodeHeight(h, h[n].left), NodeHeight(h, h[n].right)}) + 1]

\* if (n) n->parent = p;
SetParent(h, n, p) == IF n = Null THEN h ELSE [h EXCEPT ![n].parent = p]

\* A heap and the root of the subtree a function returns.
Sub(h, n) == [heap |-> h, root |-> n]

\* p->left = ..., p->right = ..., with what a function returns
SetLeft(sub, p) == [sub.heap EXCEPT ![p].left = sub.root]
SetRight(sub, p) == [sub.heap EXCEPT ![p].right = sub.root]

TreeRotateRight(h, p) ==
  LET q  == h[p].left
      h1 == [h EXCEPT ![p].left = h[q].right, ![q].right = p, ![q].parent = h[p].parent]
      h2 == SetParent(SetParent(h1, h1[p].left, p), p, q)
  IN Sub(FixHeight(FixHeight(h2, p), q), q)

\* The parent of the new root is copied from q_parent, which has no value.
TreeRotateLeft(h, q) ==
  LET p  == h[q].right
      h1 == [h EXCEPT ![q].right = h[p].left, ![p].left = q, ![p].parent = Wild]
      h2 == SetParent(SetParent(h1, h1[q].right, q), q, p)
  IN Sub(FixHeight(FixHeight(h2, q), p), p)

\* Mutant: no double rotation.
BalanceOnce(h, n) ==
  LET g == FixHeight(h, n) IN
  CASE BalanceFactor(g, n) = 2  -> TreeRotateLeft(g, n)
    [] BalanceFactor(g, n) = -2 -> TreeRotateRight(g, n)
    [] OTHER                    -> Sub(g, n)

TreeBalance(h, n) ==
  LET g == FixHeight(h, n) IN
  CASE BalanceFactor(g, n) = 2 ->
         TreeRotateLeft(IF BalanceFactor(g, g[n].right) < 0
                        THEN SetRight(TreeRotateRight(g, g[n].right), n) ELSE g, n)
    [] BalanceFactor(g, n) = -2 ->
         TreeRotateRight(IF BalanceFactor(g, g[n].left) > 0
                         THEN SetLeft(TreeRotateLeft(g, g[n].left), n) ELSE g, n)
    [] OTHER -> Sub(g, n)

\* tree_insert of a fresh node n: an equal key goes to the right.
TreeInsert(h, n) ==
  LET below[p \in Links] ==
        IF p = Null THEN Sub(h, n)
        ELSE IF h[n].key < h[p].key THEN TreeBalance(SetLeft(below[h[p].left], p), p)
        ELSE TreeBalance(SetRight(below[h[p].right], p), p)
  IN below

\* avl_tree_min
TreeMin(h) ==
  LET below[p \in Nodes] == IF h[p].left = Null THEN p ELSE below[h[p].left]
  IN below

\* tree_remove_minimum_node: the minimum's right subtree takes its place, its
\* parent still the minimum.
TreeRemoveMinimum(h) ==
  LET below[p \in Nodes] ==
        IF h[p].left = Null THEN Sub(h, h[p].right)
        ELSE TreeBalance(SetLeft(below[h[p].left], p), p)
  IN below

\* Mutant: the left subtree of the removed node is forgotten.
UnhookForgetsLeft(h, p) ==
  IF h[p].right = Null THEN Sub(h, Null)
  ELSE LET min == TreeMin(h)[h[p].right]
           sub == TreeRemoveMinimum(h)[h[p].right]
       IN TreeBalance([sub.heap EXCEPT ![min].right = sub.root, ![min].left = Null], min)

\* The subtree of p without p: its left subtree, or the minimum of the right
\* one with both subtrees hung below it.
Unhook(h, p) ==
  LET q == h[p].left
      r == h[p].right
  IN IF r = Null THEN Sub(SetParent(h, q, h[p].parent), q)
     ELSE LET min == TreeMin(h)[r]
              sub == TreeRemoveMinimum(h)[r]
              h1  == [sub.heap EXCEPT ![min].right = sub.root, ![min].left = q]
              h2  == SetParent(SetParent(h1, q, min), sub.root, min)
          IN TreeBalance(SetParent(h2, min, h[p].parent), min)

\* tree_find
TreeFind(h, k) ==
  LET below[p \in Links] ==
        IF p = Null THEN Null
        ELSE IF k < h[p].key THEN below[h[p].left]
        ELSE IF k > h[p].key THEN below[h[p].right]
        ELSE p
  IN below

\* tree_remove_node: takes out the node tree_find would find.
TreeRemoveNode(h, k) ==
  LET below[p \in Links] ==
        IF p = Null THEN Sub(h, Null)
        ELSE IF k < h[p].key THEN TreeBalance(SetLeft(below[h[p].left], p), p)
        ELSE IF k > h[p].key THEN TreeBalance(SetRight(below[h[p].right], p), p)
        ELSE Unhook(h, p)
  IN below

-----------------------------------------------------------------------------
\* tree_is_left and tree_is_right of a node whose parent can be read.
IsLeft(n) == heap[n].parent # Null /\ heap[heap[n].parent].left = n
IsRight(n) == heap[n].parent # Null /\ heap[heap[n].parent].right = n

\* The climb of avl_tree_next along `parent` until a left child.  tree_is_left
\* reads through the parent: where that has no value, anything may happen.
ClimbToLeft[p \in Links] ==
  IF p = Null THEN Null
  ELSE IF heap[p].parent = Wild THEN Undefined
  ELSE IF IsLeft(p) THEN heap[p].parent ELSE ClimbToLeft[heap[p].parent]

\* The climb of avl_tree_prev along `parent` until a right child; tree_is_right
\* reads through the parent too.
ClimbToRight[p \in Links] ==
  IF p = Null THEN Null
  ELSE IF heap[p].parent = Wild THEN Undefined
  ELSE IF IsRight(p) THEN heap[p].parent ELSE ClimbToRight[heap[p].parent]

\* Mutant: avl_tree_next returns the right child, not the minimum below it.
NextIsRightChild(n) == IF heap[n].right = Null THEN ClimbToLeft[n] ELSE heap[n].right

\* avl_tree_next
TreeNextNode(n) == IF heap[n].right = Null THEN ClimbToLeft[n] ELSE TreeMin(heap)[heap[n].right]

\* avl_tree_prev; avl_tree_max, which it calls, returns the NULL its loop ends on.
TreePrevNode(n) == IF heap[n].left = Null THEN ClimbToRight[n] ELSE Null

-----------------------------------------------------------------------------
\* node_init, with the lowest free address
Fresh == Min(Nodes \ held)

\* avl_tree_add, hash_map_insert_by_hash and hash_map_insert_by_key
TreeAdd(k) ==
  LET n   == Fresh
      new == [Blank EXCEPT !.key = k, !.height = 1]
      sub == TreeInsert([heap EXCEPT ![n] = new], n)[root]
  IN /\ tree_up /\ held # Nodes
     /\ heap' = sub.heap /\ root' = sub.root
     /\ held' = held \cup {n}
     /\ stored' = [stored EXCEPT ![k] = @ + 1]
     /\ UNCHANGED tree_up

\* avl_tree_remove, hash_map_remove_by_hash and hash_map_remove_by_key; without
\* the key the tree is only balanced anew.
TreeRemove(k) ==
  LET gone == TreeFind(heap, k)[root]
      sub  == TreeRemoveNode(heap, k)[root]
  IN /\ tree_up
     /\ heap' = [n \in Nodes |-> IF n = gone THEN Blank ELSE sub.heap[n]]
     /\ root' = sub.root
     /\ held' = held \ {gone}
     /\ stored' = [stored EXCEPT ![k] = Max({@ - 1, 0})]
     /\ UNCHANGED tree_up

\* The nodes node_purge frees, in the order of the tree.
InOrder[p \in Links] ==
  IF p = Null THEN <<>> ELSE InOrder[heap[p].left] \o <<p>> \o InOrder[heap[p].right]

\* avl_tree_deinit and hash_map_deinit: node_purge from the root.
TreeDeinit ==
  /\ tree_up /\ tree_up' = FALSE
  /\ held' = held \ Range(InOrder[root])
  /\ UNCHANGED <<heap, root, stored>>

TreeNext == (\E k \in Keys : TreeAdd(k) \/ TreeRemove(k)) \/ TreeDeinit

TreeSpec == TreeInit /\ [][TreeNext]_treevars

-----------------------------------------------------------------------------
\* The tree is a tree of exactly the allocated nodes: none is lost by a
\* rotation or a removal, and none hangs in two places.
TreeKeepsNodes ==
  tree_up => Range(InOrder[root]) = held /\ IsInjective(InOrder[root])

\* The keys read from left to right never go down, however many collide.
TreeIsOrdered ==
  LET s == InOrder[root] IN \A i, j \in DOMAIN s : i < j => heap[s[i]].key <= heap[s[j]].key

\* The recorded heights are right and no node's subtrees differ by more than one.
TreeIsBalanced ==
  \A n \in Range(InOrder[root]) :
    /\ FixHeight(heap, n)[n].height = heap[n].height
    /\ BalanceFactor(heap, n) \in -1..1

\* The tree stays an AVL tree whatever is added and removed, of whichever
\* hashes: ordered, with right heights, and balanced at every node.
TreeIsAvl == TreeTypeOK /\ TreeIsOrdered /\ TreeIsBalanced

\* A look-up finds a node exactly when an entry with that hash is stored, and
\* then one with that hash: a removal takes out one entry of the colliding ones.
FoundIsStored ==
  tree_up =>
    \A k \in Keys :
      /\ (TreeFind(heap, k)[root] # Null) <=> (stored[k] > 0)
      /\ Cardinality({n \in held : heap[n].key = k}) = stored[k]

\* avl_tree_next of a node with a right subtree is the node that follows it in
\* the order of the tree, also among colliding keys and after rotations and
\* removals have rearranged what is below.
NextBelowIsRight ==
  LET s == InOrder[root] IN
  tree_up => \A i \in DOMAIN s :
               heap[s[i]].right # Null => i < Len(s) /\ TreeNextNode(s[i]) = s[i + 1]

\* avl_tree_next fetches the next node and avl_tree_prev the previous one, as
\* avl-tree.h says, and NULL at the ends.
NeighboursAreFetched ==
  LET s == InOrder[root] IN
  tree_up => \A i \in DOMAIN s :
               /\ TreeNextNode(s[i]) = IF i = Len(s) THEN Null ELSE s[i + 1]
               /\ TreePrevNode(s[i]) = IF i = 1 THEN Null ELSE s[i - 1]

\* avl_tree_deinit frees every node.
DeinitFreesTree == tree_up \/ held = {}

\* The map holds what was stored and not removed, entry by entry, and
\* avl_tree_deinit frees it all: rotations and removals neither lose a node nor
\* hide one from a look-up.
TreeHoldsEntries == TreeKeepsNodes /\ FoundIsStored /\ DeinitFreesTree
=============================================================================
