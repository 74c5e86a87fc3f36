--------------------------- MODULE AvlTreeProofs ----------------------------
(***************************************************************************)
(* Proofs about AvlTree for any finite set of nodes and any hashes.        *)
(***************************************************************************)
EXTENDS AvlTree, SequenceTheorems, FiniteSetTheorems, WellFoundedInduction, TLAPS

(***************************************************************************)
(* Induction and recursion.  A fact about every number is proved from the  *)
(* least one it fails for, and a recursive function of the model is shown  *)
(* to satisfy its equation by building one that does, rank by rank.        *)
(***************************************************************************)

\* A set of natural numbers that is not empty has a least one.
LEMMA LeastNatural ==
  ASSUME NEW T \in SUBSET Nat, T # {}
  PROVE  \E m \in T : \A k \in T : ~(k < m)
<1>1. \E x \in T : \A y \in T : ~(<<y, x>> \in OpToRel(<, Nat))
  BY NatLessThanWellFounded, WFMin
<1>2. \A x, y \in Nat : <<x, y>> \in OpToRel(<, Nat) <=> x < y
  BY DEF OpToRel
<1> QED  BY <1>1, <1>2

\* The ranks of finitely many nodes have a bound.
LEMMA RanksBounded ==
  ASSUME NEW rank \in [Nodes -> Nat]
  PROVE  \E M \in Nat : \A n \in Nodes : rank[n] < M
<1> DEFINE Bounded(T) == \E M \in Nat : \A n \in T : rank[n] < M
           Bad == {i \in Nat : \E T \in SUBSET Nodes : Cardinality(T) = i /\ ~Bounded(T)}
<1>1. \A T \in SUBSET Nodes : IsFiniteSet(T) /\ Cardinality(T) \in Nat
  BY TreeAssumption, FS_Subset, FS_CardinalityType
<1>2. ASSUME Bad # {} PROVE FALSE
  <2>1. PICK i \in Bad : \A k \in Bad : ~(k < i)
    BY <1>2, LeastNatural
  <2>2. PICK T \in SUBSET Nodes : Cardinality(T) = i /\ ~Bounded(T)
    BY <2>1
  <2>3. T # {}
    <3>1. T = {} => Bounded(T)
      BY 0 \in Nat
    <3> QED  BY <2>2, <3>1
  <2>4. PICK x \in T : TRUE
    BY <2>3
  <2>5. Cardinality(T \ {x}) = i - 1 /\ i - 1 \in Nat /\ i - 1 < i
    <3>1. Cardinality(T \ {x}) = Cardinality(T) - 1
      BY <1>1, <2>4, FS_RemoveElement
    <3>2. Cardinality(T \ {x}) \in Nat /\ i \in Nat
      BY <1>1
    <3> QED  BY <2>2, <3>1, <3>2
  <2>6. Bounded(T \ {x})
    BY <2>1, <2>5
  <2>7. PICK M \in Nat : \A n \in T \ {x} : rank[n] < M
    BY <2>6
  <2>8. M + rank[x] + 1 \in Nat /\ \A n \in T : rank[n] < M + rank[x] + 1
    BY <2>7, <2>4
  <2> QED  BY <2>2, <2>8
<1>3. Bounded(Nodes)
  <2>1. Cardinality(Nodes) \in Nat /\ Nodes \in SUBSET Nodes
    BY <1>1
  <2> QED  BY <1>2, <2>1
<1> QED  BY <1>3

\* How a function of the nodes with values in V follows from its values at two
\* others.
Steps(V) == [Nodes -> [V -> [V -> V]]]

\* f is defined from its values at l and r, by G.
DefinedAlong(f, l, r, z, G) ==
  f[Null] = z /\ \A p \in Nodes : f[p] = G[p][f[l[p]]][f[r[p]]]

\* The ranks go down along l and r.
RanksDescend(l, r, rank) ==
  \A p \in Nodes : /\ l[p] # Null => rank[l[p]] < rank[p]
                   /\ r[p] # Null => rank[r[p]] < rank[p]

\* A function of the nodes may be defined from its values at two nodes of a
\* lower rank.
LEMMA RecursionOnRank ==
  ASSUME NEW l \in [Nodes -> Links], NEW r \in [Nodes -> Links], NEW rank \in [Nodes -> Nat],
         RanksDescend(l, r, rank), NEW V, NEW z \in V, NEW G \in Steps(V)
  PROVE  \E f \in [Links -> V] : DefinedAlong(f, l, r, z, G)
<1> USE DEF RanksDescend, Steps
<1> DEFINE Upto(k, f) ==
             /\ f[Null] = z
             /\ \A p \in Nodes : rank[p] < k => f[p] = G[p][f[l[p]]][f[r[p]]]
           Bad == {k \in Nat : ~\E f \in [Links -> V] : Upto(k, f)}
<1>0. Null \in Links /\ Null \notin Nodes /\ \A p \in Links : p # Null => p \in Nodes
  BY TreeAssumption DEF Links, Null
<1>1. ASSUME Bad # {} PROVE FALSE
  <2>1. PICK k \in Bad : \A i \in Bad : ~(i < k)
    BY <1>1, LeastNatural
  <2>2. k \in Nat /\ ~\E f \in [Links -> V] : Upto(k, f)
    BY <2>1
  <2>3. k # 0
    <3>1. [p \in Links |-> z] \in [Links -> V] /\ Upto(0, [p \in Links |-> z])
      BY <1>0
    <3> QED  BY <2>2, <3>1
  <2>4. k \in Nat /\ k - 1 \in Nat /\ k - 1 < k
    BY <2>2, <2>3
  <2>5. k - 1 \notin Bad
    BY <2>1, <2>4
  <2>6. PICK f \in [Links -> V] : Upto(k - 1, f)
    BY <2>4, <2>5
  <2> DEFINE g == [p \in Links |-> IF p = Null THEN z
                                   ELSE IF rank[p] = k - 1 THEN G[p][f[l[p]]][f[r[p]]] ELSE f[p]]
  <2>7. g \in [Links -> V] /\ g[Null] = z
    <3>1. ASSUME NEW p \in Nodes PROVE G[p][f[l[p]]][f[r[p]]] \in V
      BY <1>0
    <3> QED  BY <1>0, <3>1
  <2>8. ASSUME NEW p \in Nodes, rank[p] < k PROVE g[p] = G[p][g[l[p]]][g[r[p]]]
    <3>1. rank[p] \in Nat /\ p \in Links /\ p # Null /\ l[p] \in Links /\ r[p] \in Links
      BY <1>0 DEF Links
    <3>2. ASSUME NEW c \in Links, c # Null => rank[c] < rank[p] PROVE g[c] = f[c]
      <4>1. CASE c = Null
        BY <2>6, <4>1
      <4>2. CASE c # Null
        <5>1. c \in Nodes /\ rank[c] \in Nat /\ rank[c] # k - 1
          BY <1>0, <2>2, <2>8, <3>1, <3>2, <4>2
        <5> QED  BY <4>2, <5>1
      <4> QED  BY <4>1, <4>2
    <3>3. g[l[p]] = f[l[p]] /\ g[r[p]] = f[r[p]]
      BY <3>1, <3>2
    <3>4. CASE rank[p] = k - 1
      BY <3>1, <3>3, <3>4
    <3>5. CASE rank[p] # k - 1
      <4>1. rank[p] < k - 1
        <5>1. \A a, b \in Nat : a < b /\ a # b - 1 => a < b - 1
          OBVIOUS
        <5> QED  BY <2>4, <2>8, <3>1, <3>5, <5>1, Zenon
      <4>2. f[p] = G[p][f[l[p]]][f[r[p]]]
        BY <2>6, <4>1
      <4> QED  BY <3>1, <3>3, <3>5, <4>2
    <3> QED  BY <3>4, <3>5
  <2>9. Upto(k, g)
    BY <2>7, <2>8
  <2> QED  BY <2>2, <2>7, <2>9
<1>2. PICK M \in Nat : \A n \in Nodes : rank[n] < M
  BY RanksBounded
<1>3. PICK f \in [Links -> V] : Upto(M, f)
  BY <1>1
<1> QED  BY <1>2, <1>3 DEF DefinedAlong

(***************************************************************************)
(* AVL trees.  Avl(h, p, S): the subtree of p in the heap h is an AVL   *)
(* tree whose nodes are S, whatever the parents are.                       *)
(* The sets of nodes below each node of it are what witnesses this; from   *)
(* here on only the lemmas after the definition look at them.              *)
(***************************************************************************)

Taller(a, b) == IF a < b THEN b ELSE a

\* The height of n is right, given those of its children.
HeightIsRight(h, n) ==
  h[n].height = Taller(NodeHeight(h, h[n].left), NodeHeight(h, h[n].right)) + 1

\* n stands between the keys of the nodes L and R.
KeyBetween(h, n, L, R) ==
  /\ \A m \in L : h[m].key <= h[n].key
  /\ \A m \in R : h[n].key <= h[m].key

\* What is right at n when B[m] are the nodes of the subtree of each node m.
RightAt(h, B, n) ==
  LET l == h[n].left
      r == h[n].right
  IN /\ B[n] = B[l] \cup B[r] \cup {n}
     /\ n \notin B[l] /\ n \notin B[r] /\ B[l] \cap B[r] = {}
     /\ l # Null => l \in B[l]
     /\ r # Null => r \in B[r]
     /\ \A m \in B[n] : B[m] \subseteq B[n]
     /\ KeyBetween(h, n, B[l], B[r])
     /\ HeightIsRight(h, n) /\ BalanceFactor(h, n) \in -1..1

Avl(h, p, S) ==
  \E B \in [Links -> SUBSET Nodes] :
    B[Null] = {} /\ B[p] = S /\ (p # Null => p \in S) /\ \A n \in S : RightAt(h, B, n)

\* The subtrees of p are AVL trees of the nodes L and R, and p fits between.
Hung(h, p, L, R) ==
  /\ Avl(h, h[p].left, L) /\ Avl(h, h[p].right, R)
  /\ L \cap R = {} /\ p \notin L /\ p \notin R
  /\ KeyBetween(h, p, L, R)

\* Two heaps that tell a node apart by its parent at most.
SameNode(g, h, n) ==
  g[n].key = h[n].key /\ g[n].left = h[n].left /\ g[n].right = h[n].right /\ g[n].height = h[n].height

\* What the links are.
LEMMA LinkFacts ==
  /\ Null \in Links /\ Null \notin Nodes /\ \A p \in Links : p # Null => p \in Nodes
  /\ \A n \in Nodes : n \in Links /\ n # Null /\ n # Wild
  /\ Null # Wild /\ Wild \notin Links
  BY TreeAssumption DEF Links, Null, Wild

\* What the fields of a node are.
LEMMA NodeFacts ==
  ASSUME NEW h \in Heaps, NEW n \in Nodes
  PROVE  /\ h[n].key \in Keys /\ h[n].key \in Int
         /\ h[n].left \in Links /\ h[n].right \in Links
         /\ h[n].parent \in Links \cup {Wild} /\ h[n].height \in Nat
  BY TreeAssumption DEF Heaps

\* What node_height returns.
LEMMA HeightFacts ==
  ASSUME NEW h \in Heaps, NEW p \in Links
  PROVE  NodeHeight(h, p) \in Nat /\ (p = Null => NodeHeight(h, p) = 0)
                                  /\ (p # Null => NodeHeight(h, p) = h[p].height)
  BY NodeFacts, LinkFacts DEF NodeHeight

\* The empty tree has no nodes.
LEMMA AvlNull == \A h, S : Avl(h, Null, S) <=> S = {}
<1>1. ASSUME NEW h, NEW S, Avl(h, Null, S) PROVE S = {}
  BY <1>1 DEF Avl
<1>2. ASSUME NEW h PROVE Avl(h, Null, {})
  <2>1. [p \in Links |-> {}] \in [Links -> SUBSET Nodes] /\ [p \in Links |-> {}][Null] = {}
    BY LinkFacts
  <2> QED  BY <2>1 DEF Avl
<1> QED  BY <1>1, <1>2

\* The nodes of a tree are nodes, its root among them.
LEMMA AvlNodes ==
  ASSUME NEW h, NEW p \in Links, NEW S, Avl(h, p, S)
  PROVE  S \in SUBSET Nodes /\ (p # Null => p \in S) /\ (p = Null => S = {})
  BY DEF Avl

\* A tree is its root and two trees.
LEMMA AvlSplit ==
  ASSUME NEW h \in Heaps, NEW p \in Nodes, NEW S, Avl(h, p, S)
  PROVE  \E L, R \in SUBSET Nodes :
           /\ Hung(h, p, L, R) /\ S = L \cup R \cup {p}
           /\ HeightIsRight(h, p) /\ BalanceFactor(h, p) \in -1..1
<1> DEFINE l == h[p].left  r == h[p].right
<1>0. l \in Links /\ r \in Links /\ p # Null /\ p \in Links
  BY NodeFacts, LinkFacts
<1>1. PICK B \in [Links -> SUBSET Nodes] :
        B[Null] = {} /\ B[p] = S /\ p \in S /\ \A n \in S : RightAt(h, B, n)
  BY <1>0 DEF Avl
<1>2. RightAt(h, B, p)
  BY <1>1
<1>3. B[l] \in SUBSET Nodes /\ B[r] \in SUBSET Nodes /\ S = B[l] \cup B[r] \cup {p}
  BY <1>0, <1>1, <1>2 DEF RightAt
<1>4. Avl(h, l, B[l]) /\ Avl(h, r, B[r])
  <2>1. (l # Null => l \in B[l]) /\ (r # Null => r \in B[r])
    BY <1>2 DEF RightAt
  <2>2. \A n \in B[l] \cup B[r] : RightAt(h, B, n)
    BY <1>1, <1>3
  <2> QED  BY <1>1, <2>1, <2>2 DEF Avl
<1>5. /\ Hung(h, p, B[l], B[r]) /\ HeightIsRight(h, p) /\ BalanceFactor(h, p) \in -1..1
  BY <1>2, <1>4 DEF RightAt, Hung
<1> QED  BY <1>3, <1>5

\* What RightAt says of a node does not depend on the sets of other nodes.
LEMMA RightAtSame ==
  ASSUME NEW h, NEW B, NEW D, NEW n, RightAt(h, B, n),
         B[Null] = {}, D[Null] = {}, \A m \in B[n] : D[m] = B[m], n \in B[n]
  PROVE  RightAt(h, D, n)
<1> DEFINE l == h[n].left  r == h[n].right
<1>1. (l # Null => l \in B[n]) /\ (r # Null => r \in B[n])
  BY DEF RightAt
<1>2. D[l] = B[l] /\ D[r] = B[r] /\ D[n] = B[n]
  BY <1>1
<1> QED  BY <1>2 DEF RightAt

\* A root and two trees are a tree.
LEMMA AvlJoin ==
  ASSUME NEW h \in Heaps, NEW p \in Nodes, NEW L, NEW R, Hung(h, p, L, R),
         HeightIsRight(h, p), BalanceFactor(h, p) \in -1..1
  PROVE  Avl(h, p, L \cup R \cup {p})
<1> DEFINE l == h[p].left  r == h[p].right  S == L \cup R \cup {p}
<1>0. l \in Links /\ r \in Links /\ p # Null /\ p \in Links /\ Null \notin Nodes /\ Null \in Links
  BY NodeFacts, LinkFacts
<1>1. PICK B \in [Links -> SUBSET Nodes] :
        B[Null] = {} /\ B[l] = L /\ (l # Null => l \in L) /\ \A n \in L : RightAt(h, B, n)
  BY DEF Avl, Hung
<1>2. PICK C \in [Links -> SUBSET Nodes] :
        C[Null] = {} /\ C[r] = R /\ (r # Null => r \in R) /\ \A n \in R : RightAt(h, C, n)
  BY DEF Avl, Hung
<1>3. L \in SUBSET Nodes /\ R \in SUBSET Nodes /\ L \cap R = {} /\ p \notin L /\ p \notin R
  BY <1>0, <1>1, <1>2 DEF Hung
<1> DEFINE D == [m \in Links |-> IF m = p THEN S ELSE IF m \in L THEN B[m]
                                 ELSE IF m \in R THEN C[m] ELSE {}]
<1>4. D \in [Links -> SUBSET Nodes] /\ D[Null] = {} /\ D[p] = S
  BY <1>0, <1>3
<1>5. (\A m \in L : D[m] = B[m]) /\ (\A m \in R : D[m] = C[m])
  BY <1>3, LinkFacts
<1>6. ASSUME NEW n \in L PROVE RightAt(h, D, n) /\ n \in B[n] /\ B[n] \subseteq L
  <2>1. RightAt(h, B, n) /\ n \in B[n]
    BY <1>1 DEF RightAt
  <2>2. B[n] \subseteq L
    <3>1. l # Null /\ RightAt(h, B, l) /\ n \in B[l]
      BY <1>1
    <3> QED  BY <1>1, <3>1 DEF RightAt
  <2> HIDE DEF D
  <2> QED  BY <1>1, <1>4, <1>5, <2>1, <2>2, RightAtSame
<1>7. ASSUME NEW n \in R PROVE RightAt(h, D, n) /\ n \in C[n] /\ C[n] \subseteq R
  <2>1. RightAt(h, C, n) /\ n \in C[n]
    BY <1>2 DEF RightAt
  <2>2. C[n] \subseteq R
    <3>1. r # Null /\ RightAt(h, C, r) /\ n \in C[r]
      BY <1>2
    <3> QED  BY <1>2, <3>1 DEF RightAt
  <2> HIDE DEF D
  <2> QED  BY <1>2, <1>4, <1>5, <2>1, <2>2, RightAtSame
<1>8. RightAt(h, D, p)
  <2>1. D[l] = L /\ D[r] = R
    <3> HIDE DEF D
    <3> QED  BY <1>1, <1>2, <1>4, <1>5
  <2>2. \A m \in S : D[m] \subseteq S
    <3> HIDE DEF D
    <3> QED  BY <1>4, <1>5, <1>6, <1>7
  <2> HIDE DEF D
  <2> QED  BY <1>1, <1>2, <1>3, <1>4, <2>1, <2>2 DEF RightAt, Hung
<1> HIDE DEF D
<1>9. \A n \in S : RightAt(h, D, n)
  BY <1>6, <1>7, <1>8
<1> QED  BY <1>4, <1>9 DEF Avl

\* A tree stays one when nothing in it changes but parents.
LEMMA AvlFrame ==
  ASSUME NEW g \in Heaps, NEW h \in Heaps, NEW p \in Links, NEW S, Avl(g, p, S),
         \A n \in S : SameNode(g, h, n)
  PROVE  Avl(h, p, S)
<1>1. PICK B \in [Links -> SUBSET Nodes] :
        B[Null] = {} /\ B[p] = S /\ (p # Null => p \in S) /\ \A n \in S : RightAt(g, B, n)
  BY DEF Avl
<1>2. ASSUME NEW n \in S PROVE RightAt(h, B, n)
  <2>1. RightAt(g, B, n) /\ SameNode(g, h, n)
    BY <1>1
  <2>2. B[n] \subseteq S
    <3>1. p # Null /\ RightAt(g, B, p)
      BY <1>1
    <3> QED  BY <1>1, <3>1 DEF RightAt
  <2>3. /\ h[n].left # Null => h[n].left \in S
        /\ h[n].right # Null => h[n].right \in S
        /\ B[h[n].left] \subseteq S /\ B[h[n].right] \subseteq S
    BY <2>1, <2>2 DEF RightAt, SameNode
  <2>4. /\ NodeHeight(g, g[n].left) = NodeHeight(h, h[n].left)
        /\ NodeHeight(g, g[n].right) = NodeHeight(h, h[n].right)
    BY <2>1, <2>3 DEF NodeHeight, SameNode
  <2>5. HeightIsRight(h, n) /\ BalanceFactor(h, n) \in -1..1
    BY <2>1, <2>4 DEF RightAt, SameNode, HeightIsRight, BalanceFactor
  <2>6. KeyBetween(h, n, B[h[n].left], B[h[n].right])
    BY <2>1, <2>3 DEF RightAt, KeyBetween, SameNode
  <2> QED  BY <2>1, <2>5, <2>6 DEF RightAt, SameNode
<1> QED  BY <1>1, <1>2 DEF Avl

(***************************************************************************)
(* Heights and rotations.                                                  *)
(***************************************************************************)

\* The maximum node_fix_height takes.
LEMMA MaxOfTwo == \A a, b \in Nat : Max({a, b}) = Taller(a, b) /\ Taller(a, b) \in Nat
<1> SUFFICES ASSUME NEW a \in Nat, NEW b \in Nat
             PROVE  Max({a, b}) = Taller(a, b) /\ Taller(a, b) \in Nat
  OBVIOUS
<1>1. \E x \in {a, b} : \A y \in {a, b} : x >= y
  OBVIOUS
<1>2. Max({a, b}) \in {a, b} /\ \A y \in {a, b} : Max({a, b}) >= y
  BY <1>1, Zenon DEF Max
<1> QED  BY <1>2 DEF Taller

\* What node_fix_height does.
LEMMA FixHeightFacts ==
  ASSUME NEW h \in Heaps, NEW n \in Nodes
  PROVE  /\ FixHeight(h, n) \in Heaps
         /\ \A m \in Nodes : /\ FixHeight(h, n)[m].key = h[m].key
                             /\ FixHeight(h, n)[m].left = h[m].left
                             /\ FixHeight(h, n)[m].right = h[m].right
                             /\ FixHeight(h, n)[m].parent = h[m].parent
                             /\ m # n => FixHeight(h, n)[m] = h[m]
         /\ FixHeight(h, n)[n].height = Taller(NodeHeight(h, h[n].left), NodeHeight(h, h[n].right)) + 1
<1> DEFINE t == Max({NodeHeight(h, h[n].left), NodeHeight(h, h[n].right)})
<1>1. t = Taller(NodeHeight(h, h[n].left), NodeHeight(h, h[n].right)) /\ t \in Nat
  BY NodeFacts, HeightFacts, MaxOfTwo
<1>2. FixHeight(h, n) = [h EXCEPT ![n].height = t + 1]
  BY DEF FixHeight
<1> HIDE DEF t
<1> QED  BY <1>1, <1>2 DEF Heaps

\* What setting a parent does.
LEMMA SetParentFacts ==
  ASSUME NEW h \in Heaps, NEW n \in Links, NEW p \in Links \cup {Wild}
  PROVE  /\ SetParent(h, n, p) \in Heaps
         /\ \A m \in Nodes : /\ SameNode(h, SetParent(h, n, p), m)
                             /\ SetParent(h, n, p)[m].parent = IF m = n THEN p ELSE h[m].parent
  BY LinkFacts DEF SetParent, Heaps, SameNode

\* What setting a link to what a function returns does.
LEMMA SetLinkFacts ==
  ASSUME NEW h \in Heaps, NEW c \in Links, NEW p \in Nodes
  PROVE  /\ SetLeft(Sub(h, c), p) \in Heaps /\ SetRight(Sub(h, c), p) \in Heaps
         /\ \A m \in Nodes : m # p => SetLeft(Sub(h, c), p)[m] = h[m] /\ SetRight(Sub(h, c), p)[m] = h[m]
         /\ LET g == SetLeft(Sub(h, c), p)[p] IN
              /\ g.key = h[p].key /\ g.left = c /\ g.right = h[p].right
              /\ g.parent = h[p].parent /\ g.height = h[p].height
         /\ LET g == SetRight(Sub(h, c), p)[p] IN
              /\ g.key = h[p].key /\ g.left = h[p].left /\ g.right = c
              /\ g.parent = h[p].parent /\ g.height = h[p].height
  BY DEF SetLeft, SetRight, Sub, Heaps

\* What tree_rotate_right does to p and its left child q.
LEMMA RotatedRight ==
  ASSUME NEW h \in Heaps, NEW p \in Nodes, NEW q \in Nodes, q = h[p].left
  PROVE  LET s == TreeRotateRight(h, p)
             g == s.heap
         IN /\ s = Sub(g, q) /\ g \in Heaps
            /\ \A m \in Nodes : m # p /\ m # q => SameNode(h, g, m)
            /\ \A m \in Nodes : g[m].key = h[m].key
            /\ p # q =>
                 /\ g[p].left = h[q].right /\ g[p].right = h[p].right
                 /\ g[q].left = h[q].left /\ g[q].right = p
                 /\ \A m \in Nodes : g[m].parent = IF m = p THEN q
                                                   ELSE IF m = h[q].right THEN p
                                                   ELSE IF m = q THEN h[p].parent ELSE h[m].parent
                 /\ (h[q].right \notin {p, q} /\ h[p].right \notin {p, q}) => HeightIsRight(g, p)
                 /\ h[q].left \notin {p, q} => HeightIsRight(g, q)
<1> DEFINE h1 == [h EXCEPT ![p].left = h[q].right, ![q].right = p, ![q].parent = h[p].parent]
           h2 == SetParent(h1, h1[p].left, p)
           h3 == SetParent(h2, p, q)
           h4 == FixHeight(h3, p)
           g  == FixHeight(h4, q)
<1>0. q \in Nodes /\ p \in Links /\ q \in Links /\ q # Null
  BY NodeFacts, LinkFacts
<1>1. TreeRotateRight(h, p) = Sub(g, q)
  BY DEF TreeRotateRight
<1>2. TreeRotateRight(h, p).heap = g
  BY <1>1 DEF Sub
<1>3. /\ h1 \in Heaps
      /\ \A m \in Nodes : m # p /\ m # q => h1[m] = h[m]
      /\ \A m \in Nodes : h1[m].key = h[m].key
      /\ p # q => /\ h1[p].left = h[q].right /\ h1[p].right = h[p].right /\ h1[p].parent = h[p].parent
                  /\ h1[q].left = h[q].left /\ h1[q].right = p /\ h1[q].parent = h[p].parent
  BY <1>0 DEF Heaps
<1> HIDE DEF h1
<1>4. h1[p].left \in Links
  BY <1>3, NodeFacts
<1>5. h2 \in Heaps /\ \A m \in Nodes : /\ SameNode(h1, h2, m)
                                       /\ h2[m].parent = IF m = h1[p].left THEN p ELSE h1[m].parent
  BY <1>0, <1>3, <1>4, SetParentFacts
<1> HIDE DEF h2
<1>6. h3 \in Heaps /\ \A m \in Nodes : /\ SameNode(h2, h3, m)
                                       /\ h3[m].parent = IF m = p THEN q ELSE h2[m].parent
  BY <1>0, <1>5, SetParentFacts
<1> HIDE DEF h3
<1>7. /\ h4 \in Heaps
      /\ \A m \in Nodes : /\ h4[m].key = h3[m].key /\ h4[m].left = h3[m].left
                          /\ h4[m].right = h3[m].right /\ h4[m].parent = h3[m].parent
                          /\ m # p => h4[m] = h3[m]
      /\ h4[p].height = Taller(NodeHeight(h3, h3[p].left), NodeHeight(h3, h3[p].right)) + 1
  BY <1>6, FixHeightFacts
<1> HIDE DEF h4
<1>8. /\ g \in Heaps
      /\ \A m \in Nodes : /\ g[m].key = h4[m].key /\ g[m].left = h4[m].left
                          /\ g[m].right = h4[m].right /\ g[m].parent = h4[m].parent
                          /\ m # q => g[m] = h4[m]
      /\ g[q].height = Taller(NodeHeight(h4, h4[q].left), NodeHeight(h4, h4[q].right)) + 1
  BY <1>0, <1>7, FixHeightFacts
<1> HIDE DEF g
<1>9. \A m \in Nodes : m # p /\ m # q => SameNode(h, g, m)
  BY <1>3, <1>5, <1>6, <1>7, <1>8 DEF SameNode
<1>10. \A m \in Nodes : g[m].key = h[m].key
  BY <1>3, <1>5, <1>6, <1>7, <1>8 DEF SameNode
<1>11. ASSUME p # q
       PROVE  /\ g[p].left = h[q].right /\ g[p].right = h[p].right
              /\ g[q].left = h[q].left /\ g[q].right = p
  BY <1>0, <1>3, <1>5, <1>6, <1>7, <1>8, <1>11 DEF SameNode
<1>12. ASSUME p # q, NEW m \in Nodes
       PROVE  g[m].parent = IF m = p THEN q ELSE IF m = h[q].right THEN p
                            ELSE IF m = q THEN h[p].parent ELSE h[m].parent
  <2>1. g[m].parent = IF m = p THEN q ELSE IF m = h1[p].left THEN p ELSE h1[m].parent
    BY <1>5, <1>6, <1>7, <1>8
  <2> QED  BY <1>3, <1>12, <2>1
<1>13. ASSUME p # q, h[q].right \notin {p, q}, h[p].right \notin {p, q} PROVE HeightIsRight(g, p)
  <2>1. g[p] = h4[p] /\ h3[p].left = g[p].left /\ h3[p].right = g[p].right
    BY <1>7, <1>8, <1>13
  <2>2. g[p].left \in Links /\ g[p].right \in Links /\ g[p].left \notin {p, q} /\ g[p].right \notin {p, q}
    BY <1>8, <1>11, <1>13, NodeFacts
  <2>3. \A c \in Links \ {p, q} : NodeHeight(h3, c) = NodeHeight(g, c)
    BY <1>7, <1>8, LinkFacts DEF NodeHeight
  <2> QED  BY <1>7, <2>1, <2>2, <2>3 DEF HeightIsRight
<1>14. ASSUME p # q, h[q].left \notin {p, q} PROVE HeightIsRight(g, q)
  <2>1. h4[q].left = g[q].left /\ h4[q].right = g[q].right
    BY <1>0, <1>8
  <2>2. g[q].left \in Links /\ g[q].right \in Links /\ g[q].left # q /\ g[q].right # q
    BY <1>0, <1>8, <1>11, <1>14, NodeFacts
  <2>3. \A c \in Links \ {q} : NodeHeight(h4, c) = NodeHeight(g, c)
    BY <1>8, LinkFacts DEF NodeHeight
  <2> QED  BY <1>8, <2>1, <2>2, <2>3 DEF HeightIsRight
<1> QED  BY <1>0, <1>1, <1>2, <1>8, <1>9, <1>10, <1>11, <1>12, <1>13, <1>14

\* What tree_rotate_left does to p and its right child q.
LEMMA RotatedLeft ==
  ASSUME NEW h \in Heaps, NEW p \in Nodes, NEW q \in Nodes, q = h[p].right
  PROVE  LET s == TreeRotateLeft(h, p)
             g == s.heap
         IN /\ s = Sub(g, q) /\ g \in Heaps
            /\ \A m \in Nodes : m # p /\ m # q => SameNode(h, g, m)
            /\ \A m \in Nodes : g[m].key = h[m].key
            /\ p # q =>
                 /\ g[p].right = h[q].left /\ g[p].left = h[p].left
                 /\ g[q].right = h[q].right /\ g[q].left = p
                 /\ \A m \in Nodes : g[m].parent = IF m = p THEN q
                                                   ELSE IF m = h[q].left THEN p
                                                   ELSE IF m = q THEN Wild ELSE h[m].parent
                 /\ (h[q].left \notin {p, q} /\ h[p].left \notin {p, q}) => HeightIsRight(g, p)
                 /\ h[q].right \notin {p, q} => HeightIsRight(g, q)
<1> DEFINE h1 == [h EXCEPT ![p].right = h[q].left, ![q].left = p, ![q].parent = Wild]
           h2 == SetParent(h1, h1[p].right, p)
           h3 == SetParent(h2, p, q)
           h4 == FixHeight(h3, p)
           g  == FixHeight(h4, q)
<1>0. q \in Nodes /\ p \in Links /\ q \in Links /\ q # Null
  BY NodeFacts, LinkFacts
<1>1. TreeRotateLeft(h, p) = Sub(g, q)
  BY DEF TreeRotateLeft
<1>2. TreeRotateLeft(h, p).heap = g
  BY <1>1 DEF Sub
<1>3. /\ h1 \in Heaps
      /\ \A m \in Nodes : m # p /\ m # q => h1[m] = h[m]
      /\ \A m \in Nodes : h1[m].key = h[m].key
      /\ p # q => /\ h1[p].right = h[q].left /\ h1[p].left = h[p].left /\ h1[p].parent = h[p].parent
                  /\ h1[q].right = h[q].right /\ h1[q].left = p /\ h1[q].parent = Wild
  BY <1>0 DEF Heaps
<1> HIDE DEF h1
<1>4. h1[p].right \in Links
  BY <1>3, NodeFacts
<1>5. h2 \in Heaps /\ \A m \in Nodes : /\ SameNode(h1, h2, m)
                                       /\ h2[m].parent = IF m = h1[p].right THEN p ELSE h1[m].parent
  BY <1>0, <1>3, <1>4, SetParentFacts
<1> HIDE DEF h2
<1>6. h3 \in Heaps /\ \A m \in Nodes : /\ SameNode(h2, h3, m)
                                       /\ h3[m].parent = IF m = p THEN q ELSE h2[m].parent
  BY <1>0, <1>5, SetParentFacts
<1> HIDE DEF h3
<1>7. /\ h4 \in Heaps
      /\ \A m \in Nodes : /\ h4[m].key = h3[m].key /\ h4[m].right = h3[m].right
                          /\ h4[m].left = h3[m].left /\ h4[m].parent = h3[m].parent
                          /\ m # p => h4[m] = h3[m]
      /\ h4[p].height = Taller(NodeHeight(h3, h3[p].left), NodeHeight(h3, h3[p].right)) + 1
  BY <1>6, FixHeightFacts
<1> HIDE DEF h4
<1>8. /\ g \in Heaps
      /\ \A m \in Nodes : /\ g[m].key = h4[m].key /\ g[m].right = h4[m].right
                          /\ g[m].left = h4[m].left /\ g[m].parent = h4[m].parent
                          /\ m # q => g[m] = h4[m]
      /\ g[q].height = Taller(NodeHeight(h4, h4[q].left), NodeHeight(h4, h4[q].right)) + 1
  BY <1>0, <1>7, FixHeightFacts
<1> HIDE DEF g
<1>9. \A m \in Nodes : m # p /\ m # q => SameNode(h, g, m)
  BY <1>3, <1>5, <1>6, <1>7, <1>8 DEF SameNode
<1>10. \A m \in Nodes : g[m].key = h[m].key
  BY <1>3, <1>5, <1>6, <1>7, <1>8 DEF SameNode
<1>11. ASSUME p # q
       PROVE  /\ g[p].right = h[q].left /\ g[p].left = h[p].left
              /\ g[q].right = h[q].right /\ g[q].left = p
  BY <1>0, <1>3, <1>5, <1>6, <1>7, <1>8, <1>11 DEF SameNode
<1>12. ASSUME p # q, NEW m \in Nodes
       PROVE  g[m].parent = IF m = p THEN q ELSE IF m = h[q].left THEN p
                            ELSE IF m = q THEN Wild ELSE h[m].parent
  <2>1. g[m].parent = IF m = p THEN q ELSE IF m = h1[p].right THEN p ELSE h1[m].parent
    BY <1>5, <1>6, <1>7, <1>8
  <2> QED  BY <1>3, <1>12, <2>1
<1>13. ASSUME p # q, h[q].left \notin {p, q}, h[p].left \notin {p, q} PROVE HeightIsRight(g, p)
  <2>1. g[p] = h4[p] /\ h3[p].right = g[p].right /\ h3[p].left = g[p].left
    BY <1>7, <1>8, <1>13
  <2>2. g[p].right \in Links /\ g[p].left \in Links /\ g[p].right \notin {p, q} /\ g[p].left \notin {p, q}
    BY <1>8, <1>11, <1>13, NodeFacts
  <2>3. \A c \in Links \ {p, q} : NodeHeight(h3, c) = NodeHeight(g, c)
    BY <1>7, <1>8, LinkFacts DEF NodeHeight
  <2> QED  BY <1>7, <2>1, <2>2, <2>3 DEF HeightIsRight
<1>14. ASSUME p # q, h[q].right \notin {p, q} PROVE HeightIsRight(g, q)
  <2>1. h4[q].right = g[q].right /\ h4[q].left = g[q].left
    BY <1>0, <1>8
  <2>2. g[q].right \in Links /\ g[q].left \in Links /\ g[q].right # q /\ g[q].left # q
    BY <1>0, <1>8, <1>11, <1>14, NodeFacts
  <2>3. \A c \in Links \ {q} : NodeHeight(h4, c) = NodeHeight(g, c)
    BY <1>8, LinkFacts DEF NodeHeight
  <2> QED  BY <1>8, <2>1, <2>2, <2>3 DEF HeightIsRight
<1> QED  BY <1>0, <1>1, <1>2, <1>8, <1>9, <1>10, <1>11, <1>12, <1>13, <1>14

\* A node is its five fields.
LEMMA SameRecord ==
  ASSUME NEW g \in Heaps, NEW h \in Heaps, NEW n \in Nodes, SameNode(h, g, n), g[n].parent = h[n].parent
  PROVE  g[n] = h[n]
  BY DEF Heaps, SameNode

\* The three sets and two nodes of a rotation share nothing.
Apart(p, q, A, B, C) ==
  /\ A \cap B = {} /\ A \cap C = {} /\ B \cap C = {}
  /\ p # q /\ p \notin A \cup B \cup C /\ q \notin A \cup B \cup C

\* p, its right child q, and AVL trees of the nodes A, B and C below them:
\* what tree_rotate_left starts from.
LeansRight(h, p, q, A, B, C) ==
  /\ h[p].right = q /\ Apart(p, q, A, B, C)
  /\ Avl(h, h[p].left, A) /\ Avl(h, h[q].left, B) /\ Avl(h, h[q].right, C)
  /\ KeyBetween(h, p, A, B \cup C \cup {q}) /\ KeyBetween(h, q, B, C)

\* What it starts from is what it ends with, the other way round.
LeansLeft(h, p, q, A, B, C) ==
  /\ h[p].left = q /\ Apart(p, q, A, B, C)
  /\ Avl(h, h[q].left, A) /\ Avl(h, h[q].right, B) /\ Avl(h, h[p].right, C)
  /\ KeyBetween(h, p, A \cup B \cup {q}, C) /\ KeyBetween(h, q, A, B)

\* What tree_rotate_left makes of p and q and the trees below them.
TurnedLeft(h, p, q, A, B, C, s) ==
  LET g == s.heap
  IN /\ s = Sub(g, q) /\ g \in Heaps /\ LeansLeft(g, q, p, A, B, C)
     /\ g[p].left = h[p].left /\ g[p].right = h[q].left /\ g[q].right = h[q].right
     /\ HeightIsRight(g, p) /\ HeightIsRight(g, q)
     /\ \A c \in {h[p].left, h[q].left, h[q].right} : NodeHeight(g, c) = NodeHeight(h, c)
     /\ \A m \in Nodes \ (A \cup B \cup C \cup {p, q}) : g[m] = h[m]
     /\ \A m \in Nodes : g[m].key = h[m].key

\* tree_rotate_left keeps the three trees and their order.
LEMMA TurnLeft ==
  ASSUME NEW h \in Heaps, NEW p \in Nodes, NEW q \in Nodes,
         NEW A \in SUBSET Nodes, NEW B \in SUBSET Nodes, NEW C \in SUBSET Nodes,
         LeansRight(h, p, q, A, B, C)
  PROVE  TurnedLeft(h, p, q, A, B, C, TreeRotateLeft(h, p))
<1> DEFINE s == TreeRotateLeft(h, p)  g == s.heap
           a == h[p].left  b == h[q].left  c == h[q].right
<1>0. q = h[p].right /\ q # Null /\ q # p /\ a \in Links /\ b \in Links /\ c \in Links /\ Apart(p, q, A, B, C)
  BY NodeFacts, LinkFacts DEF LeansRight, Apart
<1>1. /\ s = Sub(g, q) /\ g \in Heaps
      /\ \A m \in Nodes : m # p /\ m # q => SameNode(h, g, m)
      /\ \A m \in Nodes : g[m].key = h[m].key
      /\ g[p].right = b /\ g[p].left = a /\ g[q].right = c /\ g[q].left = p
      /\ \A m \in Nodes : g[m].parent = IF m = p THEN q ELSE IF m = b THEN p
                                        ELSE IF m = q THEN Wild ELSE h[m].parent
      /\ b \notin {p, q} /\ a \notin {p, q} => HeightIsRight(g, p)
      /\ c \notin {p, q} => HeightIsRight(g, q)
  BY <1>0, RotatedLeft
<1> HIDE DEF g, s
<1>2. /\ Avl(h, a, A) /\ Avl(h, b, B) /\ Avl(h, c, C)
      /\ KeyBetween(h, p, A, B \cup C \cup {q}) /\ KeyBetween(h, q, B, C)
  BY DEF LeansRight
<1>3. /\ a # Null => a \in A
      /\ b # Null => b \in B
      /\ c # Null => c \in C
  BY <1>0, <1>2, AvlNodes
<1>4. a \notin {p, q} /\ b \notin {p, q} /\ c \notin {p, q}
  BY <1>0, <1>3, LinkFacts DEF Apart
<1>5. \A m \in A \cup B \cup C : SameNode(h, g, m)
  BY <1>0, <1>1 DEF Apart
<1>6. Avl(g, a, A) /\ Avl(g, b, B) /\ Avl(g, c, C)
  <2>1. Avl(g, a, A)
    <3>1. b \notin A
      BY <1>0, <1>3, LinkFacts DEF Apart
    <3> QED  BY <1>0, <1>1, <1>2, <1>5, <3>1, AvlFrame
  <2>2. Avl(g, b, B)
    BY <1>0, <1>1, <1>2, <1>5, AvlFrame
  <2>3. Avl(g, c, C)
    <3>1. b \notin C
      BY <1>0, <1>3, LinkFacts DEF Apart
    <3> QED  BY <1>0, <1>1, <1>2, <1>5, <3>1, AvlFrame
  <2> QED  BY <2>1, <2>2, <2>3
<1>7. KeyBetween(g, p, A, B) /\ KeyBetween(g, q, A \cup B \cup {p}, C)
  <2>1. \A m \in A \cup B \cup C \cup {p, q} : g[m].key = h[m].key /\ h[m].key \in Int
    BY <1>1, NodeFacts
  <2>2. \A m \in A : h[m].key <= h[p].key /\ h[p].key <= h[q].key
    BY <1>2 DEF KeyBetween
  <2> QED  BY <1>2, <2>1, <2>2 DEF KeyBetween
<1>9. \A d \in {a, b, c} : NodeHeight(g, d) = NodeHeight(h, d)
  BY <1>0, <1>1, <1>4, LinkFacts DEF NodeHeight, SameNode
<1>10. ASSUME NEW m \in Nodes \ (A \cup B \cup C \cup {p, q}) PROVE g[m] = h[m]
  <2>1. m # b
    BY <1>3, LinkFacts
  <2> QED  BY <1>1, <2>1, SameRecord
<1>12. Apart(q, p, A, B, C)
  BY <1>0 DEF Apart
<1>13. LeansLeft(g, q, p, A, B, C)
  BY <1>1, <1>6, <1>7, <1>12 DEF LeansLeft
<1> QED  BY <1>1, <1>4, <1>9, <1>10, <1>13 DEF s, g, TurnedLeft

\* What tree_rotate_right makes of p and q and the trees below them.
TurnedRight(h, p, q, A, B, C, s) ==
  LET g == s.heap
  IN /\ s = Sub(g, q) /\ g \in Heaps /\ LeansRight(g, q, p, A, B, C)
     /\ g[q].left = h[q].left /\ g[p].left = h[q].right /\ g[p].right = h[p].right
     /\ HeightIsRight(g, p) /\ HeightIsRight(g, q)
     /\ \A c \in {h[q].left, h[q].right, h[p].right} : NodeHeight(g, c) = NodeHeight(h, c)
     /\ \A m \in Nodes \ (A \cup B \cup C \cup {p, q}) : g[m] = h[m]
     /\ \A m \in Nodes : g[m].key = h[m].key

\* tree_rotate_right keeps the three trees and their order.
LEMMA TurnRight ==
  ASSUME NEW h \in Heaps, NEW p \in Nodes, NEW q \in Nodes,
         NEW A \in SUBSET Nodes, NEW B \in SUBSET Nodes, NEW C \in SUBSET Nodes,
         LeansLeft(h, p, q, A, B, C)
  PROVE  TurnedRight(h, p, q, A, B, C, TreeRotateRight(h, p))
<1> DEFINE s == TreeRotateRight(h, p)  g == s.heap
           a == h[q].left  b == h[q].right  c == h[p].right
<1>0. q = h[p].left /\ q # Null /\ q # p /\ a \in Links /\ b \in Links /\ c \in Links /\ Apart(p, q, A, B, C)
  BY NodeFacts, LinkFacts DEF LeansLeft, Apart
<1>1. /\ s = Sub(g, q) /\ g \in Heaps
      /\ \A m \in Nodes : m # p /\ m # q => SameNode(h, g, m)
      /\ \A m \in Nodes : g[m].key = h[m].key
      /\ g[p].left = b /\ g[p].right = c /\ g[q].left = a /\ g[q].right = p
      /\ \A m \in Nodes : g[m].parent = IF m = p THEN q ELSE IF m = b THEN p
                                        ELSE IF m = q THEN h[p].parent ELSE h[m].parent
      /\ b \notin {p, q} /\ c \notin {p, q} => HeightIsRight(g, p)
      /\ a \notin {p, q} => HeightIsRight(g, q)
  BY <1>0, RotatedRight
<1> HIDE DEF g, s
<1>2. /\ Avl(h, a, A) /\ Avl(h, b, B) /\ Avl(h, c, C)
      /\ KeyBetween(h, p, A \cup B \cup {q}, C) /\ KeyBetween(h, q, A, B)
  BY DEF LeansLeft
<1>3. /\ a # Null => a \in A
      /\ b # Null => b \in B
      /\ c # Null => c \in C
  BY <1>0, <1>2, AvlNodes
<1>4. a \notin {p, q} /\ b \notin {p, q} /\ c \notin {p, q}
  BY <1>0, <1>3, LinkFacts DEF Apart
<1>5. \A m \in A \cup B \cup C : SameNode(h, g, m)
  BY <1>0, <1>1 DEF Apart
<1>6. Avl(g, a, A) /\ Avl(g, b, B) /\ Avl(g, c, C)
  <2>1. Avl(g, a, A)
    <3>1. b \notin A
      BY <1>0, <1>3, LinkFacts DEF Apart
    <3> QED  BY <1>0, <1>1, <1>2, <1>5, <3>1, AvlFrame
  <2>2. Avl(g, b, B)
    BY <1>0, <1>1, <1>2, <1>5, AvlFrame
  <2>3. Avl(g, c, C)
    <3>1. b \notin C
      BY <1>0, <1>3, LinkFacts DEF Apart
    <3> QED  BY <1>0, <1>1, <1>2, <1>5, <3>1, AvlFrame
  <2> QED  BY <2>1, <2>2, <2>3
<1>7. KeyBetween(g, p, B, C) /\ KeyBetween(g, q, A, B \cup C \cup {p})
  <2>1. \A m \in A \cup B \cup C \cup {p, q} : g[m].key = h[m].key /\ h[m].key \in Int
    BY <1>1, NodeFacts
  <2>2. \A m \in C : h[q].key <= h[p].key /\ h[p].key <= h[m].key
    BY <1>2 DEF KeyBetween
  <2> QED  BY <1>2, <2>1, <2>2 DEF KeyBetween
<1>9. \A d \in {a, b, c} : NodeHeight(g, d) = NodeHeight(h, d)
  BY <1>0, <1>1, <1>4, LinkFacts DEF NodeHeight, SameNode
<1>10. ASSUME NEW m \in Nodes \ (A \cup B \cup C \cup {p, q}) PROVE g[m] = h[m]
  <2>1. m # b
    BY <1>3, LinkFacts
  <2> QED  BY <1>1, <2>1, SameRecord
<1>12. Apart(q, p, A, B, C)
  BY <1>0 DEF Apart
<1>13. LeansRight(g, q, p, A, B, C)
  BY <1>1, <1>6, <1>7, <1>12 DEF LeansRight
<1> QED  BY <1>1, <1>4, <1>9, <1>10, <1>13 DEF s, g, TurnedRight

\* What a node and its subtrees are after a rotation, if they are balanced.
LEMMA LeansLeftJoin ==
  ASSUME NEW h \in Heaps, NEW p \in Nodes, NEW q \in Nodes,
         NEW A \in SUBSET Nodes, NEW B \in SUBSET Nodes, NEW C \in SUBSET Nodes,
         LeansLeft(h, p, q, A, B, C), HeightIsRight(h, q), BalanceFactor(h, q) \in -1..1
  PROVE  /\ Avl(h, q, A \cup B \cup {q}) /\ Hung(h, p, A \cup B \cup {q}, C)
         /\ HeightIsRight(h, p) /\ BalanceFactor(h, p) \in -1..1 =>
              Avl(h, p, A \cup B \cup C \cup {p, q})
<1>1. Hung(h, q, A, B)
  BY DEF LeansLeft, Hung, Apart
<1>2. Avl(h, q, A \cup B \cup {q})
  BY <1>1, AvlJoin DEF LeansLeft
<1>3. Hung(h, p, A \cup B \cup {q}, C)
  BY <1>2 DEF LeansLeft, Hung, Apart
<1>4. (A \cup B \cup {q}) \cup C \cup {p} = A \cup B \cup C \cup {p, q}
  OBVIOUS
<1>5. ASSUME HeightIsRight(h, p), BalanceFactor(h, p) \in -1..1
      PROVE  Avl(h, p, (A \cup B \cup {q}) \cup C \cup {p})
  BY <1>3, <1>5, AvlJoin DEF LeansLeft
<1> QED  BY <1>2, <1>3, <1>4, <1>5

\* The mirror image.
LEMMA LeansRightJoin ==
  ASSUME NEW h \in Heaps, NEW p \in Nodes, NEW q \in Nodes,
         NEW A \in SUBSET Nodes, NEW B \in SUBSET Nodes, NEW C \in SUBSET Nodes,
         LeansRight(h, p, q, A, B, C), HeightIsRight(h, q), BalanceFactor(h, q) \in -1..1
  PROVE  /\ Avl(h, q, B \cup C \cup {q}) /\ Hung(h, p, A, B \cup C \cup {q})
         /\ HeightIsRight(h, p) /\ BalanceFactor(h, p) \in -1..1 =>
              Avl(h, p, A \cup B \cup C \cup {p, q})
<1>1. Hung(h, q, B, C)
  BY DEF LeansRight, Hung, Apart
<1>2. Avl(h, q, B \cup C \cup {q})
  BY <1>1, AvlJoin DEF LeansRight
<1>3. Hung(h, p, A, B \cup C \cup {q})
  BY <1>2 DEF LeansRight, Hung, Apart
<1>4. A \cup (B \cup C \cup {q}) \cup {p} = A \cup B \cup C \cup {p, q}
  OBVIOUS
<1>5. ASSUME HeightIsRight(h, p), BalanceFactor(h, p) \in -1..1
      PROVE  Avl(h, p, A \cup (B \cup C \cup {q}) \cup {p})
  BY <1>3, <1>5, AvlJoin DEF LeansRight
<1> QED  BY <1>2, <1>3, <1>4, <1>5

(***************************************************************************)
(* tree_balance.                                                           *)
(***************************************************************************)

\* A function that was given the subtree of n in the heap h returned s: an AVL
\* tree of the nodes S, t or t + 1 high, with nothing changed beside it.
Rebuilt(h, n, S, t, s) ==
  /\ s = Sub(s.heap, s.root) /\ s.heap \in Heaps /\ s.root \in S
  /\ Avl(s.heap, s.root, S)
  /\ NodeHeight(s.heap, s.root) \in {t, t + 1}
  /\ \A m \in Nodes \ S : s.heap[m] = h[m]
  /\ \A m \in Nodes : s.heap[m].key = h[m].key

\* The height of a subtree and those of the subtrees below it.
LEMMA HeightSum ==
  ASSUME NEW h \in Heaps, NEW n \in Nodes, HeightIsRight(h, n)
  PROVE  LET hl == NodeHeight(h, h[n].left)
             hr == NodeHeight(h, h[n].right)
         IN /\ hl \in Nat /\ hr \in Nat /\ NodeHeight(h, n) \in Nat
            /\ NodeHeight(h, n) = (IF hl < hr THEN hr ELSE hl) + 1
            /\ BalanceFactor(h, n) = hr - hl
<1>1. NodeHeight(h, h[n].left) \in Nat /\ NodeHeight(h, h[n].right) \in Nat
  BY NodeFacts, HeightFacts
<1>2. NodeHeight(h, n) = h[n].height /\ NodeHeight(h, n) \in Nat
  BY HeightFacts, LinkFacts
<1> QED  BY <1>1, <1>2 DEF HeightIsRight, Taller, BalanceFactor

\* The right child of a node that leans to the right by two, taken apart.
LEMMA RightTooHigh ==
  ASSUME NEW h \in Heaps, NEW n \in Nodes, NEW L \in SUBSET Nodes, NEW R \in SUBSET Nodes,
         Hung(h, n, L, R), BalanceFactor(h, n) = 2
  PROVE  LET q == h[n].right IN
         /\ q \in Nodes /\ HeightIsRight(h, q) /\ BalanceFactor(h, q) \in -1..1
         /\ \E B, C \in SUBSET Nodes : R = B \cup C \cup {q} /\ LeansRight(h, n, q, L, B, C)
<1> DEFINE q == h[n].right
<1>1. h[n].left \in Links /\ q \in Links /\ NodeHeight(h, h[n].left) \in Nat
  BY NodeFacts, HeightFacts
<1>2. q \in Nodes
  BY <1>1, HeightFacts, LinkFacts DEF BalanceFactor
<1>3. PICK B, C \in SUBSET Nodes :
        /\ Hung(h, q, B, C) /\ R = B \cup C \cup {q}
        /\ HeightIsRight(h, q) /\ BalanceFactor(h, q) \in -1..1
  <2>1. Avl(h, q, R)
    BY DEF Hung
  <2> QED  BY <1>2, <2>1, AvlSplit
<1>4. Apart(n, q, L, B, C)
  BY <1>3 DEF Hung, Apart
<1>5. LeansRight(h, n, q, L, B, C)
  BY <1>3, <1>4 DEF Hung, LeansRight
<1> QED  BY <1>2, <1>3, <1>5

\* One rotation to the left.
LEMMA OneLeft ==
  ASSUME NEW h \in Heaps, NEW n \in Nodes, NEW L \in SUBSET Nodes, NEW R \in SUBSET Nodes,
         Hung(h, n, L, R),
         BalanceFactor(h, n) = 2, BalanceFactor(h, h[n].right) >= 0
  PROVE  Rebuilt(h, n, L \cup R \cup {n}, NodeHeight(h, h[n].right), TreeRotateLeft(h, n))
<1> DEFINE q == h[n].right  s == TreeRotateLeft(h, n)  g == s.heap
<1>1. q \in Nodes /\ HeightIsRight(h, q) /\ BalanceFactor(h, q) \in -1..1
  BY RightTooHigh
<1>2. PICK B, C \in SUBSET Nodes : R = B \cup C \cup {q} /\ LeansRight(h, n, q, L, B, C)
  BY RightTooHigh
<1>3. /\ s = Sub(g, q) /\ g \in Heaps /\ LeansLeft(g, q, n, L, B, C)
      /\ g[n].left = h[n].left /\ g[n].right = h[q].left /\ g[q].right = h[q].right
      /\ HeightIsRight(g, n) /\ HeightIsRight(g, q)
      /\ \A c \in {h[n].left, h[q].left, h[q].right} : NodeHeight(g, c) = NodeHeight(h, c)
      /\ \A m \in Nodes \ (L \cup B \cup C \cup {n, q}) : g[m] = h[m]
      /\ \A m \in Nodes : g[m].key = h[m].key
  <2>1. TurnedLeft(h, n, q, L, B, C, s)
    BY <1>1, <1>2, TurnLeft
  <2> HIDE DEF s, q
  <2> QED  BY <2>1 DEF TurnedLeft
<1> HIDE DEF s, g
<1> DEFINE ha == NodeHeight(h, h[n].left)  hb == NodeHeight(h, h[q].left)  hc == NodeHeight(h, h[q].right)
<1>4. /\ ha \in Nat /\ hb \in Nat /\ hc \in Nat
      /\ NodeHeight(h, q) = (IF hb < hc THEN hc ELSE hb) + 1 /\ NodeHeight(h, q) = ha + 2
      /\ hc - hb \in -1..1 /\ hc - hb >= 0
  <2>1. ha \in Nat
    BY NodeFacts, HeightFacts
  <2>2. /\ hb \in Nat /\ hc \in Nat /\ NodeHeight(h, q) \in Nat /\ BalanceFactor(h, q) = hc - hb
        /\ NodeHeight(h, q) = (IF hb < hc THEN hc ELSE hb) + 1
    BY <1>1, HeightSum
  <2>3. BalanceFactor(h, n) = NodeHeight(h, q) - ha
    BY DEF BalanceFactor
  <2> QED  BY <1>1, <2>1, <2>2, <2>3
<1>5. g[q].left = n
  BY <1>3 DEF LeansLeft
<1>6. NodeHeight(g, n) = (IF ha < hb THEN hb ELSE ha) + 1 /\ BalanceFactor(g, n) = hb - ha
  BY <1>3, HeightSum
<1>7. /\ NodeHeight(g, q) = (IF NodeHeight(g, n) < hc THEN hc ELSE NodeHeight(g, n)) + 1
      /\ BalanceFactor(g, q) = hc - NodeHeight(g, n)
  BY <1>1, <1>3, <1>5, HeightSum
<1> HIDE DEF ha, hb, hc
<1>8. BalanceFactor(g, n) \in -1..1 /\ BalanceFactor(g, q) \in -1..1
  BY <1>4, <1>6, <1>7
<1>9. NodeHeight(g, q) \in {NodeHeight(h, q), NodeHeight(h, q) + 1}
  BY <1>4, <1>6, <1>7
<1>10. Avl(g, q, L \cup B \cup C \cup {q, n})
  BY <1>1, <1>3, <1>8, LeansLeftJoin
<1>11. L \cup B \cup C \cup {q, n} = L \cup R \cup {n} /\ s.heap = g /\ s.root = q
  BY <1>2, <1>3 DEF Sub
<1>12. q \in L \cup R \cup {n} /\ \A m \in Nodes \ (L \cup R \cup {n}) : g[m] = h[m]
  BY <1>2, <1>3
<1>13. Rebuilt(h, n, L \cup R \cup {n}, NodeHeight(h, q), s)
  <2> HIDE DEF q
  <2> QED  BY <1>3, <1>9, <1>10, <1>11, <1>12 DEF Rebuilt
<1> QED  BY <1>13 DEF s

\* A rotation of the right child to the right, then one to the left.
LEMMA RightThenLeft ==
  ASSUME NEW h \in Heaps, NEW n \in Nodes, NEW L \in SUBSET Nodes, NEW R \in SUBSET Nodes,
         Hung(h, n, L, R),
         BalanceFactor(h, n) = 2, BalanceFactor(h, h[n].right) < 0
  PROVE  Rebuilt(h, n, L \cup R \cup {n}, NodeHeight(h, h[n].right),
                 TreeRotateLeft(SetRight(TreeRotateRight(h, h[n].right), n), n))
<1> DEFINE q == h[n].right  x == h[q].left
           s1 == TreeRotateRight(h, q)  g1 == s1.heap  g2 == SetRight(s1, n)
           s == TreeRotateLeft(g2, n)  g == s.heap
<1>1. q \in Nodes /\ HeightIsRight(h, q) /\ BalanceFactor(h, q) \in -1..1
  BY RightTooHigh
<1>2. PICK B, C \in SUBSET Nodes : R = B \cup C \cup {q} /\ LeansRight(h, n, q, L, B, C)
  BY RightTooHigh
<1> DEFINE ha == NodeHeight(h, h[n].left)  hb == NodeHeight(h, x)  hc == NodeHeight(h, h[q].right)
<1>3. /\ ha \in Nat /\ hb = ha + 1 /\ hc = ha
      /\ NodeHeight(h, q) = ha + 2
  <2>1. ha \in Nat
    BY NodeFacts, HeightFacts
  <2>2. /\ hb \in Nat /\ hc \in Nat /\ NodeHeight(h, q) \in Nat /\ BalanceFactor(h, q) = hc - hb
        /\ NodeHeight(h, q) = (IF hb < hc THEN hc ELSE hb) + 1
    BY <1>1, HeightSum
  <2>3. BalanceFactor(h, n) = NodeHeight(h, q) - ha
    BY DEF BalanceFactor
  <2> QED  BY <1>1, <2>1, <2>2, <2>3
<1>4. x \in Nodes
  <2>1. x \in Links
    BY <1>1, NodeFacts
  <2> QED  BY <1>3, <2>1, HeightFacts, LinkFacts
<1>5. Avl(h, x, B) /\ Avl(h, h[n].left, L) /\ Avl(h, h[q].right, C) /\ Apart(n, q, L, B, C)
  BY <1>2 DEF LeansRight
<1>6. PICK D, E \in SUBSET Nodes :
        /\ Hung(h, x, D, E) /\ B = D \cup E \cup {x}
        /\ HeightIsRight(h, x) /\ BalanceFactor(h, x) \in -1..1
  BY <1>4, <1>5, AvlSplit
<1> DEFINE hd == NodeHeight(h, h[x].left)  he == NodeHeight(h, h[x].right)
<1>7. /\ hd \in Nat /\ he \in Nat /\ hb = (IF hd < he THEN he ELSE hd) + 1 /\ he - hd \in -1..1
  BY <1>4, <1>6, HeightSum
<1>8. KeyBetween(h, q, D \cup E \cup {x}, C) /\ KeyBetween(h, x, D, E)
  BY <1>2, <1>6 DEF LeansRight, Hung
<1>9. Apart(q, x, D, E, C)
  BY <1>5, <1>6 DEF Apart, Hung
<1>10. LeansLeft(h, q, x, D, E, C)
  BY <1>2, <1>5, <1>6, <1>8, <1>9 DEF LeansLeft, LeansRight, Hung
<1>11. /\ s1 = Sub(g1, x) /\ g1 \in Heaps /\ LeansRight(g1, x, q, D, E, C)
       /\ g1[x].left = h[x].left /\ g1[q].left = h[x].right /\ g1[q].right = h[q].right
       /\ HeightIsRight(g1, q) /\ HeightIsRight(g1, x)
       /\ \A c \in {h[x].left, h[x].right, h[q].right} : NodeHeight(g1, c) = NodeHeight(h, c)
       /\ \A m \in Nodes \ (D \cup E \cup C \cup {q, x}) : g1[m] = h[m]
       /\ \A m \in Nodes : g1[m].key = h[m].key
  <2>1. TurnedRight(h, q, x, D, E, C, s1)
    BY <1>1, <1>4, <1>10, TurnRight
  <2> HIDE DEF s1, q, x
  <2> QED  BY <2>1 DEF TurnedRight
<1> HIDE DEF s1, g1
<1>12. /\ NodeHeight(g1, q) = (IF he < hc THEN hc ELSE he) + 1 /\ BalanceFactor(g1, q) = hc - he
  <2>1. g1 \in Heaps /\ q \in Nodes /\ HeightIsRight(g1, q)
    BY <1>1, <1>11
  <2>2. NodeHeight(g1, g1[q].left) = he /\ NodeHeight(g1, g1[q].right) = hc
    BY <1>11
  <2> HIDE DEF he, hc, q, x
  <2> QED  BY <2>1, <2>2, HeightSum
<1> HIDE DEF ha, hb, hc, hd, he
<1>13. NodeHeight(g1, q) = ha + 1 /\ BalanceFactor(g1, q) \in -1..1
  BY <1>3, <1>7, <1>12
<1>14. Avl(g1, q, E \cup C \cup {q}) /\ Avl(g1, g1[x].left, D) /\ g1[x].right = q
  <2>1. g1 \in Heaps /\ x \in Nodes /\ q \in Nodes /\ LeansRight(g1, x, q, D, E, C) /\ HeightIsRight(g1, q)
    BY <1>1, <1>4, <1>11
  <2> HIDE DEF q, x
  <2>2. Avl(g1, q, E \cup C \cup {q})
    BY <1>13, <2>1, LeansRightJoin
  <2> QED  BY <2>1, <2>2 DEF LeansRight
<1>15. /\ g2 \in Heaps /\ \A m \in Nodes : m # n => g2[m] = g1[m]
       /\ g2[n].key = h[n].key /\ g2[n].left = h[n].left /\ g2[n].right = x
  <2>1. g2 = SetRight(Sub(g1, x), n) /\ x \in Links
    BY <1>4, <1>11, LinkFacts
  <2>2. g1[n] = h[n]
    BY <1>5, <1>6, <1>9, <1>11 DEF Apart
  <2>3. g1 \in Heaps
    BY <1>11
  <2> HIDE DEF g2, q, x
  <2> QED  BY <2>1, <2>2, <2>3, SetLinkFacts
<1> HIDE DEF g2
<1>16. LeansRight(g2, n, x, L, D, E \cup C \cup {q})
  <2> DEFINE F == E \cup C \cup {q}
  <2>1. Apart(n, x, L, D, F)
    BY <1>5, <1>6, <1>9 DEF Apart
  <2>2. g2[x] = g1[x] /\ \A m \in L \cup D \cup F : m # n /\ m \in Nodes
    BY <1>1, <1>4, <1>15, <2>1 DEF Apart
  <2>3. \A m \in L : g2[m] = h[m]
    BY <1>5, <1>6, <1>9, <1>11, <1>15, <2>2 DEF Apart
  <2>4. \A m \in D \cup F : g2[m] = g1[m]
    BY <1>15, <2>2
  <2>5. h[n].left \in Links /\ g1[x].left \in Links /\ q \in Links
    BY <1>4, <1>1, <1>11, NodeFacts, LinkFacts
  <2>6. Avl(g2, g2[n].left, L)
    BY <1>5, <1>15, <2>3, <2>5, AvlFrame DEF SameNode
  <2>7. Avl(g2, g2[x].left, D) /\ Avl(g2, g2[x].right, F)
    <3>1. g2[x].left = g1[x].left /\ g2[x].right = q
      BY <1>14, <2>2
    <3>2. \A m \in D \cup F : SameNode(g1, g2, m)
      BY <2>4 DEF SameNode
    <3>3. Avl(g1, g1[x].left, D) /\ Avl(g1, q, F)
      BY <1>14
    <3> HIDE DEF F, q
    <3> QED  BY <1>11, <1>15, <2>5, <3>1, <3>2, <3>3, AvlFrame
  <2>8. \A m \in L \cup D \cup F \cup {n, x} : g2[m].key = h[m].key /\ h[m].key \in Int
    BY <1>1, <1>4, <1>11, <1>15, NodeFacts
  <2>9. KeyBetween(g2, n, L, D \cup F \cup {x})
    <3>1. KeyBetween(h, n, L, B \cup C \cup {q})
      BY <1>2 DEF LeansRight
    <3> QED  BY <1>6, <2>8, <3>1 DEF KeyBetween
  <2>10. KeyBetween(g2, x, D, F)
    <3>1. KeyBetween(g1, x, D, F)
      BY <1>11 DEF LeansRight
    <3>2. \A m \in D \cup F \cup {x} : g1[m].key = g2[m].key
      BY <2>2, <2>4
    <3> HIDE DEF F
    <3> QED  BY <3>1, <3>2 DEF KeyBetween
  <2> QED  BY <1>15, <2>1, <2>6, <2>7, <2>9, <2>10 DEF LeansRight
<1>17. /\ s = Sub(g, x) /\ g \in Heaps /\ LeansLeft(g, x, n, L, D, E \cup C \cup {q})
       /\ g[n].left = g2[n].left /\ g[n].right = g2[x].left /\ g[x].right = g2[x].right
       /\ HeightIsRight(g, n) /\ HeightIsRight(g, x)
       /\ \A c \in {g2[n].left, g2[x].left, g2[x].right} : NodeHeight(g, c) = NodeHeight(g2, c)
       /\ \A m \in Nodes \ (L \cup D \cup (E \cup C \cup {q}) \cup {n, x}) : g[m] = g2[m]
       /\ \A m \in Nodes : g[m].key = g2[m].key
  <2>1. E \cup C \cup {q} \in SUBSET Nodes
    BY <1>1
  <2>2. TurnedLeft(g2, n, x, L, D, E \cup C \cup {q}, s)
    BY <1>4, <1>15, <1>16, <2>1, TurnLeft
  <2> HIDE DEF s, q, x
  <2> QED  BY <2>2 DEF TurnedLeft
<1> HIDE DEF s, g
<1>18. /\ NodeHeight(g2, g2[n].left) = ha /\ NodeHeight(g2, g2[x].left) = hd
       /\ NodeHeight(g2, g2[x].right) = ha + 1
  <2>1. x # n /\ q # n
    BY <1>5, <1>6 DEF Apart
  <2>2. g2[x].left = h[x].left /\ g2[x].right = q /\ g2[n].left = h[n].left
    BY <1>4, <1>11, <1>14, <1>15, <2>1
  <2>3. NodeHeight(g2, q) = NodeHeight(g1, q)
    BY <1>1, <1>15, <2>1 DEF NodeHeight
  <2>4. NodeHeight(g2, h[x].left) = NodeHeight(g1, h[x].left)
    <3>1. h[x].left \in Links /\ (h[x].left # Null => h[x].left \in D)
      BY <1>4, <1>6, NodeFacts, AvlNodes DEF Hung
    <3> QED  BY <1>5, <1>6, <1>15, <3>1, LinkFacts DEF NodeHeight, Apart
  <2>5. NodeHeight(g2, h[n].left) = NodeHeight(h, h[n].left)
    <3>1. h[n].left \in Links /\ (h[n].left # Null => h[n].left \in L)
      BY <1>5, NodeFacts, AvlNodes
    <3>2. h[n].left # Null => h[n].left \notin D \cup E \cup C \cup {q, x, n}
      BY <1>5, <1>6, <3>1 DEF Apart
    <3> QED  BY <1>11, <1>15, <3>1, <3>2, LinkFacts DEF NodeHeight
  <2> QED  BY <1>11, <1>13, <2>2, <2>3, <2>4, <2>5 DEF ha, hd
<1>19. NodeHeight(g, n) = (IF ha < hd THEN hd ELSE ha) + 1 /\ BalanceFactor(g, n) = hd - ha
  <2>1. NodeHeight(g, g[n].left) = ha /\ NodeHeight(g, g[n].right) = hd
    BY <1>17, <1>18
  <2>2. g \in Heaps /\ HeightIsRight(g, n)
    BY <1>17
  <2> QED  BY <2>1, <2>2, HeightSum
<1>20. g[x].left = n
  BY <1>17 DEF LeansLeft
<1>21. /\ NodeHeight(g, x) = (IF NodeHeight(g, n) < ha + 1 THEN ha + 1 ELSE NodeHeight(g, n)) + 1
       /\ BalanceFactor(g, x) = ha + 1 - NodeHeight(g, n)
  <2>1. NodeHeight(g, g[x].right) = ha + 1
    BY <1>17, <1>18
  <2>2. g \in Heaps /\ x \in Nodes /\ HeightIsRight(g, x)
    BY <1>4, <1>17
  <2> HIDE DEF q, x
  <2> DEFINE gl == NodeHeight(g, g[x].left)  gr == NodeHeight(g, g[x].right)
  <2>3. /\ gl \in Nat /\ gr \in Nat
        /\ NodeHeight(g, x) = (IF gl < gr THEN gr ELSE gl) + 1 /\ BalanceFactor(g, x) = gr - gl
    BY <2>2, HeightSum
  <2>4. gl = NodeHeight(g, n) /\ gr = ha + 1
    BY <1>20, <2>1
  <2> HIDE DEF gl, gr
  <2> QED  BY <1>3, <2>3, <2>4
<1>22. BalanceFactor(g, n) \in -1..1 /\ BalanceFactor(g, x) \in -1..1 /\ NodeHeight(g, x) = NodeHeight(h, q)
  BY <1>3, <1>7, <1>19, <1>21
<1>23. Avl(g, x, L \cup D \cup (E \cup C \cup {q}) \cup {x, n})
  <2>1. E \cup C \cup {q} \in SUBSET Nodes
    BY <1>1
  <2> DEFINE F == E \cup C \cup {q}
  <2>2. g \in Heaps /\ n \in Nodes /\ x \in Nodes /\ LeansLeft(g, x, n, L, D, F)
    BY <1>4, <1>17
  <2>3. HeightIsRight(g, n) /\ HeightIsRight(g, x)
    BY <1>17
  <2> HIDE DEF F, q, x
  <2>4. Avl(g, x, L \cup D \cup F \cup {x, n})
    BY <1>22, <2>1, <2>2, <2>3, LeansLeftJoin DEF F
  <2> QED  BY <2>4 DEF F
<1>24. L \cup D \cup (E \cup C \cup {q}) \cup {x, n} = L \cup R \cup {n} /\ s.heap = g /\ s.root = x
  BY <1>2, <1>6, <1>17 DEF Sub
<1>25. ASSUME NEW m \in Nodes \ (L \cup R \cup {n}) PROVE g[m] = h[m]
  <2>1. /\ m \notin L \cup D \cup (E \cup C \cup {q}) \cup {n, x}
        /\ m \notin D \cup E \cup C \cup {q, x} /\ m # n
    BY <1>2, <1>6, <1>25
  <2> QED  BY <1>11, <1>15, <1>17, <2>1
<1>26. ASSUME NEW m \in Nodes PROVE g[m].key = h[m].key
  <2>1. g2[m].key = h[m].key
    BY <1>11, <1>15
  <2> QED  BY <1>17, <2>1
<1>27. s = TreeRotateLeft(SetRight(TreeRotateRight(h, h[n].right), n), n)
  BY DEF s, g2, s1
<1>28. Rebuilt(h, n, L \cup R \cup {n}, NodeHeight(h, q), s)
  BY <1>17, <1>22, <1>23, <1>24, <1>25, <1>26 DEF Rebuilt
<1> QED  BY <1>27, <1>28

\* The left child of a node that leans to the left by two, taken apart.
LEMMA LeftTooHigh ==
  ASSUME NEW h \in Heaps, NEW n \in Nodes, NEW L \in SUBSET Nodes, NEW R \in SUBSET Nodes,
         Hung(h, n, L, R), BalanceFactor(h, n) = -2
  PROVE  LET q == h[n].left IN
         /\ q \in Nodes /\ HeightIsRight(h, q) /\ BalanceFactor(h, q) \in -1..1
         /\ \E B, C \in SUBSET Nodes : L = B \cup C \cup {q} /\ LeansLeft(h, n, q, C, B, R)
<1> DEFINE q == h[n].left
<1>1. h[n].right \in Links /\ q \in Links /\ NodeHeight(h, h[n].right) \in Nat
  BY NodeFacts, HeightFacts
<1>2. q \in Nodes
  BY <1>1, HeightFacts, LinkFacts DEF BalanceFactor
<1>3. PICK B, C \in SUBSET Nodes :
        /\ Hung(h, q, C, B) /\ L = B \cup C \cup {q}
        /\ HeightIsRight(h, q) /\ BalanceFactor(h, q) \in -1..1
  <2>1. Avl(h, q, L)
    BY DEF Hung
  <2> QED  BY <1>2, <2>1, AvlSplit
<1>4. Apart(n, q, C, B, R)
  BY <1>3 DEF Hung, Apart
<1>5. LeansLeft(h, n, q, C, B, R)
  BY <1>3, <1>4 DEF Hung, LeansLeft
<1> QED  BY <1>2, <1>3, <1>5

\* One rotation to the right.
LEMMA OneRight ==
  ASSUME NEW h \in Heaps, NEW n \in Nodes, NEW L \in SUBSET Nodes, NEW R \in SUBSET Nodes,
         Hung(h, n, L, R),
         BalanceFactor(h, n) = -2, BalanceFactor(h, h[n].left) <= 0
  PROVE  Rebuilt(h, n, L \cup R \cup {n}, NodeHeight(h, h[n].left), TreeRotateRight(h, n))
<1> DEFINE q == h[n].left  s == TreeRotateRight(h, n)  g == s.heap
<1>1. q \in Nodes /\ HeightIsRight(h, q) /\ BalanceFactor(h, q) \in -1..1
  BY LeftTooHigh
<1>2. PICK B, C \in SUBSET Nodes : L = B \cup C \cup {q} /\ LeansLeft(h, n, q, C, B, R)
  BY LeftTooHigh
<1>3. /\ s = Sub(g, q) /\ g \in Heaps /\ LeansRight(g, q, n, C, B, R)
      /\ g[n].right = h[n].right /\ g[n].left = h[q].right /\ g[q].left = h[q].left
      /\ HeightIsRight(g, n) /\ HeightIsRight(g, q)
      /\ \A c \in {h[n].right, h[q].right, h[q].left} : NodeHeight(g, c) = NodeHeight(h, c)
      /\ \A m \in Nodes \ (R \cup B \cup C \cup {n, q}) : g[m] = h[m]
      /\ \A m \in Nodes : g[m].key = h[m].key
  <2>1. TurnedRight(h, n, q, C, B, R, s)
    BY <1>1, <1>2, TurnRight
  <2> HIDE DEF s, q
  <2> QED  BY <2>1 DEF TurnedRight
<1> HIDE DEF s, g
<1> DEFINE ha == NodeHeight(h, h[n].right)  hb == NodeHeight(h, h[q].right)  hc == NodeHeight(h, h[q].left)
<1>4. /\ ha \in Nat /\ hb \in Nat /\ hc \in Nat
      /\ NodeHeight(h, q) = (IF hb < hc THEN hc ELSE hb) + 1 /\ NodeHeight(h, q) = ha + 2
      /\ hc - hb \in -1..1 /\ hc - hb >= 0
  <2>1. ha \in Nat
    BY NodeFacts, HeightFacts
  <2>2. /\ hb \in Nat /\ hc \in Nat /\ NodeHeight(h, q) \in Nat /\ BalanceFactor(h, q) = hb - hc
        /\ NodeHeight(h, q) = (IF hb < hc THEN hc ELSE hb) + 1
    BY <1>1, HeightSum
  <2>3. BalanceFactor(h, n) = ha - NodeHeight(h, q)
    BY DEF BalanceFactor
  <2> QED  BY <1>1, <2>1, <2>2, <2>3
<1>5. g[q].right = n
  BY <1>3 DEF LeansRight
<1>6. NodeHeight(g, n) = (IF ha < hb THEN hb ELSE ha) + 1 /\ BalanceFactor(g, n) = ha - hb
  BY <1>3, HeightSum
<1>7. /\ NodeHeight(g, q) = (IF NodeHeight(g, n) < hc THEN hc ELSE NodeHeight(g, n)) + 1
      /\ BalanceFactor(g, q) = NodeHeight(g, n) - hc
  BY <1>1, <1>3, <1>5, HeightSum
<1> HIDE DEF ha, hb, hc
<1>8. BalanceFactor(g, n) \in -1..1 /\ BalanceFactor(g, q) \in -1..1
  BY <1>4, <1>6, <1>7
<1>9. NodeHeight(g, q) \in {NodeHeight(h, q), NodeHeight(h, q) + 1}
  BY <1>4, <1>6, <1>7
<1>10. Avl(g, q, R \cup B \cup C \cup {q, n})
  <2>1. Avl(g, q, C \cup B \cup R \cup {q, n})
    BY <1>1, <1>3, <1>8, LeansRightJoin
  <2>2. C \cup B \cup R \cup {q, n} = R \cup B \cup C \cup {q, n}
    OBVIOUS
  <2> QED  BY <2>1, <2>2
<1>11. R \cup B \cup C \cup {q, n} = L \cup R \cup {n} /\ s.heap = g /\ s.root = q
  BY <1>2, <1>3 DEF Sub
<1>12. q \in L \cup R \cup {n} /\ \A m \in Nodes \ (L \cup R \cup {n}) : g[m] = h[m]
  BY <1>2, <1>3
<1>13. Rebuilt(h, n, L \cup R \cup {n}, NodeHeight(h, q), s)
  <2> HIDE DEF q
  <2> QED  BY <1>3, <1>9, <1>10, <1>11, <1>12 DEF Rebuilt
<1> QED  BY <1>13 DEF s

\* A rotation of the left child to the left, then one to the right.
LEMMA LeftThenRight ==
  ASSUME NEW h \in Heaps, NEW n \in Nodes, NEW L \in SUBSET Nodes, NEW R \in SUBSET Nodes,
         Hung(h, n, L, R),
         BalanceFactor(h, n) = -2, BalanceFactor(h, h[n].left) > 0
  PROVE  Rebuilt(h, n, L \cup R \cup {n}, NodeHeight(h, h[n].left),
                 TreeRotateRight(SetLeft(TreeRotateLeft(h, h[n].left), n), n))
<1> DEFINE q == h[n].left  x == h[q].right
           s1 == TreeRotateLeft(h, q)  g1 == s1.heap  g2 == SetLeft(s1, n)
           s == TreeRotateRight(g2, n)  g == s.heap
<1>1. q \in Nodes /\ HeightIsRight(h, q) /\ BalanceFactor(h, q) \in -1..1
  BY LeftTooHigh
<1>2. PICK B, C \in SUBSET Nodes : L = B \cup C \cup {q} /\ LeansLeft(h, n, q, C, B, R)
  BY LeftTooHigh
<1> DEFINE ha == NodeHeight(h, h[n].right)  hb == NodeHeight(h, x)  hc == NodeHeight(h, h[q].left)
<1>3. /\ ha \in Nat /\ hb = ha + 1 /\ hc = ha
      /\ NodeHeight(h, q) = ha + 2
  <2>1. ha \in Nat
    BY NodeFacts, HeightFacts
  <2>2. /\ hb \in Nat /\ hc \in Nat /\ NodeHeight(h, q) \in Nat /\ BalanceFactor(h, q) = hb - hc
        /\ NodeHeight(h, q) = (IF hb < hc THEN hc ELSE hb) + 1
    BY <1>1, HeightSum
  <2>3. BalanceFactor(h, n) = ha - NodeHeight(h, q)
    BY DEF BalanceFactor
  <2> QED  BY <1>1, <2>1, <2>2, <2>3
<1>4. x \in Nodes
  <2>1. x \in Links
    BY <1>1, NodeFacts
  <2> QED  BY <1>3, <2>1, HeightFacts, LinkFacts
<1>5. Avl(h, x, B) /\ Avl(h, h[n].right, R) /\ Avl(h, h[q].left, C) /\ Apart(n, q, C, B, R)
  BY <1>2 DEF LeansLeft
<1>6. PICK D, E \in SUBSET Nodes :
        /\ Hung(h, x, E, D) /\ B = D \cup E \cup {x}
        /\ HeightIsRight(h, x) /\ BalanceFactor(h, x) \in -1..1
  BY <1>4, <1>5, AvlSplit
<1> DEFINE hd == NodeHeight(h, h[x].right)  he == NodeHeight(h, h[x].left)
<1>7. /\ hd \in Nat /\ he \in Nat /\ hb = (IF hd < he THEN he ELSE hd) + 1 /\ he - hd \in -1..1
  BY <1>4, <1>6, HeightSum
<1>8. KeyBetween(h, q, C, D \cup E \cup {x}) /\ KeyBetween(h, x, E, D)
  BY <1>2, <1>6 DEF LeansLeft, Hung
<1>9. Apart(q, x, C, E, D)
  BY <1>5, <1>6 DEF Apart, Hung
<1>10. LeansRight(h, q, x, C, E, D)
  BY <1>2, <1>5, <1>6, <1>8, <1>9 DEF LeansRight, LeansLeft, Hung
<1>11. /\ s1 = Sub(g1, x) /\ g1 \in Heaps /\ LeansLeft(g1, x, q, C, E, D)
       /\ g1[x].right = h[x].right /\ g1[q].right = h[x].left /\ g1[q].left = h[q].left
       /\ HeightIsRight(g1, q) /\ HeightIsRight(g1, x)
       /\ \A c \in {h[x].right, h[x].left, h[q].left} : NodeHeight(g1, c) = NodeHeight(h, c)
       /\ \A m \in Nodes \ (D \cup E \cup C \cup {q, x}) : g1[m] = h[m]
       /\ \A m \in Nodes : g1[m].key = h[m].key
  <2>1. TurnedLeft(h, q, x, C, E, D, s1)
    BY <1>1, <1>4, <1>10, TurnLeft
  <2> HIDE DEF s1, q, x
  <2> QED  BY <2>1 DEF TurnedLeft
<1> HIDE DEF s1, g1
<1>12. /\ NodeHeight(g1, q) = (IF he < hc THEN hc ELSE he) + 1 /\ BalanceFactor(g1, q) = he - hc
  <2>1. g1 \in Heaps /\ q \in Nodes /\ HeightIsRight(g1, q)
    BY <1>1, <1>11
  <2>2. NodeHeight(g1, g1[q].right) = he /\ NodeHeight(g1, g1[q].left) = hc
    BY <1>11
  <2> HIDE DEF he, hc, q, x
  <2> QED  BY <2>1, <2>2, HeightSum
<1> HIDE DEF ha, hb, hc, hd, he
<1>13. NodeHeight(g1, q) = ha + 1 /\ BalanceFactor(g1, q) \in -1..1
  BY <1>3, <1>7, <1>12
<1>14. Avl(g1, q, E \cup C \cup {q}) /\ Avl(g1, g1[x].right, D) /\ g1[x].left = q
  <2>1. Avl(g1, q, C \cup E \cup {q})
    <3>1. g1 \in Heaps /\ x \in Nodes /\ q \in Nodes /\ LeansLeft(g1, x, q, C, E, D) /\ HeightIsRight(g1, q)
      BY <1>1, <1>4, <1>11
    <3> HIDE DEF q, x
    <3> QED  BY <1>13, <3>1, LeansLeftJoin
  <2>2. C \cup E \cup {q} = E \cup C \cup {q}
    OBVIOUS
  <2> QED  BY <1>11, <2>1, <2>2 DEF LeansLeft
<1>15. /\ g2 \in Heaps /\ \A m \in Nodes : m # n => g2[m] = g1[m]
       /\ g2[n].key = h[n].key /\ g2[n].right = h[n].right /\ g2[n].left = x
  <2>1. g2 = SetLeft(Sub(g1, x), n) /\ x \in Links
    BY <1>4, <1>11, LinkFacts
  <2>2. g1[n] = h[n]
    BY <1>5, <1>6, <1>9, <1>11 DEF Apart
  <2>3. g1 \in Heaps
    BY <1>11
  <2> HIDE DEF g2, q, x
  <2> QED  BY <2>1, <2>2, <2>3, SetLinkFacts
<1> HIDE DEF g2
<1>16. LeansLeft(g2, n, x, E \cup C \cup {q}, D, R)
  <2> DEFINE F == E \cup C \cup {q}
  <2>1. Apart(n, x, F, D, R)
    BY <1>5, <1>6, <1>9 DEF Apart
  <2>2. g2[x] = g1[x] /\ \A m \in R \cup D \cup F : m # n /\ m \in Nodes
    BY <1>1, <1>4, <1>15, <2>1 DEF Apart
  <2>3. \A m \in R : g2[m] = h[m]
    BY <1>5, <1>6, <1>9, <1>11, <1>15, <2>2 DEF Apart
  <2>4. \A m \in D \cup F : g2[m] = g1[m]
    BY <1>15, <2>2
  <2>5. h[n].right \in Links /\ g1[x].right \in Links /\ q \in Links
    BY <1>4, <1>1, <1>11, NodeFacts, LinkFacts
  <2>6. Avl(g2, g2[n].right, R)
    BY <1>5, <1>15, <2>3, <2>5, AvlFrame DEF SameNode
  <2>7. Avl(g2, g2[x].right, D) /\ Avl(g2, g2[x].left, F)
    <3>1. g2[x].right = g1[x].right /\ g2[x].left = q
      BY <1>14, <2>2
    <3>2. \A m \in D \cup F : SameNode(g1, g2, m)
      BY <2>4 DEF SameNode
    <3>3. Avl(g1, g1[x].right, D) /\ Avl(g1, q, F)
      BY <1>14
    <3> HIDE DEF F, q
    <3> QED  BY <1>11, <1>15, <2>5, <3>1, <3>2, <3>3, AvlFrame
  <2>8. \A m \in R \cup D \cup F \cup {n, x} : g2[m].key = h[m].key /\ h[m].key \in Int
    BY <1>1, <1>4, <1>11, <1>15, NodeFacts
  <2>9. KeyBetween(g2, n, D \cup F \cup {x}, R)
    <3>1. KeyBetween(h, n, B \cup C \cup {q}, R)
      BY <1>2 DEF LeansLeft
    <3> QED  BY <1>6, <2>8, <3>1 DEF KeyBetween
  <2>10. KeyBetween(g2, x, F, D)
    <3>1. KeyBetween(g1, x, F, D)
      BY <1>11 DEF LeansLeft
    <3>2. \A m \in D \cup F \cup {x} : g1[m].key = g2[m].key
      BY <2>2, <2>4
    <3> HIDE DEF F
    <3> QED  BY <3>1, <3>2 DEF KeyBetween
  <2> QED  BY <1>15, <2>1, <2>6, <2>7, <2>9, <2>10 DEF LeansLeft
<1>17. /\ s = Sub(g, x) /\ g \in Heaps /\ LeansRight(g, x, n, E \cup C \cup {q}, D, R)
       /\ g[n].right = g2[n].right /\ g[n].left = g2[x].right /\ g[x].left = g2[x].left
       /\ HeightIsRight(g, n) /\ HeightIsRight(g, x)
       /\ \A c \in {g2[n].right, g2[x].right, g2[x].left} : NodeHeight(g, c) = NodeHeight(g2, c)
       /\ \A m \in Nodes \ (R \cup D \cup (E \cup C \cup {q}) \cup {n, x}) : g[m] = g2[m]
       /\ \A m \in Nodes : g[m].key = g2[m].key
  <2>1. E \cup C \cup {q} \in SUBSET Nodes
    BY <1>1
  <2>2. TurnedRight(g2, n, x, E \cup C \cup {q}, D, R, s)
    BY <1>4, <1>15, <1>16, <2>1, TurnRight
  <2> HIDE DEF s, q, x
  <2> QED  BY <2>2 DEF TurnedRight
<1> HIDE DEF s, g
<1>18. /\ NodeHeight(g2, g2[n].right) = ha /\ NodeHeight(g2, g2[x].right) = hd
       /\ NodeHeight(g2, g2[x].left) = ha + 1
  <2>1. x # n /\ q # n
    BY <1>5, <1>6 DEF Apart
  <2>2. g2[x].right = h[x].right /\ g2[x].left = q /\ g2[n].right = h[n].right
    BY <1>4, <1>11, <1>14, <1>15, <2>1
  <2>3. NodeHeight(g2, q) = NodeHeight(g1, q)
    BY <1>1, <1>15, <2>1 DEF NodeHeight
  <2>4. NodeHeight(g2, h[x].right) = NodeHeight(g1, h[x].right)
    <3>1. h[x].right \in Links /\ (h[x].right # Null => h[x].right \in D)
      BY <1>4, <1>6, NodeFacts, AvlNodes DEF Hung
    <3> QED  BY <1>5, <1>6, <1>15, <3>1, LinkFacts DEF NodeHeight, Apart
  <2>5. NodeHeight(g2, h[n].right) = NodeHeight(h, h[n].right)
    <3>1. h[n].right \in Links /\ (h[n].right # Null => h[n].right \in R)
      BY <1>5, NodeFacts, AvlNodes
    <3>2. h[n].right # Null => h[n].right \notin D \cup E \cup C \cup {q, x, n}
      BY <1>5, <1>6, <3>1 DEF Apart
    <3> QED  BY <1>11, <1>15, <3>1, <3>2, LinkFacts DEF NodeHeight
  <2> QED  BY <1>11, <1>13, <2>2, <2>3, <2>4, <2>5 DEF ha, hd
<1>19. NodeHeight(g, n) = (IF ha < hd THEN hd ELSE ha) + 1 /\ BalanceFactor(g, n) = ha - hd
  <2>1. NodeHeight(g, g[n].right) = ha /\ NodeHeight(g, g[n].left) = hd
    BY <1>17, <1>18
  <2>2. g \in Heaps /\ HeightIsRight(g, n)
    BY <1>17
  <2> QED  BY <2>1, <2>2, HeightSum
<1>20. g[x].right = n
  BY <1>17 DEF LeansRight
<1>21. /\ NodeHeight(g, x) = (IF NodeHeight(g, n) < ha + 1 THEN ha + 1 ELSE NodeHeight(g, n)) + 1
       /\ BalanceFactor(g, x) = NodeHeight(g, n) - (ha + 1)
  <2>1. NodeHeight(g, g[x].left) = ha + 1
    BY <1>17, <1>18
  <2>2. g \in Heaps /\ x \in Nodes /\ HeightIsRight(g, x)
    BY <1>4, <1>17
  <2> HIDE DEF q, x
  <2> DEFINE gl == NodeHeight(g, g[x].left)  gr == NodeHeight(g, g[x].right)
  <2>3. /\ gl \in Nat /\ gr \in Nat
        /\ NodeHeight(g, x) = (IF gl < gr THEN gr ELSE gl) + 1 /\ BalanceFactor(g, x) = gr - gl
    BY <2>2, HeightSum
  <2>4. gr = NodeHeight(g, n) /\ gl = ha + 1
    BY <1>20, <2>1
  <2> HIDE DEF gl, gr
  <2> QED  BY <1>3, <2>3, <2>4
<1>22. BalanceFactor(g, n) \in -1..1 /\ BalanceFactor(g, x) \in -1..1 /\ NodeHeight(g, x) = NodeHeight(h, q)
  BY <1>3, <1>7, <1>19, <1>21
<1>23. Avl(g, x, R \cup D \cup (E \cup C \cup {q}) \cup {x, n})
  <2>1. E \cup C \cup {q} \in SUBSET Nodes
    BY <1>1
  <2>2. Avl(g, x, (E \cup C \cup {q}) \cup D \cup R \cup {x, n})
    <3> DEFINE F == E \cup C \cup {q}
    <3>1. g \in Heaps /\ n \in Nodes /\ x \in Nodes /\ LeansRight(g, x, n, F, D, R)
      BY <1>4, <1>17
    <3>2. HeightIsRight(g, n) /\ HeightIsRight(g, x)
      BY <1>17
    <3> HIDE DEF F, q, x
    <3>3. Avl(g, x, F \cup D \cup R \cup {x, n})
      BY <1>22, <2>1, <3>1, <3>2, LeansRightJoin DEF F
    <3> QED  BY <3>3 DEF F
  <2>3. (E \cup C \cup {q}) \cup D \cup R \cup {x, n} = R \cup D \cup (E \cup C \cup {q}) \cup {x, n}
    OBVIOUS
  <2> QED  BY <2>2, <2>3
<1>24. R \cup D \cup (E \cup C \cup {q}) \cup {x, n} = L \cup R \cup {n} /\ s.heap = g /\ s.root = x
  BY <1>2, <1>6, <1>17 DEF Sub
<1>25. ASSUME NEW m \in Nodes \ (L \cup R \cup {n}) PROVE g[m] = h[m]
  <2>1. /\ m \notin R \cup D \cup (E \cup C \cup {q}) \cup {n, x}
        /\ m \notin D \cup E \cup C \cup {q, x} /\ m # n
    BY <1>2, <1>6, <1>25
  <2> QED  BY <1>11, <1>15, <1>17, <2>1
<1>26. ASSUME NEW m \in Nodes PROVE g[m].key = h[m].key
  <2>1. g2[m].key = h[m].key
    BY <1>11, <1>15
  <2> QED  BY <1>17, <2>1
<1>27. s = TreeRotateRight(SetLeft(TreeRotateLeft(h, h[n].left), n), n)
  BY DEF s, g2, s1
<1>28. Rebuilt(h, n, L \cup R \cup {n}, NodeHeight(h, q), s)
  BY <1>15, <1>17, <1>22, <1>23, <1>24, <1>25, <1>26 DEF Rebuilt
<1> QED  BY <1>27, <1>28

\* tree_balance gives back an AVL tree of the same nodes when the subtrees it
\* was given are AVL trees whose heights differ by two at most.
LEMMA BalanceKeeps ==
  ASSUME NEW h \in Heaps, NEW n \in Nodes, NEW L \in SUBSET Nodes, NEW R \in SUBSET Nodes,
         Hung(h, n, L, R),
         BalanceFactor(h, n) \in -2..2
  PROVE  LET hl == NodeHeight(h, h[n].left)
             hr == NodeHeight(h, h[n].right)
             s  == TreeBalance(h, n)
         IN /\ Rebuilt(h, n, L \cup R \cup {n}, Taller(hl, hr), s)
            /\ BalanceFactor(h, n) \in -1..1 =>
                 s = Sub(FixHeight(h, n), n) /\ NodeHeight(s.heap, s.root) = Taller(hl, hr) + 1
<1> DEFINE l == h[n].left  r == h[n].right  g == FixHeight(h, n)  S == L \cup R \cup {n}
           hl == NodeHeight(h, l)  hr == NodeHeight(h, r)  s == TreeBalance(h, n)
<1>0. l \in Links /\ r \in Links /\ hl \in Nat /\ hr \in Nat /\ n \in Links /\ n # Null
  BY NodeFacts, HeightFacts, LinkFacts
<1>1. /\ g \in Heaps
      /\ \A m \in Nodes : g[m].key = h[m].key /\ (m # n => g[m] = h[m])
      /\ g[n].left = l /\ g[n].right = r /\ g[n].parent = h[n].parent
      /\ g[n].height = Taller(hl, hr) + 1
  BY FixHeightFacts
<1>2. s = CASE BalanceFactor(g, n) = 2 ->
                 TreeRotateLeft(IF BalanceFactor(g, r) < 0 THEN SetRight(TreeRotateRight(g, r), n) ELSE g, n)
            [] BalanceFactor(g, n) = -2 ->
                 TreeRotateRight(IF BalanceFactor(g, l) > 0 THEN SetLeft(TreeRotateLeft(g, l), n) ELSE g, n)
            [] OTHER -> Sub(g, n)
  BY <1>1 DEF TreeBalance
<1> HIDE DEF g, s
<1>3. (l # Null => l \in L) /\ (r # Null => r \in R) /\ n \notin L /\ n \notin R
  BY <1>0, AvlNodes DEF Hung
<1>4. NodeHeight(g, l) = hl /\ NodeHeight(g, r) = hr
  BY <1>0, <1>1, <1>3, LinkFacts DEF NodeHeight
<1>5. Hung(g, n, L, R)
  <2>1. \A m \in L \cup R : SameNode(h, g, m)
    BY <1>1, <1>3 DEF SameNode
  <2>2. Avl(g, l, L) /\ Avl(g, r, R)
    BY <1>0, <1>1, <2>1, AvlFrame DEF Hung
  <2> QED  BY <1>1, <2>2 DEF Hung, KeyBetween
<1>7. HeightIsRight(g, n) /\ BalanceFactor(g, n) = hr - hl /\ BalanceFactor(h, n) = hr - hl
  BY <1>1, <1>4 DEF HeightIsRight, BalanceFactor
<1>8. hr - hl \in -2..2
  BY <1>7
<1>9. \A t : Rebuilt(g, n, S, t, s) => Rebuilt(h, n, S, t, s)
  BY <1>1 DEF Rebuilt
<1> HIDE DEF hl, hr, l, r
<1>10. CASE hr - hl = 2
  <2>1. Taller(hl, hr) = hr
    BY <1>0, <1>10 DEF Taller
  <2>2. Rebuilt(g, n, S, hr, s)
    <3>1. CASE BalanceFactor(g, r) < 0
      <4>1. s = TreeRotateLeft(SetRight(TreeRotateRight(g, r), n), n)
        BY <1>2, <1>7, <1>10, <3>1
      <4> QED  BY <1>1, <1>4, <1>5, <1>7, <1>10, <3>1, <4>1, RightThenLeft
    <3>2. CASE ~(BalanceFactor(g, r) < 0)
      <4>1. s = TreeRotateLeft(g, n)
        BY <1>2, <1>7, <1>10, <3>2
      <4>2. BalanceFactor(g, n) = 2
        BY <1>7, <1>10
      <4>3. BalanceFactor(g, r) >= 0
        <5>1. BalanceFactor(g, r) \in -1..1
          BY <1>1, <1>5, <4>2, RightTooHigh
        <5> QED  BY <3>2, <5>1
      <4> QED  BY <1>1, <1>4, <1>5, <4>1, <4>2, <4>3, OneLeft
    <3> QED  BY <3>1, <3>2
  <2> QED  BY <1>7, <1>9, <1>10, <2>1, <2>2 DEF hl, hr, l, r, s
<1>11. CASE hr - hl = -2
  <2>1. Taller(hl, hr) = hl
    BY <1>0, <1>11 DEF Taller
  <2>0. BalanceFactor(g, n) = -2 /\ ~(BalanceFactor(g, n) = 2)
    BY <1>7, <1>11
  <2>2. Rebuilt(g, n, S, hl, s)
    <3>1. CASE BalanceFactor(g, l) > 0
      <4>1. s = TreeRotateRight(SetLeft(TreeRotateLeft(g, l), n), n)
        BY <1>2, <2>0, <3>1
      <4> QED  BY <1>1, <1>4, <1>5, <2>0, <3>1, <4>1, LeftThenRight
    <3>2. CASE ~(BalanceFactor(g, l) > 0)
      <4>1. s = TreeRotateRight(g, n)
        BY <1>2, <2>0, <3>2
      <4>3. BalanceFactor(g, l) <= 0
        <5>1. BalanceFactor(g, l) \in -1..1
          BY <1>1, <1>5, <2>0, LeftTooHigh
        <5> QED  BY <3>2, <5>1
      <4> QED  BY <1>1, <1>4, <1>5, <2>0, <4>1, <4>3, OneRight
    <3> QED  BY <3>1, <3>2
  <2> QED  BY <1>7, <1>9, <1>11, <2>1, <2>2 DEF hl, hr, l, r, s
<1>12. CASE hr - hl \in -1..1
  <2>1. ~(BalanceFactor(g, n) = 2) /\ ~(BalanceFactor(g, n) = -2) /\ BalanceFactor(g, n) \in -1..1
    BY <1>7, <1>12
  <2>2. s = Sub(g, n)
    BY <1>2, <2>1
  <2>3. s.heap = g /\ s.root = n
    BY <2>2 DEF Sub
  <2>4. Avl(g, n, S)
    BY <1>1, <1>5, <1>7, <2>1, AvlJoin
  <2>5. NodeHeight(g, n) = Taller(hl, hr) + 1
    BY <1>0, <1>1 DEF NodeHeight, hl, hr
  <2>6. Rebuilt(h, n, S, Taller(hl, hr), s)
    BY <1>1, <2>2, <2>3, <2>4, <2>5 DEF Rebuilt
  <2> QED  BY <2>2, <2>3, <2>5, <2>6 DEF hl, hr, l, r, s, g
<1> QED
  <2>1. hr - hl = 2 \/ hr - hl = -2 \/ hr - hl \in -1..1
    BY <1>0, <1>8
  <2> QED  BY <1>10, <1>11, <1>12, <2>1

(***************************************************************************)
(* The recursive functions satisfy their equations on a heap in which the  *)
(* heights go down along the links.                                        *)
(***************************************************************************)

Descends(h) == \A n \in Nodes : \A c \in {h[n].left, h[n].right} \ {Null} : h[c].height < h[n].height

\* What a function of the tree returns.
Subs == [heap : Heaps, root : Links]

\* A heap and a link are what a function may return.
LEMMA SubTyped ==
  /\ \A h \in Heaps, p \in Links : Sub(h, p) \in Subs /\ Sub(h, p).heap = h /\ Sub(h, p).root = p
  /\ \A s \in Subs : s = Sub(s.heap, s.root) /\ s.heap \in Heaps /\ s.root \in Links
  BY DEF Sub, Subs

\* Hanging a subtree below a node gives a heap.
LEMMA HangTyped ==
  ASSUME NEW s \in Subs, NEW p \in Nodes
  PROVE  SetLeft(s, p) \in Heaps /\ SetRight(s, p) \in Heaps
<1>1. s = Sub(s.heap, s.root) /\ s.heap \in Heaps /\ s.root \in Links
  BY SubTyped
<1> QED  BY <1>1, SetLinkFacts

\* tree_balance follows no null pointer, whatever the heap.
LEMMA BalanceTyped ==
  ASSUME NEW h \in Heaps, NEW n \in Nodes
  PROVE  TreeBalance(h, n) \in Subs
<1> DEFINE g == FixHeight(h, n)
<1>1. g \in Heaps
  BY FixHeightFacts
<1>2. TreeBalance(h, n) =
        CASE BalanceFactor(g, n) = 2 ->
               TreeRotateLeft(IF BalanceFactor(g, g[n].right) < 0
                              THEN SetRight(TreeRotateRight(g, g[n].right), n) ELSE g, n)
          [] BalanceFactor(g, n) = -2 ->
               TreeRotateRight(IF BalanceFactor(g, g[n].left) > 0
                               THEN SetLeft(TreeRotateLeft(g, g[n].left), n) ELSE g, n)
          [] OTHER -> Sub(g, n)
  BY DEF TreeBalance
<1> HIDE DEF g
<1>3. ASSUME NEW f \in Heaps, NEW p \in Nodes, f[p].left \in Nodes PROVE TreeRotateRight(f, p) \in Subs
  BY <1>3, RotatedRight, SubTyped, LinkFacts
<1>4. ASSUME NEW f \in Heaps, NEW p \in Nodes, f[p].right \in Nodes PROVE TreeRotateLeft(f, p) \in Subs
  BY <1>4, RotatedLeft, SubTyped, LinkFacts
<1>5. ASSUME NEW f \in Heaps, NEW p \in Nodes
      PROVE  /\ BalanceFactor(f, p) > 0 => f[p].right \in Nodes
             /\ BalanceFactor(f, p) < 0 => f[p].left \in Nodes
  <2>1. /\ f[p].left \in Links /\ f[p].right \in Links
        /\ NodeHeight(f, f[p].left) \in Nat /\ NodeHeight(f, f[p].right) \in Nat
        /\ f[p].left = Null => NodeHeight(f, f[p].left) = 0
        /\ f[p].right = Null => NodeHeight(f, f[p].right) = 0
    BY NodeFacts, HeightFacts
  <2> QED  BY <2>1, LinkFacts DEF BalanceFactor
<1>6. ASSUME BalanceFactor(g, n) = 2 PROVE TreeBalance(h, n) \in Subs
  <2>1. g[n].right \in Nodes
    BY <1>1, <1>5, <1>6
  <2>2. CASE BalanceFactor(g, g[n].right) < 0
    <3> DEFINE s == TreeRotateRight(g, g[n].right)
    <3>1. g[g[n].right].left \in Nodes
      BY <1>1, <1>5, <2>1, <2>2
    <3>2. s = Sub(s.heap, g[g[n].right].left) /\ s.heap \in Heaps
      BY <1>1, <2>1, <3>1, RotatedRight
    <3> HIDE DEF s
    <3>3. SetRight(s, n) \in Heaps /\ SetRight(s, n)[n].right \in Nodes
      <4> DEFINE x == g[g[n].right].left  f == s.heap
      <4>1. s = Sub(f, x) /\ f \in Heaps /\ x \in Nodes /\ x \in Links
        BY <3>1, <3>2, LinkFacts
      <4> HIDE DEF x, f
      <4>2. SetRight(Sub(f, x), n) \in Heaps /\ SetRight(Sub(f, x), n)[n].right = x
        BY <4>1, SetLinkFacts
      <4> QED  BY <4>1, <4>2
    <3>4. TreeBalance(h, n) = TreeRotateLeft(SetRight(s, n), n)
      BY <1>2, <1>6, <2>2 DEF s
    <3> QED  BY <1>4, <3>3, <3>4
  <2>3. CASE ~(BalanceFactor(g, g[n].right) < 0)
    BY <1>1, <1>2, <1>4, <1>6, <2>1, <2>3
  <2> QED  BY <2>2, <2>3
<1>7. ASSUME BalanceFactor(g, n) = -2 PROVE TreeBalance(h, n) \in Subs
  <2>0. ~(BalanceFactor(g, n) = 2)
    BY <1>7
  <2>1. g[n].left \in Nodes
    BY <1>1, <1>5, <1>7
  <2>2. CASE BalanceFactor(g, g[n].left) > 0
    <3> DEFINE s == TreeRotateLeft(g, g[n].left)
    <3>1. g[g[n].left].right \in Nodes
      BY <1>1, <1>5, <2>1, <2>2
    <3>2. s = Sub(s.heap, g[g[n].left].right) /\ s.heap \in Heaps
      BY <1>1, <2>1, <3>1, RotatedLeft
    <3> HIDE DEF s
    <3>3. SetLeft(s, n) \in Heaps /\ SetLeft(s, n)[n].left \in Nodes
      <4> DEFINE x == g[g[n].left].right  f == s.heap
      <4>1. s = Sub(f, x) /\ f \in Heaps /\ x \in Nodes /\ x \in Links
        BY <3>1, <3>2, LinkFacts
      <4> HIDE DEF x, f
      <4>2. SetLeft(Sub(f, x), n) \in Heaps /\ SetLeft(Sub(f, x), n)[n].left = x
        BY <4>1, SetLinkFacts
      <4> QED  BY <4>1, <4>2
    <3>4. TreeBalance(h, n) = TreeRotateRight(SetLeft(s, n), n)
      BY <1>2, <1>7, <2>0, <2>2 DEF s
    <3> QED  BY <1>3, <3>3, <3>4
  <2>3. CASE ~(BalanceFactor(g, g[n].left) > 0)
    BY <1>1, <1>2, <1>3, <1>7, <2>0, <2>1, <2>3
  <2> QED  BY <2>2, <2>3
<1>8. ASSUME ~(BalanceFactor(g, n) = 2), ~(BalanceFactor(g, n) = -2) PROVE TreeBalance(h, n) \in Subs
  BY <1>1, <1>2, <1>8, SubTyped, LinkFacts
<1> QED  BY <1>6, <1>7, <1>8

\* f is defined from its values at the two children, by G.
DefinedBelow(f, h, z, G) ==
  f[Null] = z /\ \A p \in Nodes : f[p] = G[p][f[h[p].left]][f[h[p].right]]

\* A function of a tree may be defined from its values at the two children.
LEMMA HeapRecursion ==
  ASSUME NEW h \in Heaps, Descends(h), NEW V, NEW z \in V, NEW G \in Steps(V)
  PROVE  \E f \in [Links -> V] : DefinedBelow(f, h, z, G)
<1> DEFINE l == [p \in Nodes |-> h[p].left]  r == [p \in Nodes |-> h[p].right]
           rank == [p \in Nodes |-> h[p].height]
<1>1. l \in [Nodes -> Links] /\ r \in [Nodes -> Links] /\ rank \in [Nodes -> Nat]
  BY NodeFacts
<1>2. \A p \in Nodes : l[p] = h[p].left /\ r[p] = h[p].right /\ rank[p] = h[p].height
  OBVIOUS
<1> HIDE DEF l, r, rank
<1>3. ASSUME NEW p \in Nodes
      PROVE  /\ l[p] # Null => rank[l[p]] < rank[p]
             /\ r[p] # Null => rank[r[p]] < rank[p]
  <2>1. ASSUME NEW c \in Links \ {Null}, c = l[p] \/ c = r[p] PROVE rank[c] < rank[p]
    <3>1. c \in Nodes /\ h[c].height < h[p].height
      BY <1>2, <2>1, LinkFacts DEF Descends
    <3> QED  BY <1>2, <3>1
  <2>2. l[p] \in Links /\ r[p] \in Links
    BY <1>1
  <2> QED  BY <2>1, <2>2
<1>4. PICK f \in [Links -> V] : DefinedAlong(f, l, r, z, G)
  <2>1. RanksDescend(l, r, rank)
    BY <1>3 DEF RanksDescend
  <2> QED  BY <1>1, <2>1, RecursionOnRank
<1>5. DefinedBelow(f, h, z, G)
  BY <1>2, <1>4 DEF DefinedAlong, DefinedBelow
<1> QED  BY <1>5

\* tree_find
LEMMA FindUnfolds ==
  ASSUME NEW h \in Heaps, Descends(h), NEW k \in Keys
  PROVE  LET find == TreeFind(h, k) IN
         /\ find[Null] = Null
         /\ \A p \in Nodes : find[p] = IF k < h[p].key THEN find[h[p].left]
                                       ELSE IF k > h[p].key THEN find[h[p].right] ELSE p
<1> DEFINE F(f) == [p \in Links |-> IF p = Null THEN Null
                                    ELSE IF k < h[p].key THEN f[h[p].left]
                                    ELSE IF k > h[p].key THEN f[h[p].right] ELSE p]
           G == [p \in Nodes |-> [a \in Links |-> [b \in Links |->
                  IF k < h[p].key THEN a ELSE IF k > h[p].key THEN b ELSE p]]]
<1>1. G \in Steps(Links)
  BY LinkFacts DEF Steps
<1>2. \A p \in Nodes, a, b \in Links :
        G[p][a][b] = IF k < h[p].key THEN a ELSE IF k > h[p].key THEN b ELSE p
  OBVIOUS
<1> HIDE DEF G
<1>3. PICK f \in [Links -> Links] : DefinedBelow(f, h, Null, G)
  BY <1>1, LinkFacts, HeapRecursion
<1>4. f = F(f)
  <2>1. \A p \in Nodes : h[p].left \in Links /\ h[p].right \in Links
    BY NodeFacts
  <2>2. \A p \in Links : f[p] = F(f)[p]
    BY <1>2, <1>3, <2>1, LinkFacts DEF DefinedBelow
  <2> QED  BY <2>2
<1>5. TreeFind(h, k) = CHOOSE g : g = F(g)
  BY DEF TreeFind
<1>6. TreeFind(h, k) = F(TreeFind(h, k))
  <2> HIDE DEF F
  <2> QED  BY <1>4, <1>5, Zenon
<1> QED  BY <1>6, LinkFacts

\* What holds of no node, and of a node when it holds of its children, holds of
\* every node.
LEMMA HeapInduction ==
  ASSUME NEW h \in Heaps, Descends(h), NEW T \in SUBSET Links, Null \in T,
         \A p \in Nodes : h[p].left \in T /\ h[p].right \in T => p \in T
  PROVE  \A p \in Links : p \in T
<1> SUFFICES ASSUME NEW w \in Links, w \notin T PROVE FALSE
  OBVIOUS
<1> DEFINE Bad == {h[p].height : p \in Nodes \ T}
<1>1. w \in Nodes \ T
  BY LinkFacts
<1>2. Bad \in SUBSET Nat /\ Bad # {}
  BY <1>1, NodeFacts
<1>3. PICK m \in Bad : \A k \in Bad : ~(k < m)
  BY <1>2, LeastNatural
<1>4. PICK p \in Nodes \ T : m = h[p].height
  BY <1>3
<1>5. ASSUME NEW c \in {h[p].left, h[p].right} PROVE c \in T
  <2>1. c \in Links
    BY <1>4, NodeFacts
  <2>2. CASE c = Null
    BY <2>2
  <2>3. CASE c # Null
    <3>1. c \in Nodes /\ h[c].height < h[p].height
      BY <1>4, <2>1, <2>3, LinkFacts DEF Descends
    <3>2. c \notin T => h[c].height \in Bad
      BY <3>1
    <3> HIDE DEF Bad
    <3> QED  BY <1>3, <1>4, <3>1, <3>2
  <2> QED  BY <2>2, <2>3
<1> QED  BY <1>4, <1>5

\* tree_insert
LEMMA InsertUnfolds ==
  ASSUME NEW h \in Heaps, Descends(h), NEW n \in Nodes
  PROVE  LET ins == TreeInsert(h, n) IN
         /\ ins[Null] = Sub(h, n)
         /\ \A p \in Nodes :
              ins[p] = IF h[n].key < h[p].key THEN TreeBalance(SetLeft(ins[h[p].left], p), p)
                       ELSE TreeBalance(SetRight(ins[h[p].right], p), p)
<1> DEFINE F(f) == [p \in Links |->
                     IF p = Null THEN Sub(h, n)
                     ELSE IF h[n].key < h[p].key THEN TreeBalance(SetLeft(f[h[p].left], p), p)
                     ELSE TreeBalance(SetRight(f[h[p].right], p), p)]
           G == [p \in Nodes |-> [a \in Subs |-> [b \in Subs |->
                  IF h[n].key < h[p].key THEN TreeBalance(SetLeft(a, p), p)
                  ELSE TreeBalance(SetRight(b, p), p)]]]
<1>0. \A p \in Nodes, a \in Subs : TreeBalance(SetLeft(a, p), p) \in Subs /\ TreeBalance(SetRight(a, p), p) \in Subs
  BY HangTyped, BalanceTyped
<1>1. G \in Steps(Subs)
  BY <1>0 DEF Steps
<1>2. \A p \in Nodes, a, b \in Subs :
        G[p][a][b] = IF h[n].key < h[p].key THEN TreeBalance(SetLeft(a, p), p)
                     ELSE TreeBalance(SetRight(b, p), p)
  OBVIOUS
<1> HIDE DEF G
<1>3. PICK f \in [Links -> Subs] : DefinedBelow(f, h, Sub(h, n), G)
  <2>1. Sub(h, n) \in Subs
    BY SubTyped, LinkFacts
  <2> QED  BY <1>1, <2>1, HeapRecursion
<1>4. f = F(f)
  <2>1. \A p \in Nodes : h[p].left \in Links /\ h[p].right \in Links
    BY NodeFacts
  <2>2. \A p \in Links : f[p] = F(f)[p]
    BY <1>2, <1>3, <2>1, LinkFacts DEF DefinedBelow
  <2> QED  BY <2>2
<1>5. TreeInsert(h, n) = CHOOSE g : g = F(g)
  BY DEF TreeInsert
<1>6. TreeInsert(h, n) = F(TreeInsert(h, n))
  <2> HIDE DEF F
  <2> QED  BY <1>4, <1>5, Zenon
<1> QED  BY <1>6, LinkFacts

\* avl_tree_min
LEMMA MinUnfolds ==
  ASSUME NEW h \in Heaps, Descends(h)
  PROVE  LET min == TreeMin(h) IN
         \A p \in Nodes : min[p] = (IF h[p].left = Null THEN p ELSE min[h[p].left]) /\ min[p] \in Nodes
<1> DEFINE F(f) == [p \in Nodes |-> IF h[p].left = Null THEN p ELSE f[h[p].left]]
           G == [p \in Nodes |-> [a \in Links |-> [b \in Links |-> IF h[p].left = Null THEN p ELSE a]]]
<1>1. G \in Steps(Links)
  BY LinkFacts DEF Steps
<1>2. \A p \in Nodes, a, b \in Links : G[p][a][b] = IF h[p].left = Null THEN p ELSE a
  OBVIOUS
<1> HIDE DEF G
<1>3. PICK f \in [Links -> Links] : DefinedBelow(f, h, Null, G)
  BY <1>1, LinkFacts, HeapRecursion
<1> DEFINE g == [p \in Nodes |-> f[p]]
<1>4. g = F(g)
  <2>1. \A p \in Nodes : h[p].left \in Links /\ h[p].right \in Links
    BY NodeFacts
  <2>2. \A p \in Nodes : f[p] = IF h[p].left = Null THEN p ELSE f[h[p].left]
    BY <1>2, <1>3, <2>1, LinkFacts DEF DefinedBelow
  <2>3. \A p \in Nodes : g[p] = F(g)[p]
    BY <2>1, <2>2, LinkFacts
  <2> QED  BY <2>3
<1>5. TreeMin(h) = CHOOSE e : e = F(e)
  BY DEF TreeMin
<1>6. TreeMin(h) = F(TreeMin(h))
  <2> HIDE DEF F, g
  <2> QED  BY <1>4, <1>5, Zenon
<1>7. \A p \in Nodes : TreeMin(h)[p] = IF h[p].left = Null THEN p ELSE TreeMin(h)[h[p].left]
  BY <1>6
<1> DEFINE T == {p \in Links : p # Null => TreeMin(h)[p] \in Nodes}
<1>8. \A p \in Links : p \in T
  <2>1. T \in SUBSET Links /\ Null \in T
    BY LinkFacts
  <2>2. \A p \in Nodes : h[p].left \in T /\ h[p].right \in T => p \in T
    BY <1>7, LinkFacts
  <2> HIDE DEF T
  <2> QED  BY <2>1, <2>2, HeapInduction
<1> QED  BY <1>7, <1>8, LinkFacts

\* tree_remove_minimum_node
LEMMA RemoveMinimumUnfolds ==
  ASSUME NEW h \in Heaps, Descends(h)
  PROVE  LET rem == TreeRemoveMinimum(h) IN
         \A p \in Nodes : /\ rem[p] = IF h[p].left = Null THEN Sub(h, h[p].right)
                                      ELSE TreeBalance(SetLeft(rem[h[p].left], p), p)
                          /\ rem[p] \in Subs
<1> DEFINE F(f) == [p \in Nodes |-> IF h[p].left = Null THEN Sub(h, h[p].right)
                                    ELSE TreeBalance(SetLeft(f[h[p].left], p), p)]
           G == [p \in Nodes |-> [a \in Subs |-> [b \in Subs |->
                  IF h[p].left = Null THEN Sub(h, h[p].right) ELSE TreeBalance(SetLeft(a, p), p)]]]
<1>0. \A p \in Nodes : Sub(h, h[p].right) \in Subs /\ \A a \in Subs : TreeBalance(SetLeft(a, p), p) \in Subs
  BY HangTyped, BalanceTyped, SubTyped, NodeFacts
<1>1. G \in Steps(Subs)
  BY <1>0 DEF Steps
<1>2. \A p \in Nodes, a, b \in Subs :
        G[p][a][b] = IF h[p].left = Null THEN Sub(h, h[p].right) ELSE TreeBalance(SetLeft(a, p), p)
  OBVIOUS
<1> HIDE DEF G
<1>3. PICK f \in [Links -> Subs] : DefinedBelow(f, h, Sub(h, Null), G)
  <2>1. Sub(h, Null) \in Subs
    BY SubTyped, LinkFacts
  <2> QED  BY <1>1, <2>1, HeapRecursion
<1> DEFINE g == [p \in Nodes |-> f[p]]
<1>4. g = F(g)
  <2>1. \A p \in Nodes : h[p].left \in Links /\ h[p].right \in Links
    BY NodeFacts
  <2>2. \A p \in Nodes : f[p] = IF h[p].left = Null THEN Sub(h, h[p].right)
                                ELSE TreeBalance(SetLeft(f[h[p].left], p), p)
    BY <1>2, <1>3, <2>1, LinkFacts DEF DefinedBelow
  <2>3. \A p \in Nodes : g[p] = F(g)[p]
    BY <2>1, <2>2, LinkFacts
  <2> QED  BY <2>3
<1>5. TreeRemoveMinimum(h) = CHOOSE e : e = F(e)
  BY DEF TreeRemoveMinimum
<1>6. TreeRemoveMinimum(h) = F(TreeRemoveMinimum(h))
  <2> HIDE DEF F, g
  <2> QED  BY <1>4, <1>5, Zenon
<1>7. \A p \in Nodes : TreeRemoveMinimum(h)[p] =
         IF h[p].left = Null THEN Sub(h, h[p].right)
         ELSE TreeBalance(SetLeft(TreeRemoveMinimum(h)[h[p].left], p), p)
  BY <1>6
<1> DEFINE T == {p \in Links : p # Null => TreeRemoveMinimum(h)[p] \in Subs}
<1>8. \A p \in Links : p \in T
  <2>1. T \in SUBSET Links /\ Null \in T
    BY LinkFacts
  <2>2. \A p \in Nodes : h[p].left \in T /\ h[p].right \in T => p \in T
    BY <1>0, <1>7, LinkFacts
  <2> HIDE DEF T
  <2> QED  BY <2>1, <2>2, HeapInduction
<1> QED  BY <1>7, <1>8, LinkFacts

\* The node a removal finds is taken out of a heap into a heap.
LEMMA UnhookTyped ==
  ASSUME NEW h \in Heaps, Descends(h), NEW p \in Nodes
  PROVE  Unhook(h, p) \in Subs
<1> DEFINE q == h[p].left  r == h[p].right  a == h[p].parent
           min == TreeMin(h)[r]  s == TreeRemoveMinimum(h)[r]
           h1 == [s.heap EXCEPT ![min].right = s.root, ![min].left = q]
           h2 == SetParent(h1, q, min)  h3 == SetParent(h2, s.root, min)  h4 == SetParent(h3, min, a)
<1>0. q \in Links /\ r \in Links /\ a \in Links \cup {Wild}
  BY NodeFacts
<1>1. Unhook(h, p) = IF r = Null THEN Sub(SetParent(h, q, a), q) ELSE TreeBalance(h4, min)
  BY DEF Unhook
<1>2. SetParent(h, q, a) \in Heaps
  BY <1>0, SetParentFacts
<1>3. ASSUME r # Null PROVE h4 \in Heaps /\ min \in Nodes
  <2>1. min \in Nodes /\ min \in Links /\ s.heap \in Heaps /\ s.root \in Links
    BY <1>0, <1>3, MinUnfolds, RemoveMinimumUnfolds, LinkFacts, SubTyped
  <2> HIDE DEF min, s, q
  <2>2. h1 \in Heaps
    BY <1>0, <2>1 DEF Heaps
  <2> HIDE DEF h1
  <2>3. h2 \in Heaps
    BY <1>0, <2>1, <2>2, SetParentFacts
  <2> HIDE DEF h2
  <2>4. h3 \in Heaps
    BY <1>0, <2>1, <2>3, SetParentFacts
  <2> HIDE DEF h3
  <2>5. h4 \in Heaps
    BY <1>0, <2>1, <2>4, SetParentFacts
  <2> QED  BY <2>1, <2>5
<1> HIDE DEF h4, min
<1>4. CASE r = Null
  BY <1>0, <1>1, <1>2, <1>4, SubTyped
<1>5. CASE r # Null
  BY <1>1, <1>3, <1>5, BalanceTyped
<1> QED  BY <1>4, <1>5

\* tree_remove_node
LEMMA RemoveNodeUnfolds ==
  ASSUME NEW h \in Heaps, Descends(h), NEW k \in Keys
  PROVE  LET rem == TreeRemoveNode(h, k) IN
         /\ rem[Null] = Sub(h, Null)
         /\ \A p \in Nodes :
              rem[p] = IF k < h[p].key THEN TreeBalance(SetLeft(rem[h[p].left], p), p)
                       ELSE IF k > h[p].key THEN TreeBalance(SetRight(rem[h[p].right], p), p)
                       ELSE Unhook(h, p)
<1> DEFINE F(f) == [p \in Links |->
                     IF p = Null THEN Sub(h, Null)
                     ELSE IF k < h[p].key THEN TreeBalance(SetLeft(f[h[p].left], p), p)
                     ELSE IF k > h[p].key THEN TreeBalance(SetRight(f[h[p].right], p), p)
                     ELSE Unhook(h, p)]
           G == [p \in Nodes |-> [a \in Subs |-> [b \in Subs |->
                  IF k < h[p].key THEN TreeBalance(SetLeft(a, p), p)
                  ELSE IF k > h[p].key THEN TreeBalance(SetRight(b, p), p)
                  ELSE Unhook(h, p)]]]
<1>0. \A p \in Nodes : /\ Unhook(h, p) \in Subs
                       /\ \A a \in Subs : /\ TreeBalance(SetLeft(a, p), p) \in Subs
                                          /\ TreeBalance(SetRight(a, p), p) \in Subs
  BY HangTyped, BalanceTyped, UnhookTyped
<1>1. G \in Steps(Subs)
  BY <1>0 DEF Steps
<1>2. \A p \in Nodes, a, b \in Subs :
        G[p][a][b] = IF k < h[p].key THEN TreeBalance(SetLeft(a, p), p)
                     ELSE IF k > h[p].key THEN TreeBalance(SetRight(b, p), p)
                     ELSE Unhook(h, p)
  OBVIOUS
<1> HIDE DEF G
<1>3. PICK f \in [Links -> Subs] : DefinedBelow(f, h, Sub(h, Null), G)
  <2>1. Sub(h, Null) \in Subs
    BY SubTyped, LinkFacts
  <2> QED  BY <1>1, <2>1, HeapRecursion
<1>4. f = F(f)
  <2>1. \A p \in Nodes : h[p].left \in Links /\ h[p].right \in Links
    BY NodeFacts
  <2>2. \A p \in Links : f[p] = F(f)[p]
    BY <1>2, <1>3, <2>1, LinkFacts DEF DefinedBelow
  <2> QED  BY <2>2
<1>5. TreeRemoveNode(h, k) = CHOOSE g : g = F(g)
  BY DEF TreeRemoveNode
<1>6. TreeRemoveNode(h, k) = F(TreeRemoveNode(h, k))
  <2> HIDE DEF F
  <2> QED  BY <1>4, <1>5, Zenon
<1> QED  BY <1>6, LinkFacts

(***************************************************************************)
(* A subtree is put in the place of another, and the node above it is      *)
(* balanced: the step every insertion and removal repeats on its way up.   *)
(***************************************************************************)

\* s is an AVL tree of the nodes S in a heap that differs from h only there.
Result(h, S, s) ==
  /\ s = Sub(s.heap, s.root) /\ s.heap \in Heaps /\ s.root \in Links
  /\ Avl(s.heap, s.root, S)
  /\ \A m \in Nodes \ S : s.heap[m] = h[m]
  /\ \A m \in Nodes : s.heap[m].key = h[m].key

\* What tree_balance returns is the result of the operation on the subtree.
LEMMA RebuiltIsResult ==
  ASSUME NEW h, NEW n, NEW S \in SUBSET Nodes, NEW t, NEW s, Rebuilt(h, n, S, t, s)
  PROVE  Result(h, S, s)
  BY LinkFacts DEF Rebuilt, Result

\* The height of p after a subtree as high as a is put beside one as high as b.
Restored(s, a, b) ==
  /\ NodeHeight(s.heap, s.root) \in {Taller(a, b), Taller(a, b) + 1}
  /\ a - b \in -1..1 => NodeHeight(s.heap, s.root) = Taller(a, b) + 1

\* The left subtree was replaced by one whose height differs from that of the
\* right one by two at most: tree_balance returns an AVL tree of the new nodes.
LEMMA ReplaceLeft ==
  ASSUME NEW h \in Heaps, NEW p \in Nodes, NEW L \in SUBSET Nodes, NEW R \in SUBSET Nodes,
         Hung(h, p, L, R),
         NEW M \in SUBSET Nodes, NEW s, Result(h, M, s),
         p \notin M, M \cap R = {}, \A m \in M : h[m].key <= h[p].key,
         NodeHeight(h, h[p].right) - NodeHeight(s.heap, s.root) \in -2..2
  PROVE  LET a == NodeHeight(s.heap, s.root)
             b == NodeHeight(h, h[p].right)
             u == TreeBalance(SetLeft(s, p), p)
         IN Rebuilt(h, p, M \cup R \cup {p}, Taller(a, b), u) /\ Restored(u, a, b)
<1> DEFINE a == NodeHeight(s.heap, s.root)  b == NodeHeight(h, h[p].right)
           g == SetLeft(s, p)  u == TreeBalance(g, p)  r == h[p].right
<1>1. /\ s = Sub(s.heap, s.root) /\ s.heap \in Heaps /\ s.root \in Links
      /\ Avl(s.heap, s.root, M)
      /\ \A m \in Nodes \ M : s.heap[m] = h[m]
      /\ \A m \in Nodes : s.heap[m].key = h[m].key
  BY DEF Result
<1>2. /\ g \in Heaps /\ \A m \in Nodes : m # p => g[m] = s.heap[m]
      /\ g[p].key = h[p].key /\ g[p].left = s.root /\ g[p].right = r /\ g[p].parent = h[p].parent
  <2> DEFINE f == s.heap  c == s.root
  <2>1. s = Sub(f, c) /\ f \in Heaps /\ c \in Links /\ f[p] = h[p]
    BY <1>1
  <2> HIDE DEF f, c
  <2>2. /\ SetLeft(Sub(f, c), p) \in Heaps /\ \A m \in Nodes : m # p => SetLeft(Sub(f, c), p)[m] = f[m]
        /\ SetLeft(Sub(f, c), p)[p].key = f[p].key /\ SetLeft(Sub(f, c), p)[p].left = c
        /\ SetLeft(Sub(f, c), p)[p].right = f[p].right /\ SetLeft(Sub(f, c), p)[p].parent = f[p].parent
    BY <2>1, SetLinkFacts
  <2>3. g = SetLeft(Sub(f, c), p)
    BY <2>1
  <2> QED  BY <2>1, <2>2, <2>3 DEF f, c
<1> HIDE DEF g
<1>3. r \in Links /\ (r # Null => r \in R) /\ p \notin R /\ (s.root # Null => s.root \in M)
  BY <1>1, NodeFacts, AvlNodes DEF Hung
<1>4. NodeHeight(g, s.root) = a /\ NodeHeight(g, r) = b
  BY <1>1, <1>2, <1>3, LinkFacts DEF NodeHeight
<1>5. Hung(g, p, M, R)
  <2>1. Avl(g, s.root, M)
    <3>1. \A m \in M : SameNode(s.heap, g, m)
      BY <1>2 DEF SameNode
    <3> QED  BY <1>1, <1>2, <3>1, AvlFrame
  <2>2. Avl(g, r, R)
    <3>1. \A m \in R : SameNode(h, g, m)
      BY <1>1, <1>2, <1>3 DEF SameNode
    <3> QED  BY <1>2, <1>3, <3>1, AvlFrame DEF Hung
  <2>3. \A m \in Nodes : g[m].key = h[m].key
    BY <1>1, <1>2
  <2>4. KeyBetween(g, p, M, R)
    BY <2>3 DEF KeyBetween, Hung
  <2> QED  BY <1>2, <1>3, <2>1, <2>2, <2>4 DEF Hung
<1>7. a \in Nat /\ b \in Nat /\ BalanceFactor(g, p) = b - a
  BY <1>1, <1>2, <1>3, <1>4, HeightFacts DEF BalanceFactor
<1>8. BalanceFactor(g, p) \in -2..2
  BY <1>7
<1>9. /\ Rebuilt(g, p, M \cup R \cup {p}, Taller(a, b), u)
      /\ BalanceFactor(g, p) \in -1..1 => NodeHeight(u.heap, u.root) = Taller(a, b) + 1
  <2>1. /\ Rebuilt(g, p, M \cup R \cup {p}, Taller(NodeHeight(g, g[p].left), NodeHeight(g, g[p].right)), u)
        /\ BalanceFactor(g, p) \in -1..1 =>
             NodeHeight(u.heap, u.root) = Taller(NodeHeight(g, g[p].left), NodeHeight(g, g[p].right)) + 1
    BY <1>2, <1>5, <1>8, BalanceKeeps
  <2>2. NodeHeight(g, g[p].left) = a /\ NodeHeight(g, g[p].right) = b
    BY <1>2, <1>4
  <2> HIDE DEF u, a, b
  <2> QED  BY <2>1, <2>2
<1> HIDE DEF u, a, b
<1>10. \A m \in Nodes \ (M \cup R \cup {p}) : g[m] = h[m]
  BY <1>1, <1>2
<1>11. \A m \in Nodes : g[m].key = h[m].key
  BY <1>1, <1>2
<1>12. Rebuilt(h, p, M \cup R \cup {p}, Taller(a, b), u)
  BY <1>2, <1>9, <1>10, <1>11 DEF Rebuilt
<1>13. Restored(u, a, b)
  <2>1. a - b \in -1..1 => b - a \in -1..1
    BY <1>7
  <2> QED  BY <1>7, <1>9, <1>12, <2>1 DEF Restored, Rebuilt
<1> QED  BY <1>12, <1>13 DEF u, a, b, g

\* The same with the right subtree.
LEMMA ReplaceRight ==
  ASSUME NEW h \in Heaps, NEW p \in Nodes, NEW L \in SUBSET Nodes, NEW R \in SUBSET Nodes,
         Hung(h, p, L, R),
         NEW M \in SUBSET Nodes, NEW s, Result(h, M, s),
         p \notin M, M \cap L = {}, \A m \in M : h[p].key <= h[m].key,
         NodeHeight(s.heap, s.root) - NodeHeight(h, h[p].left) \in -2..2
  PROVE  LET a == NodeHeight(h, h[p].left)
             b == NodeHeight(s.heap, s.root)
             u == TreeBalance(SetRight(s, p), p)
         IN Rebuilt(h, p, L \cup M \cup {p}, Taller(a, b), u) /\ Restored(u, a, b)
<1> DEFINE a == NodeHeight(h, h[p].left)  b == NodeHeight(s.heap, s.root)
           g == SetRight(s, p)  u == TreeBalance(g, p)  l == h[p].left
<1>1. /\ s = Sub(s.heap, s.root) /\ s.heap \in Heaps /\ s.root \in Links
      /\ Avl(s.heap, s.root, M)
      /\ \A m \in Nodes \ M : s.heap[m] = h[m]
      /\ \A m \in Nodes : s.heap[m].key = h[m].key
  BY DEF Result
<1>2. /\ g \in Heaps /\ \A m \in Nodes : m # p => g[m] = s.heap[m]
      /\ g[p].key = h[p].key /\ g[p].right = s.root /\ g[p].left = l /\ g[p].parent = h[p].parent
  <2> DEFINE f == s.heap  c == s.root
  <2>1. s = Sub(f, c) /\ f \in Heaps /\ c \in Links /\ f[p] = h[p]
    BY <1>1
  <2> HIDE DEF f, c
  <2>2. /\ SetRight(Sub(f, c), p) \in Heaps /\ \A m \in Nodes : m # p => SetRight(Sub(f, c), p)[m] = f[m]
        /\ SetRight(Sub(f, c), p)[p].key = f[p].key /\ SetRight(Sub(f, c), p)[p].right = c
        /\ SetRight(Sub(f, c), p)[p].left = f[p].left /\ SetRight(Sub(f, c), p)[p].parent = f[p].parent
    BY <2>1, SetLinkFacts
  <2>3. g = SetRight(Sub(f, c), p)
    BY <2>1
  <2> QED  BY <2>1, <2>2, <2>3 DEF f, c
<1> HIDE DEF g
<1>3. l \in Links /\ (l # Null => l \in L) /\ p \notin L /\ (s.root # Null => s.root \in M)
  BY <1>1, NodeFacts, AvlNodes DEF Hung
<1>4. NodeHeight(g, s.root) = b /\ NodeHeight(g, l) = a
  BY <1>1, <1>2, <1>3, LinkFacts DEF NodeHeight
<1>5. Hung(g, p, L, M)
  <2>1. Avl(g, s.root, M)
    <3>1. \A m \in M : SameNode(s.heap, g, m)
      BY <1>2 DEF SameNode
    <3> QED  BY <1>1, <1>2, <3>1, AvlFrame
  <2>2. Avl(g, l, L)
    <3>1. \A m \in L : SameNode(h, g, m)
      BY <1>1, <1>2, <1>3 DEF SameNode
    <3> QED  BY <1>2, <1>3, <3>1, AvlFrame DEF Hung
  <2>3. \A m \in Nodes : g[m].key = h[m].key
    BY <1>1, <1>2
  <2>4. KeyBetween(g, p, L, M)
    BY <2>3 DEF KeyBetween, Hung
  <2> QED  BY <1>2, <1>3, <2>1, <2>2, <2>4 DEF Hung
<1>7. a \in Nat /\ b \in Nat /\ BalanceFactor(g, p) = b - a
  BY <1>1, <1>2, <1>3, <1>4, HeightFacts DEF BalanceFactor
<1>8. BalanceFactor(g, p) \in -2..2
  BY <1>7
<1>9. /\ Rebuilt(g, p, L \cup M \cup {p}, Taller(a, b), u)
      /\ BalanceFactor(g, p) \in -1..1 => NodeHeight(u.heap, u.root) = Taller(a, b) + 1
  <2>1. /\ Rebuilt(g, p, L \cup M \cup {p}, Taller(NodeHeight(g, g[p].left), NodeHeight(g, g[p].right)), u)
        /\ BalanceFactor(g, p) \in -1..1 =>
             NodeHeight(u.heap, u.root) = Taller(NodeHeight(g, g[p].left), NodeHeight(g, g[p].right)) + 1
    BY <1>2, <1>5, <1>8, BalanceKeeps
  <2>2. NodeHeight(g, g[p].left) = a /\ NodeHeight(g, g[p].right) = b
    BY <1>2, <1>4
  <2> HIDE DEF u, a, b
  <2> QED  BY <2>1, <2>2
<1> HIDE DEF u, a, b
<1>10. \A m \in Nodes \ (L \cup M \cup {p}) : g[m] = h[m]
  BY <1>1, <1>2
<1>11. \A m \in Nodes : g[m].key = h[m].key
  BY <1>1, <1>2
<1>12. Rebuilt(h, p, L \cup M \cup {p}, Taller(a, b), u)
  BY <1>2, <1>9, <1>10, <1>11 DEF Rebuilt
<1>13. Restored(u, a, b)
  <2>1. a - b \in -1..1 => b - a \in -1..1
    BY <1>7
  <2> QED  BY <1>7, <1>9, <1>12, <2>1 DEF Restored, Rebuilt
<1> QED  BY <1>12, <1>13 DEF u, a, b, g

(***************************************************************************)
(* Insertion.                                                              *)
(***************************************************************************)

\* The height after an insertion on one side of a node.
LEMMA GrownHeight ==
  ASSUME NEW a \in Nat, NEW b \in Nat, NEW c \in Nat, a - b \in -1..1, c \in {a, a + 1}
  PROVE  /\ b - c \in -2..2 /\ c - b \in -2..2
         /\ \A s : Restored(s, c, b) \/ Restored(s, b, c) =>
              NodeHeight(s.heap, s.root) \in {Taller(a, b) + 1, Taller(a, b) + 2}
         /\ Taller(a, b) = Taller(b, a) /\ Taller(a, b) \in Nat
<1>1. b - c \in -2..2 /\ c - b \in -2..2 /\ Taller(a, b) = Taller(b, a) /\ Taller(a, b) \in Nat
  BY DEF Taller
<1>2. ASSUME NEW s, Restored(s, c, b) \/ Restored(s, b, c)
      PROVE  NodeHeight(s.heap, s.root) \in {Taller(a, b) + 1, Taller(a, b) + 2}
  <2> DEFINE x == NodeHeight(s.heap, s.root)
  <2>1. /\ x \in {Taller(c, b), Taller(c, b) + 1}
        /\ c - b \in -1..1 => x = Taller(c, b) + 1
    BY <1>2 DEF Restored, Taller
  <2> HIDE DEF x
  <2>2. x \in {Taller(a, b) + 1, Taller(a, b) + 2}
    BY <2>1 DEF Taller
  <2> QED  BY <2>2 DEF x
<1> QED  BY <1>1, <1>2

\* tree_insert keeps an AVL tree and adds the new node to it.
LEMMA InsertKeeps ==
  ASSUME NEW h \in Heaps, Descends(h), NEW n \in Nodes,
         h[n].left = Null, h[n].right = Null, h[n].height = 1
  PROVE  \A p \in Links, S \in SUBSET Nodes :
           Avl(h, p, S) /\ n \notin S =>
             Rebuilt(h, p, S \cup {n}, NodeHeight(h, p), TreeInsert(h, n)[p])
<1> DEFINE ins == TreeInsert(h, n)
           Good(p) == \A S \in SUBSET Nodes :
                        Avl(h, p, S) /\ n \notin S => Rebuilt(h, p, S \cup {n}, NodeHeight(h, p), ins[p])
           T == {p \in Links : Good(p)}
<1>0. /\ ins[Null] = Sub(h, n)
      /\ \A p \in Nodes : ins[p] = IF h[n].key < h[p].key THEN TreeBalance(SetLeft(ins[h[p].left], p), p)
                                   ELSE TreeBalance(SetRight(ins[h[p].right], p), p)
  BY InsertUnfolds
<1> HIDE DEF ins
<1>1. Good(Null)
  <2>1. SUFFICES ASSUME NEW S \in SUBSET Nodes, Avl(h, Null, S)
                 PROVE  Rebuilt(h, Null, S \cup {n}, NodeHeight(h, Null), ins[Null])
    OBVIOUS
  <2>2. S = {}
    BY <2>1, AvlNull
  <2>3. Hung(h, n, {}, {})
    BY AvlNull DEF Hung, KeyBetween
  <2>4. HeightIsRight(h, n) /\ BalanceFactor(h, n) \in -1..1
    BY DEF HeightIsRight, BalanceFactor, NodeHeight, Taller
  <2>5. Avl(h, n, {} \cup {} \cup {n})
    BY <2>3, <2>4, AvlJoin
  <2>6. {} \cup {} \cup {n} = S \cup {n}
    BY <2>2
  <2>7. ins[Null].heap = h /\ ins[Null].root = n
    BY <1>0 DEF Sub
  <2>8. NodeHeight(h, n) = 1 /\ NodeHeight(h, Null) = 0
    BY LinkFacts DEF NodeHeight
  <2> QED  BY <1>0, <2>5, <2>6, <2>7, <2>8 DEF Rebuilt
<1>2. ASSUME NEW p \in Nodes, Good(h[p].left), Good(h[p].right) PROVE Good(p)
  <2> DEFINE l == h[p].left  r == h[p].right  hl == NodeHeight(h, l)  hr == NodeHeight(h, r)
  <2>1. SUFFICES ASSUME NEW S \in SUBSET Nodes, Avl(h, p, S), n \notin S
                 PROVE  Rebuilt(h, p, S \cup {n}, NodeHeight(h, p), ins[p])
    OBVIOUS
  <2>2. PICK L, R \in SUBSET Nodes :
          /\ Hung(h, p, L, R) /\ S = L \cup R \cup {p}
          /\ HeightIsRight(h, p) /\ BalanceFactor(h, p) \in -1..1
    <3>1. Avl(h, p, S)
      BY <2>1
    <3> QED  BY <3>1, AvlSplit
  <2>3. /\ hl \in Nat /\ hr \in Nat /\ hl - hr \in -1..1 /\ hr - hl \in -1..1
        /\ NodeHeight(h, p) = Taller(hl, hr) + 1
    <3>1. hl \in Nat /\ hr \in Nat /\ NodeHeight(h, p) = (IF hl < hr THEN hr ELSE hl) + 1 /\ BalanceFactor(h, p) = hr - hl
      BY <2>2, HeightSum
    <3> HIDE DEF hl, hr
    <3> QED  BY <2>2, <3>1 DEF Taller
  <2>4. n \notin L /\ n \notin R /\ n # p /\ L \cap R = {} /\ p \notin L /\ p \notin R
        /\ Avl(h, l, L) /\ Avl(h, r, R) /\ l \in Links /\ r \in Links
    BY <2>1, <2>2, NodeFacts DEF Hung
  <2>5. KeyBetween(h, p, L, R) /\ \A m \in Nodes : h[m].key \in Int
    BY <2>2, NodeFacts DEF Hung
  <2>6. ASSUME NEW t, Rebuilt(h, p, S \cup {n}, t, ins[p]),
               NodeHeight(ins[p].heap, ins[p].root) \in {Taller(hl, hr) + 1, Taller(hl, hr) + 2}
        PROVE  Rebuilt(h, p, S \cup {n}, NodeHeight(h, p), ins[p])
    <3>1. Taller(hl, hr) + 2 = NodeHeight(h, p) + 1
      BY <2>3 DEF Taller
    <3> QED  BY <2>3, <2>6, <3>1 DEF Rebuilt
  <2>7. CASE h[n].key < h[p].key
    <3> DEFINE s == ins[l]  a == NodeHeight(s.heap, s.root)
    <3>1. Rebuilt(h, l, L \cup {n}, hl, s)
      BY <1>2, <2>4
    <3>2. Result(h, L \cup {n}, s) /\ a \in {hl, hl + 1}
      BY <3>1, RebuiltIsResult DEF Rebuilt
    <3>3. ins[p] = TreeBalance(SetLeft(s, p), p)
      BY <1>0, <2>7
    <3>5. \A m \in L \cup {n} : h[m].key <= h[p].key
      BY <2>5, <2>7 DEF KeyBetween
    <3> HIDE DEF s, l, r, hl, hr
    <3>6. a \in Nat
      BY <2>3, <3>2
    <3> HIDE DEF a
    <3>7. hr - a \in -2..2
      BY <2>3, <3>2, <3>6, GrownHeight
    <3>8. Rebuilt(h, p, (L \cup {n}) \cup R \cup {p}, Taller(a, hr), ins[p]) /\ Restored(ins[p], a, hr)
      <4>1. p \notin L \cup {n} /\ (L \cup {n}) \cap R = {} /\ L \cup {n} \in SUBSET Nodes
        BY <2>4
      <4>2. NodeHeight(h, h[p].right) - NodeHeight(s.heap, s.root) \in -2..2
        BY <3>7 DEF a, hr, r
      <4>3. /\ Rebuilt(h, p, (L \cup {n}) \cup R \cup {p},
                       Taller(NodeHeight(s.heap, s.root), NodeHeight(h, h[p].right)), TreeBalance(SetLeft(s, p), p))
            /\ Restored(TreeBalance(SetLeft(s, p), p), NodeHeight(s.heap, s.root), NodeHeight(h, h[p].right))
        BY <2>2, <3>2, <3>5, <4>1, <4>2, ReplaceLeft
      <4> QED  BY <3>3, <4>3 DEF a, hr, r
    <3>9. (L \cup {n}) \cup R \cup {p} = S \cup {n}
      BY <2>2
    <3>10. NodeHeight(ins[p].heap, ins[p].root) \in {Taller(hl, hr) + 1, Taller(hl, hr) + 2}
      BY <2>3, <3>2, <3>6, <3>8, GrownHeight
    <3> QED  BY <2>6, <3>8, <3>9, <3>10
  <2>8. CASE ~(h[n].key < h[p].key)
    <3> DEFINE s == ins[r]  a == NodeHeight(s.heap, s.root)
    <3>1. Rebuilt(h, r, R \cup {n}, hr, s)
      BY <1>2, <2>4
    <3>2. Result(h, R \cup {n}, s) /\ a \in {hr, hr + 1}
      BY <3>1, RebuiltIsResult DEF Rebuilt
    <3>3. ins[p] = TreeBalance(SetRight(s, p), p)
      BY <1>0, <2>8
    <3>5. \A m \in R \cup {n} : h[p].key <= h[m].key
      BY <2>5, <2>8 DEF KeyBetween
    <3> HIDE DEF s, l, r, hl, hr
    <3>6. a \in Nat
      BY <2>3, <3>2
    <3> HIDE DEF a
    <3>7. a - hl \in -2..2
      BY <2>3, <3>2, <3>6, GrownHeight
    <3>8. Rebuilt(h, p, L \cup (R \cup {n}) \cup {p}, Taller(hl, a), ins[p]) /\ Restored(ins[p], hl, a)
      <4>1. p \notin R \cup {n} /\ (R \cup {n}) \cap L = {} /\ R \cup {n} \in SUBSET Nodes
        BY <2>4
      <4>2. NodeHeight(s.heap, s.root) - NodeHeight(h, h[p].left) \in -2..2
        BY <3>7 DEF a, hl, l
      <4>3. /\ Rebuilt(h, p, L \cup (R \cup {n}) \cup {p},
                       Taller(NodeHeight(h, h[p].left), NodeHeight(s.heap, s.root)), TreeBalance(SetRight(s, p), p))
            /\ Restored(TreeBalance(SetRight(s, p), p), NodeHeight(h, h[p].left), NodeHeight(s.heap, s.root))
        BY <2>2, <3>2, <3>5, <4>1, <4>2, ReplaceRight
      <4> QED  BY <3>3, <4>3 DEF a, hl, l
    <3>9. L \cup (R \cup {n}) \cup {p} = S \cup {n}
      BY <2>2
    <3>10. NodeHeight(ins[p].heap, ins[p].root) \in {Taller(hl, hr) + 1, Taller(hl, hr) + 2}
      BY <2>3, <3>2, <3>6, <3>8, GrownHeight
    <3> QED  BY <2>6, <3>8, <3>9, <3>10
  <2> QED  BY <2>7, <2>8
<1>3. \A p \in Links : p \in T
  <2>1. T \in SUBSET Links /\ Null \in T
    BY <1>1, LinkFacts
  <2>2. \A p \in Nodes : h[p].left \in T /\ h[p].right \in T => p \in T
    BY <1>2, LinkFacts
  <2> HIDE DEF T
  <2> QED  BY <2>1, <2>2, HeapInduction
<1> QED  BY <1>3 DEF ins

(***************************************************************************)
(* Removal.                                                                *)
(***************************************************************************)

\* The height after a removal on one side of a node.
LEMMA ShrunkHeight ==
  ASSUME NEW a \in Nat, NEW b \in Nat, NEW c \in Nat, a - b \in -1..1, c \in {a - 1, a}
  PROVE  /\ b - c \in -2..2 /\ c - b \in -2..2
         /\ \A s : Restored(s, c, b) \/ Restored(s, b, c) =>
              NodeHeight(s.heap, s.root) \in {Taller(a, b), Taller(a, b) + 1}
         /\ Taller(a, b) = Taller(b, a) /\ Taller(a, b) \in Nat
<1>1. b - c \in -2..2 /\ c - b \in -2..2 /\ Taller(a, b) = Taller(b, a) /\ Taller(a, b) \in Nat
  BY DEF Taller
<1>2. ASSUME NEW s, Restored(s, c, b) \/ Restored(s, b, c)
      PROVE  NodeHeight(s.heap, s.root) \in {Taller(a, b), Taller(a, b) + 1}
  <2> DEFINE x == NodeHeight(s.heap, s.root)
  <2>1. /\ x \in {Taller(c, b), Taller(c, b) + 1}
        /\ c - b \in -1..1 => x = Taller(c, b) + 1
    BY <1>2 DEF Restored, Taller
  <2> HIDE DEF x
  <2>2. x \in {Taller(a, b), Taller(a, b) + 1}
    BY <2>1 DEF Taller
  <2> QED  BY <2>2 DEF x
<1> QED  BY <1>1, <1>2

\* A subtree without one of its nodes: s is what is left of the tree p.
Shrunk(h, p, S, gone, s) ==
  /\ gone \in S /\ Result(h, S \ {gone}, s)
  /\ NodeHeight(s.heap, s.root) \in {NodeHeight(h, p) - 1, NodeHeight(h, p)}

\* The node above a subtree that lost a node, on the left.
LEMMA ShrinkLeft ==
  ASSUME NEW h \in Heaps, NEW p \in Nodes, NEW L \in SUBSET Nodes, NEW R \in SUBSET Nodes,
         Hung(h, p, L, R), HeightIsRight(h, p), BalanceFactor(h, p) \in -1..1,
         NEW gone, NEW s, Shrunk(h, h[p].left, L, gone, s)
  PROVE  Shrunk(h, p, L \cup R \cup {p}, gone, TreeBalance(SetLeft(s, p), p))
<1> DEFINE hl == NodeHeight(h, h[p].left)  hr == NodeHeight(h, h[p].right)
           a == NodeHeight(s.heap, s.root)  M == L \ {gone}  u == TreeBalance(SetLeft(s, p), p)
<1>1. hl \in Nat /\ hr \in Nat /\ NodeHeight(h, p) = (IF hl < hr THEN hr ELSE hl) + 1 /\ BalanceFactor(h, p) = hr - hl
  BY HeightSum
<1>2. gone \in L /\ Result(h, M, s) /\ a \in {hl - 1, hl}
  BY DEF Shrunk
<1>3. a \in Nat
  BY <1>2, HeightFacts DEF Result
<1>4. p \notin M /\ M \cap R = {} /\ M \in SUBSET Nodes /\ \A m \in M : h[m].key <= h[p].key
  BY DEF Hung, KeyBetween
<1>5. hl - hr \in -1..1
  BY <1>1
<1>6. hr - a \in -2..2
  <2> HIDE DEF hl, hr, a
  <2> QED  BY <1>1, <1>2, <1>3, <1>5, ShrunkHeight
<1>7. Rebuilt(h, p, M \cup R \cup {p}, Taller(a, hr), u) /\ Restored(u, a, hr)
  BY <1>2, <1>4, <1>6, ReplaceLeft
<1> HIDE DEF hl, hr, a, M, u
<1>8. NodeHeight(u.heap, u.root) \in {Taller(hl, hr), Taller(hl, hr) + 1}
  BY <1>1, <1>2, <1>3, <1>5, <1>7, ShrunkHeight
<1>9. Taller(hl, hr) = NodeHeight(h, p) - 1 /\ Taller(hl, hr) + 1 = NodeHeight(h, p)
  BY <1>1 DEF Taller
<1>10. M \cup R \cup {p} = (L \cup R \cup {p}) \ {gone} /\ M \cup R \cup {p} \in SUBSET Nodes
  BY <1>2 DEF M, Hung
<1>11. Result(h, M \cup R \cup {p}, u)
  BY <1>7, <1>10, RebuiltIsResult
<1>12. Shrunk(h, p, L \cup R \cup {p}, gone, u)
  BY <1>2, <1>8, <1>9, <1>10, <1>11 DEF Shrunk
<1> QED  BY <1>12 DEF u

\* The same on the right.
LEMMA ShrinkRight ==
  ASSUME NEW h \in Heaps, NEW p \in Nodes, NEW L \in SUBSET Nodes, NEW R \in SUBSET Nodes,
         Hung(h, p, L, R), HeightIsRight(h, p), BalanceFactor(h, p) \in -1..1,
         NEW gone, NEW s, Shrunk(h, h[p].right, R, gone, s)
  PROVE  Shrunk(h, p, L \cup R \cup {p}, gone, TreeBalance(SetRight(s, p), p))
<1> DEFINE hl == NodeHeight(h, h[p].left)  hr == NodeHeight(h, h[p].right)
           a == NodeHeight(s.heap, s.root)  M == R \ {gone}  u == TreeBalance(SetRight(s, p), p)
<1>1. hl \in Nat /\ hr \in Nat /\ NodeHeight(h, p) = (IF hl < hr THEN hr ELSE hl) + 1 /\ BalanceFactor(h, p) = hr - hl
  BY HeightSum
<1>2. gone \in R /\ Result(h, M, s) /\ a \in {hr - 1, hr}
  BY DEF Shrunk
<1>3. a \in Nat
  BY <1>2, HeightFacts DEF Result
<1>4. p \notin M /\ M \cap L = {} /\ M \in SUBSET Nodes /\ \A m \in M : h[p].key <= h[m].key
  BY DEF Hung, KeyBetween
<1>5. hr - hl \in -1..1
  BY <1>1
<1>6. a - hl \in -2..2
  <2> HIDE DEF hl, hr, a
  <2> QED  BY <1>1, <1>2, <1>3, <1>5, ShrunkHeight
<1>7. Rebuilt(h, p, L \cup M \cup {p}, Taller(hl, a), u) /\ Restored(u, hl, a)
  BY <1>2, <1>4, <1>6, ReplaceRight
<1> HIDE DEF hl, hr, a, M, u
<1>8. NodeHeight(u.heap, u.root) \in {Taller(hl, hr), Taller(hl, hr) + 1}
  BY <1>1, <1>2, <1>3, <1>5, <1>7, ShrunkHeight
<1>9. Taller(hl, hr) = NodeHeight(h, p) - 1 /\ Taller(hl, hr) + 1 = NodeHeight(h, p)
  BY <1>1 DEF Taller
<1>10. L \cup M \cup {p} = (L \cup R \cup {p}) \ {gone} /\ L \cup M \cup {p} \in SUBSET Nodes
  BY <1>2 DEF M, Hung
<1>11. Result(h, L \cup M \cup {p}, u)
  BY <1>7, <1>10, RebuiltIsResult
<1>12. Shrunk(h, p, L \cup R \cup {p}, gone, u)
  BY <1>2, <1>8, <1>9, <1>10, <1>11 DEF Shrunk
<1> QED  BY <1>12 DEF u

\* avl_tree_min finds a node with the lowest key and tree_remove_minimum_node
\* takes out that one.
LEMMA RemoveMinimumKeeps ==
  ASSUME NEW h \in Heaps, Descends(h)
  PROVE  \A p \in Nodes, S \in SUBSET Nodes :
           Avl(h, p, S) =>
             /\ Shrunk(h, p, S, TreeMin(h)[p], TreeRemoveMinimum(h)[p])
             /\ \A m \in S : h[TreeMin(h)[p]].key <= h[m].key
<1> DEFINE min == TreeMin(h)  rem == TreeRemoveMinimum(h)
           Good(p) == \A S \in SUBSET Nodes :
                        Avl(h, p, S) => /\ Shrunk(h, p, S, min[p], rem[p])
                                               /\ \A m \in S : h[min[p]].key <= h[m].key
           T == {p \in Links : p # Null => Good(p)}
<1>0. \A p \in Nodes : /\ min[p] = IF h[p].left = Null THEN p ELSE min[h[p].left]
                       /\ rem[p] = IF h[p].left = Null THEN Sub(h, h[p].right)
                                   ELSE TreeBalance(SetLeft(rem[h[p].left], p), p)
  BY MinUnfolds, RemoveMinimumUnfolds
<1> HIDE DEF min, rem
<1>1. ASSUME NEW p \in Nodes, h[p].left # Null => Good(h[p].left) PROVE Good(p)
  <2> DEFINE l == h[p].left  r == h[p].right
  <2>1. SUFFICES ASSUME NEW S \in SUBSET Nodes, Avl(h, p, S)
                 PROVE  Shrunk(h, p, S, min[p], rem[p]) /\ \A m \in S : h[min[p]].key <= h[m].key
    OBVIOUS
  <2>2. PICK L, R \in SUBSET Nodes :
          /\ Hung(h, p, L, R) /\ S = L \cup R \cup {p}
          /\ HeightIsRight(h, p) /\ BalanceFactor(h, p) \in -1..1
    <3>1. Avl(h, p, S)
      BY <2>1
    <3> QED  BY <3>1, AvlSplit
  <2>3. /\ Avl(h, l, L) /\ Avl(h, r, R) /\ l \in Links /\ r \in Links /\ p \notin R
        /\ KeyBetween(h, p, L, R)
    BY <2>2, NodeFacts DEF Hung
  <2>4. \A m \in Nodes : h[m].key \in Int
    BY NodeFacts
  <2>5. CASE l = Null
    <3>1. min[p] = p /\ rem[p] = Sub(h, r) /\ L = {} /\ S \ {p} = R
      BY <1>0, <2>2, <2>3, <2>5, AvlNull
    <3>2. rem[p].heap = h /\ rem[p].root = r
      BY <3>1 DEF Sub
    <3>3. Result(h, S \ {p}, rem[p])
      BY <2>3, <3>1, <3>2 DEF Result
    <3>4. NodeHeight(h, p) = NodeHeight(h, r) + 1 /\ NodeHeight(h, r) \in Nat
      <4>1. NodeHeight(h, l) = 0
        BY <2>5 DEF NodeHeight
      <4>2. /\ NodeHeight(h, r) \in Nat
            /\ NodeHeight(h, p) = (IF NodeHeight(h, l) < NodeHeight(h, r) THEN NodeHeight(h, r) ELSE NodeHeight(h, l)) + 1
        <5>1. HeightIsRight(h, p)
          BY <2>2
        <5> QED  BY <5>1, HeightSum
      <4> QED  BY <4>1, <4>2
    <3>5. Shrunk(h, p, S, p, rem[p])
      <4>1. NodeHeight(rem[p].heap, rem[p].root) = NodeHeight(h, p) - 1 /\ p \in S
        <5>1. NodeHeight(h, r) = NodeHeight(h, p) - 1
          BY <3>4
        <5> QED  BY <2>2, <3>2, <5>1
      <4> QED  BY <3>3, <4>1 DEF Shrunk
    <3>6. \A m \in S : h[p].key <= h[m].key
      BY <2>2, <2>3, <2>4, <3>1 DEF KeyBetween
    <3> QED  BY <3>1, <3>5, <3>6
  <2>6. CASE l # Null
    <3>1. min[p] = min[l] /\ rem[p] = TreeBalance(SetLeft(rem[l], p), p)
      BY <1>0, <2>6
    <3>2. Shrunk(h, l, L, min[l], rem[l]) /\ \A m \in L : h[min[l]].key <= h[m].key
      BY <1>1, <2>3, <2>6
    <3>3. Shrunk(h, p, L \cup R \cup {p}, min[l], TreeBalance(SetLeft(rem[l], p), p))
      BY <2>2, <3>2, ShrinkLeft
    <3>4. \A m \in S : h[min[l]].key <= h[m].key
      <4>1. min[l] \in L /\ h[min[l]].key <= h[p].key
        BY <2>3, <3>2 DEF Shrunk, KeyBetween
      <4> QED  BY <2>2, <2>3, <2>4, <3>2, <4>1 DEF KeyBetween
    <3> QED  BY <2>2, <3>1, <3>3, <3>4
  <2> QED  BY <2>5, <2>6
<1>2. \A p \in Links : p \in T
  <2>1. T \in SUBSET Links /\ Null \in T
    BY LinkFacts
  <2>2. \A p \in Nodes : h[p].left \in T /\ h[p].right \in T => p \in T
    BY <1>1, LinkFacts
  <2> HIDE DEF T
  <2> QED  BY <2>1, <2>2, HeapInduction
<1> QED  BY <1>2, LinkFacts DEF min, rem

\* The minimum of the right subtree with both subtrees hung below it and all
\* their parents set.
Rehung(h, min, q, c, par) ==
  LET h1 == [h EXCEPT ![min].right = c, ![min].left = q]
      h2 == SetParent(SetParent(h1, q, min), c, min)
  IN SetParent(h2, min, par)

\* Nothing but parents changes at the other nodes.
LEMMA RehungFacts ==
  ASSUME NEW h \in Heaps, NEW min \in Nodes, NEW q \in Links, NEW c \in Links, NEW par \in Links \cup {Wild},
         q # min, c # min
  PROVE  LET g == Rehung(h, min, q, c, par)
         IN /\ g \in Heaps /\ g[min].left = q /\ g[min].right = c
            /\ \A m \in Nodes : g[m].key = h[m].key
            /\ \A m \in Nodes : m # min => SameNode(h, g, m)
            /\ \A m \in Nodes : m # min /\ m # q /\ m # c => g[m] = h[m]
<1> DEFINE h1 == [h EXCEPT ![min].right = c, ![min].left = q]
           h2 == SetParent(h1, q, min)
           h3 == SetParent(h2, c, min)
           g  == SetParent(h3, min, par)
<1>0. min \in Links /\ min \in Links \cup {Wild}
  BY LinkFacts
<1>1. /\ h1 \in Heaps /\ h1[min].left = q /\ h1[min].right = c /\ h1[min].key = h[min].key
      /\ \A m \in Nodes : m # min => h1[m] = h[m]
  BY DEF Heaps
<1> HIDE DEF h1
<1>2. h2 \in Heaps /\ \A m \in Nodes : SameNode(h1, h2, m) /\ h2[m].parent = IF m = q THEN min ELSE h1[m].parent
  BY <1>0, <1>1, SetParentFacts
<1> HIDE DEF h2
<1>3. h3 \in Heaps /\ \A m \in Nodes : SameNode(h2, h3, m) /\ h3[m].parent = IF m = c THEN min ELSE h2[m].parent
  BY <1>0, <1>2, SetParentFacts
<1> HIDE DEF h3
<1>4. g \in Heaps /\ \A m \in Nodes : SameNode(h3, g, m) /\ g[m].parent = IF m = min THEN par ELSE h3[m].parent
  <2>1. \A n \in Links, v \in Links \cup {Wild} :
          /\ SetParent(h3, n, v) \in Heaps
          /\ \A m \in Nodes : /\ SameNode(h3, SetParent(h3, n, v), m)
                              /\ SetParent(h3, n, v)[m].parent = IF m = n THEN v ELSE h3[m].parent
    BY <1>3, SetParentFacts
  <2> QED  BY <1>0, <2>1
<1> HIDE DEF g
<1>5. g[min].left = q /\ g[min].right = c
  BY <1>1, <1>2, <1>3, <1>4 DEF SameNode
<1>6. \A m \in Nodes : SameNode(h1, g, m)
  BY <1>2, <1>3, <1>4 DEF SameNode
<1>7. \A m \in Nodes : g[m].key = h[m].key
  BY <1>1, <1>6 DEF SameNode
<1>8. \A m \in Nodes : m # min => SameNode(h, g, m)
  BY <1>1, <1>6 DEF SameNode
<1>9. ASSUME NEW m \in Nodes, m # min, m # q, m # c PROVE g[m] = h[m]
  <2>1. g[m].parent = h[m].parent
    BY <1>1, <1>2, <1>3, <1>4, <1>9
  <2> QED  BY <1>4, <1>8, <1>9, <2>1, SameRecord
<1> QED  BY <1>4, <1>5, <1>7, <1>8, <1>9 DEF g, h3, h2, h1, Rehung

\* A removed node leaves an AVL tree of the others, as high or one lower.
LEMMA UnhookKeeps ==
  ASSUME NEW h \in Heaps, Descends(h), NEW p \in Nodes, NEW S \in SUBSET Nodes, Avl(h, p, S)
  PROVE  Shrunk(h, p, S, p, Unhook(h, p))
<1> DEFINE q == h[p].left  r == h[p].right  hl == NodeHeight(h, q)  hr == NodeHeight(h, r)
           par == h[p].parent  u == Unhook(h, p)
<1>1. PICK L, R \in SUBSET Nodes :
        /\ Hung(h, p, L, R) /\ S = L \cup R \cup {p}
        /\ HeightIsRight(h, p) /\ BalanceFactor(h, p) \in -1..1
  <2>1. Avl(h, p, S)
    OBVIOUS
  <2> QED  BY <2>1, AvlSplit
<1>2. /\ Avl(h, q, L) /\ Avl(h, r, R) /\ q \in Links /\ r \in Links /\ par \in Links \cup {Wild}
      /\ KeyBetween(h, p, L, R) /\ L \cap R = {} /\ p \notin L /\ p \notin R
  BY <1>1, NodeFacts DEF Hung
<1>3. /\ hl \in Nat /\ hr \in Nat /\ NodeHeight(h, p) = Taller(hl, hr) + 1
      /\ hl - hr \in -1..1 /\ hr - hl \in -1..1
  <2>1. HeightIsRight(h, p)
    BY <1>1
  <2>2. hl \in Nat /\ hr \in Nat /\ NodeHeight(h, p) = (IF hl < hr THEN hr ELSE hl) + 1 /\ BalanceFactor(h, p) = hr - hl
    BY <2>1, HeightSum
  <2> HIDE DEF hl, hr
  <2> QED  BY <1>1, <2>2 DEF Taller
<1>4. (q # Null => q \in L) /\ p \in S
  BY <1>1, <1>2, AvlNodes
<1>5. CASE r = Null
  <2> DEFINE g == SetParent(h, q, par)
  <2>1. u.heap = g /\ u.root = q /\ u = Sub(u.heap, u.root)
    BY <1>5 DEF Unhook, Sub
  <2>2. R = {} /\ S \ {p} = L /\ hr = 0
    BY <1>1, <1>2, <1>5, AvlNull DEF NodeHeight
  <2>3. g \in Heaps /\ \A m \in Nodes : SameNode(h, g, m) /\ g[m].parent = IF m = q THEN par ELSE h[m].parent
    <3> HIDE DEF q, par
    <3> QED  BY <1>2, SetParentFacts
  <2> HIDE DEF g, u
  <2>4. Avl(g, q, L)
    BY <1>2, <2>3, AvlFrame
  <2>5. ASSUME NEW m \in Nodes \ L PROVE g[m] = h[m]
    BY <1>4, <2>3, <2>5, SameRecord, LinkFacts
  <2>6. NodeHeight(g, q) = hl
    BY <1>2, <2>3, LinkFacts DEF NodeHeight, SameNode
  <2>7. Result(h, S \ {p}, u)
    BY <1>2, <2>1, <2>2, <2>3, <2>4, <2>5 DEF Result, SameNode
  <2>8. NodeHeight(u.heap, u.root) \in {NodeHeight(h, p) - 1, NodeHeight(h, p)}
    <3> HIDE DEF hl, hr
    <3> QED  BY <1>3, <2>1, <2>2, <2>6 DEF Taller
  <2> QED  BY <1>4, <2>7, <2>8 DEF Shrunk, u
<1>6. CASE r # Null
  <2> DEFINE min == TreeMin(h)[r]  sub == TreeRemoveMinimum(h)[r]  M == R \ {min}
             f == sub.heap  c == sub.root  g == Rehung(f, min, q, c, par)
             a == NodeHeight(f, c)
  <2>1. Shrunk(h, r, R, min, sub) /\ \A m \in R : h[min].key <= h[m].key
    <3>1. r \in Nodes
      BY <1>2, <1>6, LinkFacts
    <3> QED  BY <1>2, <3>1, RemoveMinimumKeeps
  <2>2. u = TreeBalance(g, min)
    BY <1>6 DEF Unhook, Rehung
  <2> HIDE DEF min, sub, g, u
  <2>3. /\ min \in R /\ f \in Heaps /\ c \in Links /\ Avl(f, c, M) /\ a \in {hr - 1, hr}
        /\ \A m \in Nodes \ M : f[m] = h[m]
        /\ \A m \in Nodes : f[m].key = h[m].key
    BY <2>1 DEF Shrunk, Result
  <2>4. (c # Null => c \in M) /\ c # min /\ q # min /\ min \in Nodes /\ M \in SUBSET Nodes
    <3>1. (c # Null => c \in M) /\ M \in SUBSET Nodes
      <4> HIDE DEF M, c, f
      <4> QED  BY <2>3, AvlNodes
    <3> QED  BY <1>2, <1>4, <2>3, <3>1, LinkFacts
  <2>5. /\ g \in Heaps /\ g[min].left = q /\ g[min].right = c
        /\ \A m \in Nodes : g[m].key = f[m].key
        /\ \A m \in Nodes : m # min => SameNode(f, g, m)
        /\ \A m \in Nodes : m # min /\ m # q /\ m # c => g[m] = f[m]
    <3>1. q \in Links /\ c \in Links /\ par \in Links \cup {Wild} /\ f \in Heaps /\ min \in Nodes
      BY <1>2, <2>3, <2>4
    <3>2. q # min /\ c # min
      BY <2>4
    <3> HIDE DEF f, c, q, par
    <3> QED  BY <3>1, <3>2, RehungFacts DEF g
  <2>6. Avl(g, q, L)
    <3>1. \A n \in L : SameNode(h, g, n)
      BY <1>2, <2>3, <2>5 DEF SameNode
    <3> QED  BY <1>2, <2>5, <3>1, AvlFrame
  <2>7. Avl(g, c, M)
    <3>1. \A n \in M : SameNode(f, g, n)
      BY <2>5
    <3> HIDE DEF M, f, c
    <3> QED  BY <2>3, <2>5, <3>1, AvlFrame
  <2>8. KeyBetween(g, min, L, M)
    <3>1. h[p].key <= h[min].key /\ \A m \in L : h[m].key <= h[p].key
      BY <1>2, <2>3 DEF KeyBetween
    <3>2. \A m \in Nodes : g[m].key = h[m].key /\ h[m].key \in Int
      BY <2>3, <2>5, NodeFacts
    <3>3. \A m \in L : h[m].key <= h[min].key
      BY <2>4, <3>1, <3>2
    <3> QED  BY <2>1, <2>4, <3>2, <3>3 DEF KeyBetween
  <2>9. Hung(g, min, L, M)
    BY <1>2, <2>3, <2>5, <2>6, <2>7, <2>8 DEF Hung
  <2>10. NodeHeight(g, q) = hl /\ NodeHeight(g, c) = a /\ a \in Nat
    <3>1. q # Null => g[q].height = h[q].height
      BY <1>2, <1>4, <2>3, <2>4, <2>5 DEF SameNode
    <3>2. c # Null => g[c].height = f[c].height
      BY <2>4, <2>5 DEF SameNode
    <3>3. NodeHeight(g, q) = hl /\ NodeHeight(g, c) = a
      BY <3>1, <3>2 DEF NodeHeight
    <3> QED  BY <2>3, <3>3, HeightFacts
  <2>11. BalanceFactor(g, min) = a - hl
    BY <2>5, <2>10 DEF BalanceFactor
  <2>12. a - hl \in -2..2
    <3> HIDE DEF hl, hr, a
    <3> QED  BY <1>3, <2>3, <2>10, ShrunkHeight
  <2>13. /\ Rebuilt(g, min, L \cup M \cup {min}, Taller(hl, a), u)
         /\ a - hl \in -1..1 => NodeHeight(u.heap, u.root) = Taller(hl, a) + 1
    <3>1. BalanceFactor(g, min) \in -2..2
      BY <2>11, <2>12
    <3>2. LET gl == NodeHeight(g, g[min].left)
              gr == NodeHeight(g, g[min].right)
          IN /\ Rebuilt(g, min, L \cup M \cup {min}, Taller(gl, gr), u)
             /\ BalanceFactor(g, min) \in -1..1 => NodeHeight(u.heap, u.root) = Taller(gl, gr) + 1
      <4> HIDE DEF M
      <4> QED  BY <2>2, <2>4, <2>5, <2>9, <3>1, BalanceKeeps
    <3> HIDE DEF hl, a, M
    <3> QED  BY <2>5, <2>10, <2>11, <3>2
  <2>14. L \cup M \cup {min} = S \ {p} /\ S \ {p} \in SUBSET Nodes
    BY <1>1, <1>2, <2>3
  <2>15. Result(h, S \ {p}, u)
    <3>1. Result(g, S \ {p}, u)
      BY <2>13, <2>14, RebuiltIsResult
    <3>2. ASSUME NEW m \in Nodes \ (S \ {p}) PROVE g[m] = h[m]
      <4>1. m # min /\ m # q /\ m # c /\ m \notin M
        BY <1>4, <2>3, <2>4, <2>14, LinkFacts
      <4> QED  BY <2>3, <2>5, <4>1
    <3>3. \A m \in Nodes : g[m].key = h[m].key
      BY <2>3, <2>5
    <3> QED  BY <3>1, <3>2, <3>3 DEF Result
  <2>16. NodeHeight(u.heap, u.root) \in {Taller(hl, hr), Taller(hl, hr) + 1}
    <3>1. Restored(u, hl, a)
      <4>1. NodeHeight(u.heap, u.root) \in {Taller(hl, a), Taller(hl, a) + 1}
        BY <2>13 DEF Rebuilt
      <4>2. hl - a \in -1..1 => a - hl \in -1..1
        <5> HIDE DEF hl, a
        <5> QED  BY <1>3, <2>10
      <4> QED  BY <2>13, <4>1, <4>2 DEF Restored
    <3> HIDE DEF hl, hr, a
    <3> QED  BY <1>3, <2>3, <2>10, <3>1, ShrunkHeight
  <2>17. Taller(hl, hr) = NodeHeight(h, p) - 1 /\ Taller(hl, hr) + 1 = NodeHeight(h, p)
    <3> HIDE DEF hl, hr
    <3> QED  BY <1>3 DEF Taller
  <2> QED  BY <1>4, <2>15, <2>16, <2>17 DEF Shrunk, u
<1> QED  BY <1>5, <1>6

\* Two heaps with the same records are one.
LEMMA SameHeap ==
  ASSUME NEW g \in Heaps, NEW h \in Heaps, \A n \in Nodes : g[n] = h[n]
  PROVE  g = h
  BY DEF Heaps

\* A node of a tree is balanced already: when nothing below it changed,
\* tree_balance changes nothing.
LEMMA BalanceIdles ==
  ASSUME NEW h \in Heaps, NEW p \in Nodes, NEW L \in SUBSET Nodes, NEW R \in SUBSET Nodes,
         Hung(h, p, L, R), HeightIsRight(h, p), BalanceFactor(h, p) \in -1..1
  PROVE  /\ TreeBalance(SetLeft(Sub(h, h[p].left), p), p) = Sub(h, p)
         /\ TreeBalance(SetRight(Sub(h, h[p].right), p), p) = Sub(h, p)
<1>1. h[p].left \in Links /\ h[p].right \in Links
  BY NodeFacts
<1>2. SetLeft(Sub(h, h[p].left), p) = h
  <2> DEFINE g == SetLeft(Sub(h, h[p].left), p)
  <2>1. g \in Heaps /\ (\A m \in Nodes : m # p => g[m] = h[m]) /\ SameNode(h, g, p) /\ g[p].parent = h[p].parent
    BY <1>1, SetLinkFacts DEF SameNode
  <2> HIDE DEF g
  <2>2. \A m \in Nodes : g[m] = h[m]
    BY <2>1, SameRecord
  <2>3. g = h
    BY <2>1, <2>2, SameHeap
  <2> QED  BY <2>3 DEF g
<1>3. SetRight(Sub(h, h[p].right), p) = h
  <2> DEFINE g == SetRight(Sub(h, h[p].right), p)
  <2>1. g \in Heaps /\ (\A m \in Nodes : m # p => g[m] = h[m]) /\ SameNode(h, g, p) /\ g[p].parent = h[p].parent
    BY <1>1, SetLinkFacts DEF SameNode
  <2> HIDE DEF g
  <2>2. \A m \in Nodes : g[m] = h[m]
    BY <2>1, SameRecord
  <2>3. g = h
    BY <2>1, <2>2, SameHeap
  <2> QED  BY <2>3 DEF g
<1>4. FixHeight(h, p) = h
  <2> DEFINE g == FixHeight(h, p)
  <2>1. g \in Heaps /\ (\A m \in Nodes : m # p => g[m] = h[m]) /\ SameNode(h, g, p) /\ g[p].parent = h[p].parent
    BY FixHeightFacts DEF SameNode, HeightIsRight
  <2> HIDE DEF g
  <2>2. \A m \in Nodes : g[m] = h[m]
    BY <2>1, SameRecord
  <2>3. g = h
    BY <2>1, <2>2, SameHeap
  <2> QED  BY <2>3 DEF g
<1>5. TreeBalance(h, p) = Sub(FixHeight(h, p), p)
  <2>1. BalanceFactor(h, p) \in -2..2
    OBVIOUS
  <2> QED  BY <2>1, BalanceKeeps
<1> QED  BY <1>2, <1>3, <1>4, <1>5

\* What tree_find and tree_remove_node do to an AVL tree: no node of it has the
\* key and it stays as it is, or a node with the key is found and taken out.
Searched(h, k, p, S, found, s) ==
  \/ found = Null /\ s = Sub(h, p) /\ \A m \in S : h[m].key # k
  \/ found \in Nodes /\ h[found].key = k /\ Shrunk(h, p, S, found, s)

\* tree_remove_node takes the node tree_find finds out of an AVL tree and leaves
\* an AVL tree of the others, as high or one lower; if there is none with the
\* key, nothing changes.
LEMMA RemoveKeeps ==
  ASSUME NEW h \in Heaps, Descends(h), NEW k \in Keys
  PROVE  \A p \in Links, S \in SUBSET Nodes :
           Avl(h, p, S) => Searched(h, k, p, S, TreeFind(h, k)[p], TreeRemoveNode(h, k)[p])
<1> DEFINE find == TreeFind(h, k)  rem == TreeRemoveNode(h, k)
           Good(p) == \A S \in SUBSET Nodes : Avl(h, p, S) => Searched(h, k, p, S, find[p], rem[p])
           T == {p \in Links : Good(p)}
<1>0. /\ find[Null] = Null /\ rem[Null] = Sub(h, Null)
      /\ \A p \in Nodes :
           /\ find[p] = IF k < h[p].key THEN find[h[p].left]
                        ELSE IF k > h[p].key THEN find[h[p].right] ELSE p
           /\ rem[p] = IF k < h[p].key THEN TreeBalance(SetLeft(rem[h[p].left], p), p)
                       ELSE IF k > h[p].key THEN TreeBalance(SetRight(rem[h[p].right], p), p)
                       ELSE Unhook(h, p)
  BY FindUnfolds, RemoveNodeUnfolds
<1> HIDE DEF find, rem
<1>1. Good(Null)
  BY <1>0, AvlNull DEF Searched
<1>2. ASSUME NEW p \in Nodes, Good(h[p].left), Good(h[p].right) PROVE Good(p)
  <2> DEFINE l == h[p].left  r == h[p].right
  <2>1. SUFFICES ASSUME NEW S \in SUBSET Nodes, Avl(h, p, S)
                 PROVE  Searched(h, k, p, S, find[p], rem[p])
    OBVIOUS
  <2>2. PICK L, R \in SUBSET Nodes :
          /\ Hung(h, p, L, R) /\ S = L \cup R \cup {p}
          /\ HeightIsRight(h, p) /\ BalanceFactor(h, p) \in -1..1
    <3>1. Avl(h, p, S)
      BY <2>1
    <3> QED  BY <3>1, AvlSplit
  <2>3. Avl(h, l, L) /\ Avl(h, r, R) /\ KeyBetween(h, p, L, R)
    BY <2>2 DEF Hung
  <2>4. k \in Int /\ \A m \in Nodes : h[m].key \in Int
    BY NodeFacts, TreeAssumption
  <2>5. HeightIsRight(h, p) /\ BalanceFactor(h, p) \in -1..1 /\ Hung(h, p, L, R)
    BY <2>2
  <2>6. CASE k < h[p].key
    <3>1. find[p] = find[l] /\ rem[p] = TreeBalance(SetLeft(rem[l], p), p)
      BY <1>0, <2>6
    <3>2. Searched(h, k, l, L, find[l], rem[l])
      BY <1>2, <2>3
    <3>3. CASE find[l] = Null /\ rem[l] = Sub(h, l) /\ \A m \in L : h[m].key # k
      <4>1. rem[p] = Sub(h, p)
        BY <2>5, <3>1, <3>3, BalanceIdles
      <4>2. \A m \in S : h[m].key # k
        BY <2>2, <2>3, <2>4, <2>6, <3>3 DEF KeyBetween
      <4> QED  BY <3>1, <3>3, <4>1, <4>2 DEF Searched
    <3>4. CASE find[l] \in Nodes /\ h[find[l]].key = k /\ Shrunk(h, l, L, find[l], rem[l])
      <4>1. Shrunk(h, l, L, find[l], rem[l])
        BY <3>4
      <4>2. Shrunk(h, p, L \cup R \cup {p}, find[l], TreeBalance(SetLeft(rem[l], p), p))
        BY <2>5, <4>1, ShrinkLeft
      <4> QED  BY <2>2, <3>1, <3>4, <4>2 DEF Searched
    <3> QED  BY <3>2, <3>3, <3>4 DEF Searched
  <2>7. CASE k > h[p].key
    <3>1. find[p] = find[r] /\ rem[p] = TreeBalance(SetRight(rem[r], p), p)
      BY <1>0, <2>4, <2>7
    <3>2. Searched(h, k, r, R, find[r], rem[r])
      BY <1>2, <2>3
    <3>3. CASE find[r] = Null /\ rem[r] = Sub(h, r) /\ \A m \in R : h[m].key # k
      <4>1. rem[p] = Sub(h, p)
        BY <2>5, <3>1, <3>3, BalanceIdles
      <4>2. \A m \in S : h[m].key # k
        BY <2>2, <2>3, <2>4, <2>7, <3>3 DEF KeyBetween
      <4> QED  BY <3>1, <3>3, <4>1, <4>2 DEF Searched
    <3>4. CASE find[r] \in Nodes /\ h[find[r]].key = k /\ Shrunk(h, r, R, find[r], rem[r])
      <4>1. Shrunk(h, r, R, find[r], rem[r])
        BY <3>4
      <4>2. Shrunk(h, p, L \cup R \cup {p}, find[r], TreeBalance(SetRight(rem[r], p), p))
        BY <2>5, <4>1, ShrinkRight
      <4> QED  BY <2>2, <3>1, <3>4, <4>2 DEF Searched
    <3> QED  BY <3>2, <3>3, <3>4 DEF Searched
  <2>8. CASE ~(k < h[p].key) /\ ~(k > h[p].key)
    <3>1. find[p] = p /\ rem[p] = Unhook(h, p) /\ h[p].key = k
      BY <1>0, <2>4, <2>8
    <3>2. Shrunk(h, p, S, p, Unhook(h, p))
      BY <2>1, UnhookKeeps
    <3> QED  BY <3>1, <3>2 DEF Searched
  <2> QED  BY <2>6, <2>7, <2>8
<1>3. \A p \in Links : p \in T
  <2>1. T \in SUBSET Links /\ Null \in T
    BY <1>1, LinkFacts
  <2>2. \A p \in Nodes : h[p].left \in T /\ h[p].right \in T => p \in T
    BY <1>2, LinkFacts
  <2> HIDE DEF T
  <2> QED  BY <2>1, <2>2, HeapInduction
<1> QED  BY <1>3 DEF find, rem

(***************************************************************************)
(* The nodes in the order of the tree.                                     *)
(***************************************************************************)

\* The elements of a sequence, a node and another sequence, one after another.
LEMMA Threaded ==
  ASSUME NEW a \in Seq(Nodes), NEW p \in Nodes, NEW b \in Seq(Nodes)
  PROVE  LET u == a \o <<p>> \o b
         IN /\ u \in Seq(Nodes) /\ Len(u) = Len(a) + 1 + Len(b) /\ u[Len(a) + 1] = p
            /\ \A i \in 1..Len(a) : u[i] = a[i]
            /\ \A i \in 1..Len(b) : u[Len(a) + 1 + i] = b[i]
<1> DEFINE c == a \o <<p>>  u == c \o b
<1>0. <<p>> \in Seq(Nodes) /\ Len(<<p>>) = 1 /\ <<p>>[1] = p /\ Len(a) \in Nat /\ Len(b) \in Nat
  OBVIOUS
<1>1. /\ c \in Seq(Nodes) /\ Len(c) = Len(a) + 1
      /\ \A i \in 1..Len(a) + 1 : c[i] = IF i <= Len(a) THEN a[i] ELSE <<p>>[i - Len(a)]
  BY <1>0, ConcatProperties
<1>2. c[Len(a) + 1] = p /\ \A i \in 1..Len(a) : c[i] = a[i]
  <2>1. Len(a) + 1 \in 1..Len(a) + 1 /\ ~(Len(a) + 1 <= Len(a)) /\ Len(a) + 1 - Len(a) = 1
    BY <1>0
  <2>2. \A i \in 1..Len(a) : i \in 1..Len(a) + 1 /\ i <= Len(a)
    BY <1>0
  <2> HIDE DEF c
  <2> QED  BY <1>0, <1>1, <2>1, <2>2
<1> HIDE DEF c
<1>3. /\ u \in Seq(Nodes) /\ Len(u) = Len(c) + Len(b)
      /\ \A i \in 1..Len(c) + Len(b) : u[i] = IF i <= Len(c) THEN c[i] ELSE b[i - Len(c)]
  <2>1. c \in Seq(Nodes)
    BY <1>1
  <2> QED  BY <2>1, ConcatProperties
<1> HIDE DEF u
<1>4. \A i \in 1..Len(a) + 1 : u[i] = c[i]
  BY <1>0, <1>1, <1>3
<1>5. \A i \in 1..Len(b) : u[Len(a) + 1 + i] = b[i]
  <2>1. ASSUME NEW i \in 1..Len(b) PROVE u[Len(a) + 1 + i] = b[i]
    <3>1. Len(c) + i \in 1..Len(c) + Len(b) /\ ~(Len(c) + i <= Len(c)) /\ Len(c) + i - Len(c) = i
      BY <1>0, <1>1
    <3> QED  BY <1>1, <1>3, <3>1
  <2> QED  BY <2>1
<1>6. u[Len(a) + 1] = p /\ \A i \in 1..Len(a) : u[i] = a[i]
  BY <1>0, <1>2, <1>4
<1> QED  BY <1>1, <1>3, <1>5, <1>6 DEF u, c

\* s is the nodes S, each once, by their keys.
Reads(h, s, S) ==
  /\ s \in Seq(Nodes) /\ Range(s) = S /\ IsInjective(s)
  /\ \A i, j \in DOMAIN s : i < j => h[s[i]].key <= h[s[j]].key

\* The order of two trees and a node between them is the order of the whole.
LEMMA ReadsMiddle ==
  ASSUME NEW h \in Heaps, NEW a, NEW b, NEW p \in Nodes, NEW L \in SUBSET Nodes, NEW R \in SUBSET Nodes,
         Reads(h, a, L), Reads(h, b, R), L \cap R = {}, p \notin L, p \notin R, KeyBetween(h, p, L, R)
  PROVE  Reads(h, a \o <<p>> \o b, L \cup R \cup {p})
<1> DEFINE u == a \o <<p>> \o b  la == Len(a)  lb == Len(b)
<1>0. a \in Seq(Nodes) /\ b \in Seq(Nodes) /\ DOMAIN a = 1..la /\ DOMAIN b = 1..lb /\ la \in Nat /\ lb \in Nat
  BY DEF Reads
<1>1. /\ u \in Seq(Nodes) /\ Len(u) = la + 1 + lb /\ u[la + 1] = p
      /\ \A i \in 1..la : u[i] = a[i]
      /\ \A i \in 1..lb : u[la + 1 + i] = b[i]
  BY <1>0, Threaded
<1>2. DOMAIN u = 1..(la + 1 + lb)
  BY <1>1
<1> HIDE DEF u, la, lb
<1>3. \A i \in 1..(la + 1 + lb) : i \in 1..la \/ i = la + 1 \/ (i - la - 1 \in 1..lb /\ i = la + 1 + (i - la - 1))
  BY <1>0
<1>4. \A i \in 1..la : a[i] \in L
  BY <1>0 DEF Reads, Range
<1>5. \A i \in 1..lb : b[i] \in R
  BY <1>0 DEF Reads, Range
<1>6. /\ \A i \in 1..la : i \in DOMAIN u
      /\ la + 1 \in DOMAIN u
      /\ \A i \in 1..lb : la + 1 + i \in DOMAIN u
  BY <1>0, <1>2
<1>7. Range(u) = L \cup R \cup {p}
  <2>1. ASSUME NEW i \in DOMAIN u PROVE u[i] \in L \cup R \cup {p}
    BY <1>1, <1>2, <1>3, <1>4, <1>5
  <2>2. ASSUME NEW m \in L PROVE \E i \in DOMAIN u : u[i] = m
    <3>1. PICK i \in 1..la : a[i] = m
      BY <1>0 DEF Reads, Range
    <3> QED  BY <1>1, <1>6, <3>1
  <2>3. ASSUME NEW m \in R PROVE \E i \in DOMAIN u : u[i] = m
    <3>1. PICK i \in 1..lb : b[i] = m
      BY <1>0 DEF Reads, Range
    <3> QED  BY <1>1, <1>6, <3>1
  <2> QED  BY <1>1, <1>6, <2>1, <2>2, <2>3 DEF Range
<1>8. IsInjective(u)
  <2>1. SUFFICES ASSUME NEW i \in DOMAIN u, NEW j \in DOMAIN u, u[i] = u[j] PROVE i = j
    BY DEF IsInjective
  <2>2. CASE i \in 1..la /\ j \in 1..la
    BY <1>0, <1>1, <2>1, <2>2 DEF Reads, IsInjective
  <2>3. CASE i - la - 1 \in 1..lb /\ i = la + 1 + (i - la - 1) /\ j - la - 1 \in 1..lb /\ j = la + 1 + (j - la - 1)
    <3>1. b[i - la - 1] = b[j - la - 1]
      BY <1>1, <2>1, <2>3
    <3>2. i - la - 1 = j - la - 1
      BY <1>0, <2>3, <3>1 DEF Reads, IsInjective
    <3> QED  BY <2>3, <3>2
  <2>4. \A x \in DOMAIN u : \/ x \in 1..la /\ u[x] \in L
                            \/ x = la + 1 /\ u[x] = p
                            \/ x - la - 1 \in 1..lb /\ x = la + 1 + (x - la - 1) /\ u[x] \in R
    BY <1>1, <1>2, <1>3, <1>4, <1>5
  <2> QED  BY <2>1, <2>2, <2>3, <2>4
<1>9. ASSUME NEW i \in DOMAIN u, NEW j \in DOMAIN u, i < j PROVE h[u[i]].key <= h[u[j]].key
  <2>0. \A m \in Nodes : h[m].key \in Int
    BY NodeFacts
  <2>1. \A x \in L, y \in R : h[x].key <= h[p].key /\ h[p].key <= h[y].key /\ h[x].key <= h[y].key
    BY <2>0 DEF KeyBetween
  <2>2. CASE i \in 1..la
    <3>1. u[i] = a[i] /\ a[i] \in L
      BY <1>1, <1>4, <2>2
    <3>2. CASE j \in 1..la
      BY <1>0, <1>1, <1>9, <2>2, <3>2 DEF Reads
    <3>3. CASE j = la + 1
      BY <1>1, <3>1, <3>3 DEF KeyBetween
    <3>4. CASE j - la - 1 \in 1..lb /\ j = la + 1 + (j - la - 1)
      <4>1. u[j] \in R
        BY <1>1, <1>5, <3>4
      <4> QED  BY <2>1, <3>1, <4>1
    <3> QED  BY <1>2, <1>3, <3>2, <3>3, <3>4
  <2>3. CASE i = la + 1
    <3>1. j - la - 1 \in 1..lb /\ j = la + 1 + (j - la - 1)
      <4>1. j \in 1..(la + 1 + lb) /\ la + 1 < j
        BY <1>2, <1>9, <2>3
      <4> QED  BY <1>0, <4>1
    <3>2. u[j] \in R /\ u[i] = p
      BY <1>1, <1>5, <2>3, <3>1
    <3> QED  BY <3>2 DEF KeyBetween
  <2>4. CASE i - la - 1 \in 1..lb /\ i = la + 1 + (i - la - 1)
    <3>1. /\ j - la - 1 \in 1..lb /\ j = la + 1 + (j - la - 1) /\ i - la - 1 < j - la - 1
      <4>1. i \in Int /\ j \in 1..(la + 1 + lb) /\ la + 1 <= i /\ i < j
        BY <1>0, <1>2, <1>9, <2>4
      <4> QED  BY <1>0, <4>1
    <3>2. u[j] = b[j - la - 1] /\ u[i] = b[i - la - 1]
      BY <1>1, <2>4, <3>1
    <3> QED  BY <1>0, <2>4, <3>1, <3>2 DEF Reads
  <2> QED  BY <1>2, <1>3, <2>2, <2>3, <2>4
<1>10. Reads(h, u, L \cup R \cup {p})
  BY <1>1, <1>7, <1>8, <1>9 DEF Reads
<1> QED  BY <1>10 DEF u

\* node_purge
LEMMA InOrderUnfolds ==
  ASSUME heap \in Heaps, Descends(heap)
  PROVE  /\ InOrder[Null] = <<>>
         /\ \A p \in Nodes : InOrder[p] = InOrder[heap[p].left] \o <<p>> \o InOrder[heap[p].right]
         /\ \A p \in Links : InOrder[p] \in Seq(Nodes)
<1> DEFINE F(f) == [p \in Links |-> IF p = Null THEN <<>> ELSE f[heap[p].left] \o <<p>> \o f[heap[p].right]]
           G == [p \in Nodes |-> [a \in Seq(Nodes) |-> [b \in Seq(Nodes) |-> a \o <<p>> \o b]]]
<1>1. G \in Steps(Seq(Nodes))
  BY Threaded DEF Steps
<1>2. \A p \in Nodes, a, b \in Seq(Nodes) : G[p][a][b] = a \o <<p>> \o b
  OBVIOUS
<1> HIDE DEF G
<1>3. PICK f \in [Links -> Seq(Nodes)] : DefinedBelow(f, heap, <<>>, G)
  <2>1. <<>> \in Seq(Nodes)
    OBVIOUS
  <2> QED  BY <1>1, <2>1, HeapRecursion
<1>4. f = F(f)
  <2>1. \A p \in Nodes : heap[p].left \in Links /\ heap[p].right \in Links
    BY NodeFacts
  <2>2. \A p \in Links : f[p] = F(f)[p]
    <3>1. f[Null] = F(f)[Null]
      BY <1>3, LinkFacts DEF DefinedBelow
    <3>2. ASSUME NEW p \in Nodes PROVE f[p] = F(f)[p]
      <4>1. f[heap[p].left] \in Seq(Nodes) /\ f[heap[p].right] \in Seq(Nodes)
        BY <2>1
      <4>2. f[p] = G[p][f[heap[p].left]][f[heap[p].right]]
        BY <1>3 DEF DefinedBelow
      <4>3. f[p] = f[heap[p].left] \o <<p>> \o f[heap[p].right]
        BY <1>2, <4>1, <4>2
      <4> QED  BY <4>3, LinkFacts
    <3> QED  BY <3>1, <3>2, LinkFacts
  <2> QED  BY <2>2
<1>5. InOrder = CHOOSE g : g = F(g)
  BY DEF InOrder
<1>6. InOrder = F(InOrder)
  <2> HIDE DEF F
  <2> QED  BY <1>4, <1>5, Zenon
<1>7. /\ InOrder[Null] = <<>>
      /\ \A p \in Nodes : InOrder[p] = InOrder[heap[p].left] \o <<p>> \o InOrder[heap[p].right]
  BY <1>6, LinkFacts
<1>8. \A p \in Links : InOrder[p] \in Seq(Nodes)
  <2> DEFINE T == {p \in Links : InOrder[p] \in Seq(Nodes)}
  <2>1. T \in SUBSET Links /\ Null \in T
    <3>1. InOrder[Null] \in Seq(Nodes)
      BY <1>7
    <3> QED  BY <3>1, LinkFacts
  <2>2. ASSUME NEW p \in Nodes, heap[p].left \in T, heap[p].right \in T PROVE p \in T
    <3>1. InOrder[heap[p].left] \in Seq(Nodes) /\ InOrder[heap[p].right] \in Seq(Nodes)
      BY <2>2
    <3>2. InOrder[heap[p].left] \o <<p>> \o InOrder[heap[p].right] \in Seq(Nodes)
      BY <3>1, Threaded
    <3> QED  BY <1>7, <3>2, LinkFacts
  <2>3. \A p \in Links : p \in T
    <3> HIDE DEF T
    <3> QED  BY <2>1, <2>2, HeapInduction
  <2> QED  BY <2>3
<1> QED  BY <1>7, <1>8

\* Read in order, an AVL tree is its nodes by their keys.
LEMMA InOrderReads ==
  ASSUME heap \in Heaps, Descends(heap)
  PROVE  \A p \in Links, S \in SUBSET Nodes : Avl(heap, p, S) => Reads(heap, InOrder[p], S)
<1> DEFINE Good(p) == \A S \in SUBSET Nodes : Avl(heap, p, S) => Reads(heap, InOrder[p], S)
           T == {p \in Links : Good(p)}
<1>0. /\ InOrder[Null] = <<>>
      /\ \A p \in Nodes : InOrder[p] = InOrder[heap[p].left] \o <<p>> \o InOrder[heap[p].right]
  BY InOrderUnfolds
<1>1. Good(Null)
  <2>1. Reads(heap, <<>>, {})
    <3>1. <<>> \in Seq(Nodes) /\ DOMAIN <<>> = {}
      OBVIOUS
    <3> QED  BY <3>1 DEF Reads, Range, IsInjective
  <2> QED  BY <1>0, <2>1, AvlNull
<1>2. ASSUME NEW p \in Nodes, Good(heap[p].left), Good(heap[p].right) PROVE Good(p)
  <2>1. SUFFICES ASSUME NEW S \in SUBSET Nodes, Avl(heap, p, S) PROVE Reads(heap, InOrder[p], S)
    OBVIOUS
  <2>2. PICK L, R \in SUBSET Nodes : Hung(heap, p, L, R) /\ S = L \cup R \cup {p}
    <3>1. Avl(heap, p, S) /\ heap \in Heaps
      BY <2>1
    <3>2. \E L, R \in SUBSET Nodes :
           /\ Hung(heap, p, L, R) /\ S = L \cup R \cup {p}
           /\ HeightIsRight(heap, p) /\ BalanceFactor(heap, p) \in -1..1
      BY <3>1, AvlSplit
    <3> QED  BY <3>2
  <2>3. /\ Reads(heap, InOrder[heap[p].left], L) /\ Reads(heap, InOrder[heap[p].right], R)
        /\ L \cap R = {} /\ p \notin L /\ p \notin R /\ KeyBetween(heap, p, L, R)
    BY <1>2, <2>2 DEF Hung
  <2>4. Reads(heap, InOrder[heap[p].left] \o <<p>> \o InOrder[heap[p].right], L \cup R \cup {p})
    BY <2>3, ReadsMiddle
  <2> QED  BY <1>0, <2>2, <2>4
<1>3. \A p \in Links : p \in T
  <2>1. T \in SUBSET Links /\ Null \in T
    BY <1>1, LinkFacts
  <2>2. \A p \in Nodes : heap[p].left \in T /\ heap[p].right \in T => p \in T
    BY <1>2, LinkFacts
  <2> HIDE DEF T
  <2> QED  BY <2>1, <2>2, HeapInduction
<1> QED  BY <1>3

(***************************************************************************)
(* The invariant of the tree.                                              *)
(***************************************************************************)

\* The nodes of the tree are T: an AVL tree, and every other node is as the
\* allocator leaves it.
Stands(T) ==
  /\ Avl(heap, root, T)
  /\ \A n \in Nodes \ T : heap[n] = Blank
  /\ tree_up => T = held

\* There is a node for each entry.
Counted == \A k \in Keys : Cardinality({n \in held : heap[n].key = k}) = stored[k]

TreeInv ==
  /\ TreeTypeOK
  /\ \E T \in SUBSET Nodes : Stands(T)
  /\ tree_up => Counted
  /\ tree_up \/ held = {}

\* What an AVL tree says of each of its nodes.
LEMMA AvlEach ==
  ASSUME NEW h, NEW p \in Links, NEW S, Avl(h, p, S), NEW n \in S
  PROVE  /\ HeightIsRight(h, n) /\ BalanceFactor(h, n) \in -1..1
         /\ (h[n].left # Null => h[n].left \in S) /\ (h[n].right # Null => h[n].right \in S)
         /\ (h[n].left = h[n].right => h[n].left = Null)
<1>1. PICK B \in [Links -> SUBSET Nodes] :
        B[Null] = {} /\ B[p] = S /\ (p # Null => p \in S) /\ \A m \in S : RightAt(h, B, m)
  BY DEF Avl
<1>2. p # Null /\ RightAt(h, B, p) /\ RightAt(h, B, n)
  BY <1>1
<1>3. B[n] \subseteq S
  BY <1>1, <1>2 DEF RightAt
<1> QED  BY <1>2, <1>3 DEF RightAt

\* A heap whose nodes are those of an AVL tree or have no children is well-founded.
LEMMA AvlDescends ==
  ASSUME NEW h \in Heaps, NEW p \in Links, NEW S, Avl(h, p, S),
         \A n \in Nodes \ S : h[n].left = Null /\ h[n].right = Null
  PROVE  Descends(h)
<1>1. ASSUME NEW n \in S, NEW c \in {h[n].left, h[n].right} \ {Null} PROVE h[c].height < h[n].height
  <2>1. n \in Nodes /\ HeightIsRight(h, n)
    BY AvlNodes, AvlEach
  <2> DEFINE hl == NodeHeight(h, h[n].left)  hr == NodeHeight(h, h[n].right)
  <2>2. hl \in Nat /\ hr \in Nat /\ NodeHeight(h, n) = (IF hl < hr THEN hr ELSE hl) + 1
    BY <2>1, HeightSum
  <2>3. NodeHeight(h, n) = h[n].height /\ h[c].height \in {hl, hr}
    BY <2>1, LinkFacts DEF NodeHeight
  <2> HIDE DEF hl, hr
  <2> QED  BY <2>2, <2>3
<1>2. S \in SUBSET Nodes
  BY AvlNodes
<1> QED  BY <1>1, <1>2 DEF Descends

\* A node that was never used.
LEMMA BlankTyped == Blank \in [key : Keys, left : Links, right : Links, parent : Links \cup {Wild}, height : Nat]
<1>1. (CHOOSE k \in Keys : TRUE) \in Keys
  BY TreeAssumption
<1> QED  BY <1>1, LinkFacts DEF Blank

\* A freed node has no links.
LEMMA BlankFields == Blank.left = Null /\ Blank.right = Null /\ Blank.parent = Null /\ Blank.height = 0
  BY DEF Blank

\* What a heap and its nodes are when the invariant holds.
LEMMA StandsDescends ==
  ASSUME TreeTypeOK, NEW T \in SUBSET Nodes, Stands(T)
  PROVE  heap \in Heaps /\ root \in Links /\ Descends(heap)
<1>1. heap \in Heaps /\ root \in Links /\ Avl(heap, root, T)
  BY DEF TreeTypeOK, Stands
<1>2. \A n \in Nodes \ T : heap[n].left = Null /\ heap[n].right = Null
  BY BlankFields DEF Stands
<1> QED  BY <1>1, <1>2, AvlDescends

\* The empty tree.
LEMMA InitStands == TreeInit => TreeInv
<1> SUFFICES ASSUME TreeInit PROVE TreeInv
  OBVIOUS
<1> USE DEF TreeInit
<1>1. IsFiniteSet(Nodes) /\ Cardinality(Nodes) \in Nat
  BY TreeAssumption, FS_CardinalityType
<1>2. TreeTypeOK
  <2>1. heap \in Heaps
    BY BlankTyped DEF Heaps
  <2>2. stored \in [Keys -> 0..Cardinality(Nodes)]
    BY <1>1
  <2> QED  BY <2>1, <2>2, LinkFacts DEF TreeTypeOK
<1>3. Stands({})
  <2>1. Avl(heap, root, {})
    BY AvlNull
  <2> QED  BY <2>1 DEF Stands
<1>4. Counted
  <2>1. \A k \in Keys : {n \in held : heap[n].key = k} = {}
    OBVIOUS
  <2> QED  BY <2>1, FS_EmptySet DEF Counted
<1>5. {} \in SUBSET Nodes
  OBVIOUS
<1> QED  BY <1>2, <1>3, <1>4, <1>5 DEF TreeInv

\* The node that is allocated is a free one.
LEMMA FreshIsFree == TreeTypeOK /\ held # Nodes => Fresh \in Nodes \ held
<1> SUFFICES ASSUME TreeTypeOK, held # Nodes PROVE Fresh \in Nodes \ held
  OBVIOUS
<1>1. Nodes \ held \in SUBSET Nat /\ Nodes \ held # {}
  BY TreeAssumption DEF TreeTypeOK
<1>2. PICK m \in Nodes \ held : \A k \in Nodes \ held : ~(k < m)
  BY <1>1, LeastNatural
<1>3. \A k \in Nodes \ held : m <= k
  BY <1>1, <1>2
<1>4. \E m1 \in Nodes \ held : \A k \in Nodes \ held : m1 <= k
  BY <1>3
<1> QED  BY <1>4 DEF Fresh, Min

\* The removals never count below nothing.
LEMMA MaxWithZero == \A a \in Int : Max({a, 0}) = IF a < 0 THEN 0 ELSE a
<1> SUFFICES ASSUME NEW a \in Int PROVE Max({a, 0}) = IF a < 0 THEN 0 ELSE a
  OBVIOUS
<1> DEFINE m == IF a < 0 THEN 0 ELSE a
<1>1. m \in {a, 0} /\ \A y \in {a, 0} : m >= y
  OBVIOUS
<1>2. \A x \in {a, 0} : (\A y \in {a, 0} : x >= y) => x = m
  OBVIOUS
<1> QED  BY <1>1, <1>2 DEF Max

\* avl_tree_add
LEMMA AddKeeps ==
  ASSUME TreeInv, NEW k \in Keys, TreeAdd(k)
  PROVE  TreeInv'
<1>1. PICK T \in SUBSET Nodes : Stands(T)
  BY DEF TreeInv
<1>2. TreeTypeOK /\ tree_up /\ held # Nodes /\ T = held /\ Counted
  BY <1>1 DEF TreeInv, TreeAdd, Stands
<1>3. PICK n \in Nodes : n = Fresh /\ n \notin T
  BY <1>2, FreshIsFree
<1> DEFINE new == [Blank EXCEPT !.key = k, !.height = 1]
           g == [heap EXCEPT ![n] = new]  sub == TreeInsert(g, n)[root]
<1>4. heap' = sub.heap /\ root' = sub.root /\ held' = held \cup {n} /\ tree_up' = tree_up
  BY <1>3 DEF TreeAdd
<1>5. stored' = [stored EXCEPT ![k] = @ + 1]
  BY DEF TreeAdd
<1>6. heap \in Heaps /\ root \in Links /\ Descends(heap)
  BY <1>1, <1>2, StandsDescends
<1>7. new \in [key : Keys, left : Links, right : Links, parent : Links \cup {Wild}, height : Nat]
  BY BlankTyped
<1>8. new.left = Null /\ new.right = Null /\ new.parent = Null /\ new.height = 1 /\ new.key = k
  BY DEF Blank
<1> HIDE DEF new
<1>9. g \in Heaps /\ g[n] = new /\ \A m \in Nodes : m # n => g[m] = heap[m]
  BY <1>6, <1>3, <1>7 DEF Heaps
<1> HIDE DEF g
<1>10. Avl(heap, root, T)
  BY <1>1 DEF Stands
<1>11. Avl(g, root, T)
  <2>1. \A m \in T : g[m] = heap[m]
    BY <1>3, <1>9
  <2>2. \A m \in T : SameNode(heap, g, m)
    BY <2>1 DEF SameNode
  <2> QED  BY <1>6, <1>9, <1>10, <2>2, AvlFrame
<1>12. Descends(g)
  <2>1. ASSUME NEW m \in Nodes \ T PROVE g[m].left = Null /\ g[m].right = Null
    <3>1. CASE m = n
      BY <1>8, <1>9, <3>1
    <3>2. CASE m # n
      BY <1>1, <1>9, <3>2, BlankFields DEF Stands
    <3> QED  BY <3>1, <3>2
  <2> QED  BY <1>6, <1>9, <1>11, <2>1, AvlDescends
<1>13. Rebuilt(g, root, T \cup {n}, NodeHeight(g, root), sub)
  <2>1. g[n].left = Null /\ g[n].right = Null /\ g[n].height = 1
    BY <1>8, <1>9
  <2>2. \A p \in Links, S \in SUBSET Nodes :
           Avl(g, p, S) /\ n \notin S =>
             Rebuilt(g, p, S \cup {n}, NodeHeight(g, p), TreeInsert(g, n)[p])
    BY <1>3, <1>9, <1>12, <2>1, InsertKeeps
  <2> QED  BY <1>3, <1>6, <1>11, <2>2
<1> HIDE DEF sub
<1>14. /\ heap' \in Heaps /\ root' \in T \cup {n} /\ Avl(heap', root', T \cup {n})
       /\ \A m \in Nodes \ (T \cup {n}) : heap'[m] = g[m]
       /\ \A m \in Nodes : heap'[m].key = g[m].key
  BY <1>4, <1>13 DEF Rebuilt
<1>15. Stands(T \cup {n})'
  <2>1. \A m \in Nodes \ (T \cup {n}) : heap'[m] = Blank
    BY <1>1, <1>9, <1>14 DEF Stands
  <2>2. T \cup {n} = held'
    BY <1>2, <1>4
  <2>3. Blank = Blank'
    BY DEF Blank
  <2> QED  BY <1>4, <1>14, <2>1, <2>2, <2>3 DEF Stands
<1>16. Counted' /\ stored' \in [Keys -> 0..Cardinality(Nodes)]
  <2> DEFINE At(j) == {m \in held : heap[m].key = j}  Now(j) == {m \in held' : heap'[m].key = j}
  <2>1. \A m \in held : heap'[m].key = heap[m].key
    BY <1>2, <1>3, <1>9, <1>14
  <2>2. heap'[n].key = k
    BY <1>3, <1>8, <1>9, <1>14
  <2>3. \A j \in Keys : Now(j) = IF j = k THEN At(j) \cup {n} ELSE At(j)
    BY <1>4, <2>1, <2>2
  <2>4. IsFiniteSet(Nodes) /\ Cardinality(Nodes) \in Nat
    BY TreeAssumption, FS_CardinalityType
  <2>5. \A j \in Keys : At(j) \in SUBSET Nodes /\ n \notin At(j) /\ Now(j) \in SUBSET Nodes
    BY <1>2, <1>4, <1>3
  <2>6. \A j \in Keys : IsFiniteSet(At(j)) /\ Cardinality(At(j)) = stored[j] /\ stored[j] \in Nat
    BY <1>2, <2>4, <2>5, FS_Subset DEF Counted, TreeTypeOK
  <2>7. \A j \in Keys : Cardinality(Now(j)) <= Cardinality(Nodes) /\ Cardinality(Now(j)) \in Nat
    BY <2>4, <2>5, FS_Subset, FS_CardinalityType
  <2>8. \A j \in Keys : Cardinality(Now(j)) = stored'[j]
    <3> SUFFICES ASSUME NEW j \in Keys PROVE Cardinality(Now(j)) = stored'[j]
      OBVIOUS
    <3>1. stored \in [Keys -> 0..Cardinality(Nodes)]
      BY <1>2 DEF TreeTypeOK
    <3> HIDE DEF At, Now
    <3>2. CASE j = k
      <4>1. Cardinality(At(j) \cup {n}) = Cardinality(At(j)) + 1
        BY <2>5, <2>6, FS_AddElement
      <4> QED  BY <1>5, <2>3, <2>6, <3>1, <3>2, <4>1
    <3>3. CASE j # k
      BY <1>5, <2>3, <2>6, <3>1, <3>3
    <3> QED  BY <3>2, <3>3
  <2>9. \A j \in Keys : stored'[j] \in 0..Cardinality(Nodes)
    <3> HIDE DEF At, Now
    <3> QED  BY <2>4, <2>7, <2>8
  <2>10. stored' \in [Keys -> 0..Cardinality(Nodes)]
    <3>1. stored' = [j \in Keys |-> stored'[j]]
      BY <1>2, <1>5 DEF TreeTypeOK
    <3> QED  BY <2>9, <3>1
  <2> QED  BY <2>8, <2>10 DEF Counted
<1>17. TreeTypeOK'
  BY <1>2, <1>4, <1>3, <1>14, <1>16, LinkFacts DEF TreeTypeOK
<1>18. T \cup {n} \in SUBSET Nodes
  BY <1>3
<1> QED  BY <1>2, <1>4, <1>15, <1>16, <1>17, <1>18 DEF TreeInv

\* avl_tree_remove of a key that no node has
LEMMA MissKeeps ==
  ASSUME TreeInv, NEW k \in Keys, TreeRemove(k), NEW T \in SUBSET Nodes, Stands(T),
         TreeFind(heap, k)[root] = Null, TreeRemoveNode(heap, k)[root] = Sub(heap, root),
         \A m \in T : heap[m].key # k
  PROVE  TreeInv'
<1>1. TreeTypeOK /\ tree_up /\ T = held /\ Counted
  BY DEF TreeInv, TreeRemove, Stands
<1>2. /\ heap' = [n \in Nodes |-> IF n = Null THEN Blank ELSE heap[n]] /\ root' = root
      /\ held' = held \ {Null} /\ tree_up' = tree_up
      /\ stored' = [stored EXCEPT ![k] = Max({@ - 1, 0})]
  BY <1>1 DEF TreeRemove, Sub, TreeTypeOK
<1>3. heap' = heap /\ held' = held
  BY <1>1, <1>2, LinkFacts DEF TreeTypeOK, Heaps
<1>4. stored' = stored
  <2>1. {m \in held : heap[m].key = k} = {}
    BY <1>1
  <2>2. stored[k] = 0 /\ stored \in [Keys -> 0..Cardinality(Nodes)]
    BY <1>1, <2>1, FS_EmptySet DEF Counted, TreeTypeOK
  <2>3. Max({stored[k] - 1, 0}) = 0
    BY <2>2, MaxWithZero
  <2> QED  BY <1>2, <2>2, <2>3
<1>5. Stands(T)'
  <2>1. Blank' = Blank
    BY DEF Blank
  <2> QED  BY <1>2, <1>3, <2>1 DEF Stands
<1>6. TreeTypeOK'
  BY <1>1, <1>2, <1>3, <1>4 DEF TreeTypeOK
<1>7. Counted'
  BY <1>1, <1>3, <1>4 DEF Counted
<1> QED  BY <1>1, <1>2, <1>5, <1>6, <1>7 DEF TreeInv

\* avl_tree_remove of a key that a node has
LEMMA HitKeeps ==
  ASSUME TreeInv, NEW k \in Keys, TreeRemove(k), NEW T \in SUBSET Nodes, Stands(T),
         NEW gone \in Nodes, gone = TreeFind(heap, k)[root], heap[gone].key = k,
         Shrunk(heap, root, T, gone, TreeRemoveNode(heap, k)[root])
  PROVE  TreeInv'
<1> DEFINE sub == TreeRemoveNode(heap, k)[root]  S == T \ {gone}
<1>1. TreeTypeOK /\ tree_up /\ T = held /\ Counted
  BY DEF TreeInv, TreeRemove, Stands
<1>2. /\ heap' = [n \in Nodes |-> IF n = gone THEN Blank ELSE sub.heap[n]] /\ root' = sub.root
      /\ held' = held \ {gone} /\ tree_up' = tree_up
      /\ stored' = [stored EXCEPT ![k] = Max({@ - 1, 0})]
  BY LinkFacts DEF TreeRemove
<1>3. gone \in T /\ Result(heap, S, sub)
  BY DEF Shrunk
<1> HIDE DEF sub
<1>4. /\ sub.heap \in Heaps /\ sub.root \in Links /\ Avl(sub.heap, sub.root, S)
      /\ \A m \in Nodes \ S : sub.heap[m] = heap[m]
      /\ \A m \in Nodes : sub.heap[m].key = heap[m].key
  BY <1>3 DEF Result
<1>5. heap' \in Heaps /\ heap'[gone] = Blank /\ \A m \in Nodes : m # gone => heap'[m] = sub.heap[m]
  BY <1>2, <1>4, BlankTyped DEF Heaps
<1>6. Avl(heap', root', S)
  <2>1. \A m \in S : SameNode(sub.heap, heap', m)
    BY <1>5 DEF SameNode
  <2> QED  BY <1>2, <1>4, <1>5, <2>1, AvlFrame
<1>7. Stands(S)'
  <2>1. Blank' = Blank
    BY DEF Blank
  <2>2. \A m \in Nodes \ S : heap'[m] = Blank
    BY <1>4, <1>5 DEF Stands
  <2>3. S = held'
    BY <1>1, <1>2
  <2> QED  BY <1>2, <1>6, <2>1, <2>2, <2>3 DEF Stands
<1>8. Counted' /\ stored' \in [Keys -> 0..Cardinality(Nodes)]
  <2> DEFINE At(j) == {m \in held : heap[m].key = j}  Now(j) == {m \in held' : heap'[m].key = j}
  <2>1. \A m \in held' : heap'[m].key = heap[m].key
    BY <1>1, <1>2, <1>4, <1>5
  <2>2. \A j \in Keys : Now(j) = IF j = k THEN At(j) \ {gone} ELSE At(j)
    BY <1>2, <2>1
  <2>3. IsFiniteSet(Nodes) /\ Cardinality(Nodes) \in Nat
    BY TreeAssumption, FS_CardinalityType
  <2>4. \A j \in Keys : At(j) \in SUBSET Nodes /\ Now(j) \in SUBSET Nodes
    BY <1>1, <1>2
  <2>5. gone \in At(k)
    BY <1>1, <1>3
  <2>6. \A j \in Keys : IsFiniteSet(At(j)) /\ Cardinality(At(j)) = stored[j] /\ stored[j] \in Nat
    BY <1>1, <2>3, <2>4, FS_Subset DEF Counted, TreeTypeOK
  <2>7. \A j \in Keys : Cardinality(Now(j)) <= Cardinality(Nodes) /\ Cardinality(Now(j)) \in Nat
    BY <2>3, <2>4, FS_Subset, FS_CardinalityType
  <2>8. \A j \in Keys : Cardinality(Now(j)) = stored'[j]
    <3> SUFFICES ASSUME NEW j \in Keys PROVE Cardinality(Now(j)) = stored'[j]
      OBVIOUS
    <3>1. stored \in [Keys -> 0..Cardinality(Nodes)]
      BY <1>1 DEF TreeTypeOK
    <3> HIDE DEF At, Now
    <3>2. CASE j = k
      <4>1. /\ Cardinality(At(j) \ {gone}) = Cardinality(At(j)) - 1 /\ IsFiniteSet(At(j) \ {gone})
        BY <2>5, <2>6, <3>2, FS_RemoveElement
      <4>2. Cardinality(At(j) \ {gone}) \in Nat
        BY <4>1, FS_CardinalityType
      <4>3. Max({stored[k] - 1, 0}) = stored[k] - 1
        BY <2>6, <3>2, <4>1, <4>2, MaxWithZero
      <4> QED  BY <1>2, <2>2, <2>6, <3>1, <3>2, <4>1, <4>3
    <3>3. CASE j # k
      BY <1>2, <2>2, <2>6, <3>1, <3>3
    <3> QED  BY <3>2, <3>3
  <2>9. \A j \in Keys : stored'[j] \in 0..Cardinality(Nodes)
    <3> HIDE DEF At, Now
    <3> QED  BY <2>3, <2>7, <2>8
  <2>10. stored' \in [Keys -> 0..Cardinality(Nodes)]
    <3>1. stored' = [j \in Keys |-> stored'[j]]
      BY <1>1, <1>2 DEF TreeTypeOK
    <3> QED  BY <2>9, <3>1
  <2> QED  BY <2>8, <2>10 DEF Counted
<1>9. TreeTypeOK'
  BY <1>1, <1>2, <1>4, <1>5, <1>8 DEF TreeTypeOK
<1>10. S \in SUBSET Nodes
  OBVIOUS
<1> QED  BY <1>1, <1>2, <1>7, <1>8, <1>9, <1>10 DEF TreeInv

\* avl_tree_remove
LEMMA RemoveKeepsInv ==
  ASSUME TreeInv, NEW k \in Keys, TreeRemove(k)
  PROVE  TreeInv'
<1>1. PICK T \in SUBSET Nodes : Stands(T)
  BY DEF TreeInv
<1>2. heap \in Heaps /\ root \in Links /\ Descends(heap) /\ Avl(heap, root, T)
  BY <1>1, StandsDescends DEF TreeInv, Stands
<1>3. Searched(heap, k, root, T, TreeFind(heap, k)[root], TreeRemoveNode(heap, k)[root])
  BY <1>2, RemoveKeeps
<1>4. CASE /\ TreeFind(heap, k)[root] = Null /\ TreeRemoveNode(heap, k)[root] = Sub(heap, root)
           /\ \A m \in T : heap[m].key # k
  BY <1>1, <1>4, MissKeeps
<1>5. CASE /\ TreeFind(heap, k)[root] \in Nodes /\ heap[TreeFind(heap, k)[root]].key = k
           /\ Shrunk(heap, root, T, TreeFind(heap, k)[root], TreeRemoveNode(heap, k)[root])
  <2>1. PICK gone \in Nodes : gone = TreeFind(heap, k)[root]
    BY <1>5
  <2>2. heap[gone].key = k /\ Shrunk(heap, root, T, gone, TreeRemoveNode(heap, k)[root])
    BY <1>5, <2>1
  <2> QED  BY <1>1, <2>1, <2>2, HitKeeps
<1> QED  BY <1>3, <1>4, <1>5 DEF Searched

\* avl_tree_deinit
LEMMA DeinitKeepsInv == TreeInv /\ TreeDeinit => TreeInv'
<1> SUFFICES ASSUME TreeInv, TreeDeinit PROVE TreeInv'
  OBVIOUS
<1>1. PICK T \in SUBSET Nodes : Stands(T)
  BY DEF TreeInv
<1>2. heap \in Heaps /\ root \in Links /\ Descends(heap) /\ Avl(heap, root, T)
  BY <1>1, StandsDescends DEF TreeInv, Stands
<1>3. Range(InOrder[root]) = T
  BY <1>2, InOrderReads DEF Reads
<1>4. tree_up' = FALSE /\ held' = {} /\ UNCHANGED <<heap, root, stored>>
  BY <1>1, <1>3 DEF TreeDeinit, Stands
<1>5. Stands(T)'
  <2>1. Blank' = Blank
    BY DEF Blank
  <2> QED  BY <1>1, <1>4, <2>1 DEF Stands
<1> QED  BY <1>4, <1>5 DEF TreeInv, TreeTypeOK

\* Every step of the tree keeps the invariant.
LEMMA TreeInvInductive == TreeInv /\ [TreeNext]_treevars => TreeInv'
<1> SUFFICES ASSUME TreeInv, [TreeNext]_treevars PROVE TreeInv'
  OBVIOUS
<1>1. ASSUME NEW k \in Keys, TreeAdd(k) PROVE TreeInv'
  BY <1>1, AddKeeps
<1>2. ASSUME NEW k \in Keys, TreeRemove(k) PROVE TreeInv'
  BY <1>2, RemoveKeepsInv
<1>3. CASE TreeDeinit
  BY <1>3, DeinitKeepsInv
<1>4. CASE UNCHANGED treevars
  <2>1. Blank' = Blank
    BY DEF Blank
  <2> QED  BY <1>4, <2>1 DEF treevars, TreeInv, TreeTypeOK, Stands, Counted
<1> QED  BY <1>1, <1>2, <1>3, <1>4 DEF TreeNext

\* So the invariant holds from the first call to the last.
LEMMA TreeInvAlways == TreeSpec => []TreeInv
<1>1. TreeInit => TreeInv
  BY InitStands
<1>2. TreeInv /\ [TreeNext]_treevars => TreeInv'
  BY TreeInvInductive
<1> QED  BY <1>1, <1>2, PTL DEF TreeSpec

\* The invariant makes the tree an AVL tree.
LEMMA InvIsAvl == TreeInv => TreeIsAvl
<1> SUFFICES ASSUME TreeInv PROVE TreeIsAvl
  OBVIOUS
<1>1. PICK T \in SUBSET Nodes : Stands(T)
  BY DEF TreeInv
<1>2. heap \in Heaps /\ root \in Links /\ Descends(heap) /\ Avl(heap, root, T)
  BY <1>1, StandsDescends DEF TreeInv, Stands
<1>3. Reads(heap, InOrder[root], T)
  BY <1>2, InOrderReads
<1>4. TreeIsOrdered
  BY <1>3 DEF Reads, TreeIsOrdered
<1>5. TreeIsBalanced
  <2>1. SUFFICES ASSUME NEW n \in T
                 PROVE  FixHeight(heap, n)[n].height = heap[n].height /\ BalanceFactor(heap, n) \in -1..1
    BY <1>3 DEF Reads, TreeIsBalanced
  <2>2. HeightIsRight(heap, n) /\ BalanceFactor(heap, n) \in -1..1
    BY <1>2, AvlEach
  <2>3. FixHeight(heap, n)[n].height = Taller(NodeHeight(heap, heap[n].left), NodeHeight(heap, heap[n].right)) + 1
    BY <1>2, FixHeightFacts
  <2> QED  BY <2>2, <2>3 DEF HeightIsRight
<1> QED  BY <1>4, <1>5 DEF TreeInv, TreeIsAvl

\* It makes it hold the entries.
LEMMA InvHoldsEntries == TreeInv => TreeHoldsEntries
<1> SUFFICES ASSUME TreeInv PROVE TreeHoldsEntries
  OBVIOUS
<1>1. PICK T \in SUBSET Nodes : Stands(T)
  BY DEF TreeInv
<1>2. heap \in Heaps /\ root \in Links /\ Descends(heap) /\ Avl(heap, root, T)
  BY <1>1, StandsDescends DEF TreeInv, Stands
<1>3. Reads(heap, InOrder[root], T)
  BY <1>2, InOrderReads
<1>4. TreeKeepsNodes
  BY <1>1, <1>3 DEF Reads, TreeKeepsNodes, Stands
<1>5. FoundIsStored
  <2>1. SUFFICES ASSUME tree_up, NEW k \in Keys
                 PROVE  /\ (TreeFind(heap, k)[root] # Null) <=> (stored[k] > 0)
                        /\ Cardinality({n \in held : heap[n].key = k}) = stored[k]
    BY DEF FoundIsStored
  <2> DEFINE At == {n \in held : heap[n].key = k}
  <2>2. T = held /\ Cardinality(At) = stored[k]
    BY <1>1, <2>1 DEF Stands, TreeInv, Counted
  <2>3. IsFiniteSet(At) /\ stored[k] \in Nat
    <3>1. At \in SUBSET Nodes
      BY DEF TreeInv, TreeTypeOK
    <3>2. IsFiniteSet(At)
      BY <3>1, TreeAssumption, FS_Subset
    <3> QED  BY <2>2, <3>2, FS_CardinalityType
  <2>4. stored[k] > 0 <=> At # {}
    <3> HIDE DEF At
    <3> QED  BY <2>2, <2>3, FS_EmptySet
  <2>5. Searched(heap, k, root, T, TreeFind(heap, k)[root], TreeRemoveNode(heap, k)[root])
    BY <1>2, RemoveKeeps
  <2>6. TreeFind(heap, k)[root] # Null <=> At # {}
    BY <2>2, <2>5, LinkFacts DEF Searched, Shrunk
  <2> QED  BY <2>2, <2>4, <2>6
<1>6. DeinitFreesTree
  BY DEF TreeInv, DeinitFreesTree
<1> QED  BY <1>4, <1>5, <1>6 DEF TreeHoldsEntries

\* Whatever is added to the map and removed from it, and however many hashes
\* collide, the tree is ordered, its recorded heights are right and it is
\* balanced at every node.
THEOREM TreeStaysAvl == TreeSpec => []TreeIsAvl
  BY TreeInvAlways, InvIsAvl, PTL

\* It holds exactly the entries that were stored and not removed, a look-up
\* finds one whenever there is one, and avl_tree_deinit frees them all.
THEOREM TreeKeepsEntries == TreeSpec => []TreeHoldsEntries
  BY TreeInvAlways, InvHoldsEntries, PTL

(***************************************************************************)
(* Walking the tree.  The nodes of a subtree lie together in the order of  *)
(* the whole, so the first node of what is right of a node comes after it. *)
(***************************************************************************)

\* s is the part of u after its first o elements.
Lies(s, u, o) == o + Len(s) <= Len(u) /\ \A i \in 1..Len(s) : u[o + i] = s[i]

\* A part of a part is a part.
LEMMA LiesWithin ==
  ASSUME NEW s \in Seq(Nodes), NEW t \in Seq(Nodes), NEW u \in Seq(Nodes), NEW a \in Nat, NEW b \in Nat,
         Lies(s, t, a), Lies(t, u, b)
  PROVE  Lies(s, u, b + a)
<1>1. Len(s) \in Nat /\ Len(t) \in Nat /\ Len(u) \in Nat /\ a + Len(s) <= Len(t) /\ b + Len(t) <= Len(u)
  BY DEF Lies
<1>2. ASSUME NEW i \in 1..Len(s) PROVE u[b + a + i] = s[i]
  <2>1. a + i \in 1..Len(t) /\ b + (a + i) = b + a + i
    BY <1>1
  <2> QED  BY <2>1 DEF Lies
<1> QED  BY <1>1, <1>2 DEF Lies

\* Where the two subtrees of a node and the node lie.
LEMMA PartsLie ==
  ASSUME NEW a \in Seq(Nodes), NEW p \in Nodes, NEW b \in Seq(Nodes)
  PROVE  LET u == a \o <<p>> \o b
         IN u \in Seq(Nodes) /\ Lies(a, u, 0) /\ Lies(b, u, Len(a) + 1) /\ Lies(u, u, 0)
<1> DEFINE u == a \o <<p>> \o b
<1>1. /\ u \in Seq(Nodes) /\ Len(u) = Len(a) + 1 + Len(b)
      /\ \A i \in 1..Len(a) : u[i] = a[i]
      /\ \A i \in 1..Len(b) : u[Len(a) + 1 + i] = b[i]
  BY Threaded
<1> HIDE DEF u
<1>2. Len(a) \in Nat /\ Len(b) \in Nat /\ \A i \in Nat : 0 + i = i
  OBVIOUS
<1>3. Lies(a, u, 0)
  BY <1>1, <1>2 DEF Lies
<1>4. Lies(b, u, Len(a) + 1)
  BY <1>1, <1>2 DEF Lies
<1>5. Lies(u, u, 0)
  BY <1>1, <1>2 DEF Lies
<1> QED  BY <1>1, <1>3, <1>4, <1>5 DEF u

\* Each node of a tree has its nodes together.
LEMMA SubtreesLie ==
  ASSUME heap \in Heaps, Descends(heap)
  PROVE  \A p \in Links, S \in SUBSET Nodes :
           Avl(heap, p, S) =>
             \A m \in S : \E o \in Nat : Lies(InOrder[m], InOrder[p], o)
<1> DEFINE Good(p) == \A S \in SUBSET Nodes :
                        Avl(heap, p, S) =>
                          \A m \in S : \E o \in Nat : Lies(InOrder[m], InOrder[p], o)
           T == {p \in Links : Good(p)}
<1>0. /\ \A p \in Nodes : InOrder[p] = InOrder[heap[p].left] \o <<p>> \o InOrder[heap[p].right]
      /\ \A p \in Links : InOrder[p] \in Seq(Nodes)
  BY InOrderUnfolds
<1>1. Good(Null)
  BY AvlNull
<1>2. ASSUME NEW p \in Nodes, Good(heap[p].left), Good(heap[p].right) PROVE Good(p)
  <2> DEFINE l == heap[p].left  r == heap[p].right  a == InOrder[l]  b == InOrder[r]  u == InOrder[p]
  <2>1. SUFFICES ASSUME NEW S \in SUBSET Nodes, Avl(heap, p, S), NEW m \in S
                 PROVE  \E o \in Nat : Lies(InOrder[m], u, o)
    OBVIOUS
  <2>2. PICK L, R \in SUBSET Nodes : Hung(heap, p, L, R) /\ S = L \cup R \cup {p}
    <3>1. Avl(heap, p, S) /\ heap \in Heaps
      BY <2>1
    <3>2. \E L, R \in SUBSET Nodes :
           /\ Hung(heap, p, L, R) /\ S = L \cup R \cup {p}
           /\ HeightIsRight(heap, p) /\ BalanceFactor(heap, p) \in -1..1
      BY <3>1, AvlSplit
    <3> QED  BY <3>2
  <2>3. Avl(heap, l, L) /\ Avl(heap, r, R) /\ l \in Links /\ r \in Links
    BY <2>2, NodeFacts DEF Hung
  <2>4. a \in Seq(Nodes) /\ b \in Seq(Nodes) /\ InOrder[m] \in Seq(Nodes) /\ Len(a) + 1 \in Nat /\ 0 \in Nat
    BY <1>0, <2>3, LinkFacts
  <2>5. u \in Seq(Nodes) /\ Lies(a, u, 0) /\ Lies(b, u, Len(a) + 1) /\ Lies(u, u, 0)
    <3>1. LET w == a \o <<p>> \o b
          IN w \in Seq(Nodes) /\ Lies(a, w, 0) /\ Lies(b, w, Len(a) + 1) /\ Lies(w, w, 0)
      <4> HIDE DEF a, b
      <4> QED  BY <2>4, PartsLie
    <3>2. u = a \o <<p>> \o b
      BY <1>0
    <3> HIDE DEF a, b, u
    <3> QED  BY <3>1, <3>2
  <2>6. CASE m = p
    BY <2>4, <2>5, <2>6
  <2>7. CASE m \in L
    <3>1. PICK o \in Nat : Lies(InOrder[m], a, o)
      BY <1>2, <2>3, <2>7
    <3>2. Lies(InOrder[m], u, 0 + o) /\ 0 + o \in Nat
      <4> DEFINE c == InOrder[m]
      <4>1. c \in Seq(Nodes) /\ Lies(c, a, o)
        BY <2>4, <3>1
      <4> HIDE DEF a, c, u
      <4>2. Lies(c, u, 0 + o)
        BY <2>4, <2>5, <4>1, LiesWithin
      <4> QED  BY <4>2 DEF c
    <3> QED  BY <3>2
  <2>8. CASE m \in R
    <3>1. PICK o \in Nat : Lies(InOrder[m], b, o)
      BY <1>2, <2>3, <2>8
    <3>2. Lies(InOrder[m], u, Len(a) + 1 + o) /\ Len(a) + 1 + o \in Nat
      <4> DEFINE c == InOrder[m]
      <4>1. c \in Seq(Nodes) /\ Lies(c, b, o)
        BY <2>4, <3>1
      <4> HIDE DEF a, b, c, u
      <4>2. Lies(c, u, (Len(a) + 1) + o)
        BY <2>4, <2>5, <4>1, LiesWithin
      <4> QED  BY <2>4, <4>2 DEF c
    <3> QED  BY <3>2
  <2> QED  BY <2>2, <2>6, <2>7, <2>8
<1>3. \A p \in Links : p \in T
  <2>1. T \in SUBSET Links /\ Null \in T
    BY <1>1, LinkFacts
  <2>2. \A p \in Nodes : heap[p].left \in T /\ heap[p].right \in T => p \in T
    BY <1>2, LinkFacts
  <2> HIDE DEF T
  <2> QED  BY <2>1, <2>2, HeapInduction
<1> QED  BY <1>3

\* The minimum of a tree is the first of its nodes.
LEMMA MinIsFirst ==
  ASSUME heap \in Heaps, Descends(heap)
  PROVE  \A p \in Nodes : Len(InOrder[p]) >= 1 /\ InOrder[p][1] = TreeMin(heap)[p]
<1> DEFINE min == TreeMin(heap)
           Good(p) == Len(InOrder[p]) >= 1 /\ InOrder[p][1] = min[p]
           T == {p \in Links : p # Null => Good(p)}
<1>0. /\ InOrder[Null] = <<>>
      /\ \A p \in Nodes : InOrder[p] = InOrder[heap[p].left] \o <<p>> \o InOrder[heap[p].right]
      /\ \A p \in Links : InOrder[p] \in Seq(Nodes)
  BY InOrderUnfolds
<1>1. \A p \in Nodes : min[p] = IF heap[p].left = Null THEN p ELSE min[heap[p].left]
  BY MinUnfolds
<1> HIDE DEF min
<1>2. ASSUME NEW p \in Nodes, heap[p].left # Null => Good(heap[p].left) PROVE Good(p)
  <2> DEFINE a == InOrder[heap[p].left]  b == InOrder[heap[p].right]
  <2>1. a \in Seq(Nodes) /\ b \in Seq(Nodes)
    BY <1>0, NodeFacts
  <2>2. /\ Len(InOrder[p]) = Len(a) + 1 + Len(b) /\ InOrder[p][Len(a) + 1] = p
        /\ \A i \in 1..Len(a) : InOrder[p][i] = a[i]
    <3>1. LET w == a \o <<p>> \o b
          IN /\ Len(w) = Len(a) + 1 + Len(b) /\ w[Len(a) + 1] = p
             /\ \A i \in 1..Len(a) : w[i] = a[i]
      <4> HIDE DEF a, b
      <4> QED  BY <2>1, Threaded
    <3>2. InOrder[p] = a \o <<p>> \o b
      BY <1>0
    <3> HIDE DEF a, b
    <3> QED  BY <3>1, <3>2
  <2>3. Len(a) \in Nat /\ Len(b) \in Nat
    BY <2>1
  <2>4. CASE heap[p].left = Null
    <3>1. Len(a) = 0
      BY <1>0, <2>4
    <3> HIDE DEF a, b
    <3> QED  BY <1>1, <2>2, <2>3, <2>4, <3>1
  <2>5. CASE heap[p].left # Null
    <3>1. Len(a) >= 1 /\ a[1] = min[heap[p].left]
      BY <1>2, <2>5
    <3> HIDE DEF a, b
    <3>2. 1 \in 1..Len(a)
      BY <2>3, <3>1
    <3> QED  BY <1>1, <2>2, <2>3, <2>5, <3>1, <3>2
  <2> QED  BY <2>4, <2>5
<1>3. \A p \in Links : p \in T
  <2>1. T \in SUBSET Links /\ Null \in T
    BY LinkFacts
  <2>2. \A p \in Nodes : heap[p].left \in T /\ heap[p].right \in T => p \in T
    BY <1>2, LinkFacts
  <2> HIDE DEF T
  <2> QED  BY <2>1, <2>2, HeapInduction
<1> QED  BY <1>3, LinkFacts DEF min

\* In the order of the tree, the first node of what is right of a node comes
\* after it.
LEMMA InvNextBelow == TreeInv => NextBelowIsRight
<1> DEFINE s == InOrder[root]
<1>1. SUFFICES ASSUME TreeInv, tree_up, NEW i \in DOMAIN s, heap[s[i]].right # Null
               PROVE  i < Len(s) /\ TreeNextNode(s[i]) = s[i + 1]
  BY DEF NextBelowIsRight
<1>2. PICK T \in SUBSET Nodes : Stands(T)
  BY <1>1 DEF TreeInv
<1>3. heap \in Heaps /\ root \in Links /\ Descends(heap) /\ Avl(heap, root, T)
  BY <1>1, <1>2, StandsDescends DEF TreeInv, Stands
<1>4. s \in Seq(Nodes) /\ IsInjective(s) /\ Range(s) = T
  BY <1>3, InOrderReads DEF Reads
<1>5. PICK n \in T : n = s[i]
  BY <1>4 DEF Range
<1> DEFINE l == heap[n].left  r == heap[n].right  a == InOrder[l]  b == InOrder[r]  u == InOrder[n]
<1>6. PICK o \in Nat : Lies(u, s, o)
  BY <1>3, SubtreesLie
<1>7. /\ u = a \o <<n>> \o b /\ a \in Seq(Nodes) /\ b \in Seq(Nodes) /\ r \in Nodes
  BY <1>1, <1>3, <1>5, InOrderUnfolds, NodeFacts, LinkFacts
<1>8. /\ Len(u) = Len(a) + 1 + Len(b) /\ u[Len(a) + 1] = n /\ Len(a) \in Nat /\ Len(b) \in Nat /\ Len(s) \in Nat
      /\ \A j \in 1..Len(b) : u[Len(a) + 1 + j] = b[j]
  <2> HIDE DEF a, b, u, s
  <2> QED  BY <1>4, <1>7, Threaded
<1>9. DOMAIN s = 1..Len(s)
  BY <1>4
<1>10. i = o + (Len(a) + 1)
  <2> HIDE DEF a, b, u, s
  <2>1. Len(a) + 1 \in 1..Len(u) /\ o + (Len(a) + 1) \in 1..Len(s)
    BY <1>6, <1>8 DEF Lies
  <2>2. s[o + (Len(a) + 1)] = n
    BY <1>6, <1>8, <2>1 DEF Lies
  <2> QED  BY <1>4, <1>5, <1>9, <2>1, <2>2 DEF IsInjective
<1>11. TreeNextNode(n) = TreeMin(heap)[r]
  BY <1>1, <1>5 DEF TreeNextNode
<1>12. Len(b) >= 1 /\ b[1] = TreeMin(heap)[r]
  BY <1>3, <1>7, MinIsFirst
<1> HIDE DEF a, b, u, s
<1>13. 1 \in 1..Len(b) /\ Len(a) + 1 + 1 \in 1..Len(u) /\ i + 1 = o + (Len(a) + 1 + 1) /\ i + 1 \in 1..Len(s)
  BY <1>6, <1>8, <1>10, <1>12 DEF Lies
<1>14. s[i + 1] = b[1]
  BY <1>6, <1>8, <1>13 DEF Lies
<1>15. i < Len(s)
  BY <1>8, <1>10, <1>13
<1> QED  BY <1>5, <1>11, <1>12, <1>14, <1>15

\* From a node with a right subtree avl_tree_next goes to the node that follows,
\* whatever was added and removed before.
THEOREM TreeNextBelow == TreeSpec => []NextBelowIsRight
  BY TreeInvAlways, InvNextBelow, PTL
=============================================================================
