-------------------------- MODULE ContainersProofs --------------------------
(***************************************************************************)
(* Proofs about List, Buffer and their composition with AvlTree, for any   *)
(* finite set of elements, any finite set of nodes, any hashes and any bound *)
(* on the sizes.  What is proved about the tree is in AvlTreeProofs.       *)
(***************************************************************************)
EXTENDS Containers, AvlTreeProofs

(***************************************************************************)
(* Sequences with an element put in or taken out.                          *)
(***************************************************************************)

\* What InsertAt returns.
LEMMA Inserted ==
  ASSUME NEW S, NEW s \in Seq(S), NEW p \in 1..Len(s) + 1, NEW e \in S
  PROVE  /\ InsertAt(s, p, e) \in Seq(S)
         /\ Len(InsertAt(s, p, e)) = Len(s) + 1
         /\ \A i \in 1..Len(s) + 1 : InsertAt(s, p, e)[i] =
              IF i < p THEN s[i] ELSE IF i = p THEN e ELSE s[i - 1]
<1> DEFINE a == SubSeq(s, 1, p - 1)  b == SubSeq(s, p, Len(s))  c == a \o <<e>>
<1>0. Len(s) \in Nat /\ p \in Nat /\ \A i \in 1..Len(s) : s[i] \in S
  BY LenProperties, ElementOfSeq
<1>1. a \in Seq(S) /\ Len(a) = p - 1 /\ \A i \in 1..p - 1 : a[i] = s[i]
  <2>1. \A i \in 1..p - 1 : s[i] \in S
    BY <1>0
  <2>2. /\ a \in Seq(S) /\ Len(a) = IF 1 <= p - 1 THEN (p - 1) - 1 + 1 ELSE 0
        /\ \A i \in 1..(p - 1) - 1 + 1 : a[i] = s[1 + i - 1]
    BY <1>0, <2>1, SubSeqProperties
  <2> HIDE DEF a
  <2> QED  BY <1>0, <2>2
<1>2. b \in Seq(S) /\ Len(b) = Len(s) + 1 - p /\ \A i \in 1..Len(s) + 1 - p : b[i] = s[p + i - 1]
  <2>1. \A i \in p..Len(s) : s[i] \in S
    BY <1>0
  <2>2. /\ b \in Seq(S) /\ Len(b) = IF p <= Len(s) THEN Len(s) - p + 1 ELSE 0
        /\ \A i \in 1..Len(s) - p + 1 : b[i] = s[p + i - 1]
    BY <1>0, <2>1, SubSeqProperties
  <2> HIDE DEF b
  <2> QED  BY <1>0, <2>2
<1>3. <<e>> \in Seq(S) /\ Len(<<e>>) = 1 /\ <<e>>[1] = e
  OBVIOUS
<1> HIDE DEF a, b
<1>4. c \in Seq(S) /\ Len(c) = p /\ \A i \in 1..p : c[i] = IF i < p THEN s[i] ELSE e
  <2>1. /\ c \in Seq(S) /\ Len(c) = Len(a) + Len(<<e>>)
        /\ \A i \in 1..Len(a) + Len(<<e>>) : c[i] = IF i <= Len(a) THEN a[i] ELSE <<e>>[i - Len(a)]
    BY <1>1, <1>3, ConcatProperties
  <2> HIDE DEF c
  <2>2. ASSUME NEW i \in 1..p PROVE c[i] = IF i < p THEN s[i] ELSE e
    <3>1. CASE i < p
      BY <1>0, <1>1, <1>3, <2>1, <3>1
    <3>2. CASE i = p
      <4>1. i - Len(a) = 1 /\ ~(i <= Len(a)) /\ i \in 1..Len(a) + Len(<<e>>)
        BY <1>0, <1>1, <1>3, <3>2
      <4> QED  BY <1>3, <2>1, <3>2, <4>1, <1>0
    <3> QED  BY <3>1, <3>2, <1>0
  <2> QED  BY <1>0, <1>1, <1>3, <2>1, <2>2
<1>5. InsertAt(s, p, e) = c \o b
  BY DEF InsertAt, a, b, c
<1> HIDE DEF c
<1>6. /\ c \o b \in Seq(S) /\ Len(c \o b) = Len(c) + Len(b)
      /\ \A i \in 1..Len(c) + Len(b) : (c \o b)[i] = IF i <= Len(c) THEN c[i] ELSE b[i - Len(c)]
  BY <1>2, <1>4, ConcatProperties
<1>7. ASSUME NEW i \in 1..Len(s) + 1
      PROVE  (c \o b)[i] = IF i < p THEN s[i] ELSE IF i = p THEN e ELSE s[i - 1]
  <2>1. i \in 1..Len(c) + Len(b) /\ i \in Nat
    BY <1>0, <1>2, <1>4
  <2>2. CASE i <= p
    BY <1>0, <1>4, <1>6, <2>1, <2>2
  <2>3. CASE i > p
    <3>1. (c \o b)[i] = b[i - p] /\ i - p \in 1..Len(s) + 1 - p /\ p + (i - p) - 1 = i - 1
      BY <1>0, <1>4, <1>6, <2>1, <2>3
    <3> QED  BY <1>0, <1>2, <2>3, <3>1
  <2> QED  BY <2>1, <2>2, <2>3, <1>0
<1> QED  BY <1>0, <1>2, <1>4, <1>5, <1>6, <1>7

\* What RemoveAt returns.
LEMMA Removed ==
  ASSUME NEW S, NEW s \in Seq(S), NEW p \in 1..Len(s)
  PROVE  /\ RemoveAt(s, p) \in Seq(S)
         /\ Len(RemoveAt(s, p)) = Len(s) - 1
         /\ \A i \in 1..Len(s) - 1 : RemoveAt(s, p)[i] = IF i < p THEN s[i] ELSE s[i + 1]
<1> DEFINE a == SubSeq(s, 1, p - 1)  b == SubSeq(s, p + 1, Len(s))
<1>0. Len(s) \in Nat /\ p \in Nat /\ \A i \in 1..Len(s) : s[i] \in S
  BY LenProperties, ElementOfSeq
<1>1. a \in Seq(S) /\ Len(a) = p - 1 /\ \A i \in 1..p - 1 : a[i] = s[i]
  <2>1. \A i \in 1..p - 1 : s[i] \in S
    BY <1>0
  <2>2. /\ a \in Seq(S) /\ Len(a) = IF 1 <= p - 1 THEN (p - 1) - 1 + 1 ELSE 0
        /\ \A i \in 1..(p - 1) - 1 + 1 : a[i] = s[1 + i - 1]
    BY <1>0, <2>1, SubSeqProperties
  <2> HIDE DEF a
  <2> QED  BY <1>0, <2>2
<1>2. b \in Seq(S) /\ Len(b) = Len(s) - p /\ \A i \in 1..Len(s) - p : b[i] = s[p + i]
  <2>1. \A i \in p + 1..Len(s) : s[i] \in S
    BY <1>0
  <2>2. /\ b \in Seq(S) /\ Len(b) = IF p + 1 <= Len(s) THEN Len(s) - (p + 1) + 1 ELSE 0
        /\ \A i \in 1..Len(s) - (p + 1) + 1 : b[i] = s[p + 1 + i - 1]
    BY <1>0, <2>1, SubSeqProperties
  <2> HIDE DEF b
  <2> QED  BY <1>0, <2>2
<1>3. RemoveAt(s, p) = a \o b
  BY DEF RemoveAt, a, b
<1> HIDE DEF a, b
<1>4. /\ a \o b \in Seq(S) /\ Len(a \o b) = Len(a) + Len(b)
      /\ \A i \in 1..Len(a) + Len(b) : (a \o b)[i] = IF i <= Len(a) THEN a[i] ELSE b[i - Len(a)]
  BY <1>1, <1>2, ConcatProperties
<1>5. ASSUME NEW i \in 1..Len(s) - 1
      PROVE  (a \o b)[i] = IF i < p THEN s[i] ELSE s[i + 1]
  <2>1. i \in 1..Len(a) + Len(b) /\ i \in Nat
    BY <1>0, <1>1, <1>2
  <2>2. CASE i < p
    BY <1>0, <1>1, <1>4, <2>1, <2>2
  <2>3. CASE i >= p
    <3>1. (a \o b)[i] = b[i - (p - 1)] /\ i - (p - 1) \in 1..Len(s) - p /\ p + (i - (p - 1)) = i + 1
      BY <1>0, <1>1, <1>4, <2>1, <2>3
    <3>2. b[i - (p - 1)] = s[i + 1]
      BY <1>2, <3>1
    <3> QED  BY <1>0, <2>3, <3>1, <3>2
  <2> QED  BY <2>1, <2>2, <2>3, <1>0
<1> QED  BY <1>0, <1>1, <1>2, <1>3, <1>4, <1>5

(***************************************************************************)
(* The inductive invariant.  The links alone do not keep an element from   *)
(* being twice in the sequence, nor do they bound the count once the ends  *)
(* are wrong.                                                              *)
(***************************************************************************)

\* No element is twice in the sequence.
Distinct == \A i, j \in 1..Len(items) : items[i] = items[j] => i = j

\* The count is right even when the ends are not.
CountIsRight == status = "up" => list.count = Cardinality(live)

ListInv == ListIsSequence /\ Distinct /\ CountIsRight

\* A list in use whose ends are right.
Sound == status = "up" /\ ListTypeOK /\ LinksOfSequence /\ Distinct

\* What LinksOfSequence says of the sequence's indices.
LEMMA SequenceFacts ==
  ASSUME ListTypeOK
  PROVE  /\ Len(items) \in Nat /\ DOMAIN items = 1..Len(items)
         /\ \A i \in 1..Len(items) : items[i] \in Elements
  BY LenProperties, ElementOfSeq DEF ListTypeOK

\* Place gives the index of an allocated element of a sound list.
LEMMA PlaceOfElement ==
  ASSUME Sound, NEW el \in live
  PROVE  Place(el) \in 1..Len(items) /\ items[Place(el)] = el
<1>1. \E i \in DOMAIN items : items[i] = el
  BY DEF Sound, LinksOfSequence, Range
<1> QED  BY <1>1, SequenceFacts DEF Place, Sound

\* The count and the set of elements agree after an element comes or goes.
LEMMA CountFacts ==
  ASSUME ListTypeOK, CountIsRight, status = "up"
  PROVE  /\ IsFiniteSet(live) /\ list.count \in Nat /\ Cardinality(Elements) \in Nat
         /\ list.count = 0 <=> live = {}
         /\ \A e \in Elements \ live : /\ Cardinality(live \cup {e}) = list.count + 1
                                       /\ list.count + 1 \in 0..Cardinality(Elements)
         /\ \A e \in live : /\ Cardinality(live \ {e}) = list.count - 1
                            /\ list.count - 1 \in 0..Cardinality(Elements)
<1>1. IsFiniteSet(Elements) /\ live \in SUBSET Elements
  BY ListAssumption DEF ListTypeOK
<1>2. IsFiniteSet(live) /\ Cardinality(live) \in Nat /\ Cardinality(Elements) \in Nat
  BY <1>1, FS_Subset, FS_CardinalityType
<1>3. list.count = Cardinality(live)
  BY DEF CountIsRight
<1>4. list.count = 0 <=> live = {}
  BY <1>2, <1>3, FS_EmptySet
<1>5. ASSUME NEW e \in Elements \ live
      PROVE  /\ Cardinality(live \cup {e}) = list.count + 1
             /\ list.count + 1 \in 0..Cardinality(Elements)
  <2>1. Cardinality(live \cup {e}) = list.count + 1
    BY <1>2, <1>3, FS_AddElement
  <2>2. live \cup {e} \in SUBSET Elements
    BY <1>1
  <2>3. Cardinality(live \cup {e}) <= Cardinality(Elements)
    BY <1>1, <2>2, FS_Subset
  <2> QED  BY <1>2, <1>3, <2>1, <2>3
<1>6. ASSUME NEW e \in live
      PROVE  /\ Cardinality(live \ {e}) = list.count - 1
             /\ list.count - 1 \in 0..Cardinality(Elements)
  <2>1. Cardinality(live \ {e}) = list.count - 1
    BY <1>2, <1>3, FS_RemoveElement
  <2>2. Cardinality(live) <= Cardinality(Elements)
    BY <1>1, FS_Subset
  <2>3. list.count # 0
    BY <1>4
  <2> QED  BY <1>2, <1>3, <2>1, <2>2, <2>3
<1> QED  BY <1>2, <1>3, <1>4, <1>5, <1>6

\* An element linked in before the p-th: the links are those of the longer
\* sequence.
LEMMA ElementPutIn ==
  ASSUME Sound, NEW e \in Elements \ live, NEW p \in 1..Len(items) + 1,
         items' \in Seq(Elements), Len(items') = Len(items) + 1,
         \A i \in 1..Len(items) + 1 :
           items'[i] = IF i < p THEN items[i] ELSE IF i = p THEN e ELSE items[i - 1],
         live' = live \cup {e}, list'.count = list.count + 1,
         list'.first = IF p = 1 THEN e ELSE list.first,
         list'.last = IF p = Len(items) + 1 THEN e ELSE list.last,
         next'[e] = ItemAt(p), prev'[e] = ItemAt(p - 1),
         \A i \in 1..Len(items) :
           /\ next'[items[i]] = IF i = p - 1 THEN e ELSE next[items[i]]
           /\ prev'[items[i]] = IF i = p THEN e ELSE prev[items[i]]
  PROVE  LinksOfSequence' /\ Distinct'
<1>0. /\ Len(items) \in Nat /\ DOMAIN items = 1..Len(items)
      /\ \A i \in 1..Len(items) : items[i] \in Elements
  BY SequenceFacts DEF Sound
<1>1. DOMAIN items' = 1..Len(items) + 1
  BY LenProperties
<1>2. live = {items[i] : i \in 1..Len(items)}
  BY <1>0 DEF Sound, LinksOfSequence, Range
<1>3. Distinct'
  <2> SUFFICES ASSUME NEW i \in 1..Len(items) + 1, NEW j \in 1..Len(items) + 1, items'[i] = items'[j]
               PROVE  i = j
    BY DEF Distinct
  <2>1. \A k \in 1..Len(items) : items[k] # e
    BY <1>2
  <2> QED  BY <1>0, <2>1 DEF Sound, Distinct
<1>4. live' = Range(items')
  <2>1. Range(items') \subseteq live'
    BY <1>0, <1>1, <1>2 DEF Range
  <2>2. ASSUME NEW i \in 1..Len(items) PROVE items[i] \in Range(items')
    <3>1. CASE i < p
      <4>1. i \in 1..Len(items) + 1 /\ items'[i] = items[i]
        BY <1>0, <3>1
      <4> QED  BY <1>1, <4>1 DEF Range
    <3>2. CASE ~(i < p)
      <4>1. i + 1 \in 1..Len(items) + 1 /\ ~(i + 1 < p) /\ i + 1 # p /\ (i + 1) - 1 = i
        BY <1>0, <3>2
      <4>2. items'[i + 1] = items[i]
        BY <4>1
      <4> QED  BY <1>1, <4>1, <4>2 DEF Range
    <3> QED  BY <3>1, <3>2
  <2>3. e \in Range(items')
    <3>1. p \in 1..Len(items) + 1 /\ items'[p] = e
      BY <1>0
    <3> QED  BY <1>1, <3>1 DEF Range
  <2> QED  BY <1>2, <2>1, <2>2, <2>3
<1>5. list'.count = Len(items')
  BY DEF Sound, LinksOfSequence
<1>6. list'.first = ItemAt(1)' /\ list'.last = ItemAt(Len(items))'
  BY <1>0, <1>1 DEF Sound, LinksOfSequence, ItemAt
<1>7. ASSUME NEW i \in 1..Len(items) + 1
      PROVE  next'[items'[i]] = ItemAt(i + 1)' /\ prev'[items'[i]] = ItemAt(i - 1)'
  <2>0. \A k \in 1..Len(items) : next[items[k]] = ItemAt(k + 1) /\ prev[items[k]] = ItemAt(k - 1)
    BY <1>0 DEF Sound, LinksOfSequence
  <2>1. CASE i < p
    <3>1. i \in 1..Len(items) /\ items'[i] = items[i]
      BY <1>0, <2>1
    <3>2. /\ next'[items'[i]] = IF i = p - 1 THEN e ELSE ItemAt(i + 1)
          /\ prev'[items'[i]] = ItemAt(i - 1)
      BY <1>0, <2>0, <2>1, <3>1
    <3>3. ItemAt(i - 1)' = ItemAt(i - 1)
      BY <1>0, <1>1, <2>1 DEF ItemAt
    <3>4. ItemAt(i + 1)' = IF i = p - 1 THEN e ELSE ItemAt(i + 1)
      BY <1>0, <1>1, <2>1, <3>1 DEF ItemAt
    <3> QED  BY <3>2, <3>3, <3>4
  <2>2. CASE i = p
    BY <1>0, <1>1, <2>0, <2>2 DEF ItemAt
  <2>3. CASE i > p
    <3>1. i - 1 \in 1..Len(items) /\ items'[i] = items[i - 1] /\ i - 1 # p - 1
      BY <1>0, <2>3
    <3>2. next'[items'[i]] = ItemAt(i) /\ prev'[items'[i]] = IF i - 1 = p THEN e ELSE ItemAt(i - 2)
      BY <1>0, <2>0, <3>1
    <3> QED  BY <1>0, <1>1, <2>3, <3>1, <3>2 DEF ItemAt
  <2> QED  BY <1>0, <2>1, <2>2, <2>3
<1> QED  BY <1>1, <1>3, <1>4, <1>5, <1>6, <1>7 DEF LinksOfSequence

\* The p-th element unlinked: the links are those of the shorter sequence.
LEMMA ElementTakenOut ==
  ASSUME Sound, NEW p \in 1..Len(items),
         items' \in Seq(Elements), Len(items') = Len(items) - 1,
         \A i \in 1..Len(items) - 1 : items'[i] = IF i < p THEN items[i] ELSE items[i + 1],
         live' = live \ {items[p]}, list'.count = list.count - 1,
         list'.first = IF p = 1 THEN ItemAt(2) ELSE list.first,
         list'.last = IF p = Len(items) THEN ItemAt(p - 1) ELSE list.last,
         \A i \in 1..Len(items) \ {p} :
           /\ next'[items[i]] = IF i = p - 1 THEN ItemAt(p + 1) ELSE next[items[i]]
           /\ prev'[items[i]] = IF i = p + 1 THEN ItemAt(p - 1) ELSE prev[items[i]]
  PROVE  LinksOfSequence' /\ Distinct'
<1>0. /\ Len(items) \in Nat /\ DOMAIN items = 1..Len(items)
      /\ \A i \in 1..Len(items) : items[i] \in Elements
  BY SequenceFacts DEF Sound
<1>1. DOMAIN items' = 1..Len(items) - 1
  BY LenProperties
<1>2. live = {items[i] : i \in 1..Len(items)}
  BY <1>0 DEF Sound, LinksOfSequence, Range
<1>3. Distinct'
  <2> SUFFICES ASSUME NEW i \in 1..Len(items) - 1, NEW j \in 1..Len(items) - 1, items'[i] = items'[j]
               PROVE  i = j
    BY DEF Distinct
  <2> QED  BY <1>0 DEF Sound, Distinct
<1>4. live' = Range(items')
  <2>1. ASSUME NEW i \in 1..Len(items) - 1 PROVE items'[i] \in live'
    BY <1>0, <1>2 DEF Sound, Distinct
  <2>2. ASSUME NEW i \in 1..Len(items) \ {p} PROVE items[i] \in Range(items')
    <3>1. CASE i < p
      <4>1. i \in 1..Len(items) - 1 /\ items'[i] = items[i]
        BY <1>0, <3>1
      <4> QED  BY <1>1, <4>1 DEF Range
    <3>2. CASE i > p
      <4>1. i - 1 \in 1..Len(items) - 1 /\ ~(i - 1 < p) /\ (i - 1) + 1 = i
        BY <1>0, <3>2
      <4>2. items'[i - 1] = items[i]
        BY <4>1
      <4> QED  BY <1>1, <4>1, <4>2 DEF Range
    <3> QED  BY <1>0, <3>1, <3>2
  <2> QED  BY <1>1, <1>2, <2>1, <2>2 DEF Range
<1>5. list'.count = Len(items')
  BY DEF Sound, LinksOfSequence
<1>6. list'.first = ItemAt(1)' /\ list'.last = ItemAt(Len(items))'
  BY <1>0, <1>1 DEF Sound, LinksOfSequence, ItemAt
<1>7. ASSUME NEW i \in 1..Len(items) - 1
      PROVE  next'[items'[i]] = ItemAt(i + 1)' /\ prev'[items'[i]] = ItemAt(i - 1)'
  <2>0. \A k \in 1..Len(items) : next[items[k]] = ItemAt(k + 1) /\ prev[items[k]] = ItemAt(k - 1)
    BY <1>0 DEF Sound, LinksOfSequence
  <2>1. CASE i < p
    <3>0. i \in 1..Len(items) \ {p}
      BY <1>0, <2>1
    <3>1. i \in 1..Len(items) \ {p} /\ items'[i] = items[i]
      BY <2>1, <3>0
    <3>2. /\ next'[items'[i]] = IF i = p - 1 THEN ItemAt(p + 1) ELSE ItemAt(i + 1)
          /\ prev'[items'[i]] = ItemAt(i - 1)
      BY <1>0, <2>0, <2>1, <3>1
    <3>3. ItemAt(i - 1)' = ItemAt(i - 1)
      BY <1>0, <1>1, <2>1 DEF ItemAt
    <3>4. ItemAt(i + 1)' = IF i = p - 1 THEN ItemAt(p + 1) ELSE ItemAt(i + 1)
      BY <1>0, <1>1, <2>1, <3>1 DEF ItemAt
    <3> QED  BY <3>2, <3>3, <3>4
  <2>2. CASE i >= p
    <3>1. i + 1 \in 1..Len(items) \ {p} /\ items'[i] = items[i + 1] /\ i + 1 # p - 1
      BY <1>0, <2>2
    <3>2. /\ next'[items'[i]] = ItemAt(i + 2)
          /\ prev'[items'[i]] = IF i = p THEN ItemAt(p - 1) ELSE ItemAt(i)
      BY <1>0, <2>0, <2>2, <3>1
    <3>3. ItemAt(i + 1)' = ItemAt(i + 2)
      BY <1>0, <1>1, <2>2 DEF ItemAt
    <3>4. ItemAt(i - 1)' = IF i = p THEN ItemAt(p - 1) ELSE ItemAt(i)
      BY <1>0, <1>1, <2>2, <3>1 DEF ItemAt
    <3> QED  BY <3>2, <3>3, <3>4
  <2> QED  BY <1>0, <2>1, <2>2
<1> QED  BY <1>1, <1>3, <1>4, <1>5, <1>6, <1>7 DEF LinksOfSequence

(***************************************************************************)
(* One lemma per operation: what it does to a sound list, and that it      *)
(* keeps types and count of any list in use.                               *)
(***************************************************************************)

\* What a list in use and its invariant come to.
LEMMA InUse ==
  ASSUME ListInv, status = "up"
  PROVE  /\ ListTypeOK /\ CountIsRight /\ Distinct
         /\ ~skewed => Sound
  BY DEF ListInv, ListIsSequence, Sound

\* What an operation has to show.
LEMMA StillInUse ==
  ASSUME ListTypeOK', CountIsRight', Distinct', status' = "up", ~skewed' => LinksOfSequence'
  PROVE  ListInv'
  BY DEF ListInv, ListIsSequence

\* An operation that followed a stale pointer.
LEMMA UndefinedKeeps ==
  ASSUME ListInv, status = "up", skewed, status' = "undefined",
         UNCHANGED <<list, next, prev, live, items, result, skewed>>
  PROVE  ListInv'
<1> QED  BY DEF ListInv, ListIsSequence, ListTypeOK, Distinct, CountIsRight

\* The end at which an element is added of a list that is not empty.
LEMMA EndsOfSound ==
  ASSUME Sound
  PROVE  /\ list.count = Len(items)
         /\ list.count # 0 => /\ list.first = items[1] /\ list.last = items[Len(items)]
                              /\ list.first \in live /\ list.last \in live
         /\ live = {items[i] : i \in 1..Len(items)}
         /\ \A i \in 1..Len(items) : next[items[i]] = ItemAt(i + 1) /\ prev[items[i]] = ItemAt(i - 1)
<1>0. /\ Len(items) \in Nat /\ DOMAIN items = 1..Len(items)
  BY SequenceFacts DEF Sound
<1>1. live = {items[i] : i \in 1..Len(items)}
  BY <1>0 DEF Sound, LinksOfSequence, Range
<1>2. /\ list.count = Len(items)
      /\ \A i \in 1..Len(items) : next[items[i]] = ItemAt(i + 1) /\ prev[items[i]] = ItemAt(i - 1)
      /\ list.first = ItemAt(1) /\ list.last = ItemAt(Len(items))
  BY <1>0 DEF Sound, LinksOfSequence
<1>3. ASSUME list.count # 0
      PROVE  /\ list.first = items[1] /\ list.last = items[Len(items)]
             /\ list.first \in live /\ list.last \in live
  <2>1. 1 \in 1..Len(items) /\ Len(items) \in 1..Len(items)
    BY <1>0, <1>2, <1>3
  <2> QED  BY <1>0, <1>1, <1>2, <2>1 DEF ItemAt
<1> QED  BY <1>1, <1>2, <1>3

\* list_append and queue_push.
LEMMA AppendKeeps ==
  ASSUME ListInv, NEW e \in Elements, ListAppend(e)
  PROVE  ListInv'
<1>0. status = "up" /\ e \in Elements \ live
  BY DEF ListAppend, Allocate
<1>1. ListTypeOK /\ CountIsRight /\ Distinct /\ (~skewed => Sound)
  BY <1>0, InUse
<1>2. /\ list.count \in Nat /\ (list.count = 0 <=> live = {})
      /\ Cardinality(live \cup {e}) = list.count + 1 /\ list.count + 1 \in 0..Cardinality(Elements)
  BY <1>0, <1>1, CountFacts
<1>3. /\ Append(items, e) \in Seq(Elements) /\ Len(Append(items, e)) = Len(items) + 1
      /\ \A i \in 1..Len(items) : Append(items, e)[i] = items[i]
      /\ Append(items, e)[Len(items) + 1] = e
      /\ Len(items) \in Nat /\ <<>> \in Seq(Elements) /\ Len(<<>>) = 0
  BY <1>1, AppendProperties, LenProperties, EmptySeq DEF ListTypeOK
<1>4. CASE OnlyElement(e) /\ list.count = 0
  <2>1. ListTypeOK' /\ CountIsRight' /\ status' = "up" /\ skewed' = skewed
    BY <1>0, <1>1, <1>2, <1>3, <1>4 DEF OnlyElement, ListTypeOK, CountIsRight, Expected, Pointers
  <2>2. CASE ~skewed
    <3>1. Len(items) = 0
      BY <1>1, <1>4, <2>2, EndsOfSound
    <3>2. LinksOfSequence' /\ Distinct'
      <4>1. Sound
        BY <1>1, <2>2
      <4>2. items' = Append(items, e)
        BY <1>4, <2>2 DEF OnlyElement, Expected
      <4>3. next \in [Elements -> Pointers] /\ prev \in [Elements -> Pointers]
        BY <1>1 DEF ListTypeOK
      <4>4. next'[e] = ItemAt(1) /\ prev'[e] = ItemAt(0)
        BY <1>0, <1>1, <1>4, <3>1, <4>3, SequenceFacts DEF OnlyElement, ItemAt
      <4>5. /\ live' = live \cup {e} /\ list'.count = list.count + 1
            /\ list'.first = e /\ list'.last = e
        BY <1>4 DEF OnlyElement
      <4> QED  BY <1>0, <1>3, <3>1, <4>1, <4>2, <4>4, <4>5, ElementPutIn
    <3> QED  BY <2>1, <3>2, StillInUse
  <2>3. CASE skewed
    <3>1. items' = <<>> /\ skewed'
      BY <1>4, <2>3 DEF OnlyElement, Expected
    <3>2. Distinct'
      BY <1>3, <3>1 DEF Distinct
    <3> QED  BY <2>1, <3>1, <3>2, StillInUse
  <2> QED  BY <2>2, <2>3
<1>5. CASE list.count # 0 /\ Follows({list.last}, LinkLast(e)) /\ list.last \in live
  <2>1. LinkLast(e) /\ status' = "up"
    BY <1>0, <1>5 DEF Follows
  <2>2. ListTypeOK' /\ CountIsRight' /\ skewed' = skewed
    BY <1>0, <1>1, <1>2, <1>3, <2>1 DEF LinkLast, ListTypeOK, CountIsRight, Expected, Pointers
  <2>3. CASE ~skewed
    <3>1. Sound
      BY <1>1, <2>3
    <3>2. /\ items' = Append(items, e) /\ live' = live \cup {e} /\ list'.count = list.count + 1
          /\ list'.first = list.first /\ list'.last = e
      BY <1>1, <2>1, <2>3 DEF LinkLast, Expected, ListTypeOK
    <3>3. list.last = items[Len(items)] /\ Len(items) # 0
      BY <1>5, <3>1, EndsOfSound
    <3>4. next'[e] = NULL /\ prev'[e] = items[Len(items)]
      BY <1>0, <1>1, <1>5, <2>1, <3>3 DEF LinkLast, ListTypeOK
    <3>5. ItemAt(Len(items) + 1) = NULL /\ ItemAt(Len(items) + 1 - 1) = items[Len(items)]
      BY <1>1, <1>3, <3>3, SequenceFacts DEF ItemAt
    <3>6. ASSUME NEW i \in 1..Len(items)
          PROVE  /\ next'[items[i]] = IF i = Len(items) + 1 - 1 THEN e ELSE next[items[i]]
                 /\ prev'[items[i]] = IF i = Len(items) + 1 THEN e ELSE prev[items[i]]
      <4>1. items[i] \in live /\ items[i] # e /\ items[i] \in Elements
        BY <1>0, <1>1, <3>1, EndsOfSound DEF ListTypeOK
      <4>2. items[i] = items[Len(items)] <=> i = Len(items)
        BY <1>1, <1>3, <3>3 DEF Distinct
      <4> QED  BY <1>0, <1>1, <1>3, <1>5, <2>1, <3>3, <4>1, <4>2 DEF LinkLast, ListTypeOK
    <3>7. LinksOfSequence' /\ Distinct'
      BY <1>0, <1>3, <3>1, <3>2, <3>3, <3>4, <3>5, <3>6, ElementPutIn
    <3> QED  BY <2>1, <2>2, <3>7, StillInUse
  <2>4. CASE skewed
    <3>1. items' = <<>> /\ skewed'
      BY <2>1, <2>2, <2>4 DEF LinkLast, Expected
    <3>2. Distinct'
      BY <1>3, <3>1 DEF Distinct
    <3> QED  BY <2>1, <2>2, <3>1, <3>2, StillInUse
  <2> QED  BY <2>3, <2>4
<1>6. CASE list.count # 0 /\ Follows({list.last}, LinkLast(e)) /\ list.last \notin live
  <2>1. skewed
    BY <1>1, <1>6, EndsOfSound
  <2> QED  BY <1>0, <1>6, <2>1, UndefinedKeeps DEF Follows
<1> QED  BY <1>4, <1>5, <1>6 DEF ListAppend

\* A sequence with an element put in front.
LEMMA Prepended ==
  ASSUME NEW S, NEW s \in Seq(S), NEW e \in S
  PROVE  /\ <<e>> \o s \in Seq(S) /\ Len(<<e>> \o s) = Len(s) + 1
         /\ \A i \in 1..Len(s) + 1 : (<<e>> \o s)[i] = IF i = 1 THEN e ELSE s[i - 1]
<1>1. <<e>> \in Seq(S) /\ Len(<<e>>) = 1 /\ <<e>>[1] = e /\ Len(s) \in Nat
  BY LenProperties
<1>2. /\ <<e>> \o s \in Seq(S) /\ Len(<<e>> \o s) = Len(<<e>>) + Len(s)
      /\ \A i \in 1..Len(<<e>>) + Len(s) :
           (<<e>> \o s)[i] = IF i <= Len(<<e>>) THEN <<e>>[i] ELSE s[i - Len(<<e>>)]
  BY <1>1, ConcatProperties
<1>3. ASSUME NEW i \in 1..Len(s) + 1 PROVE (<<e>> \o s)[i] = IF i = 1 THEN e ELSE s[i - 1]
  <2>1. i \in 1..Len(<<e>>) + Len(s) /\ (i <= Len(<<e>>) <=> i = 1) /\ i - Len(<<e>>) = i - 1
    BY <1>1
  <2> QED  BY <1>1, <1>2, <2>1
<1> QED  BY <1>1, <1>2, <1>3

\* list_prepend and stack_push.
LEMMA PrependKeeps ==
  ASSUME ListInv, NEW e \in Elements, ListPrepend(e)
  PROVE  ListInv'
<1>0. status = "up" /\ e \in Elements \ live
  BY DEF ListPrepend, Allocate
<1>1. ListTypeOK /\ CountIsRight /\ Distinct /\ (~skewed => Sound)
  BY <1>0, InUse
<1>2. CASE OnlyElement(e) /\ list.count = 0
  BY <1>0, <1>2, AppendKeeps DEF ListAppend, Allocate
<1>3. /\ list.count \in Nat
      /\ Cardinality(live \cup {e}) = list.count + 1 /\ list.count + 1 \in 0..Cardinality(Elements)
  BY <1>0, <1>1, CountFacts
<1>4. /\ <<e>> \o items \in Seq(Elements) /\ Len(<<e>> \o items) = Len(items) + 1
      /\ \A i \in 1..Len(items) + 1 : (<<e>> \o items)[i] = IF i = 1 THEN e ELSE items[i - 1]
      /\ Len(items) \in Nat /\ <<>> \in Seq(Elements) /\ Len(<<>>) = 0
  BY <1>1, Prepended, LenProperties, EmptySeq DEF ListTypeOK
<1>5. CASE list.count # 0 /\ Follows({list.first}, LinkFirst(e)) /\ list.first \in live
  <2>1. LinkFirst(e) /\ status' = "up"
    BY <1>0, <1>5 DEF Follows
  <2>2. ListTypeOK' /\ CountIsRight' /\ skewed' = skewed
    BY <1>0, <1>1, <1>3, <1>4, <2>1 DEF LinkFirst, ListTypeOK, CountIsRight, Expected, Pointers
  <2>3. CASE ~skewed
    <3>1. Sound
      BY <1>1, <2>3
    <3>2. /\ items' = <<e>> \o items /\ live' = live \cup {e} /\ list'.count = list.count + 1
          /\ list'.first = e /\ list'.last = list.last
      BY <1>1, <2>1, <2>3 DEF LinkFirst, Expected, ListTypeOK
    <3>3. list.first = items[1] /\ Len(items) # 0
      BY <1>5, <3>1, EndsOfSound
    <3>4. next'[e] = items[1] /\ prev'[e] = NULL
      BY <1>0, <1>1, <1>5, <2>1, <3>3 DEF LinkFirst, ListTypeOK
    <3>5. ItemAt(1) = items[1] /\ ItemAt(1 - 1) = NULL /\ 1 \in 1..Len(items) + 1 /\ 1 # Len(items) + 1
      BY <1>1, <1>4, <3>3, SequenceFacts DEF ItemAt
    <3>6. ASSUME NEW i \in 1..Len(items)
          PROVE  /\ next'[items[i]] = IF i = 1 - 1 THEN e ELSE next[items[i]]
                 /\ prev'[items[i]] = IF i = 1 THEN e ELSE prev[items[i]]
      <4>1. items[i] \in live /\ items[i] # e /\ items[i] \in Elements
        BY <1>0, <1>1, <3>1, EndsOfSound DEF ListTypeOK
      <4>2. items[i] = items[1] <=> i = 1
        BY <1>1, <1>4, <3>3 DEF Distinct
      <4> QED  BY <1>0, <1>1, <1>4, <1>5, <2>1, <3>3, <4>1, <4>2 DEF LinkFirst, ListTypeOK
    <3>7. \A i \in 1..Len(items) + 1 :
            items'[i] = IF i < 1 THEN items[i] ELSE IF i = 1 THEN e ELSE items[i - 1]
      BY <1>4, <3>2
    <3>8. LinksOfSequence' /\ Distinct'
      BY <1>0, <1>4, <3>1, <3>2, <3>3, <3>4, <3>5, <3>6, <3>7, ElementPutIn
    <3> QED  BY <2>1, <2>2, <3>8, StillInUse
  <2>4. CASE skewed
    <3>1. items' = <<>> /\ skewed'
      BY <2>1, <2>2, <2>4 DEF LinkFirst, Expected
    <3>2. Distinct'
      BY <1>4, <3>1 DEF Distinct
    <3> QED  BY <2>1, <2>2, <3>1, <3>2, StillInUse
  <2> QED  BY <2>3, <2>4
<1>6. CASE list.count # 0 /\ Follows({list.first}, LinkFirst(e)) /\ list.first \notin live
  <2>1. skewed
    BY <1>1, <1>6, EndsOfSound
  <2> QED  BY <1>0, <1>6, <2>1, UndefinedKeeps DEF Follows
<1> QED  BY <1>2, <1>5, <1>6 DEF ListPrepend

\* The neighbours of an element of a sound list.
LEMMA NeighboursOfSound ==
  ASSUME Sound, NEW el \in live
  PROVE  /\ Place(el) \in 1..Len(items) /\ items[Place(el)] = el /\ Len(items) \in Nat
         /\ next[el] = ItemAt(Place(el) + 1) /\ prev[el] = ItemAt(Place(el) - 1)
         /\ next[el] = (IF el = list.last THEN NULL ELSE items[Place(el) + 1])
         /\ prev[el] = (IF el = list.first THEN NULL ELSE items[Place(el) - 1])
         /\ el = list.last <=> Place(el) = Len(items)
         /\ el = list.first <=> Place(el) = 1
         /\ {next[el], prev[el]} \ {NULL} \subseteq live
         /\ \A i \in 1..Len(items) : /\ items[i] \in live /\ items[i] \in Elements
                                     /\ items[i] = el <=> i = Place(el)
                                     /\ items[i] = next[el] <=> i = Place(el) + 1
                                     /\ items[i] = prev[el] <=> i = Place(el) - 1
<1> DEFINE p == Place(el)
<1>0. /\ Len(items) \in Nat /\ DOMAIN items = 1..Len(items)
      /\ \A i \in 1..Len(items) : items[i] \in Elements
  BY SequenceFacts DEF Sound
<1>1. p \in 1..Len(items) /\ items[p] = el
  BY PlaceOfElement
<1> HIDE DEF p
<1>2. list.count = Len(items) /\ Len(items) # 0 /\ 1 \in 1..Len(items) /\ Len(items) \in 1..Len(items)
  BY <1>0, <1>1, EndsOfSound
<1>3. list.first = items[1] /\ list.last = items[Len(items)]
  BY <1>2, EndsOfSound
<1>4. next[el] = ItemAt(p + 1) /\ prev[el] = ItemAt(p - 1)
  BY <1>1, EndsOfSound
<1>5. \A i, j \in 1..Len(items) : items[i] = items[j] => i = j
  BY DEF Sound, Distinct
<1>6. (el = list.last <=> p = Len(items)) /\ (el = list.first <=> p = 1)
  BY <1>1, <1>2, <1>3, <1>5
<1>7. NULL \notin Elements
  BY ListAssumption
<1>8. /\ next[el] = IF p = Len(items) THEN NULL ELSE items[p + 1]
      /\ prev[el] = IF p = 1 THEN NULL ELSE items[p - 1]
      /\ p # Len(items) => p + 1 \in 1..Len(items)
      /\ p # 1 => p - 1 \in 1..Len(items)
  BY <1>0, <1>1, <1>4 DEF ItemAt
<1>9. \A i \in 1..Len(items) : items[i] \in live
  BY EndsOfSound
<1>10. ASSUME NEW i \in 1..Len(items)
       PROVE  /\ items[i] = el <=> i = p
              /\ items[i] = next[el] <=> i = p + 1
              /\ items[i] = prev[el] <=> i = p - 1
  <2>1. items[i] = el <=> i = p
    BY <1>1, <1>5
  <2>2. items[i] = next[el] <=> i = p + 1
    BY <1>0, <1>1, <1>5, <1>7, <1>8
  <2>3. items[i] = prev[el] <=> i = p - 1
    <3>1. CASE p = 1
      BY <1>0, <1>7, <1>8, <3>1
    <3>2. CASE p # 1
      BY <1>5, <1>8, <3>2
    <3> QED  BY <3>1, <3>2
  <2> QED  BY <2>1, <2>2, <2>3
<1>11. {next[el], prev[el]} \ {NULL} \subseteq live
  BY <1>8, <1>9
<1> QED  BY <1>0, <1>1, <1>4, <1>6, <1>8, <1>9, <1>10, <1>11 DEF p

\* list_add_after: inside the list an insertion, beyond its end the list is skewed.
LEMMA AddAfterKeeps ==
  ASSUME ListInv, NEW e \in Elements, NEW el \in Elements, ListAddAfter(e, el)
  PROVE  ListInv'
<1>0. status = "up" /\ e \in Elements \ live /\ el \in live
  BY DEF ListAddAfter, Allocate
<1>1. ListTypeOK /\ CountIsRight /\ Distinct /\ (~skewed => Sound)
  BY <1>0, InUse
<1>2. /\ list.count \in Nat
      /\ Cardinality(live \cup {e}) = list.count + 1 /\ list.count + 1 \in 0..Cardinality(Elements)
  BY <1>0, <1>1, CountFacts
<1>3. <<>> \in Seq(Elements) /\ Len(<<>>) = 0
  BY EmptySeq
<1>4. CASE {next[el]} \ {NULL} \subseteq live
  <2>1. /\ status' = "up" /\ list' = [list EXCEPT !.count = @ + 1]
        /\ next' = [next EXCEPT ![e] = next[el], ![el] = e]
        /\ prev' = IF next[el] = NULL THEN [prev EXCEPT ![e] = el]
                   ELSE [prev EXCEPT ![e] = el, ![next[el]] = e]
        /\ live' = live \cup {e} /\ skewed' = (skewed \/ el = list.last)
        /\ items' = IF skewed' THEN <<>> ELSE InsertAt(items, Place(el) + 1, e)
        /\ result' = NULL
    BY <1>0, <1>4 DEF ListAddAfter, Follows
  <2>2. /\ list' \in [count : 0..Cardinality(Elements), first : Pointers, last : Pointers]
        /\ next' \in [Elements -> Pointers] /\ prev' \in [Elements -> Pointers]
        /\ live' \subseteq Elements /\ result' \in Pointers /\ skewed' \in BOOLEAN
        /\ status' \in {"up", "freed", "undefined"}
    BY <1>0, <1>1, <1>2, <2>1 DEF ListTypeOK, Pointers
  <2>3. CountIsRight'
    BY <1>1, <1>2, <2>1 DEF CountIsRight, ListTypeOK
  <2>4. CASE skewed'
    <3>1. items' = <<>>
      BY <2>1, <2>4
    <3>2. Distinct' /\ ListTypeOK'
      BY <1>3, <2>2, <3>1 DEF Distinct, ListTypeOK
    <3> QED  BY <2>1, <2>3, <2>4, <3>2, StillInUse
  <2>5. CASE ~skewed'
    <3>1. Sound /\ el # list.last
      BY <1>1, <2>1, <2>5
    <3> DEFINE p == Place(el) + 1
    <3>2. /\ Place(el) \in 1..Len(items) /\ Len(items) \in Nat /\ Place(el) # Len(items)
          /\ next[el] = ItemAt(p) /\ el = items[Place(el)]
          /\ next[el] = items[p]
          /\ \A i \in 1..Len(items) : /\ items[i] \in live /\ items[i] \in Elements
                                      /\ items[i] = el <=> i = Place(el)
                                      /\ items[i] = next[el] <=> i = p
      BY <1>0, <3>1, NeighboursOfSound
    <3>3. items' = InsertAt(items, p, e)
      BY <2>1, <2>5
    <3>4. /\ p \in 1..Len(items) + 1 /\ p \in 1..Len(items) /\ p # 1 /\ p # Len(items) + 1
          /\ p - 1 = Place(el)
      BY <3>2
    <3> HIDE DEF p
    <3>5. /\ items' \in Seq(Elements) /\ Len(items') = Len(items) + 1
          /\ \A i \in 1..Len(items) + 1 :
               items'[i] = IF i < p THEN items[i] ELSE IF i = p THEN e ELSE items[i - 1]
      <4>1. items \in Seq(Elements)
        BY <1>1 DEF ListTypeOK
      <4>2. /\ InsertAt(items, p, e) \in Seq(Elements) /\ Len(InsertAt(items, p, e)) = Len(items) + 1
            /\ \A i \in 1..Len(items) + 1 :
                 InsertAt(items, p, e)[i] = IF i < p THEN items[i] ELSE IF i = p THEN e ELSE items[i - 1]
        <5>1. p \in 1..Len(items) + 1
          BY <3>4
        <5> QED  BY <4>1, <5>1, Inserted
      <4> QED  BY <3>3, <4>2
    <3>6. next[el] # NULL /\ next[el] \in live
      BY <3>2, <3>4, ListAssumption
    <3>7. next'[e] = ItemAt(p) /\ prev'[e] = ItemAt(p - 1)
      <4>1. ItemAt(p - 1) = el
        BY <1>1, <3>2, <3>4, SequenceFacts DEF ItemAt
      <4> QED  BY <1>0, <1>1, <2>1, <3>2, <3>6, <4>1 DEF ListTypeOK
    <3>8. ASSUME NEW i \in 1..Len(items)
          PROVE  /\ next'[items[i]] = IF i = p - 1 THEN e ELSE next[items[i]]
                 /\ prev'[items[i]] = IF i = p THEN e ELSE prev[items[i]]
      BY <1>0, <1>1, <2>1, <3>2, <3>4, <3>6 DEF ListTypeOK
    <3>9. /\ live' = live \cup {e} /\ list'.count = list.count + 1
          /\ list'.first = list.first /\ list'.last = list.last
      BY <1>1, <2>1 DEF ListTypeOK
    <3>10. LinksOfSequence' /\ Distinct'
      BY <1>0, <3>1, <3>4, <3>5, <3>7, <3>8, <3>9, ElementPutIn
    <3>11. ListTypeOK'
      BY <2>2, <3>5 DEF ListTypeOK
    <3> QED  BY <2>1, <2>3, <3>10, <3>11, StillInUse
  <2> QED  BY <2>4, <2>5
<1>5. CASE ~({next[el]} \ {NULL} \subseteq live)
  <2>1. skewed
    BY <1>0, <1>1, <1>5, NeighboursOfSound
  <2> QED  BY <1>0, <1>5, <2>1, UndefinedKeeps DEF ListAddAfter, Follows
<1> QED  BY <1>4, <1>5

\* list_add_before, its mirror image.
LEMMA AddBeforeKeeps ==
  ASSUME ListInv, NEW e \in Elements, NEW el \in Elements, ListAddBefore(e, el)
  PROVE  ListInv'
<1>0. status = "up" /\ e \in Elements \ live /\ el \in live
  BY DEF ListAddBefore, Allocate
<1>1. ListTypeOK /\ CountIsRight /\ Distinct /\ (~skewed => Sound)
  BY <1>0, InUse
<1>2. /\ list.count \in Nat
      /\ Cardinality(live \cup {e}) = list.count + 1 /\ list.count + 1 \in 0..Cardinality(Elements)
  BY <1>0, <1>1, CountFacts
<1>3. <<>> \in Seq(Elements) /\ Len(<<>>) = 0
  BY EmptySeq
<1>4. CASE {prev[el]} \ {NULL} \subseteq live
  <2>1. /\ status' = "up" /\ list' = [list EXCEPT !.count = @ + 1]
        /\ prev' = [prev EXCEPT ![e] = prev[el], ![el] = e]
        /\ next' = IF prev[el] = NULL THEN [next EXCEPT ![e] = el]
                   ELSE [next EXCEPT ![e] = el, ![prev[el]] = e]
        /\ live' = live \cup {e} /\ skewed' = (skewed \/ el = list.first)
        /\ items' = IF skewed' THEN <<>> ELSE InsertAt(items, Place(el), e)
        /\ result' = NULL
    BY <1>0, <1>4 DEF ListAddBefore, Follows
  <2>2. /\ list' \in [count : 0..Cardinality(Elements), first : Pointers, last : Pointers]
        /\ next' \in [Elements -> Pointers] /\ prev' \in [Elements -> Pointers]
        /\ live' \subseteq Elements /\ result' \in Pointers /\ skewed' \in BOOLEAN
        /\ status' \in {"up", "freed", "undefined"}
    BY <1>0, <1>1, <1>2, <2>1 DEF ListTypeOK, Pointers
  <2>3. CountIsRight'
    BY <1>1, <1>2, <2>1 DEF CountIsRight, ListTypeOK
  <2>4. CASE skewed'
    <3>1. items' = <<>>
      BY <2>1, <2>4
    <3>2. Distinct' /\ ListTypeOK'
      BY <1>3, <2>2, <3>1 DEF Distinct, ListTypeOK
    <3> QED  BY <2>1, <2>3, <2>4, <3>2, StillInUse
  <2>5. CASE ~skewed'
    <3>1. Sound /\ el # list.first
      BY <1>1, <2>1, <2>5
    <3> DEFINE p == Place(el)
    <3>2. /\ p \in 1..Len(items) /\ Len(items) \in Nat /\ p # 1
          /\ prev[el] = ItemAt(p - 1) /\ el = items[p]
          /\ prev[el] = items[p - 1]
          /\ \A i \in 1..Len(items) : /\ items[i] \in live /\ items[i] \in Elements
                                      /\ items[i] = el <=> i = p
                                      /\ items[i] = prev[el] <=> i = p - 1
      BY <1>0, <3>1, NeighboursOfSound
    <3>3. items' = InsertAt(items, p, e)
      BY <2>1, <2>5
    <3> HIDE DEF p
    <3>4. p \in 1..Len(items) + 1 /\ p # Len(items) + 1 /\ p - 1 \in 1..Len(items)
      BY <3>2
    <3>5. /\ items' \in Seq(Elements) /\ Len(items') = Len(items) + 1
          /\ \A i \in 1..Len(items) + 1 :
               items'[i] = IF i < p THEN items[i] ELSE IF i = p THEN e ELSE items[i - 1]
      <4>1. items \in Seq(Elements)
        BY <1>1 DEF ListTypeOK
      <4>2. /\ InsertAt(items, p, e) \in Seq(Elements) /\ Len(InsertAt(items, p, e)) = Len(items) + 1
            /\ \A i \in 1..Len(items) + 1 :
                 InsertAt(items, p, e)[i] = IF i < p THEN items[i] ELSE IF i = p THEN e ELSE items[i - 1]
        <5>1. p \in 1..Len(items) + 1
          BY <3>4
        <5> QED  BY <4>1, <5>1, Inserted
      <4> QED  BY <3>3, <4>2
    <3>6. prev[el] # NULL /\ prev[el] \in live
      BY <3>2, <3>4, ListAssumption
    <3>7. next'[e] = ItemAt(p) /\ prev'[e] = ItemAt(p - 1)
      <4>1. ItemAt(p) = el
        BY <1>1, <3>2, SequenceFacts DEF ItemAt
      <4> QED  BY <1>0, <1>1, <2>1, <3>2, <3>6, <4>1 DEF ListTypeOK
    <3>8. ASSUME NEW i \in 1..Len(items)
          PROVE  /\ next'[items[i]] = IF i = p - 1 THEN e ELSE next[items[i]]
                 /\ prev'[items[i]] = IF i = p THEN e ELSE prev[items[i]]
      BY <1>0, <1>1, <2>1, <3>2, <3>4, <3>6 DEF ListTypeOK
    <3>9. /\ live' = live \cup {e} /\ list'.count = list.count + 1
          /\ list'.first = list.first /\ list'.last = list.last
      BY <1>1, <2>1 DEF ListTypeOK
    <3>10. LinksOfSequence' /\ Distinct'
      BY <1>0, <3>1, <3>2, <3>4, <3>5, <3>7, <3>8, <3>9, ElementPutIn
    <3>11. ListTypeOK'
      BY <2>2, <3>5 DEF ListTypeOK
    <3> QED  BY <2>1, <2>3, <3>10, <3>11, StillInUse
  <2> QED  BY <2>4, <2>5
<1>5. CASE ~({prev[el]} \ {NULL} \subseteq live)
  <2>1. skewed
    BY <1>0, <1>1, <1>5, NeighboursOfSound
  <2> QED  BY <1>0, <1>5, <2>1, UndefinedKeeps DEF ListAddBefore, Follows
<1> QED  BY <1>4, <1>5

\* The body of the three removals.
LEMMA UnlinkKeeps ==
  ASSUME ListInv, status = "up", NEW el \in live, NEW returned \in Pointers, Unlink(el, returned)
  PROVE  ListInv' /\ (~skewed => result' = returned)
<1>1. ListTypeOK /\ CountIsRight /\ Distinct /\ (~skewed => Sound)
  BY InUse
<1>2. /\ list.count \in Nat /\ Cardinality(live \ {el}) = list.count - 1
      /\ list.count - 1 \in 0..Cardinality(Elements) /\ el \in Elements
  BY <1>1, CountFacts DEF ListTypeOK
<1>3. <<>> \in Seq(Elements) /\ Len(<<>>) = 0
  BY EmptySeq
<1>4. CASE {next[el], prev[el]} \ {NULL} \subseteq live
  <2>1. /\ status' = "up" /\ Neighbours(el) /\ EndsWithout(el)
        /\ live' = live \ {el} /\ items' = Without(el)
        /\ result' = returned /\ skewed' = skewed
    BY <1>4 DEF Unlink, Follows
  <2>2. next' \in [Elements -> Pointers] /\ prev' \in [Elements -> Pointers]
    BY <1>1, <1>2, <2>1 DEF Neighbours, ListTypeOK, Pointers
  <2>3. /\ list' \in [count : 0..Cardinality(Elements), first : Pointers, last : Pointers]
        /\ list'.count = list.count - 1
    <3>1. /\ list \in [count : 0..Cardinality(Elements), first : Pointers, last : Pointers]
          /\ prev[el] \in Pointers /\ next[el] \in Pointers /\ NULL \in Pointers
      BY <1>1, <1>2 DEF ListTypeOK, Pointers
    <3>2. CASE list.count = 1
      BY <1>2, <2>1, <3>1, <3>2 DEF EndsWithout
    <3>3. CASE list.count # 1
      BY <1>2, <2>1, <3>1, <3>3 DEF EndsWithout
    <3> QED  BY <3>2, <3>3
  <2>4. CountIsRight'
    BY <1>2, <2>1, <2>3 DEF CountIsRight
  <2>5. ASSUME items' \in Seq(Elements) PROVE ListTypeOK'
    BY <1>1, <2>1, <2>2, <2>3, <2>5 DEF ListTypeOK
  <2>6. CASE skewed
    <3>1. items' = <<>>
      BY <2>1, <2>6 DEF Without, Expected
    <3>2. Distinct' /\ ListTypeOK'
      BY <1>3, <2>5, <3>1 DEF Distinct
    <3> QED  BY <2>1, <2>4, <2>6, <3>2, StillInUse
  <2>7. CASE ~skewed
    <3>1. Sound
      BY <1>1, <2>7
    <3> DEFINE p == Place(el)
    <3>2. /\ p \in 1..Len(items) /\ Len(items) \in Nat /\ el = items[p]
          /\ next[el] = ItemAt(p + 1) /\ prev[el] = ItemAt(p - 1)
          /\ el = list.last <=> p = Len(items)
          /\ el = list.first <=> p = 1
          /\ \A i \in 1..Len(items) : /\ items[i] \in live /\ items[i] \in Elements
                                      /\ items[i] = el <=> i = p
                                      /\ items[i] = next[el] <=> i = p + 1
                                      /\ items[i] = prev[el] <=> i = p - 1
      BY <3>1, NeighboursOfSound
    <3>3. items' = RemoveAt(items, p)
      BY <2>1, <2>7 DEF Without, Expected
    <3> HIDE DEF p
    <3>4. /\ items' \in Seq(Elements) /\ Len(items') = Len(items) - 1
          /\ \A i \in 1..Len(items) - 1 : items'[i] = IF i < p THEN items[i] ELSE items[i + 1]
      <4>1. items \in Seq(Elements)
        BY <1>1 DEF ListTypeOK
      <4>2. /\ RemoveAt(items, p) \in Seq(Elements) /\ Len(RemoveAt(items, p)) = Len(items) - 1
            /\ \A i \in 1..Len(items) - 1 :
                 RemoveAt(items, p)[i] = IF i < p THEN items[i] ELSE items[i + 1]
        BY <3>2, <4>1, Removed
      <4> QED  BY <3>3, <4>2
    <3>5. /\ list'.first = IF p = 1 THEN ItemAt(2) ELSE list.first
          /\ list'.last = IF p = Len(items) THEN ItemAt(p - 1) ELSE list.last
      <4>1. list.count = Len(items) /\ DOMAIN items = 1..Len(items)
        BY <1>1, <3>1, EndsOfSound, SequenceFacts
      <4>2. CASE list.count = 1
        <5>1. p = 1 /\ Len(items) = 1
          BY <3>2, <4>1, <4>2
        <5>2. ItemAt(2) = NULL /\ ItemAt(p - 1) = NULL
          BY <4>1, <5>1 DEF ItemAt
        <5> QED  BY <2>1, <4>2, <5>1, <5>2 DEF EndsWithout
      <4>3. CASE list.count # 1
        BY <1>1, <2>1, <3>2, <4>1, <4>3 DEF EndsWithout, ListTypeOK
      <4> QED  BY <4>2, <4>3
    <3>6. ASSUME NEW i \in 1..Len(items) \ {p}
          PROVE  /\ next'[items[i]] = IF i = p - 1 THEN ItemAt(p + 1) ELSE next[items[i]]
                 /\ prev'[items[i]] = IF i = p + 1 THEN ItemAt(p - 1) ELSE prev[items[i]]
      BY <2>1, <3>2 DEF Neighbours
    <3>7. live' = live \ {items[p]}
      BY <2>1, <3>2
    <3>8. LinksOfSequence' /\ Distinct'
      BY <2>3, <3>1, <3>2, <3>4, <3>5, <3>6, <3>7, ElementTakenOut
    <3> QED  BY <2>1, <2>4, <2>5, <3>4, <3>8, StillInUse
  <2> QED  BY <2>6, <2>7
<1>5. CASE ~({next[el], prev[el]} \ {NULL} \subseteq live)
  <2>1. skewed
    BY <1>1, <1>5, NeighboursOfSound
  <2> QED  BY <1>5, <2>1, UndefinedKeeps DEF Unlink, Follows
<1> QED  BY <1>4, <1>5

\* list_remove_next, list_remove_prev and list_remove_element.
LEMMA RemovalKeeps ==
  ASSUME ListInv, NEW el \in Elements,
         ListRemoveNext(el) \/ ListRemovePrev(el) \/ ListRemoveElement(el)
  PROVE  ListInv'
<1>1. status = "up" /\ el \in live
  BY DEF ListRemoveNext, ListRemovePrev, ListRemoveElement
<1>2. next[el] \in Pointers /\ prev[el] \in Pointers /\ NULL \in Pointers
  BY <1>1, InUse DEF ListTypeOK, Pointers
<1> QED  BY <1>1, <1>2, UnlinkKeeps DEF ListRemoveNext, ListRemovePrev, ListRemoveElement

\* queue_pop and stack_pop.
LEMMA PopKeeps == ListInv /\ PopFirst => ListInv'
<1> SUFFICES ASSUME ListInv, PopFirst PROVE ListInv'
  OBVIOUS
<1>1. status = "up" /\ list.first # NULL /\ NULL \in Pointers
  BY DEF PopFirst, Pointers
<1>2. CASE list.first \in live
  BY <1>1, <1>2, UnlinkKeeps DEF PopFirst
<1>3. CASE list.first \notin live
  <2>1. skewed
    <3> SUFFICES ASSUME ~skewed PROVE FALSE
      OBVIOUS
    <3>1. Sound
      BY <1>1, InUse
    <3>2. 1 \in DOMAIN items /\ Len(items) \in Nat /\ DOMAIN items = 1..Len(items)
      BY <1>1, <3>1, SequenceFacts DEF Sound, LinksOfSequence, ItemAt
    <3>3. list.count # 0
      BY <3>1, <3>2, EndsOfSound
    <3> QED  BY <1>3, <3>1, <3>3, EndsOfSound
  <2> QED  BY <1>1, <1>3, <2>1, UndefinedKeeps DEF PopFirst, Follows
<1> QED  BY <1>2, <1>3

(***************************************************************************)
(* list_deinit.  The walk is a recursive function: that it is well defined *)
(* is shown with the sequence as the witness, and what it meets by the     *)
(* least index at which it would leave the sequence.                       *)
(***************************************************************************)

\* The walk of list_deinit, unfolded once.
LEMMA WalkUnfolds ==
  ASSUME Sound
  PROVE  /\ Walked[0] = list.first
         /\ \A n \in Nat \ {0} : Walked[n] = IF Walked[n - 1] \in live THEN next[Walked[n - 1]]
                                             ELSE Walked[n - 1]
<1> DEFINE F(f) == [n \in Nat |-> IF n = 0 THEN list.first
                                 ELSE IF f[n - 1] \in live THEN next[f[n - 1]] ELSE f[n - 1]]
           w == [n \in Nat |-> ItemAt(n + 1)]
<1>0. Len(items) \in Nat /\ DOMAIN items = 1..Len(items)
  BY SequenceFacts DEF Sound
<1>1. ASSUME NEW n \in Nat \ {0}
      PROVE  ItemAt(n + 1) = IF ItemAt(n) \in live THEN next[ItemAt(n)] ELSE ItemAt(n)
  <2>1. CASE n \in 1..Len(items)
    <3>1. ItemAt(n) = items[n] /\ items[n] \in live
      BY <1>0, <2>1, EndsOfSound DEF ItemAt
    <3>2. next[items[n]] = ItemAt(n + 1)
      BY <2>1, EndsOfSound
    <3> QED  BY <3>1, <3>2
  <2>2. CASE n \notin 1..Len(items)
    <3>1. ItemAt(n) = NULL /\ ItemAt(n + 1) = NULL
      BY <1>0, <2>2 DEF ItemAt
    <3>2. NULL \notin live
      BY ListAssumption DEF Sound, ListTypeOK
    <3> QED  BY <3>1, <3>2
  <2> QED  BY <2>1, <2>2
<1>2. list.first = ItemAt(1)
  BY DEF Sound, LinksOfSequence
<1>3. w = F(w)
  <2>1. ASSUME NEW n \in Nat PROVE w[n] = F(w)[n]
    <3>1. CASE n = 0
      BY <1>2, <3>1
    <3>2. CASE n # 0
      <4>1. n - 1 \in Nat /\ (n - 1) + 1 = n
        BY <3>2
      <4>2. w[n - 1] = ItemAt(n) /\ w[n] = ItemAt(n + 1)
        BY <4>1
      <4> QED  BY <1>1, <3>2, <4>2
    <3> QED  BY <3>1, <3>2
  <2> QED  BY <2>1
<1>4. Walked = F(Walked)
  <2> HIDE DEF w
  <2>1. \E f : f = F(f)
    BY <1>3
  <2>2. Walked = CHOOSE f : f = F(f)
    BY DEF Walked
  <2> QED  BY <2>1, <2>2, Zenon
<1>5. \A n \in Nat : Walked[n] = F(Walked)[n]
  BY <1>4
<1> QED  BY <1>5

\* The walk of list_deinit meets the elements one after the other and stops
\* at NULL.
LEMMA WalkIsSequence ==
  ASSUME Sound
  PROVE  \A n \in 0..Len(items) : Walked[n] = ItemAt(n + 1)
<1> DEFINE T == {n \in 0..Len(items) : Walked[n] # ItemAt(n + 1)}
<1> SUFFICES ASSUME T # {} PROVE FALSE
  OBVIOUS
<1>0. Len(items) \in Nat /\ DOMAIN items = 1..Len(items)
  BY SequenceFacts DEF Sound
<1>1. T \in SUBSET Nat
  BY <1>0
<1>2. PICK m \in T : \A k \in T : ~(k < m)
  BY <1>1, LeastNatural
<1>3. m \in 0..Len(items) /\ Walked[m] # ItemAt(m + 1)
  OBVIOUS
<1>4. m # 0
  <2>1. Walked[0] = ItemAt(1)
    BY WalkUnfolds DEF Sound, LinksOfSequence
  <2> QED  BY <1>3, <2>1
<1>5. m - 1 \in 0..Len(items) /\ m - 1 < m /\ (m - 1) + 1 = m /\ m \in Nat \ {0} /\ m \in 1..Len(items)
  BY <1>0, <1>3, <1>4
<1>6. Walked[m - 1] = ItemAt(m)
  <2>1. m - 1 \notin T
    BY <1>2, <1>5
  <2> QED  BY <1>5, <2>1
<1>7. ItemAt(m) = items[m] /\ items[m] \in live /\ next[items[m]] = ItemAt(m + 1)
  BY <1>0, <1>5, EndsOfSound DEF ItemAt
<1>8. Walked[m] = next[items[m]]
  BY <1>5, <1>6, <1>7, WalkUnfolds
<1> QED  BY <1>3, <1>7, <1>8

\* list_deinit frees every element of a sound list.
LEMMA DeinitKeeps == ListInv /\ ListDeinit => ListInv'
<1> SUFFICES ASSUME ListInv, ListDeinit PROVE ListInv'
  OBVIOUS
<1>0. status = "up" /\ UNCHANGED <<list, next, prev, items, result, skewed>>
  BY DEF ListDeinit
<1>1. ListTypeOK /\ CountIsRight /\ Distinct /\ (~skewed => Sound)
  BY <1>0, InUse
<1>2. status' \in {"freed", "undefined"} /\ live' \subseteq live
  BY DEF ListDeinit
<1>3. ListTypeOK' /\ CountIsRight' /\ Distinct'
  BY <1>0, <1>1, <1>2 DEF ListTypeOK, CountIsRight, Distinct
<1>4. CASE skewed
  BY <1>0, <1>3, <1>4 DEF ListInv, ListIsSequence
<1>5. CASE ~skewed
  <2>1. Sound
    BY <1>1, <1>5
  <2>2. Len(items) \in Nat /\ DOMAIN items = 1..Len(items)
    BY <2>1, SequenceFacts DEF Sound
  <2>3. Cardinality(live) = Len(items)
    BY <1>0, <1>1, <2>1, EndsOfSound DEF CountIsRight
  <2>4. Walked[Len(items)] = NULL
    <3>1. Walked[Len(items)] = ItemAt(Len(items) + 1)
      BY <2>1, <2>2, WalkIsSequence
    <3> QED  BY <2>2, <3>1 DEF ItemAt
  <2>5. status' = "freed" /\ live' = live \ {Walked[n] : n \in 0..Len(items)}
    BY <2>3, <2>4 DEF ListDeinit
  <2>6. ASSUME NEW i \in 1..Len(items) PROVE items[i] \in {Walked[n] : n \in 0..Len(items)}
    <3>1. i - 1 \in 0..Len(items) /\ (i - 1) + 1 = i
      BY <2>2
    <3>2. Walked[i - 1] = items[i]
      BY <2>1, <2>2, <3>1, WalkIsSequence DEF ItemAt
    <3> QED  BY <3>1, <3>2
  <2>7. live' = {}
    BY <2>1, <2>5, <2>6, EndsOfSound
  <2> QED  BY <1>3, <2>5, <2>7 DEF ListInv, ListIsSequence
<1> QED  BY <1>4, <1>5

(***************************************************************************)
(* The theorems about lists.                                               *)
(***************************************************************************)
\* Every operation keeps the invariant.
LEMMA ListInvInductive == ListInv /\ [ListNext]_listvars => ListInv'
<1> SUFFICES ASSUME ListInv, [ListNext]_listvars PROVE ListInv'
  OBVIOUS
<1>1. CASE UNCHANGED listvars
  BY <1>1 DEF listvars, ListInv, ListIsSequence, ListTypeOK, LinksOfSequence, ItemAt, Distinct, CountIsRight
<1> QED
  BY <1>1, AppendKeeps, PrependKeeps, AddAfterKeeps, AddBeforeKeeps, RemovalKeeps, PopKeeps, DeinitKeeps
     DEF ListNext

\* The invariant holds in every reachable state.
LEMMA ListInvAlways == ListSpec => []ListInv
<1>1. ListInit => ListInv
  <2> SUFFICES ASSUME ListInit PROVE ListInv
    OBVIOUS
  <2>1. <<>> \in Seq(Elements) /\ Len(<<>>) = 0 /\ DOMAIN <<>> = {} /\ Range(<<>>) = {}
    BY EmptySeq DEF Range
  <2>2. IsFiniteSet({}) /\ Cardinality({}) = 0 /\ Cardinality(Elements) \in Nat
    BY FS_EmptySet, FS_CardinalityType, ListAssumption
  <2>3. ListTypeOK
    <3>1. items \in Seq(Elements)
      BY <2>1 DEF ListInit
    <3>2. list \in [count : 0..Cardinality(Elements), first : Pointers, last : Pointers]
      BY <2>2 DEF ListInit, Pointers
    <3>3. next \in [Elements -> Pointers] /\ prev \in [Elements -> Pointers]
      BY DEF ListInit, Pointers
    <3>4. live \subseteq Elements /\ result \in Pointers /\ skewed \in BOOLEAN /\ status = "up"
      BY DEF ListInit, Pointers
    <3> QED  BY <3>1, <3>2, <3>3, <3>4 DEF ListTypeOK
  <2>4. LinksOfSequence
    <3>0. items = <<>> /\ live = {} /\ list.count = 0 /\ list.first = NULL /\ list.last = NULL
      BY DEF ListInit
    <3>1. \A i : i \notin DOMAIN items
      BY <2>1, <3>0
    <3>2. ItemAt(1) = NULL /\ ItemAt(Len(items)) = NULL
      BY <3>1 DEF ItemAt
    <3>3. live = Range(items) /\ list.count = Len(items)
      BY <2>1, <3>0
    <3> QED  BY <3>0, <3>1, <3>2, <3>3 DEF LinksOfSequence
  <2>5. Distinct /\ CountIsRight /\ status = "up"
    BY <2>1, <2>2 DEF ListInit, Distinct, CountIsRight
  <2> QED  BY <2>3, <2>4, <2>5 DEF ListInv, ListIsSequence
<1> QED  BY <1>1, ListInvInductive, PTL DEF ListSpec

\* Whatever calls are made in whatever order, the list is the sequence its
\* callers expect: no operation follows NULL or a freed element and list_deinit
\* frees every element, until list_add_after or list_add_before adds beyond an
\* end.
THEOREM ListStaysSequence == ListSpec => []ListIsSequence
<1>1. ListInv => ListIsSequence
  BY DEF ListInv
<1> QED  BY <1>1, ListInvAlways, PTL

\* What list_remove_next returns is the element that followed the one it
\* removed, so a loop that goes on from there misses none and repeats none.
THEOREM RemovalLoopGoesOn == ListSpec => RemoveNextGoesOn
<1>1. ASSUME ListInv, NEW el \in Elements, ~skewed, ListRemoveNext(el)
      PROVE  result' = ItemAt(Place(el) + 1)
  <2>1. status = "up" /\ el \in live /\ Unlink(el, next[el])
    BY <1>1 DEF ListRemoveNext
  <2>2. Sound /\ next[el] \in Pointers
    BY <1>1, <2>1, InUse DEF ListTypeOK
  <2>3. next[el] = ItemAt(Place(el) + 1)
    BY <2>1, <2>2, NeighboursOfSound
  <2> QED  BY <1>1, <2>1, <2>2, <2>3, UnlinkKeeps
<1>2. ListInv /\ [ListNext]_listvars
        => [\A el \in Elements : ~skewed /\ ListRemoveNext(el) => result' = ItemAt(Place(el) + 1)]_listvars
  BY <1>1
<1> QED  BY <1>2, ListInvAlways, PTL DEF ListSpec, RemoveNextGoesOn

(***************************************************************************)
(* Buffers.                                                                *)
(***************************************************************************)

\* A buffer that does not shrink never gets smaller than it was made, the size
\* its early return goes by: BufferHasRoom is inductive as it stands.
LEMMA ResizeHasRoom == BufferHasRoom /\ [BufferNext]_buffervars => BufferHasRoom'
<1> USE MaxSizeAssumption DEF BufferHasRoom, BufferTypeOK, GrantedIsRoom, SizeIsInside
<1> SUFFICES ASSUME BufferHasRoom, [BufferNext]_buffervars PROVE BufferHasRoom'
  OBVIOUS
<1>1. ASSUME NEW size \in 0..MaxSize, BufferResize(size), Keeps(size) PROVE BufferHasRoom'
  BY <1>1 DEF BufferResize, Keeps
<1>2. ASSUME NEW size \in 0..MaxSize, BufferResize(size), ~Keeps(size) PROVE BufferHasRoom'
  BY <1>2 DEF BufferResize, Reallocate, Keeps
<1>3. CASE UNCHANGED buffervars
  BY <1>3 DEF buffervars
<1> QED  BY <1>1, <1>2, <1>3 DEF BufferNext

\* After any sequence of resizes, successful or not, the block has the room
\* buffer_resize promised and, with the policy that does not shrink, the room
\* buffer_size reports.
THEOREM RoomKept == BufferSpec => []BufferHasRoom
<1>1. BufferInit => BufferHasRoom
  BY MaxSizeAssumption
     DEF BufferInit, BufferHasRoom, BufferTypeOK, GrantedIsRoom, SizeIsInside
<1> QED  BY <1>1, ResizeHasRoom, PTL DEF BufferSpec

(***************************************************************************)
(* The containers side by side.                                            *)
(***************************************************************************)

\* A behaviour of Containers is that of the one container `kind` names, the
\* others standing still, so it is a behaviour of each container's own
\* specification (list.c, avl-tree.c, memory.c).
THEOREM EachIsItself == Spec => ListSpec /\ TreeSpec /\ BufferSpec
<1>1. Init => ListInit /\ TreeInit /\ BufferInit
  BY DEF Init
<1>2. [Next]_allvars => [ListNext]_listvars /\ [TreeNext]_treevars /\ [BufferNext]_buffervars
  BY DEF Next, allvars, listvars, treevars, buffervars
<1> QED  BY <1>1, <1>2, PTL DEF Spec, ListSpec, TreeSpec, BufferSpec

\* So the invariants of list.c, avl-tree.c and memory.c, proved of each
\* container's own specification, hold of the specification the run checks.
THEOREM ContainersStaySound ==
  Spec => [](ListIsSequence /\ TreeIsAvl /\ TreeHoldsEntries /\ NextBelowIsRight /\ BufferHasRoom)
  BY EachIsItself, ListStaysSequence, TreeStaysAvl, TreeKeepsEntries, TreeNextBelow, RoomKept, PTL
=============================================================================
