-------------------------------- MODULE List --------------------------------
(***************************************************************************)
(* The doubly linked list of src/common/list.c and the two containers that *)
(* are thin wrappers of it: the queue (queue.c: push appends, pop removes  *)
(* the first element) and the stack (stack.c: push prepends, pop removes   *)
(* the first element).                                                     *)
(*                                                                         *)
(* The list is kept as the code keeps it: a count, two ends and a pair of  *)
(* links in each allocated element.  Next to it `items` is what a caller   *)
(* expects the list to hold.  An operation that follows NULL or the        *)
(* address of a freed element ends the behaviour as "undefined".  The      *)
(* allocator never fails, and an element is given only to the list it      *)
(* belongs to (the host tests of the code then never fire).                *)
(***************************************************************************)
EXTENDS Naturals, Sequences, SequencesExt

CONSTANTS
  Elements,   \* the addresses the allocator may return
  NULL        \* the null pointer

ASSUME ListAssumption == IsFiniteSet(Elements) /\ NULL \notin Elements

VARIABLES
  list,       \* struct list: count, first and last
  next, prev, \* the links of every element
  live,       \* the elements that are allocated
  items,      \* the sequence the callers' operations add up to, until skewed
  result,     \* the pointer the last removal returned
  skewed,     \* an element was added beyond an end by list_add_after or
              \* list_add_before, which leave the ends alone
  status      \* "up", "freed" (list_deinit) or "undefined"

listvars == <<list, next, prev, live, items, result, skewed, status>>

Pointers == Elements \cup {NULL}

\* A type-correct state of the list.
ListTypeOK ==
  /\ list \in [count : 0..Cardinality(Elements), first : Pointers, last : Pointers]
  /\ next \in [Elements -> Pointers] /\ prev \in [Elements -> Pointers]
  /\ live \subseteq Elements
  /\ items \in Seq(Elements)
  /\ result \in Pointers
  /\ skewed \in BOOLEAN
  /\ status \in {"up", "freed", "undefined"}

ListInit ==
  /\ list = [count |-> 0, first |-> NULL, last |-> NULL]
  /\ next = [e \in Elements |-> NULL] /\ prev = [e \in Elements |-> NULL]
  /\ live = {} /\ items = <<>> /\ result = NULL
  /\ skewed = FALSE /\ status = "up"

-----------------------------------------------------------------------------
\* Index of an element of the expected sequence.
Place(e) == CHOOSE i \in DOMAIN items : items[i] = e

\* The sequence is no longer told once the ends are wrong.
Expected(seq) == IF skewed THEN <<>> ELSE seq

\* The expected sequence without e.
Without(e) == Expected(RemoveAt(items, Place(e)))

\* An operation follows the pointers in `touched`: with one of them NULL or
\* freed, what happens is undefined.
Follows(touched, effect) ==
  IF touched \subseteq live
  THEN effect /\ UNCHANGED status
  ELSE status' = "undefined" /\ UNCHANGED <<list, next, prev, live, items, result, skewed>>

\* list_allocate: a fresh element.  It has no return statement; in the
\* unoptimised build of the repository the caller gets the pointer all the same.
Allocate(e) == status = "up" /\ e \in Elements \ live

\* The first element of a list that counts none.
OnlyElement(e) ==
  /\ list' = [count |-> 1, first |-> e, last |-> e]
  /\ next' = [next EXCEPT ![e] = NULL] /\ prev' = [prev EXCEPT ![e] = NULL]
  /\ live' = live \cup {e} /\ items' = Expected(Append(items, e))
  /\ result' = NULL /\ UNCHANGED <<skewed, status>>

LinkLast(e) ==
  /\ list' = [list EXCEPT !.count = @ + 1, !.last = e]
  /\ next' = [next EXCEPT ![e] = NULL, ![list.last] = e]
  /\ prev' = [prev EXCEPT ![e] = list.last]
  /\ live' = live \cup {e} /\ items' = Expected(Append(items, e))
  /\ result' = NULL /\ UNCHANGED skewed

\* list_append, queue_push
ListAppend(e) ==
  /\ Allocate(e)
  /\ IF list.count = 0 THEN OnlyElement(e) ELSE Follows({list.last}, LinkLast(e))

LinkFirst(e) ==
  /\ list' = [list EXCEPT !.count = @ + 1, !.first = e]
  /\ prev' = [prev EXCEPT ![e] = NULL, ![list.first] = e]
  /\ next' = [next EXCEPT ![e] = list.first]
  /\ live' = live \cup {e} /\ items' = Expected(<<e>> \o items)
  /\ result' = NULL /\ UNCHANGED skewed

\* list_prepend, stack_push
ListPrepend(e) ==
  /\ Allocate(e)
  /\ IF list.count = 0 THEN OnlyElement(e) ELSE Follows({list.first}, LinkFirst(e))

\* list_add_after on an element (with NULL the code appends).  The test for the
\* last element compares the caller's data pointer with the element's own
\* address, which differ: `last` never moves.
ListAddAfter(e, el) ==
  /\ Allocate(e) /\ el \in live
  /\ Follows({next[el]} \ {NULL},
       /\ list' = [list EXCEPT !.count = @ + 1]
       /\ next' = [next EXCEPT ![e] = next[el], ![el] = e]
       /\ prev' = IF next[el] = NULL THEN [prev EXCEPT ![e] = el]
                  ELSE [prev EXCEPT ![e] = el, ![next[el]] = e]
       /\ live' = live \cup {e} /\ skewed' = (skewed \/ el = list.last)
       /\ items' = IF skewed' THEN <<>> ELSE InsertAt(items, Place(el) + 1, e)
       /\ result' = NULL)

\* list_add_before on an element (with NULL the code appends); `first` never
\* moves, for the same reason.
ListAddBefore(e, el) ==
  /\ Allocate(e) /\ el \in live
  /\ Follows({prev[el]} \ {NULL},
       /\ list' = [list EXCEPT !.count = @ + 1]
       /\ prev' = [prev EXCEPT ![e] = prev[el], ![el] = e]
       /\ next' = IF prev[el] = NULL THEN [next EXCEPT ![e] = el]
                  ELSE [next EXCEPT ![e] = el, ![prev[el]] = e]
       /\ live' = live \cup {e} /\ skewed' = (skewed \/ el = list.first)
       /\ items' = IF skewed' THEN <<>> ELSE InsertAt(items, Place(el), e)
       /\ result' = NULL)

-----------------------------------------------------------------------------
\* The ends after el is gone: both NULL when it was the last one counted.
EndsWithout(el) ==
  list' = IF list.count = 1 THEN [count |-> 0, first |-> NULL, last |-> NULL]
          ELSE IF el = list.last THEN [list EXCEPT !.count = @ - 1, !.last = prev[el]]
          ELSE IF el = list.first THEN [list EXCEPT !.count = @ - 1, !.first = next[el]]
          ELSE [list EXCEPT !.count = @ - 1]

\* Mutant: only the successor is told of the removal.
NeighboursForward(el) ==
  /\ prev' = [e \in Elements |-> IF e = el THEN NULL ELSE IF e = next[el] THEN prev[el] ELSE prev[e]]
  /\ next' = [next EXCEPT ![el] = NULL]

\* The neighbours are linked to each other; the links of the element itself
\* go with its memory.
Neighbours(el) ==
  /\ prev' = [e \in Elements |-> IF e = el THEN NULL ELSE IF e = next[el] THEN prev[el] ELSE prev[e]]
  /\ next' = [e \in Elements |-> IF e = el THEN NULL ELSE IF e = prev[el] THEN next[el] ELSE next[e]]

\* The body the three removals share: el is taken out between its neighbours
\* and freed.
Unlink(el, returned) ==
  Follows({next[el], prev[el]} \ {NULL},
    /\ Neighbours(el) /\ EndsWithout(el)
    /\ live' = live \ {el} /\ items' = Without(el)
    /\ result' = returned /\ UNCHANGED skewed)

\* Mutant: the returned pointer is the predecessor's.
RemoveNextGivesPrev(el) == status = "up" /\ el \in live /\ Unlink(el, prev[el])

\* list_remove_next: removes el itself and returns the element after it.
ListRemoveNext(el) == status = "up" /\ el \in live /\ Unlink(el, next[el])

\* list_remove_prev: removes el itself and returns the element before it.
ListRemovePrev(el) == status = "up" /\ el \in live /\ Unlink(el, prev[el])

\* list_remove_element
ListRemoveElement(el) == status = "up" /\ el \in live /\ Unlink(el, NULL)

\* queue_pop and stack_pop: list_remove_element of the first element, which
\* their callers have seen to be there (queue_front, stack_top).
PopFirst ==
  /\ status = "up" /\ list.first # NULL
  /\ IF list.first \in live THEN Unlink(list.first, NULL) ELSE Follows({list.first}, FALSE)

\* The n-th pointer list_deinit meets on its way along `next`.
Walked[n \in Nat] ==
  IF n = 0 THEN list.first
  ELSE IF Walked[n - 1] \in live THEN next[Walked[n - 1]] ELSE Walked[n - 1]

\* list_deinit: frees every element it walks over; the walk meets a freed
\* element when the chain is broken or closed.
ListDeinit ==
  LET met == {Walked[n] : n \in 0..Cardinality(live)} IN
  /\ status = "up"
  /\ IF Walked[Cardinality(live)] = NULL
     THEN status' = "freed" /\ live' = live \ met
     ELSE status' = "undefined" /\ UNCHANGED live
  /\ UNCHANGED <<list, next, prev, items, result, skewed>>

ListNext ==
  \/ \E e \in Elements : ListAppend(e) \/ ListPrepend(e)
  \/ \E e, el \in Elements : ListAddAfter(e, el) \/ ListAddBefore(e, el)
  \/ \E el \in Elements : ListRemoveNext(el) \/ ListRemovePrev(el) \/ ListRemoveElement(el)
  \/ PopFirst
  \/ ListDeinit

ListSpec == ListInit /\ [][ListNext]_listvars

-----------------------------------------------------------------------------
\* The element at index i of the expected sequence, NULL outside it.
ItemAt(i) == IF i \in DOMAIN items THEN items[i] ELSE NULL

\* The count, the ends and both chains of links are exactly those of the
\* sequence the operations add up to, and nothing is leaked.
LinksOfSequence ==
  /\ live = Range(items) /\ list.count = Len(items)
  /\ list.first = ItemAt(1) /\ list.last = ItemAt(Len(items))
  /\ \A i \in DOMAIN items : next[items[i]] = ItemAt(i + 1) /\ prev[items[i]] = ItemAt(i - 1)

\* The list implements a sequence: until an element is added beyond an end with
\* list_add_after or list_add_before, the pointers are those of the sequence,
\* no operation, in any order, follows NULL or a freed element, and list_deinit
\* frees every element.
ListIsSequence ==
  /\ ListTypeOK
  /\ ~skewed => CASE status = "up" -> LinksOfSequence
                   [] status = "freed" -> live = {}
                   [] OTHER -> FALSE

\* A loop that goes on from what list_remove_next returns (the loops of
\* io_service_run and otm_server_tcp_deinit) misses no element and meets none
\* twice: it goes on at the place of the element it removed.
RemoveNextGoesOn ==
  [][\A el \in Elements :
       ~skewed /\ ListRemoveNext(el) => result' = ItemAt(Place(el) + 1)]_listvars
=============================================================================
