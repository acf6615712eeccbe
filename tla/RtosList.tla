------------------------------ MODULE RtosList ------------------------------
(***************************************************************************)
(* The doubly linked lists of FreeRTOS (list.c, list.h) at the level of    *)
(* their pointers.  A node is a list item or the end marker of a list; the *)
(* marker of list l is written l.                                          *)
(*                                                                         *)
(* The scheduler serialises the operations on one list: they run with      *)
(* interrupts masked, or with the scheduler suspended on a list that no    *)
(* interrupt handler touches.  In the latter case handlers work on other   *)
(* lists while vListInsert is looking for its place, so that its loop is   *)
(* an action per iteration here.                                           *)
(***************************************************************************)
EXTENDS Integers, Sequences, FiniteSets

CONSTANTS
  Lists,          \* the lists
  Kind,           \* of each: how the scheduler uses it
  Items,          \* list items
  NULL,           \* the null pointer
  portMAX_DELAY   \* the value of an end marker

(* Walked: the ready lists.  Fifo: those filled by vListInsertEnd and read *)
(* at their head.  Sorted: those filled by vListInsert.                    *)
ASSUME ListsAssumption ==
  /\ Kind \in [Lists -> {"walked", "fifo", "sorted"}]
  /\ Lists \cap Items = {}
  /\ NULL \notin Lists \cup Items
  /\ IsFiniteSet(Items)
  /\ portMAX_DELAY \in Nat

VARIABLES
  pxNext,           \* of each node
  pxPrevious,       \* of each node
  xItemValue,       \* of each node
  pvContainer,      \* of each item: the list it is in
  pxIndex,          \* of each list: the node that was returned last
  uxNumberOfItems,  \* of each list
  insertion,        \* the local variables of a vListInsert in progress
  owner             \* what the last reading of a list returned

vars == <<pxNext, pxPrevious, xItemValue, pvContainer, pxIndex, uxNumberOfItems,
          insertion, owner>>

Nodes == Lists \cup Items
Values == 0 .. portMAX_DELAY
NoInsertion == [list |-> NULL, item |-> NULL, pxIterator |-> NULL]

InitialIndex(l) == l

(* vListInitialise of every list and vListInitialiseItem of every item.    *)
Init ==
  /\ pxNext = [n \in Nodes |-> IF n \in Lists THEN n ELSE NULL]
  /\ pxPrevious = [n \in Nodes |-> IF n \in Lists THEN n ELSE NULL]
  /\ xItemValue = [n \in Nodes |-> IF n \in Lists THEN portMAX_DELAY ELSE 0]
  /\ pvContainer = [x \in Items |-> NULL]
  /\ pxIndex = [l \in Lists |-> InitialIndex(l)]
  /\ uxNumberOfItems = [l \in Lists |-> 0]
  /\ insertion = NoInsertion
  /\ owner = NULL

-----------------------------------------------------------------------------
(* Nothing else is done to the list and the item of an insertion.          *)
Available(l) == insertion.list # l
Free(x) == pvContainer[x] = NULL /\ insertion.item # x

listSET_LIST_ITEM_VALUE(x, v) ==
  /\ Free(x)
  /\ xItemValue' = [xItemValue EXCEPT ![x] = v]
  /\ UNCHANGED <<pxNext, pxPrevious, pvContainer, pxIndex, uxNumberOfItems, insertion, owner>>

(* The four pointers that put x behind the node at.  The marker of a list  *)
(* may be at and its own successor.                                        *)
(* Mutant: the node that follows does not point back.                      *)
LinkAfter_OneWay(x, at) ==
  /\ pxNext' = [pxNext EXCEPT ![x] = pxNext[at], ![at] = x]
  /\ pxPrevious' = [pxPrevious EXCEPT ![x] = at]

LinkAfter(x, at) ==
  /\ pxNext' = [pxNext EXCEPT ![x] = pxNext[at], ![at] = x]
  /\ pxPrevious' = [pxPrevious EXCEPT ![x] = at, ![pxNext[at]] = x]

vListInsertEnd(l, x) ==
  /\ Kind[l] # "sorted" /\ Available(l) /\ Free(x)
  /\ LinkAfter(x, pxIndex[l])
  /\ pxIndex' = [pxIndex EXCEPT ![l] = x]
  /\ pvContainer' = [pvContainer EXCEPT ![x] = l]
  /\ uxNumberOfItems' = [uxNumberOfItems EXCEPT ![l] = @ + 1]
  /\ UNCHANGED <<xItemValue, insertion, owner>>

(* vListInsert: where the search starts, one iteration, and the end of it. *)
(* Mutant: a value of portMAX_DELAY is searched for like any other.        *)
Searches_Always(x) == TRUE

Searches(x) == xItemValue[x] # portMAX_DELAY

vListInsert(l, x) ==
  /\ Kind[l] = "sorted" /\ insertion = NoInsertion /\ Free(x)
  /\ insertion' = [list |-> l, item |-> x,
                   pxIterator |-> IF Searches(x) THEN l ELSE pxPrevious[l]]
  /\ UNCHANGED <<pxNext, pxPrevious, xItemValue, pvContainer, pxIndex, uxNumberOfItems, owner>>

(* Mutant: the item goes before those of the same value.                  *)
NotYet_Before(x, at) == Searches(x) /\ xItemValue[pxNext[at]] < xItemValue[x]

NotYet(x, at) == Searches(x) /\ xItemValue[pxNext[at]] <= xItemValue[x]

InsertIterate ==
  /\ insertion # NoInsertion
  /\ NotYet(insertion.item, insertion.pxIterator)
  /\ insertion' = [insertion EXCEPT !.pxIterator = pxNext[@]]
  /\ UNCHANGED <<pxNext, pxPrevious, xItemValue, pvContainer, pxIndex, uxNumberOfItems, owner>>

InsertLink ==
  LET x == insertion.item
      l == insertion.list
  IN  /\ insertion # NoInsertion
      /\ ~NotYet(x, insertion.pxIterator)
      /\ LinkAfter(x, insertion.pxIterator)
      /\ pvContainer' = [pvContainer EXCEPT ![x] = l]
      /\ uxNumberOfItems' = [uxNumberOfItems EXCEPT ![l] = @ + 1]
      /\ insertion' = NoInsertion
      /\ UNCHANGED <<xItemValue, pxIndex, owner>>

IndexWithout(l, x) == IF pxIndex[l] = x THEN pxPrevious[x] ELSE pxIndex[l]

vListRemove(x) ==
  LET l == pvContainer[x]
  IN  /\ l # NULL /\ Available(l)
      /\ pxPrevious' = [pxPrevious EXCEPT ![pxNext[x]] = pxPrevious[x]]
      /\ pxNext' = [pxNext EXCEPT ![pxPrevious[x]] = pxNext[x]]
      /\ pxIndex' = [pxIndex EXCEPT ![l] = IndexWithout(l, x)]
      /\ pvContainer' = [pvContainer EXCEPT ![x] = NULL]
      /\ uxNumberOfItems' = [uxNumberOfItems EXCEPT ![l] = @ - 1]
      /\ UNCHANGED <<xItemValue, insertion, owner>>

(* The callers look at uxNumberOfItems first.                              *)
NextEntry(l) ==
  LET n == pxNext[pxIndex[l]] IN IF n = l THEN pxNext[l] ELSE n

listGET_OWNER_OF_NEXT_ENTRY(l) ==
  /\ Kind[l] = "walked" /\ Available(l) /\ uxNumberOfItems[l] > 0
  /\ pxIndex' = [pxIndex EXCEPT ![l] = NextEntry(l)]
  /\ owner' = NextEntry(l)
  /\ UNCHANGED <<pxNext, pxPrevious, xItemValue, pvContainer, uxNumberOfItems, insertion>>

listGET_OWNER_OF_HEAD_ENTRY(l) ==
  /\ Kind[l] # "walked" /\ Available(l) /\ uxNumberOfItems[l] > 0
  /\ owner' = pxNext[l]
  /\ UNCHANGED <<pxNext, pxPrevious, xItemValue, pvContainer, pxIndex, uxNumberOfItems, insertion>>

-----------------------------------------------------------------------------
Next ==
  \/ \E x \in Items : vListRemove(x) \/ \E v \in Values : listSET_LIST_ITEM_VALUE(x, v)
  \/ \E l \in Lists, x \in Items : vListInsertEnd(l, x) \/ vListInsert(l, x)
  \/ InsertIterate \/ InsertLink
  \/ \E l \in Lists : listGET_OWNER_OF_NEXT_ENTRY(l) \/ listGET_OWNER_OF_HEAD_ENTRY(l)

Spec == Init /\ [][Next]_vars

(* An insertion goes on: nothing in its loop waits for anything.           *)
FairSpec == Spec /\ WF_vars(InsertIterate \/ InsertLink)

-----------------------------------------------------------------------------
(* Properties.                                                             *)

Members(l) == {x \in Items : pvContainer[x] = l}
Ring(l) == Members(l) \cup {l}

(* The shape of the state.                                                 *)
TypeOK ==
  /\ pxNext \in [Nodes -> Nodes \cup {NULL}]
  /\ pxPrevious \in [Nodes -> Nodes \cup {NULL}]
  /\ xItemValue \in [Nodes -> Values]
  /\ pvContainer \in [Items -> Lists \cup {NULL}]
  /\ pxIndex \in [Lists -> Nodes]
  /\ uxNumberOfItems \in [Lists -> Nat]
  /\ insertion \in [list : Lists \cup {NULL}, item : Items \cup {NULL},
                    pxIterator : Nodes \cup {NULL}]
  /\ owner \in Nodes \cup {NULL}

(* The items whose container is a list, and its marker, are linked both    *)
(* ways and to nothing else; the index points among them; and the count is *)
(* theirs.  An insertion that is looking for its place is in there too.    *)
IsRing(R, next, previous) ==
  \A n \in R : /\ next[n] \in R /\ previous[next[n]] = n
              /\ previous[n] \in R /\ next[previous[n]] = n

Linked ==
  \A l \in Lists :
    /\ IsRing(Ring(l), pxNext, pxPrevious)
    /\ pxIndex[l] \in Ring(l)
    /\ insertion.list = l => insertion.pxIterator \in Ring(l)

Counted == \A l \in Lists : uxNumberOfItems[l] = Cardinality(Members(l))

(* The marker comes last: each item of a sorted list is followed by one    *)
(* that is not less.                                                       *)
IsSorted(R, l, next, value) ==
  \A x \in R \ {l} : next[x] # l => value[x] <= value[next[x]]

Sorted ==
  \A l \in Lists : Kind[l] = "sorted" => IsSorted(Ring(l), l, pxNext, xItemValue)

(* The pointers, the counts and the order of all lists agree in every      *)
(* state, those in the middle of an insertion included.                    *)
ListsSound == TypeOK /\ Linked /\ Counted /\ Sorted

(* The items of a list in the order they will be read: for a list that is  *)
(* walked from behind its index on, for others from behind its marker on.  *)
From(l) == IF Kind[l] = "walked" THEN pxIndex[l] ELSE l
Walk(l) ==
  LET step[n \in 0 .. Cardinality(Items) + 1] ==
        IF n = 0 THEN From(l) ELSE pxNext[step[n - 1]]
  IN  [n \in 1 .. uxNumberOfItems[l] + 1 |-> step[n]]
InOrder(l) == SelectSeq(Walk(l), LAMBDA n : n # l)

(* Going through a list from its marker meets every member, once.          *)
Reachable ==
  \A l \in Lists :
    /\ Len(InOrder(l)) = uxNumberOfItems[l]
    /\ {InOrder(l)[i] : i \in DOMAIN InOrder(l)} = Members(l)

Abstract == INSTANCE TaskLists WITH
  list <- [l \in Lists |-> InOrder(l)],
  value <- [x \in Items |-> xItemValue[x]],
  NoItem <- NULL

(* The lists are the sequences that RtosTasks takes them for: vListInsertEnd *)
(* puts an item where the walk, or the reading of heads, comes to it last; *)
(* vListInsert behind those of the same value; a removal skips no one; and *)
(* going through a list from its marker meets every member, once.          *)
ListsAreSequences == Abstract!Spec /\ []Reachable

(* vListInsert ends (list.c: "if the xItemValue is the same as the back    *)
(* marker the iteration loop below will not end ... we need to guard       *)
(* against this").                                                         *)
InsertionEnds == insertion # NoInsertion ~> insertion = NoInsertion

=============================================================================
