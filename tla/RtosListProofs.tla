--------------------------- MODULE RtosListProofs ---------------------------
(***************************************************************************)
(* Proofs about RtosList, for any number of lists and items.               *)
(*                                                                         *)
(* A step touches the ring of one list: it splices an item into it or cuts *)
(* one out of it.  The lemmas are about a set of nodes R whose pointers    *)
(* make a ring; the invariant adds to Linked where an insertion in         *)
(* progress has got to.                                                    *)
(***************************************************************************)
EXTENDS RtosList, TLAPS, FiniteSetTheorems

-----------------------------------------------------------------------------
(* Rings.                                                                  *)

(* x is linked into the ring R behind the node at; x is cut out of R.      *)
Spliced(R, x, at, next, previous, next1, previous1) ==
  /\ R \cup {x} \subseteq DOMAIN next /\ R \cup {x} \subseteq DOMAIN previous
  /\ x \notin R /\ at \in R /\ IsRing(R, next, previous)
  /\ next1 = [next EXCEPT ![x] = next[at], ![at] = x]
  /\ previous1 = [previous EXCEPT ![x] = at, ![next[at]] = x]

Cut(R, x, next, previous, next1, previous1) ==
  /\ R \subseteq DOMAIN next /\ R \subseteq DOMAIN previous
  /\ x \in R /\ IsRing(R, next, previous)
  /\ next1 = [next EXCEPT ![previous[x]] = next[x]]
  /\ previous1 = [previous EXCEPT ![next[x]] = previous[x]]

(* Linking a node into a ring behind one of its nodes makes a ring.        *)
LEMMA SpliceRing ==
  ASSUME NEW R, NEW x, NEW at, NEW next, NEW previous, NEW next1, NEW previous1,
         Spliced(R, x, at, next, previous, next1, previous1)
  PROVE  IsRing(R \cup {x}, next1, previous1)
<1>1. /\ next1[x] = next[at] /\ next1[at] = x
      /\ \A n \in R \ {at} : next1[n] = next[n]
  BY SMT DEF IsRing, Spliced
<1>2. /\ previous1[x] = at /\ previous1[next[at]] = x
      /\ \A n \in R \ {next[at]} : previous1[n] = previous[n]
  BY SMT DEF IsRing, Spliced
<1> QED  BY <1>1, <1>2, SMT DEF IsRing, Spliced

(* Cutting a node out of a ring makes a ring of the others.                *)
LEMMA CutRing ==
  ASSUME NEW R, NEW x, NEW next, NEW previous, NEW next1, NEW previous1,
         Cut(R, x, next, previous, next1, previous1)
  PROVE  IsRing(R \ {x}, next1, previous1)
<1>1. next1[previous[x]] = next[x] /\ \A n \in R \ {previous[x]} : next1[n] = next[n]
  BY SMT DEF IsRing, Cut
<1>2. previous1[next[x]] = previous[x] /\ \A n \in R \ {next[x]} : previous1[n] = previous[n]
  BY SMT DEF IsRing, Cut
<1> QED  BY <1>1, <1>2, SMT DEF IsRing, Cut

(* The pointers of nodes outside the ring are not touched by linking.      *)
LEMMA SpliceElsewhere ==
  ASSUME NEW R, NEW x, NEW at, NEW next, NEW previous, NEW next1, NEW previous1,
         Spliced(R, x, at, next, previous, next1, previous1),
         NEW S, S \subseteq DOMAIN next, S \subseteq DOMAIN previous,
         S \cap (R \cup {x}) = {}, IsRing(S, next, previous)
  PROVE  IsRing(S, next1, previous1) /\ \A n \in S : next1[n] = next[n]
BY SMT DEF IsRing, Spliced

(* A node that goes behind one that is not greater and before one that is  *)
(* not less leaves the ring sorted.                                        *)
LEMMA SpliceSorted ==
  ASSUME NEW R, NEW x, NEW at, NEW next, NEW previous, NEW next1, NEW previous1,
         Spliced(R, x, at, next, previous, next1, previous1),
         NEW l \in R, NEW value, \A n \in R \cup {x} : value[n] \in Nat,
         IsSorted(R, l, next, value),
         at # l => value[at] <= value[x],
         next[at] # l => value[x] <= value[next[at]]
  PROVE  IsSorted(R \cup {x}, l, next1, value)
<1>1. /\ next1[x] = next[at] /\ next1[at] = x
      /\ \A n \in R \ {at} : next1[n] = next[n]
  BY SMT DEF IsRing, Spliced
<1> QED  BY <1>1, SMT DEF IsRing, IsSorted, Spliced

(* Cutting a node out leaves it sorted.                                    *)
LEMMA CutSorted ==
  ASSUME NEW R, NEW x, NEW next, NEW previous, NEW next1, NEW previous1,
         Cut(R, x, next, previous, next1, previous1),
         NEW l \in R, x # l, NEW value, \A n \in R : value[n] \in Nat,
         IsSorted(R, l, next, value)
  PROVE  IsSorted(R \ {x}, l, next1, value)
<1>1. next1[previous[x]] = next[x] /\ \A n \in R \ {previous[x]} : next1[n] = next[n]
  BY SMT DEF IsRing, Cut
<1>2. previous[x] # l /\ next[x] # l => value[previous[x]] <= value[next[x]]
  BY SMT DEF IsRing, IsSorted, Cut
<1> QED  BY <1>1, <1>2, SMT DEF IsRing, IsSorted, Cut

(* Going along the ring from l, no node is met twice before l is: each     *)
(* comes after the one before it.                                          *)
IsOrdered(R, l, next) ==
  \E rank \in [R -> Nat] : \A n \in R : next[n] # l => rank[n] < rank[next[n]]

(* Linking keeps the order.                                                *)
LEMMA SpliceOrdered ==
  ASSUME NEW R, NEW x, NEW at, NEW next, NEW previous, NEW next1, NEW previous1,
         Spliced(R, x, at, next, previous, next1, previous1),
         NEW l \in R, IsOrdered(R, l, next)
  PROVE  IsOrdered(R \cup {x}, l, next1)
<1>1. PICK rank \in [R -> Nat] : \A n \in R : next[n] # l => rank[n] < rank[next[n]]
  BY DEF IsOrdered
<1>2. /\ next1[x] = next[at] /\ next1[at] = x /\ x \notin R /\ at \in R
      /\ \A n \in R \ {at} : next1[n] = next[n]
      /\ \A n \in R : next[n] \in R
      /\ \A n \in R : next[n] = next[at] => n = at
  BY SMT DEF IsRing, Spliced
<1> DEFINE rank1 == [n \in R \cup {x} |-> IF n = x THEN 2 * rank[at] + 1 ELSE 2 * rank[n]]
<1>3. rank1 \in [R \cup {x} -> Nat] /\ rank1[x] = 2 * rank[at] + 1
      /\ \A n \in R : rank1[n] = 2 * rank[n]
  BY <1>2
<1> HIDE DEF rank1
<1>4. \A n \in R : rank[n] \in Nat
  OBVIOUS
<1>5. \A n \in R \cup {x} : next1[n] # l => rank1[n] < rank1[next1[n]]
  BY <1>1, <1>2, <1>3, <1>4, SMT
<1> QED  BY <1>3, <1>5 DEF IsOrdered

(* So does cutting.                                                        *)
LEMMA CutOrdered ==
  ASSUME NEW R, NEW x, NEW next, NEW previous, NEW next1, NEW previous1,
         Cut(R, x, next, previous, next1, previous1),
         NEW l \in R, x # l, IsOrdered(R, l, next)
  PROVE  IsOrdered(R \ {x}, l, next1)
<1>1. PICK rank \in [R -> Nat] : \A n \in R : next[n] # l => rank[n] < rank[next[n]]
  BY DEF IsOrdered
<1>2. /\ x \in R /\ next[x] \in R /\ previous[x] \in R /\ next[previous[x]] = x
      /\ next1[previous[x]] = next[x]
      /\ \A n \in R \ {previous[x]} : next1[n] = next[n]
      /\ \A n \in R : next[n] \in R
      /\ \A n \in R : next[n] = x => n = previous[x]
  BY SMT DEF IsRing, Cut
<1> DEFINE rank1 == [n \in R \ {x} |-> rank[n]]
<1>3. rank1 \in [R \ {x} -> Nat] /\ \A n \in R \ {x} : rank1[n] = rank[n]
  OBVIOUS
<1> HIDE DEF rank1
<1>4. \A n \in R : rank[n] \in Nat
  OBVIOUS
<1>5. next[x] # x
  BY <1>1, <1>2, <1>4, SMT
<1>6. \A n \in R \ {x} : next1[n] # l => rank1[n] < rank1[next1[n]]
  BY <1>1, <1>2, <1>3, <1>4, <1>5, SMT
<1> QED  BY <1>3, <1>6 DEF IsOrdered

(* The order only depends on the pointers of the ring.                     *)
LEMMA OrderedElsewhere ==
  ASSUME NEW R, NEW l, NEW next, NEW next1, IsOrdered(R, l, next),
         \A n \in R : next1[n] = next[n]
  PROVE  IsOrdered(R, l, next1)
BY DEF IsOrdered

(* In order, only the marker follows itself.                               *)
LEMMA NoLoop ==
  ASSUME NEW R, NEW l, NEW next, IsOrdered(R, l, next), NEW x \in R, x # l
  PROVE  next[x] # x
BY SMT DEF IsOrdered

-----------------------------------------------------------------------------
(* The invariant.                                                          *)

(* Every ring is in order.                                                 *)
AllOrdered == \A l \in Lists : IsOrdered(Ring(l), l, pxNext)

(* An insertion in progress is of an item that is in no list into a sorted *)
(* list, at a node that is not greater, and for the greatest value at the  *)
(* last one.                                                               *)
InsertionOK ==
  insertion # NoInsertion =>
    /\ insertion.list \in Lists /\ Kind[insertion.list] = "sorted"
    /\ insertion.item \in Items /\ pvContainer[insertion.item] = NULL
    /\ insertion.pxIterator # insertion.list =>
         xItemValue[insertion.pxIterator] <= xItemValue[insertion.item]
    /\ xItemValue[insertion.item] = portMAX_DELAY =>
         pxNext[insertion.pxIterator] = insertion.list

IInv == TypeOK /\ Linked /\ AllOrdered /\ Counted /\ Sorted /\ InsertionOK

(* The rings of two lists share no node.                                   *)
LEMMA RingsApart ==
  ASSUME TypeOK
  PROVE  /\ \A l \in Lists : Ring(l) \subseteq Nodes /\ l \in Ring(l)
         /\ \A l, m \in Lists : l # m => Ring(l) \cap Ring(m) = {}
         /\ \A x \in Items : pvContainer[x] = NULL => \A l \in Lists : x \notin Ring(l)
BY ListsAssumption, SMT DEF TypeOK, Ring, Members, Nodes

(* What linking an item behind a node of list l does to all rings.         *)
LEMMA SpliceStep ==
  ASSUME TypeOK, Linked, AllOrdered, Counted,
         NEW l \in Lists, NEW x \in Items, pvContainer[x] = NULL,
         NEW at \in Ring(l), LinkAfter(x, at),
         pvContainer' = [pvContainer EXCEPT ![x] = l],
         uxNumberOfItems' = [uxNumberOfItems EXCEPT ![l] = @ + 1]
  PROVE  /\ pxNext' \in [Nodes -> Nodes \cup {NULL}]
         /\ pxPrevious' \in [Nodes -> Nodes \cup {NULL}]
         /\ pvContainer' \in [Items -> Lists \cup {NULL}]
         /\ uxNumberOfItems' \in [Lists -> Nat]
         /\ Spliced(Ring(l), x, at, pxNext, pxPrevious, pxNext', pxPrevious')
         /\ Ring(l)' = Ring(l) \cup {x}
         /\ \A m \in Lists \ {l} :
              Ring(m)' = Ring(m) /\ \A n \in Ring(m) : pxNext'[n] = pxNext[n]
         /\ \A m \in Lists : IsRing(Ring(m)', pxNext', pxPrevious')
         /\ AllOrdered' /\ Counted'
<1>1. /\ x \in Nodes \ Ring(l) /\ Ring(l) \subseteq Nodes
      /\ DOMAIN pxNext = Nodes /\ DOMAIN pxPrevious = Nodes
      /\ IsRing(Ring(l), pxNext, pxPrevious)
  BY RingsApart, SMT DEF TypeOK, Nodes, Linked
<1>2. /\ pxNext' = [pxNext EXCEPT ![x] = pxNext[at], ![at] = x]
      /\ pxPrevious' = [pxPrevious EXCEPT ![x] = at, ![pxNext[at]] = x]
      /\ Spliced(Ring(l), x, at, pxNext, pxPrevious, pxNext', pxPrevious')
  BY <1>1, SMT DEF LinkAfter, Spliced
<1>3. /\ pxNext' \in [Nodes -> Nodes \cup {NULL}]
      /\ pxPrevious' \in [Nodes -> Nodes \cup {NULL}]
      /\ pvContainer' \in [Items -> Lists \cup {NULL}]
      /\ uxNumberOfItems' \in [Lists -> Nat]
  <2>1. /\ at \in Nodes /\ pxNext[at] \in Nodes /\ x \in Nodes
        /\ pxNext \in [Nodes -> Nodes \cup {NULL}]
        /\ pxPrevious \in [Nodes -> Nodes \cup {NULL}]
    BY <1>1, SMT DEF TypeOK, IsRing
  <2>2. /\ pxNext' \in [Nodes -> Nodes \cup {NULL}]
        /\ pxPrevious' \in [Nodes -> Nodes \cup {NULL}]
    BY <1>2, <2>1
  <2> QED  BY <2>2, SMT DEF TypeOK
<1>4. Members(l)' = Members(l) \cup {x} /\ Ring(l)' = Ring(l) \cup {x}
  BY <1>3, SMT DEF TypeOK, Ring, Members
<1>5. \A m \in Lists \ {l} : Members(m)' = Members(m) /\ Ring(m)' = Ring(m)
  BY <1>3, ListsAssumption, SMT DEF TypeOK, Ring, Members
<1>6. IsRing(Ring(l)', pxNext', pxPrevious')
  BY <1>2, <1>4, SpliceRing
<1>7. ASSUME NEW m \in Lists \ {l}
      PROVE  /\ IsRing(Ring(m)', pxNext', pxPrevious')
             /\ \A n \in Ring(m) : pxNext'[n] = pxNext[n]
  <2>1. /\ Ring(m) \subseteq DOMAIN pxNext /\ Ring(m) \subseteq DOMAIN pxPrevious
        /\ Ring(m) \cap (Ring(l) \cup {x}) = {} /\ IsRing(Ring(m), pxNext, pxPrevious)
    BY RingsApart, SMT DEF Linked, TypeOK
  <2>2. IsRing(Ring(m), pxNext', pxPrevious') /\ \A n \in Ring(m) : pxNext'[n] = pxNext[n]
    BY <1>2, <2>1, SpliceElsewhere
  <2> QED  BY <1>5, <2>2
<1>9. AllOrdered'
  <2>1. IsOrdered(Ring(l)', l, pxNext')
    BY <1>2, <1>4, SpliceOrdered, RingsApart DEF AllOrdered
  <2>2. \A m \in Lists \ {l} : IsOrdered(Ring(m)', m, pxNext')
    BY <1>5, <1>7, OrderedElsewhere DEF AllOrdered
  <2> QED  BY <2>1, <2>2 DEF AllOrdered
<1>8. Counted'
  <2>1. IsFiniteSet(Members(l)) /\ x \notin Members(l)
    BY ListsAssumption, FS_Subset, SMT DEF Members
  <2>2. Cardinality(Members(l) \cup {x}) = Cardinality(Members(l)) + 1
    BY <2>1, FS_AddElement
  <2> QED  BY <1>4, <1>5, <2>2, SMT DEF Counted, TypeOK
<1> QED  BY <1>2, <1>3, <1>4, <1>5, <1>6, <1>7, <1>8, <1>9

(* What cutting an item out of its list does to all rings.                 *)
LEMMA CutStep ==
  ASSUME TypeOK, Linked, AllOrdered, Counted,
         NEW l \in Lists, NEW x \in Items, pvContainer[x] = l,
         pxPrevious' = [pxPrevious EXCEPT ![pxNext[x]] = pxPrevious[x]],
         pxNext' = [pxNext EXCEPT ![pxPrevious[x]] = pxNext[x]],
         pvContainer' = [pvContainer EXCEPT ![x] = NULL],
         uxNumberOfItems' = [uxNumberOfItems EXCEPT ![l] = @ - 1]
  PROVE  /\ pxNext' \in [Nodes -> Nodes \cup {NULL}]
         /\ pxPrevious' \in [Nodes -> Nodes \cup {NULL}]
         /\ pvContainer' \in [Items -> Lists \cup {NULL}]
         /\ uxNumberOfItems' \in [Lists -> Nat]
         /\ x # l /\ Cut(Ring(l), x, pxNext, pxPrevious, pxNext', pxPrevious')
         /\ Ring(l)' = Ring(l) \ {x}
         /\ \A m \in Lists \ {l} :
              Ring(m)' = Ring(m) /\ \A n \in Ring(m) : pxNext'[n] = pxNext[n]
         /\ \A m \in Lists : IsRing(Ring(m)', pxNext', pxPrevious')
         /\ AllOrdered' /\ Counted'
<1>1. /\ x \in Ring(l) /\ x # l /\ Ring(l) \subseteq Nodes
      /\ IsRing(Ring(l), pxNext, pxPrevious)
  <2>1. x \in Ring(l) /\ x # l
    BY ListsAssumption, SMT DEF Ring, Members
  <2>2. Ring(l) \subseteq Nodes
    BY RingsApart
  <2> QED  BY <2>1, <2>2 DEF Linked
<1>0. Cut(Ring(l), x, pxNext, pxPrevious, pxNext', pxPrevious')
  BY <1>1, SMT DEF Cut, TypeOK
<1>2. /\ pxNext' \in [Nodes -> Nodes \cup {NULL}]
      /\ pxPrevious' \in [Nodes -> Nodes \cup {NULL}]
  <2>1. /\ pxNext[x] \in Nodes /\ pxPrevious[x] \in Nodes
        /\ pxNext \in [Nodes -> Nodes \cup {NULL}]
        /\ pxPrevious \in [Nodes -> Nodes \cup {NULL}]
    BY <1>1, SMT DEF TypeOK, IsRing
  <2> QED  BY <2>1
<1>3. pvContainer' \in [Items -> Lists \cup {NULL}]
  BY SMT DEF TypeOK
<1>4. Members(l)' = Members(l) \ {x} /\ Ring(l)' = Ring(l) \ {x}
  BY <1>1, <1>3, ListsAssumption, SMT DEF TypeOK, Ring, Members
<1>5. \A m \in Lists \ {l} : Members(m)' = Members(m) /\ Ring(m)' = Ring(m)
  BY <1>3, ListsAssumption, SMT DEF TypeOK, Ring, Members
<1>6. IsRing(Ring(l)', pxNext', pxPrevious')
  BY <1>0, <1>4, CutRing
<1>7. ASSUME NEW m \in Lists \ {l}
      PROVE  /\ IsRing(Ring(m)', pxNext', pxPrevious')
             /\ \A n \in Ring(m) : pxNext'[n] = pxNext[n]
  <2>1. /\ Ring(m) \subseteq DOMAIN pxNext /\ Ring(m) \subseteq DOMAIN pxPrevious
        /\ \A n \in Ring(m) : n \notin Ring(l)
        /\ IsRing(Ring(m), pxNext, pxPrevious)
    BY RingsApart, SMT DEF Linked, TypeOK
  <2>2. IsRing(Ring(m), pxNext', pxPrevious') /\ \A n \in Ring(m) : pxNext'[n] = pxNext[n]
    <3>1. pxNext[x] \in Ring(l) /\ pxPrevious[x] \in Ring(l)
      BY <1>1 DEF IsRing
    <3>2. \A n \in Ring(m) : pxNext'[n] = pxNext[n] /\ pxPrevious'[n] = pxPrevious[n]
      BY <2>1, <3>1
    <3> QED  BY <2>1, <3>2 DEF IsRing
  <2> QED  BY <1>5, <2>2
<1>9. AllOrdered'
  <2>1. IsOrdered(Ring(l)', l, pxNext')
    BY <1>0, <1>1, <1>4, CutOrdered, RingsApart DEF AllOrdered
  <2>2. ASSUME NEW m \in Lists \ {l} PROVE IsOrdered(Ring(m)', m, pxNext')
    <3>1. IsOrdered(Ring(m), m, pxNext)
      BY DEF AllOrdered
    <3>2. \A n \in Ring(m) : pxNext'[n] = pxNext[n]
      BY <1>7
    <3> QED  BY <1>5, <3>1, <3>2, OrderedElsewhere, ZenonT(40)
  <2> QED  BY <2>1, <2>2 DEF AllOrdered
<1>8. Counted' /\ uxNumberOfItems' \in [Lists -> Nat]
  <2>1. IsFiniteSet(Members(l)) /\ x \in Members(l)
    BY ListsAssumption, FS_Subset, SMT DEF Members
  <2>2. /\ Cardinality(Members(l) \ {x}) = Cardinality(Members(l)) - 1
        /\ IsFiniteSet(Members(l) \ {x})
    BY <2>1, FS_RemoveElement
  <2>3. Cardinality(Members(l) \ {x}) \in Nat
    BY <2>2, FS_CardinalityType
  <2>4. uxNumberOfItems \in [Lists -> Nat] /\ uxNumberOfItems[l] - 1 \in Nat
    BY <2>2, <2>3, SMT DEF Counted, TypeOK
  <2>5. uxNumberOfItems' \in [Lists -> Nat] /\ uxNumberOfItems'[l] = uxNumberOfItems[l] - 1
        /\ \A m \in Lists \ {l} : uxNumberOfItems'[m] = uxNumberOfItems[m]
    BY <2>4
  <2>6. ASSUME NEW m \in Lists PROVE uxNumberOfItems'[m] = Cardinality(Members(m)')
    <3>1. CASE m = l
      BY <1>4, <2>2, <2>5, <3>1 DEF Counted
    <3>2. CASE m # l
      BY <1>5, <2>5, <3>2 DEF Counted
    <3> QED  BY <3>1, <3>2
  <2> QED  BY <2>5, <2>6 DEF Counted
<1> QED  BY <1>0, <1>1, <1>2, <1>3, <1>4, <1>5, <1>6, <1>7, <1>8, <1>9

-----------------------------------------------------------------------------
(* The invariant holds at the start.                                       *)
LEMMA InitInv == Init => IInv
<1> SUFFICES ASSUME Init PROVE IInv
  OBVIOUS
<1>1. TypeOK
  BY ListsAssumption, SMT DEF Init, InitialIndex, TypeOK, Nodes, Values, NoInsertion
<1>2. \A l \in Lists : Members(l) = {} /\ Ring(l) = {l}
  BY ListsAssumption, SMT DEF Init, Members, Ring
<1>3. Linked
  BY <1>2, ListsAssumption, SMT DEF Init, InitialIndex, Linked, IsRing, NoInsertion, Nodes
<1>4. Counted
  BY <1>2, FS_EmptySet, SMT DEF Init, Counted
<1>7. AllOrdered
  <2> SUFFICES ASSUME NEW l \in Lists PROVE IsOrdered({l}, l, pxNext)
    BY <1>2 DEF AllOrdered
  <2>1. [n \in {l} |-> 0] \in [{l} -> Nat] /\ pxNext[l] = l
    BY SMT DEF Init, Nodes
  <2> QED  BY <2>1 DEF IsOrdered
<1>5. Sorted
  BY <1>2, SMT DEF Sorted, IsSorted
<1>6. InsertionOK
  BY DEF Init, InsertionOK
<1> QED  BY <1>1, <1>3, <1>4, <1>5, <1>6, <1>7 DEF IInv

(* vListInsertEnd preserves the invariant.                                 *)
LEMMA InsertEndInv ==
  ASSUME IInv, NEW l \in Lists, NEW x \in Items, vListInsertEnd(l, x)
  PROVE  IInv'
<1> USE DEF IInv
<1>1. pxIndex[l] \in Ring(l) /\ pvContainer[x] = NULL
  BY DEF Linked, vListInsertEnd, Free
<1>2. /\ pxNext' \in [Nodes -> Nodes \cup {NULL}]
      /\ pxPrevious' \in [Nodes -> Nodes \cup {NULL}]
      /\ pvContainer' \in [Items -> Lists \cup {NULL}]
      /\ uxNumberOfItems' \in [Lists -> Nat]
      /\ Ring(l)' = Ring(l) \cup {x}
      /\ \A m \in Lists \ {l} :
           Ring(m)' = Ring(m) /\ \A n \in Ring(m) : pxNext'[n] = pxNext[n]
      /\ \A m \in Lists : IsRing(Ring(m)', pxNext', pxPrevious')
      /\ AllOrdered' /\ Counted'
  BY <1>1, SpliceStep DEF vListInsertEnd
<1>3. TypeOK'
  BY <1>2, SMT DEF vListInsertEnd, TypeOK, Nodes
<1>4. Linked'
  BY <1>2, SMT DEF vListInsertEnd, Linked, Available, TypeOK
<1>5. Sorted'
  BY <1>2, SMT DEF vListInsertEnd, Sorted, IsSorted
<1>6. InsertionOK'
  <2> SUFFICES ASSUME insertion # NoInsertion PROVE InsertionOK'
    BY DEF InsertionOK, vListInsertEnd
  <2>1. insertion.list \in Lists \ {l} /\ insertion.item # x
    BY SMT DEF InsertionOK, vListInsertEnd, Available, Free
  <2>2. insertion.pxIterator \in Ring(insertion.list)
    BY <2>1 DEF Linked
  <2>3. pxNext'[insertion.pxIterator] = pxNext[insertion.pxIterator]
    BY <1>2, <2>1, <2>2
  <2> QED  BY <2>1, <2>3, SMT DEF InsertionOK, vListInsertEnd, TypeOK
<1> QED  BY <1>2, <1>3, <1>4, <1>5, <1>6

(* vListInsert preserves it where it starts.                               *)
LEMMA InsertInv ==
  ASSUME IInv, NEW l \in Lists, NEW x \in Items, vListInsert(l, x)
  PROVE  IInv'
<1> USE DEF IInv
<1>1. pxPrevious[l] \in Ring(l) /\ pxNext[pxPrevious[l]] = l /\ l \in Ring(l)
  BY RingsApart, SMT DEF Linked, IsRing
<1>2. insertion'.list = l /\ insertion'.item = x /\ insertion'.pxIterator \in Ring(l)
  BY <1>1, SMT DEF vListInsert
<1>3. TypeOK'
  BY <1>1, RingsApart, SMT DEF TypeOK, vListInsert, Nodes
<1>4. \A m \in Lists : Ring(m)' = Ring(m) /\ Members(m)' = Members(m)
  BY SMT DEF Ring, Members, vListInsert
<1>5. Linked'
  BY <1>2, <1>4, SMT DEF Linked, vListInsert, IsRing
<1>6. Counted' /\ Sorted' /\ AllOrdered'
  BY <1>4, SMT DEF Counted, Sorted, IsSorted, AllOrdered, vListInsert
<1>7. InsertionOK'
  <2>1. l \in Nodes /\ pxPrevious[l] \in Nodes /\ xItemValue[pxPrevious[l]] <= portMAX_DELAY
    BY <1>1, RingsApart, ListsAssumption, SMT DEF TypeOK, Values
  <2> QED  BY <1>1, <2>1, SMT DEF InsertionOK, vListInsert, Searches, Free
<1> QED  BY <1>3, <1>5, <1>6, <1>7

(* An iteration of its loop preserves it.                                  *)
LEMMA IterateInv ==
  ASSUME IInv, InsertIterate
  PROVE  IInv'
<1> USE DEF IInv
<1> DEFINE l == insertion.list
           x == insertion.item
           at == insertion.pxIterator
<1>1. /\ l \in Lists /\ x \in Items /\ at \in Ring(l)
      /\ xItemValue[pxNext[at]] <= xItemValue[x] /\ xItemValue[x] # portMAX_DELAY
  BY SMT DEF InsertIterate, InsertionOK, Linked, NotYet, Searches
<1>2. pxNext[at] \in Ring(l) /\ pxNext[at] \in Nodes
  BY <1>1, RingsApart, SMT DEF Linked, IsRing
<1>3. insertion' = [insertion EXCEPT !.pxIterator = pxNext[at]]
  BY DEF InsertIterate
<1>4. insertion'.list = l /\ insertion'.item = x /\ insertion'.pxIterator = pxNext[at]
  BY <1>3, SMT DEF TypeOK
<1>5. TypeOK'
  BY <1>2, <1>3, SMT DEF TypeOK, InsertIterate
<1>6. \A m \in Lists : Ring(m)' = Ring(m) /\ Members(m)' = Members(m)
  BY SMT DEF Ring, Members, InsertIterate
<1>7. Linked'
  BY <1>2, <1>4, <1>6, SMT DEF Linked, InsertIterate, IsRing
<1>8. Counted' /\ Sorted' /\ AllOrdered'
  BY <1>6, SMT DEF Counted, Sorted, IsSorted, AllOrdered, InsertIterate
<1>9. InsertionOK'
  BY <1>1, <1>4, SMT DEF InsertionOK, InsertIterate
<1> QED  BY <1>5, <1>7, <1>8, <1>9

(* The linking at the end of vListInsert preserves it.                     *)
LEMMA LinkInv ==
  ASSUME IInv, InsertLink
  PROVE  IInv'
<1> USE DEF IInv
<1>0. PICK l \in Lists, x \in Items, at \in Nodes :
        insertion.list = l /\ insertion.item = x /\ insertion.pxIterator = at
  BY RingsApart, SMT DEF InsertLink, InsertionOK, Linked
<1>1. /\ l \in Ring(l) /\ at \in Ring(l) /\ pvContainer[x] = NULL
      /\ ~NotYet(x, at) /\ LinkAfter(x, at)
      /\ pvContainer' = [pvContainer EXCEPT ![x] = l]
      /\ uxNumberOfItems' = [uxNumberOfItems EXCEPT ![l] = @ + 1]
  BY <1>0, RingsApart DEF InsertLink, InsertionOK, Linked
<1>2. /\ pxNext' \in [Nodes -> Nodes \cup {NULL}]
      /\ pxPrevious' \in [Nodes -> Nodes \cup {NULL}]
      /\ pvContainer' \in [Items -> Lists \cup {NULL}]
      /\ uxNumberOfItems' \in [Lists -> Nat]
      /\ Spliced(Ring(l), x, at, pxNext, pxPrevious, pxNext', pxPrevious')
      /\ Ring(l)' = Ring(l) \cup {x}
      /\ \A m \in Lists \ {l} :
           Ring(m)' = Ring(m) /\ \A n \in Ring(m) : pxNext'[n] = pxNext[n]
      /\ \A m \in Lists : IsRing(Ring(m)', pxNext', pxPrevious')
      /\ AllOrdered' /\ Counted'
  BY <1>1, SpliceStep
<1>3. TypeOK'
  BY <1>2, SMT DEF InsertLink, TypeOK, NoInsertion
<1>4. Linked'
  BY <1>2, ListsAssumption, SMT DEF InsertLink, Linked, NoInsertion, Nodes
<1>5. Sorted'
  <2>1. /\ xItemValue' = xItemValue
        /\ \A n \in Nodes : xItemValue[n] \in Nat /\ xItemValue[n] <= portMAX_DELAY
    BY ListsAssumption, SMT DEF InsertLink, TypeOK, Values
  <2>2. Kind[l] = "sorted" /\ IsSorted(Ring(l), l, pxNext, xItemValue)
    BY <1>0, <1>1, SMT DEF InsertLink, InsertionOK, Sorted
  <2>3. Ring(l) \cup {x} \subseteq Nodes /\ pxNext[at] \in Nodes /\ x \in Nodes
    BY <1>1, RingsApart, SMT DEF Linked, IsRing, Nodes
  <2>4. at # l => xItemValue[at] <= xItemValue[x]
    BY <1>0 DEF InsertLink, InsertionOK
  <2>5. pxNext[at] # l => xItemValue[x] <= xItemValue[pxNext[at]]
    <3>1. CASE Searches(x)
      BY <1>1, <2>1, <2>3, <3>1, SMT DEF NotYet
    <3>2. CASE ~Searches(x)
      BY <1>0, <3>2 DEF Searches, InsertLink, InsertionOK
    <3> QED  BY <3>1, <3>2
  <2>6. IsSorted(Ring(l) \cup {x}, l, pxNext', xItemValue)
    BY <1>1, <1>2, <2>1, <2>2, <2>3, <2>4, <2>5, SpliceSorted
  <2>7. \A m \in Lists \ {l} : Kind[m] = "sorted" => IsSorted(Ring(m), m, pxNext', xItemValue)
    BY <1>2, SMT DEF Sorted, IsSorted
  <2>8. ASSUME NEW m \in Lists, Kind[m] = "sorted"
        PROVE  IsSorted(Ring(m)', m, pxNext', xItemValue')
    <3>1. CASE m = l
      BY <1>2, <2>1, <2>6, <3>1
    <3>2. CASE m # l
      BY <1>2, <2>1, <2>7, <2>8, <3>2
    <3> QED  BY <3>1, <3>2
  <2> QED  BY <2>8 DEF Sorted
<1>6. InsertionOK'
  BY DEF InsertLink, InsertionOK
<1> QED  BY <1>2, <1>3, <1>4, <1>5, <1>6

(* vListRemove preserves it.                                               *)
LEMMA RemoveInv ==
  ASSUME IInv, NEW x \in Items, vListRemove(x)
  PROVE  IInv'
<1> USE DEF IInv
<1>0. PICK l \in Lists : pvContainer[x] = l
  BY SMT DEF vListRemove, TypeOK
<1>1. /\ insertion.list # l
      /\ pxPrevious' = [pxPrevious EXCEPT ![pxNext[x]] = pxPrevious[x]]
      /\ pxNext' = [pxNext EXCEPT ![pxPrevious[x]] = pxNext[x]]
      /\ pxIndex' = [pxIndex EXCEPT ![l] = IndexWithout(l, x)]
      /\ pvContainer' = [pvContainer EXCEPT ![x] = NULL]
      /\ uxNumberOfItems' = [uxNumberOfItems EXCEPT ![l] = @ - 1]
  BY <1>0 DEF vListRemove, Available
<1>2. /\ pxNext' \in [Nodes -> Nodes \cup {NULL}]
      /\ pxPrevious' \in [Nodes -> Nodes \cup {NULL}]
      /\ pvContainer' \in [Items -> Lists \cup {NULL}]
      /\ uxNumberOfItems' \in [Lists -> Nat]
      /\ x # l /\ Cut(Ring(l), x, pxNext, pxPrevious, pxNext', pxPrevious')
      /\ Ring(l)' = Ring(l) \ {x}
      /\ \A m \in Lists \ {l} :
           Ring(m)' = Ring(m) /\ \A n \in Ring(m) : pxNext'[n] = pxNext[n]
      /\ \A m \in Lists : IsRing(Ring(m)', pxNext', pxPrevious')
      /\ AllOrdered' /\ Counted'
  BY <1>0, <1>1, CutStep
<1>3. /\ l \in Ring(l) /\ x \in Ring(l) /\ Ring(l) \subseteq Nodes
      /\ IsRing(Ring(l), pxNext, pxPrevious)
  BY <1>2, RingsApart DEF Cut
<1>4. IndexWithout(l, x) \in Ring(l) \ {x}
  <2>1. pxNext[x] # x
    BY <1>2, <1>3, NoLoop DEF AllOrdered
  <2>2. pxIndex[l] \in Ring(l)
    BY DEF Linked
  <2> QED  BY <1>3, <2>1, <2>2, SMT DEF IndexWithout, IsRing
<1>5. TypeOK'
  <2>1. pxIndex' \in [Lists -> Nodes]
    BY <1>1, <1>3, <1>4, SMT DEF TypeOK
  <2> QED  BY <1>2, <2>1, SMT DEF vListRemove, TypeOK
<1>6. Linked'
  <2>1. pxIndex'[l] \in Ring(l)' /\ \A m \in Lists \ {l} : pxIndex'[m] \in Ring(m)'
    BY <1>1, <1>2, <1>4, SMT DEF Linked, TypeOK
  <2>2. \A m \in Lists : insertion.list = m => insertion.pxIterator \in Ring(m)'
    BY <1>1, <1>2, SMT DEF Linked
  <2>3. insertion' = insertion
    BY DEF vListRemove
  <2> QED  BY <1>2, <2>1, <2>2, <2>3 DEF Linked
<1>7. Sorted'
  <2>1. /\ xItemValue' = xItemValue
        /\ \A n \in Ring(l) : xItemValue[n] \in Nat
    BY <1>3, ListsAssumption, SMT DEF vListRemove, TypeOK, Values
  <2>2. Kind[l] = "sorted" => IsSorted(Ring(l) \ {x}, l, pxNext', xItemValue)
    BY <1>2, <1>3, <2>1, CutSorted DEF Sorted
  <2>3. \A m \in Lists \ {l} : Kind[m] = "sorted" => IsSorted(Ring(m), m, pxNext', xItemValue)
    BY <1>2, SMT DEF Sorted, IsSorted
  <2> SUFFICES ASSUME NEW m \in Lists, Kind[m] = "sorted"
               PROVE  IsSorted(Ring(m)', m, pxNext', xItemValue')
    BY DEF Sorted
  <2>4. CASE m = l
    BY <1>2, <2>1, <2>2, <2>4, Zenon
  <2>5. CASE m # l
    BY <1>2, <2>1, <2>3, <2>5, Zenon
  <2> QED  BY <2>4, <2>5
<1>8. InsertionOK'
  <2> SUFFICES ASSUME insertion # NoInsertion PROVE InsertionOK'
    BY DEF InsertionOK, vListRemove
  <2>1. insertion.list \in Lists \ {l} /\ pvContainer[insertion.item] = NULL
    BY <1>1 DEF InsertionOK
  <2>2. insertion.pxIterator \in Ring(insertion.list)
    BY <2>1 DEF Linked
  <2>3. pxNext'[insertion.pxIterator] = pxNext[insertion.pxIterator]
    BY <1>2, <2>1, <2>2
  <2>4. pvContainer'[insertion.item] = NULL
    BY <1>1, <2>1, SMT DEF TypeOK, InsertionOK
  <2> QED  BY <2>1, <2>3, <2>4, SMT DEF InsertionOK, vListRemove
<1> QED  BY <1>2, <1>5, <1>6, <1>7, <1>8

(* The steps that move no pointer but an index preserve it.                *)
LEMMA ReadInv ==
  ASSUME IInv, NEW l \in Lists,
         listGET_OWNER_OF_NEXT_ENTRY(l) \/ listGET_OWNER_OF_HEAD_ENTRY(l)
  PROVE  IInv'
<1> USE DEF IInv
<1>1. /\ \A m \in Lists : Ring(m)' = Ring(m) /\ Members(m)' = Members(m)
      /\ UNCHANGED <<pxNext, pxPrevious, xItemValue, pvContainer, uxNumberOfItems, insertion>>
  BY DEF Ring, Members, listGET_OWNER_OF_NEXT_ENTRY, listGET_OWNER_OF_HEAD_ENTRY
<1>2. pxNext[l] \in Ring(l) /\ NextEntry(l) \in Ring(l) /\ Ring(l) \subseteq Nodes
  BY RingsApart, SMT DEF Linked, IsRing, NextEntry
<1>3. TypeOK' /\ \A m \in Lists : pxIndex'[m] \in Ring(m)
  <2>1. CASE listGET_OWNER_OF_NEXT_ENTRY(l)
    BY <1>1, <1>2, <2>1, SMT DEF listGET_OWNER_OF_NEXT_ENTRY, TypeOK, Linked
  <2>2. CASE listGET_OWNER_OF_HEAD_ENTRY(l)
    BY <1>1, <1>2, <2>2, SMT DEF listGET_OWNER_OF_HEAD_ENTRY, TypeOK, Linked
  <2> QED  BY <2>1, <2>2
<1>4. Linked' /\ AllOrdered' /\ Counted'
  BY <1>1, <1>3, SMT DEF Linked, AllOrdered, Counted
<1>5. Sorted' /\ InsertionOK'
  BY <1>1, SMT DEF Sorted, InsertionOK
<1> QED  BY <1>3, <1>4, <1>5

(* Giving a value to an item that is in no list preserves it.              *)
LEMMA SetValueInv ==
  ASSUME IInv, NEW x \in Items, NEW v \in Values, listSET_LIST_ITEM_VALUE(x, v)
  PROVE  IInv'
<1> USE DEF IInv
<1>1. /\ \A m \in Lists : Ring(m)' = Ring(m) /\ Members(m)' = Members(m)
      /\ UNCHANGED <<pxNext, pxPrevious, pvContainer, pxIndex, uxNumberOfItems,
                     insertion, owner>>
      /\ xItemValue' = [xItemValue EXCEPT ![x] = v]
      /\ pvContainer[x] = NULL /\ insertion.item # x
  BY DEF Ring, Members, listSET_LIST_ITEM_VALUE, Free
<1>2. TypeOK'
  <2>1. xItemValue' \in [Nodes -> Values]
    BY <1>1 DEF TypeOK
  <2> QED  BY <1>1, <2>1 DEF TypeOK
<1>3. Linked' /\ AllOrdered' /\ Counted'
  BY <1>1, SMT DEF Linked, AllOrdered, Counted
<1>4. \A m \in Lists : \A n \in Ring(m) : xItemValue'[n] = xItemValue[n]
  BY <1>1, RingsApart, SMT DEF TypeOK
<1>5. Sorted'
  <2>1. \A m \in Lists : \A n \in Ring(m) : pxNext[n] \in Ring(m)
    BY DEF Linked, IsRing
  <2> QED  BY <1>1, <1>4, <2>1, SMT DEF Sorted, IsSorted
<1>6. InsertionOK'
  <2> SUFFICES ASSUME insertion # NoInsertion PROVE InsertionOK'
    BY <1>1 DEF InsertionOK
  <2>1. /\ xItemValue'[insertion.pxIterator] = xItemValue[insertion.pxIterator]
        /\ xItemValue'[insertion.item] = xItemValue[insertion.item]
    BY <1>1, <1>4, SMT DEF InsertionOK, Linked, TypeOK, Nodes
  <2> QED  BY <1>1, <2>1, SMT DEF InsertionOK
<1> QED  BY <1>2, <1>3, <1>5, <1>6

-----------------------------------------------------------------------------
(* The theorems.                                                           *)

(* Every state satisfies the invariant.                                    *)
LEMMA Invariant == Spec => []IInv
<1>1. Init => IInv
  BY InitInv
<1>2. IInv /\ [Next]_vars => IInv'
  <2> SUFFICES ASSUME IInv, [Next]_vars PROVE IInv'
    OBVIOUS
  <2>1. CASE UNCHANGED vars
    BY <2>1, SMT DEF vars, IInv, TypeOK, Linked, AllOrdered, Counted, Sorted, InsertionOK,
                     Ring, Members
  <2>2. ASSUME NEW x \in Items, vListRemove(x) PROVE IInv'
    BY <2>2, RemoveInv
  <2>3. ASSUME NEW x \in Items, NEW v \in Values, listSET_LIST_ITEM_VALUE(x, v) PROVE IInv'
    BY <2>3, SetValueInv
  <2>4. ASSUME NEW l \in Lists, NEW x \in Items, vListInsertEnd(l, x) PROVE IInv'
    BY <2>4, InsertEndInv
  <2>5. ASSUME NEW l \in Lists, NEW x \in Items, vListInsert(l, x) PROVE IInv'
    BY <2>5, InsertInv
  <2>6. CASE InsertIterate
    BY <2>6, IterateInv
  <2>7. CASE InsertLink
    BY <2>7, LinkInv
  <2>8. ASSUME NEW l \in Lists,
               listGET_OWNER_OF_NEXT_ENTRY(l) \/ listGET_OWNER_OF_HEAD_ENTRY(l)
        PROVE  IInv'
    BY <2>8, ReadInv
  <2> QED  BY <2>1, <2>2, <2>3, <2>4, <2>5, <2>6, <2>7, <2>8 DEF Next
<1> QED  BY <1>1, <1>2, PTL DEF Spec

(* Every variable of the lists has its type.                               *)
THEOREM ListTypes == Spec => []TypeOK
<1>1. IInv => TypeOK
  BY DEF IInv
<1> QED  BY <1>1, Invariant, PTL

(* The items whose container is a list are linked both ways with its       *)
(* marker and with nothing else, whatever happens to other lists while an  *)
(* item is being inserted.                                                 *)
THEOREM ListsLinked == Spec => []Linked
<1>1. IInv => Linked
  BY DEF IInv
<1> QED  BY <1>1, Invariant, PTL

(* uxNumberOfItems is the number of those items.                           *)
THEOREM ListsCounted == Spec => []Counted
<1>1. IInv => Counted
  BY DEF IInv
<1> QED  BY <1>1, Invariant, PTL

(* A list that is only filled by vListInsert is in the order of its values. *)
THEOREM ListsSorted == Spec => []Sorted
<1>1. IInv => Sorted
  BY DEF IInv
<1> QED  BY <1>1, Invariant, PTL

(* Together: the lists are sound in every state.                           *)
THEOREM ListsStaySound == Spec => []ListsSound
<1> QED  BY ListTypes, ListsLinked, ListsCounted, ListsSorted, PTL DEF ListsSound

=============================================================================
