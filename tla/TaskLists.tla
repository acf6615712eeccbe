----------------------------- MODULE TaskLists ------------------------------
(***************************************************************************)
(* What the lists of list.c stand for, as RtosTasks uses them: a list that *)
(* is walked, a list that is read from its head and a list that is sorted  *)
(* are each a sequence of items, the one that is read next at its head.    *)
(***************************************************************************)
EXTENDS Integers, Sequences

CONSTANTS
  Lists,     \* the lists
  Kind,      \* of each: "walked", "fifo" or "sorted"
  Items,     \* list items
  NoItem     \* what "owner" is before any list is read

VARIABLES
  list,      \* the items of each list
  value,     \* xItemValue of each item
  owner      \* what was read last

vars == <<list, value, owner>>

Contains(l, x) == \E i \in DOMAIN list[l] : list[l][i] = x
Free(x) == \A l \in Lists : ~Contains(l, x)

Init ==
  /\ list = [l \in Lists |-> <<>>]
  /\ value = [x \in Items |-> 0]
  /\ owner = NoItem

(* An item that is in no list is given a value.                            *)
SetValue(x) ==
  /\ Free(x)
  /\ \A y \in Items \ {x} : value'[y] = value[y]
  /\ UNCHANGED <<list, owner>>

InsertEnd(l, x) ==
  /\ Kind[l] # "sorted" /\ Free(x)
  /\ list' = [list EXCEPT ![l] = Append(@, x)]
  /\ UNCHANGED <<value, owner>>

(* x goes behind the items whose value is not greater.                     *)
Insert(l, x) ==
  /\ Kind[l] = "sorted" /\ Free(x)
  /\ \E n \in 0 .. Len(list[l]) :
       /\ \A i \in 1 .. n : value[list[l][i]] <= value[x]
       /\ \A i \in (n + 1) .. Len(list[l]) : value[list[l][i]] > value[x]
       /\ list' = [list EXCEPT ![l] = SubSeq(@, 1, n) \o <<x>> \o SubSeq(@, n + 1, Len(@))]
  /\ UNCHANGED <<value, owner>>

Remove(l, x) ==
  /\ Contains(l, x)
  /\ list' = [list EXCEPT ![l] = SelectSeq(@, LAMBDA y : y # x)]
  /\ UNCHANGED <<value, owner>>

(* A walk goes round the list; any other list is read at its head.         *)
Read(l) ==
  /\ list[l] # <<>>
  /\ owner' = Head(list[l])
  /\ list' = IF Kind[l] = "walked"
             THEN [list EXCEPT ![l] = Append(Tail(@), Head(@))] ELSE list
  /\ UNCHANGED value

Next ==
  \/ \E x \in Items : SetValue(x)
  \/ \E l \in Lists : Read(l)
  \/ \E l \in Lists, x \in Items : InsertEnd(l, x) \/ Insert(l, x) \/ Remove(l, x)

Spec == Init /\ [][Next]_vars

=============================================================================
