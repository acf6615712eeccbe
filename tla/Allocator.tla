----------------------------- MODULE Allocator ------------------------------
(***************************************************************************)
(* What the callers of pvPortMalloc and vPortFree rely on: a block of the  *)
(* size that was asked for, aligned, that overlaps no other block in use   *)
(* and is theirs until they free it; or no block at all.                   *)
(***************************************************************************)
EXTENDS Integers

CONSTANTS
  HeapSize,     \* bytes of the heap
  Alignment,    \* of a block
  Requests      \* sizes that are asked for

VARIABLE used   \* the blocks in use: the size of each by its address

Apart(p, n, q, m) == p + n <= q \/ q + m <= p

Init == used = [p \in {} |-> 0]

Malloc(n) ==
  \/ UNCHANGED used
  \/ /\ n > 0
     /\ \E p \in 0 .. HeapSize - n :
          /\ p % Alignment = 0
          /\ \A q \in DOMAIN used : Apart(p, n, q, used[q])
          /\ used' = [q \in DOMAIN used \cup {p} |-> IF q = p THEN n ELSE used[q]]

Free(p) == used' = [q \in DOMAIN used \ {p} |-> used[q]]

Next == (\E n \in Requests : Malloc(n)) \/ (\E p \in DOMAIN used : Free(p))

Spec == Init /\ [][Next]_used

=============================================================================
