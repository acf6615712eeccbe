------------------------------ MODULE RtosHeap ------------------------------
(***************************************************************************)
(* The heap of FreeRTOS (heap_2.c), from which the demo takes everything:  *)
(* task stacks, queues, and the packets and sockets of the stack, through  *)
(* esix_w_malloc and esix_w_free.                                          *)
(*                                                                         *)
(* Addresses count from the start of xHeap.ucHeap.  A block starts with    *)
(* its xBlockLink; its callers are given what is behind that.  The free    *)
(* list is the sequence of its blocks between xStart and xEnd.  Both calls *)
(* suspend the scheduler, and no interrupt handler makes them: each is a   *)
(* single step.                                                            *)
(***************************************************************************)
EXTENDS Integers, Sequences

CONSTANTS
  configTOTAL_HEAP_SIZE,  \* bytes of the heap
  Requests                \* sizes that are asked for

portBYTE_ALIGNMENT == 4
heapSTRUCT_SIZE == 8
heapMINIMUM_BLOCK_SIZE == 2 * heapSTRUCT_SIZE

(* Sizes do not wrap when the header is added to them.                     *)
ASSUME HeapAssumption ==
  /\ configTOTAL_HEAP_SIZE \in Nat \ {0}
  /\ configTOTAL_HEAP_SIZE % portBYTE_ALIGNMENT = 0
  /\ Requests \subseteq Nat

VARIABLES
  free,        \* the free list
  xBlockSize,  \* of the block at each address, 0 where none starts
  requested    \* ghost: what the callers asked for, by block in use

vars == <<free, xBlockSize, requested>>

Addresses == 0 .. (configTOTAL_HEAP_SIZE - 1)

(* The first call makes this state before it looks at the list: one block. *)
prvHeapInit ==
  /\ free = <<0>>
  /\ xBlockSize = [a \in Addresses |-> IF a = 0 THEN configTOTAL_HEAP_SIZE ELSE 0]

Init == prvHeapInit /\ requested = [b \in {} |-> 0]

-----------------------------------------------------------------------------
RoundUp(n) ==
  IF n % portBYTE_ALIGNMENT = 0 THEN n
  ELSE n + (portBYTE_ALIGNMENT - (n % portBYTE_ALIGNMENT))

(* Mutant: no room is made for the header.                                 *)
WantedSize_NoHeader(n) == IF n > 0 THEN RoundUp(n) ELSE 0

WantedSize(n) == IF n > 0 THEN RoundUp(n + heapSTRUCT_SIZE) ELSE 0

(* Where the loop of prvInsertBlockIntoFreeList stops for a block of size  *)
(* n: behind the blocks that are smaller.                                  *)
Place(list, size, n) ==
  {i \in 0 .. Len(list) : /\ \A j \in 1 .. i : size[list[j]] < n
                          /\ i < Len(list) => size[list[i + 1]] >= n}

InsertBehind(list, i, b) == SubSeq(list, 1, i) \o <<b>> \o SubSeq(list, i + 1, Len(list))

Without(list, i) == SubSeq(list, 1, i - 1) \o SubSeq(list, i + 1, Len(list))

(* The first block of the list that is large enough.                       *)
Fits(i, wanted) ==
  xBlockSize[free[i]] >= wanted /\ \A j \in 1 .. (i - 1) : xBlockSize[free[j]] < wanted

(* A block that is much larger than required is split.                     *)
Splits(b, wanted) == xBlockSize[b] - wanted > heapMINIMUM_BLOCK_SIZE

(* Mutant: the size of the block that is split stays what it was.          *)
SplitSizes_Whole(b, wanted) ==
  [xBlockSize EXCEPT ![b + wanted] = xBlockSize[b] - wanted]

SplitSizes(b, wanted) ==
  [xBlockSize EXCEPT ![b] = wanted, ![b + wanted] = xBlockSize[b] - wanted]

Uses(b, n) == requested' = [c \in DOMAIN requested \cup {b} |-> IF c = b THEN n ELSE requested[c]]

TakeWhole(i, n) ==
  /\ ~Splits(free[i], WantedSize(n))
  /\ free' = Without(free, i)
  /\ Uses(free[i], n)
  /\ UNCHANGED xBlockSize

TakeSplit(i, n) ==
  LET b == free[i]
      new == b + WantedSize(n)
  IN  /\ Splits(b, WantedSize(n))
      /\ xBlockSize' = SplitSizes(b, WantedSize(n))
      /\ \E j \in Place(Without(free, i), xBlockSize', xBlockSize'[new]) :
           free' = InsertBehind(Without(free, i), j, new)
      /\ Uses(b, n)

pvPortMalloc(n) ==
  /\ WantedSize(n) > 0 /\ WantedSize(n) < configTOTAL_HEAP_SIZE
  /\ \E i \in DOMAIN free : Fits(i, WantedSize(n)) /\ (TakeWhole(i, n) \/ TakeSplit(i, n))

(* It returns NULL.                                                        *)
pvPortMallocFails(n) ==
  /\ \/ WantedSize(n) = 0
     \/ WantedSize(n) >= configTOTAL_HEAP_SIZE
     \/ \A i \in DOMAIN free : xBlockSize[free[i]] < WantedSize(n)
  /\ UNCHANGED vars

(* Blocks are not joined.  Freeing NULL does nothing.                      *)
vPortFree(b) ==
  /\ \E i \in Place(free, xBlockSize, xBlockSize[b]) : free' = InsertBehind(free, i, b)
  /\ requested' = [c \in DOMAIN requested \ {b} |-> requested[c]]
  /\ UNCHANGED xBlockSize

Next ==
  \/ \E n \in Requests : pvPortMalloc(n) \/ pvPortMallocFails(n)
  \/ \E b \in DOMAIN requested : vPortFree(b)

Spec == Init /\ [][Next]_vars

-----------------------------------------------------------------------------
(* Properties.                                                             *)
Blocks == {a \in Addresses : xBlockSize[a] > 0}
End(b) == b + xBlockSize[b]
InFreeList(b) == \E i \in DOMAIN free : free[i] = b

(* The shape of the state; blocks are aligned and lie in the heap.         *)
TypeOK ==
  /\ xBlockSize \in [Addresses -> Nat]
  /\ free \in Seq(Addresses)
  /\ DOMAIN requested \subseteq Blocks
  /\ \A b \in DOMAIN requested : requested[b] \in Requests
  /\ \A b \in Blocks : /\ b % portBYTE_ALIGNMENT = 0
                       /\ xBlockSize[b] % portBYTE_ALIGNMENT = 0
                       /\ End(b) <= configTOTAL_HEAP_SIZE

(* The blocks tile the heap: none overlaps another and no byte is lost;    *)
(* and a block is in use or in the free list, where it is once.            *)
HeapTiled ==
  /\ \A b, c \in Blocks : b < c => End(b) <= c
  /\ \A a \in Addresses : \E b \in Blocks : b <= a /\ a < End(b)
  /\ \A i, j \in DOMAIN free : free[i] = free[j] => i = j
  /\ \A i \in DOMAIN free : free[i] \in Blocks
  /\ \A b \in Blocks : b \in DOMAIN requested <=> ~InFreeList(b)

(* The free list is in the order of block sizes.                           *)
FreeListSorted ==
  \A i, j \in DOMAIN free : i < j => xBlockSize[free[i]] <= xBlockSize[free[j]]

(* What malloc and free rely on, in whatever order blocks were split and   *)
(* came back: no byte is lost, owned twice or out of its place.            *)
HeapSound == TypeOK /\ HeapTiled /\ FreeListSorted

(* The block that is handed out is the smallest that is large enough,      *)
(* however the list has come about.  No run checks it; it is the theorem   *)
(* FirstFitIsBest.                                                         *)
BestFit ==
  [][\A b \in DOMAIN requested' \ DOMAIN requested :
       \A i \in DOMAIN free :
         xBlockSize[free[i]] >= WantedSize(requested'[b]) => xBlockSize[b] <= xBlockSize[free[i]]]_vars

Abstract == INSTANCE Allocator WITH
  HeapSize <- configTOTAL_HEAP_SIZE,
  Alignment <- portBYTE_ALIGNMENT,
  used <- [p \in {b + heapSTRUCT_SIZE : b \in DOMAIN requested}
             |-> requested[p - heapSTRUCT_SIZE]]

(* Every caller has the bytes it asked for to itself.                      *)
BlocksAreTheirs == Abstract!Spec

=============================================================================
