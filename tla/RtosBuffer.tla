----------------------------- MODULE RtosBuffer -----------------------------
(***************************************************************************)
(* The storage of a FreeRTOS queue (queue.c): a ring of uxLength items, the *)
(* slot to write next and the slot that was read last.  Pointers are slot  *)
(* numbers; pcTail, one byte past the last slot, is the number uxLength.   *)
(***************************************************************************)
EXTENDS Integers, Sequences

CONSTANTS
  Items,   \* what is queued
  NoItem   \* what a slot holds before it is written

ASSUME ItemsAssumption == NoItem \notin Items

Buffers(length) ==
  [uxLength : {length},
   store : [0 .. (length - 1) -> Items \cup {NoItem}],
   pcWriteTo : 0 .. (length - 1),
   pcReadFrom : 0 .. (length - 1),
   uxMessagesWaiting : 0 .. length]

NewBuffer(length) ==
  [uxLength |-> length, store |-> [i \in 0 .. (length - 1) |-> NoItem],
   pcWriteTo |-> 0, pcReadFrom |-> length - 1, uxMessagesWaiting |-> 0]

(* The slot after the one a pointer is at, and the slot before it.         *)
NextSlot(b, at) == IF at + 1 >= b.uxLength THEN 0 ELSE at + 1
PreviousSlot(b, at) == IF at - 1 < 0 THEN b.uxLength - 1 ELSE at - 1

(* Mutant: the read pointer is moved before the item is written.           *)
CopyToFront_MovesFirst(b, item) ==
  [b EXCEPT !.store[PreviousSlot(b, b.pcReadFrom)] = item,
            !.pcReadFrom = PreviousSlot(b, @),
            !.uxMessagesWaiting = @ + 1]

CopyToFront(b, item) ==
  [b EXCEPT !.store[b.pcReadFrom] = item,
            !.pcReadFrom = PreviousSlot(b, @),
            !.uxMessagesWaiting = @ + 1]

CopyToBack(b, item) ==
  [b EXCEPT !.store[b.pcWriteTo] = item,
            !.pcWriteTo = NextSlot(b, @),
            !.uxMessagesWaiting = @ + 1]

(* The item a reader is given, and what a receive leaves; a peek puts the  *)
(* read pointer back.                                                      *)
NextItem(b) == b.store[NextSlot(b, b.pcReadFrom)]

CopyFrom(b) ==
  [b EXCEPT !.pcReadFrom = NextSlot(b, @), !.uxMessagesWaiting = @ - 1]

-----------------------------------------------------------------------------
(* What the buffer stands for: the items in the order they will be read.   *)
SlotOf(b, i) ==
  LET at == b.pcReadFrom + i
  IN  IF at >= b.uxLength THEN at - b.uxLength ELSE at

Contents(b) == [i \in 1 .. b.uxMessagesWaiting |-> b.store[SlotOf(b, i)]]

(* The pointers agree: the slot to write is the one after the last item.   *)
PointersAgree(b) ==
  LET at == b.pcReadFrom + b.uxMessagesWaiting + 1
  IN  b.pcWriteTo = IF at >= 2 * b.uxLength THEN at - 2 * b.uxLength
                    ELSE IF at >= b.uxLength THEN at - b.uxLength ELSE at

=============================================================================
