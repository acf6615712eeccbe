---------------------------- MODULE BoundedFifo -----------------------------
(***************************************************************************)
(* What a queue of queue.c promises its users, whatever they are doing at  *)
(* the same time: a bounded sequence that items are put in at either end   *)
(* and handed out of from the front, each exactly once.                    *)
(***************************************************************************)
EXTENDS Integers, Sequences

CONSTANTS
  Queues,    \* the queues
  Length,    \* how many items each holds
  Items,     \* what is queued
  NoItem     \* what "handed" is before anything is handed out

VARIABLES
  fifo,      \* the items of each queue
  handed     \* the item that was handed out last

vars == <<fifo, handed>>

Init == fifo = [q \in Queues |-> <<>>] /\ handed = NoItem

Put(q, item) ==
  /\ Len(fifo[q]) < Length[q]
  /\ \/ fifo' = [fifo EXCEPT ![q] = Append(@, item)]
     \/ fifo' = [fifo EXCEPT ![q] = <<item>> \o @]
  /\ UNCHANGED handed

Take(q) ==
  /\ fifo[q] # <<>>
  /\ handed' = Head(fifo[q])
  /\ \/ fifo' = [fifo EXCEPT ![q] = Tail(@)]
     \/ UNCHANGED fifo                          \* it only peeks

Next == \E q \in Queues : Take(q) \/ \E item \in Items : Put(q, item)

Spec == Init /\ [][Next]_vars

=============================================================================
