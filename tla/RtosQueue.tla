----------------------------- MODULE RtosQueue ------------------------------
(***************************************************************************)
(* The critical sections of queue.c: what each does to the scheduler k and *)
(* to the record Q of the queue.  Semaphores and mutexes are queues whose  *)
(* items have no size (semphr.h); a mutex remembers its holder.            *)
(***************************************************************************)
EXTENDS RtosTasks, RtosBuffer

CONSTANTS
  Queues,     \* queue control blocks
  NoHolder    \* pxMutexHolder of a mutex that is free

queueUNLOCKED == -1
queueLOCKED_UNMODIFIED == 0

ToSend(q) == <<q, "xTasksWaitingToSend">>
ToReceive(q) == <<q, "xTasksWaitingToReceive">>
EventListsOf(qs) == {ToSend(q) : q \in qs} \cup {ToReceive(q) : q \in qs}

xQueueCreate(type, uxLength) ==
  [type |-> type, buf |-> NewBuffer(uxLength), pxMutexHolder |-> NoHolder,
   xRxLock |-> queueUNLOCKED, xTxLock |-> queueUNLOCKED]

CountUp(Q) == [Q EXCEPT !.buf.uxMessagesWaiting = @ + 1]

(* xQueueCreateMutex and vSemaphoreCreateBinary give it once.              *)
xQueueCreateMutex == CountUp(xQueueCreate("mutex", 1))
vSemaphoreCreateBinary == CountUp(xQueueCreate("semaphore", 1))

IsEmpty(Q) == Q.buf.uxMessagesWaiting = 0
IsFull(Q) == Q.buf.uxMessagesWaiting = Q.buf.uxLength

-----------------------------------------------------------------------------
(* Copying.                                                                *)

(* Mutant: a holder that gives the mutex back keeps the inherited priority. *)
prvCopyDataToQueue_KeepsPriority(k, Q, item, front) ==
  IF Q.type = "mutex" THEN [k |-> k, Q |-> [CountUp(Q) EXCEPT !.pxMutexHolder = NoHolder]]
  ELSE IF Q.type = "semaphore" THEN [k |-> k, Q |-> CountUp(Q)]
  ELSE [k |-> k, Q |-> [Q EXCEPT !.buf = IF front THEN CopyToFront(@, item)
                                         ELSE CopyToBack(@, item)]]

prvCopyDataToQueue(k, Q, item, front) ==
  IF Q.type = "mutex"
  THEN [k |-> vTaskPriorityDisinherit(k, Q.pxMutexHolder),
        Q |-> [CountUp(Q) EXCEPT !.pxMutexHolder = NoHolder]]
  ELSE IF Q.type = "semaphore" THEN [k |-> k, Q |-> CountUp(Q)]
  ELSE [k |-> k, Q |-> [Q EXCEPT !.buf = IF front THEN CopyToFront(@, item)
                                         ELSE CopyToBack(@, item)]]

(* prvCopyDataFromQueue and the lines after it that take the item out.     *)
TakeFromQueue(Q, holder) ==
  IF Q.type = "queue" THEN [Q EXCEPT !.buf = CopyFrom(@)]
  ELSE [Q EXCEPT !.buf.uxMessagesWaiting = @ - 1,
                 !.pxMutexHolder = IF Q.type = "mutex" THEN holder ELSE @]

-----------------------------------------------------------------------------
(* Waking the task that waits for what was just put in or taken out.       *)
WakeWaiter(k, l) ==
  IF k.event[l] = <<>> THEN k
  ELSE LET r == xTaskRemoveFromEventList(k, l) IN YieldIf(r.woken, r.k)

(* xQueueGenericSend when there is room.                                   *)
SendNow(k, Q, q, item, front) ==
  LET c == prvCopyDataToQueue(k, Q, item, front)
  IN  [k |-> WakeWaiter(c.k, ToReceive(q)), Q |-> c.Q]

(* xQueueGenericReceive when there is an item, and when it only peeks.     *)
ReceiveNow(k, Q, q) ==
  [k |-> WakeWaiter(k, ToSend(q)), Q |-> TakeFromQueue(Q, k.pxCurrentTCB)]

PeekNow(k, Q, q) == [k |-> WakeWaiter(k, ToReceive(q)), Q |-> Q]

(* xQueueGenericSendFromISR: a locked queue only counts the item.          *)
SendFromISR(k, Q, q, item) ==
  LET c == prvCopyDataToQueue(k, Q, item, FALSE)
  IN  IF Q.xTxLock = queueUNLOCKED THEN [k |-> WakeWaiter(c.k, ToReceive(q)), Q |-> c.Q]
      ELSE [c EXCEPT !.Q.xTxLock = @ + 1]

ReceiveFromISR(k, Q, q) ==
  LET Q1 == TakeFromQueue(Q, Q.pxMutexHolder)
  IN  IF Q.xRxLock = queueUNLOCKED THEN [k |-> WakeWaiter(k, ToSend(q)), Q |-> Q1]
      ELSE [k |-> k, Q |-> [Q1 EXCEPT !.xRxLock = @ + 1]]

-----------------------------------------------------------------------------
(* Locking.                                                                *)
prvLockQueue(Q) ==
  LET Locked(lock) == IF lock = queueUNLOCKED THEN queueLOCKED_UNMODIFIED ELSE lock
  IN  [Q EXCEPT !.xRxLock = Locked(@), !.xTxLock = Locked(@)]

(* One loop of prvUnlockQueue: a waiter is taken off the list for every    *)
(* item that was counted, as long as there are any.                        *)
WakeCounted(k, l, lock) ==
  LET WakeNext(k1, t) ==
        LET r == xTaskRemoveFromEventList(k1, l)
        IN  IF r.woken THEN [r.k EXCEPT !.xMissedYield = TRUE] ELSE r.k
      n == IF lock < Len(k.event[l]) THEN lock ELSE Len(k.event[l])
  IN  IF lock <= queueLOCKED_UNMODIFIED THEN k
      ELSE FoldLeft(WakeNext, k, SubSeq(k.event[l], 1, n))

UnlockTx(k, Q, q) ==
  [k |-> WakeCounted(k, ToReceive(q), Q.xTxLock), Q |-> [Q EXCEPT !.xTxLock = queueUNLOCKED]]

UnlockRx(k, Q, q) ==
  [k |-> WakeCounted(k, ToSend(q), Q.xRxLock), Q |-> [Q EXCEPT !.xRxLock = queueUNLOCKED]]

=============================================================================
