----------------------------- MODULE RtosTasks ------------------------------
(***************************************************************************)
(* The scheduler of the FreeRTOS kernel that the demo runs on (tasks.c and *)
(* the Cortex-M3 port): what each function does to the scheduler's state,  *)
(* a record k, as an operator from k to the k it leaves.  RtosKernel makes *)
(* steps of them.                                                          *)
(*                                                                         *)
(* Lists are sequences of tasks, as in TaskLists, which RtosList           *)
(* implements: the head is what is read next, an insertion by              *)
(* vListInsertEnd goes to the end, and a walk takes the head to the end.   *)
(***************************************************************************)
EXTENDS Integers, Sequences, FiniteSets, SequencesExt

CONSTANTS
  Tasks,                 \* task control blocks
  idle,                  \* the one of the idle task
  configMAX_PRIORITIES,  \* priorities are 0 .. configMAX_PRIORITIES - 1
  TickMod,               \* the tick count is unsigned: 2^32 in the code
  OverflowMod,           \* the count of its overflows
  EventLists             \* the event lists of all queues

ASSUME TasksAssumption ==
  /\ IsFiniteSet(Tasks) /\ idle \in Tasks
  /\ configMAX_PRIORITIES \in Nat \ {0}
  /\ TickMod \in Nat \ {0, 1}
  /\ OverflowMod \in Nat \ {0, 1}

portMAX_DELAY == TickMod - 1
tskIDLE_PRIORITY == 0
Prios == 0 .. (configMAX_PRIORITIES - 1)
Ticks == 0 .. (TickMod - 1)
TaskSeqs == {s \in UNION {[1 .. n -> Tasks] : n \in 0 .. Cardinality(Tasks)} :
               \A i, j \in DOMAIN s : s[i] = s[j] => i = j}

(* The scheduler before the first task is created.                         *)
NoTasks ==
  [live |-> {},                                   \* uxCurrentNumberOfTasks of them
   uxPriority |-> [t \in Tasks |-> tskIDLE_PRIORITY],
   uxBasePriority |-> [t \in Tasks |-> tskIDLE_PRIORITY],
   eventValue |-> [t \in Tasks |-> configMAX_PRIORITIES],
   wakeTime |-> [t \in Tasks |-> 0],
   ready |-> [p \in Prios |-> <<>>],
   delayed |-> <<>>, overflow |-> <<>>,
   suspended |-> {}, terminated |-> <<>>,
   event |-> [l \in EventLists |-> <<>>], pending |-> <<>>,
   pxCurrentTCB |-> idle,
   uxTopReadyPriority |-> tskIDLE_PRIORITY,
   xSchedulerRunning |-> FALSE,
   uxSchedulerSuspended |-> 0,
   xTickCount |-> 0, xNumOfOverflows |-> 0,
   uxMissedTicks |-> 0, xMissedYield |-> FALSE,
   uxTasksDeleted |-> 0,
   pendsv |-> FALSE]                              \* PENDSVSET of the NVIC

-----------------------------------------------------------------------------
(* list.c: vListRemove of a task's generic or event item, from whichever   *)
(* list pvContainer names, and vListInsert behind the items that are not   *)
(* greater.                                                                *)
vListRemoveGeneric(k, t) ==
  [k EXCEPT !.ready = [p \in Prios |-> RemoveFirst(@[p], t)],
            !.delayed = RemoveFirst(@, t),
            !.overflow = RemoveFirst(@, t),
            !.suspended = @ \ {t},
            !.terminated = RemoveFirst(@, t)]

vListRemoveEvent(k, t) ==
  [k EXCEPT !.event = [l \in EventLists |-> RemoveFirst(@[l], t)],
            !.pending = RemoveFirst(@, t)]

vListInsert(list, t, value) ==
  LET at == SelectInSeq(list, LAMBDA u : value[u] > value[t])
  IN  IF at = 0 THEN Append(list, t) ELSE InsertAt(list, at, t)

InEventList(k, t) ==
  \/ \E l \in EventLists : t \in ToSet(k.event[l])
  \/ t \in ToSet(k.pending)

Max2(a, b) == IF a > b THEN a ELSE b

(* Mutant: uxTopReadyPriority is left as it is.                            *)
prvAddTaskToReadyQueue_NoTop(k, t) ==
  [k EXCEPT !.ready[k.uxPriority[t]] = Append(@, t)]

prvAddTaskToReadyQueue(k, t) ==
  [k EXCEPT !.ready[k.uxPriority[t]] = Append(@, t),
            !.uxTopReadyPriority = Max2(@, k.uxPriority[t])]

taskYIELD(k) == [k EXCEPT !.pendsv = TRUE]

YieldIf(required, k) == IF required THEN taskYIELD(k) ELSE k

-----------------------------------------------------------------------------
(* Time.                                                                   *)

(* Mutant: a task that times out stays on its event list.                  *)
Wake_KeepsEvent(k, t) == prvAddTaskToReadyQueue(vListRemoveGeneric(k, t), t)

Wake(k, t) == prvAddTaskToReadyQueue(vListRemoveEvent(vListRemoveGeneric(k, t), t), t)

prvCheckDelayedTasks(k) ==
  LET first == SelectInSeq(k.delayed, LAMBDA t : k.xTickCount < k.wakeTime[t])
      due == IF first = 0 THEN k.delayed ELSE SubSeq(k.delayed, 1, first - 1)
  IN  FoldLeft(Wake, k, due)

(* Mutant: the lists are not swapped when the tick count wraps.            *)
SwapAtWrap_Not(k) == k

SwapAtWrap(k) ==
  IF k.xTickCount = 0
  THEN [k EXCEPT !.delayed = k.overflow, !.overflow = k.delayed,
                 !.xNumOfOverflows = (@ + 1) % OverflowMod]
  ELSE k

vTaskIncrementTick(k) ==
  IF k.uxSchedulerSuspended = 0
  THEN prvCheckDelayedTasks(SwapAtWrap([k EXCEPT !.xTickCount = (@ + 1) % TickMod]))
  ELSE [k EXCEPT !.uxMissedTicks = @ + 1]

(* The lines that vTaskDelay, vTaskDelayUntil and vTaskPlaceOnEventList    *)
(* share: the current task leaves its list for the one of its wake time.   *)
Delay(k, xTimeToWake) ==
  LET t == k.pxCurrentTCB
      at == [k.wakeTime EXCEPT ![t] = xTimeToWake]
      k1 == [vListRemoveGeneric(k, t) EXCEPT !.wakeTime = at]
  IN  IF xTimeToWake < k.xTickCount
      THEN [k1 EXCEPT !.overflow = vListInsert(@, t, at)]
      ELSE [k1 EXCEPT !.delayed = vListInsert(@, t, at)]

TimeToWake(k, ticks) == (k.xTickCount + ticks) % TickMod

(* vTaskDelayUntil: whether the next wake time is still to come.           *)
ShouldDelayUntil(k, xPreviousWakeTime, xTimeToWake) ==
  IF k.xTickCount < xPreviousWakeTime
  THEN xTimeToWake < xPreviousWakeTime /\ xTimeToWake > k.xTickCount
  ELSE xTimeToWake < xPreviousWakeTime \/ xTimeToWake > k.xTickCount

(* xTaskCheckForTimeOut: [expired, wait, entry]; the wait that is left and *)
(* the new time-out state when it has not expired.                         *)
TimeOutState(k) == [xTimeOnEntering |-> k.xTickCount, xOverflowCount |-> k.xNumOfOverflows]

Elapsed(k, entry) == (k.xTickCount - entry.xTimeOnEntering) % TickMod

(* Mutant: the time that has passed is subtracted again the next time.     *)
xTaskCheckForTimeOut_KeepsEntry(k, entry, ticks) ==
  IF ticks = portMAX_DELAY
  THEN [expired |-> FALSE, wait |-> ticks, entry |-> entry]
  ELSE IF \/ /\ k.xNumOfOverflows # entry.xOverflowCount
             /\ k.xTickCount >= entry.xTimeOnEntering
          \/ Elapsed(k, entry) >= ticks
  THEN [expired |-> TRUE, wait |-> ticks, entry |-> entry]
  ELSE [expired |-> FALSE, wait |-> ticks - Elapsed(k, entry), entry |-> entry]

xTaskCheckForTimeOut(k, entry, ticks) ==
  IF ticks = portMAX_DELAY
  THEN [expired |-> FALSE, wait |-> ticks, entry |-> entry]
  ELSE IF \/ /\ k.xNumOfOverflows # entry.xOverflowCount
             /\ k.xTickCount >= entry.xTimeOnEntering
          \/ Elapsed(k, entry) >= ticks
  THEN [expired |-> TRUE, wait |-> ticks, entry |-> entry]
  ELSE [expired |-> FALSE, wait |-> ticks - Elapsed(k, entry), entry |-> TimeOutState(k)]

-----------------------------------------------------------------------------
(* Switching and suspending the scheduler.                                 *)

(* Mutant: the chosen task stays at the head of its ready list.            *)
OwnerOfNextEntry_Head(list) == list

OwnerOfNextEntry(list) == Append(Tail(list), Head(list))

vTaskSwitchContext(k) ==
  IF k.uxSchedulerSuspended # 0
  THEN [k EXCEPT !.xMissedYield = TRUE]
  ELSE LET top == CHOOSE p \in 0 .. k.uxTopReadyPriority :
                    /\ k.ready[p] # <<>>
                    /\ \A q \in (p + 1) .. k.uxTopReadyPriority : k.ready[q] = <<>>
           list == OwnerOfNextEntry(k.ready[top])
       IN  [k EXCEPT !.uxTopReadyPriority = top,
                     !.ready[top] = list,
                     !.pxCurrentTCB = Last(list)]

vTaskSuspendAll(k) == [k EXCEPT !.uxSchedulerSuspended = @ + 1]

MovePending(k, t) == prvAddTaskToReadyQueue(vListRemoveGeneric(vListRemoveEvent(k, t), t), t)

ProcessMissedTicks(k) ==
  LET after[n \in 0 .. k.uxMissedTicks] ==
        IF n = 0 THEN k
        ELSE [vTaskIncrementTick(after[n - 1]) EXCEPT !.uxMissedTicks = @ - 1]
  IN  after[k.uxMissedTicks]

YieldDue(k) ==
  \/ \E t \in ToSet(k.pending) : k.uxPriority[t] >= k.uxPriority[k.pxCurrentTCB]
  \/ k.uxMissedTicks > 0
  \/ k.xMissedYield

(* xTaskResumeAll: the state it leaves and whether it has yielded.         *)
xTaskResumeAll(k) ==
  LET k1 == [k EXCEPT !.uxSchedulerSuspended = @ - 1]
  IN  IF k1.uxSchedulerSuspended # 0 THEN [k |-> k1, yielded |-> FALSE]
      ELSE LET k2 == ProcessMissedTicks(FoldLeft(MovePending, k1, k1.pending))
           IN  IF YieldDue(k1)
               THEN [k |-> taskYIELD([k2 EXCEPT !.xMissedYield = FALSE]), yielded |-> TRUE]
               ELSE [k |-> k2, yielded |-> FALSE]

-----------------------------------------------------------------------------
(* Event lists.                                                            *)

(* Mutant: the task is readied although the scheduler is suspended.        *)
ReadyOrPend_Ready(k, t) == prvAddTaskToReadyQueue(vListRemoveGeneric(k, t), t)

ReadyOrPend(k, t) ==
  IF k.uxSchedulerSuspended = 0
  THEN prvAddTaskToReadyQueue(vListRemoveGeneric(k, t), t)
  ELSE [k EXCEPT !.pending = Append(@, t)]

(* xTaskRemoveFromEventList: the state it leaves and whether the task at   *)
(* the head of the list should run instead of the current one.             *)
xTaskRemoveFromEventList(k, l) ==
  LET t == Head(k.event[l])
  IN  [k |-> ReadyOrPend(vListRemoveEvent(k, t), t),
       woken |-> k.uxPriority[t] >= k.uxPriority[k.pxCurrentTCB]]

vTaskPlaceOnEventList(k, l, ticks) ==
  LET t == k.pxCurrentTCB
      k1 == [k EXCEPT !.event[l] = vListInsert(@, t, k.eventValue)]
  IN  IF ticks = portMAX_DELAY
      THEN [vListRemoveGeneric(k1, t) EXCEPT !.suspended = @ \cup {t}]
      ELSE Delay(k1, TimeToWake(k, ticks))

-----------------------------------------------------------------------------
(* Priority inheritance.                                                   *)
SetPriority(k, t, p) ==
  [k EXCEPT !.uxPriority[t] = p, !.eventValue[t] = configMAX_PRIORITIES - p]

(* Mutant: no priority is inherited.                                       *)
vTaskPriorityInherit_Never(k, holder) == k

vTaskPriorityInherit(k, holder) ==
  LET p == k.uxPriority[k.pxCurrentTCB]
      k1 == SetPriority(k, holder, p)
  IN  IF k.uxPriority[holder] >= p THEN k
      ELSE IF holder \in ToSet(k.ready[k.uxPriority[holder]])
           THEN prvAddTaskToReadyQueue(vListRemoveGeneric(k1, holder), holder)
           ELSE k1

vTaskPriorityDisinherit(k, holder) ==
  IF holder \notin Tasks \/ k.uxPriority[holder] = k.uxBasePriority[holder] THEN k
  ELSE LET k1 == SetPriority(vListRemoveGeneric(k, holder), holder, k.uxBasePriority[holder])
       IN  prvAddTaskToReadyQueue(k1, holder)

-----------------------------------------------------------------------------
(* Creating, deleting, suspending and resuming tasks.                      *)

(* prvInitialiseTCBVariables: a priority beyond the last one is capped.    *)
prvInitialiseTCBVariables(k, t, uxPriority) ==
  LET p == IF uxPriority >= configMAX_PRIORITIES THEN configMAX_PRIORITIES - 1 ELSE uxPriority
  IN  SetPriority([k EXCEPT !.uxBasePriority[t] = p], t, p)

(* The critical section of xTaskCreate, once its memory is allocated.  The *)
(* current task is compared with the priority asked for, before the cap.   *)
xTaskCreate(k, t, uxPriority) ==
  LET k1 == [prvInitialiseTCBVariables(k, t, uxPriority) EXCEPT !.live = @ \cup {t}]
      first == k.live = {}
      current == \/ first
                 \/ ~k.xSchedulerRunning /\ k.uxPriority[k.pxCurrentTCB] <= uxPriority
      k2 == IF current THEN [k1 EXCEPT !.pxCurrentTCB = t] ELSE k1
  IN  prvAddTaskToReadyQueue(k2, t)

vTaskStartScheduler(k) ==
  [xTaskCreate(k, idle, tskIDLE_PRIORITY) EXCEPT !.xSchedulerRunning = TRUE, !.xTickCount = 0]

(* The critical section of vTaskDelete and of vTaskSuspend.                *)
TaskDelete(k, t) ==
  [vListRemoveEvent(vListRemoveGeneric(k, t), t)
     EXCEPT !.terminated = Append(@, t), !.uxTasksDeleted = @ + 1]

TaskSuspend(k, t) ==
  [vListRemoveEvent(vListRemoveGeneric(k, t), t) EXCEPT !.suspended = @ \cup {t}]

xTaskIsTaskSuspended(k, t) == t \in k.suspended /\ ~InEventList(k, t)

vTaskResume(k, t) ==
  YieldIf(k.uxPriority[t] >= k.uxPriority[k.pxCurrentTCB],
          prvAddTaskToReadyQueue(vListRemoveGeneric(k, t), t))

xTaskResumeFromISR(k, t) ==
  YieldIf(/\ k.uxSchedulerSuspended = 0
          /\ k.uxPriority[t] >= k.uxPriority[k.pxCurrentTCB],
          ReadyOrPend(k, t))

(* The critical section of prvCheckTasksWaitingTermination; prvDeleteTCB   *)
(* then frees the task.                                                    *)
FreeTerminated(k) ==
  LET t == Head(k.terminated)
  IN  [k EXCEPT !.terminated = Tail(@), !.live = @ \ {t}, !.uxTasksDeleted = @ - 1]

=============================================================================
