----------------------------- MODULE RtosKernel -----------------------------
(***************************************************************************)
(* Tasks, queues and interrupts of the FreeRTOS kernel of the demo, on one *)
(* processor.  A step is what runs with interrupts masked, or what an      *)
(* interrupt cannot tell from it: one critical section of a call, one call *)
(* between them, or one interrupt handler.  The calls of queue.c that      *)
(* block are several steps, with interrupts and other tasks in between.    *)
(*                                                                         *)
(* What the tasks call is open: a script names the tasks with their        *)
(* priorities, the calls each may make, in any order, and the interrupts   *)
(* of the board.  One of Scripts is chosen at the start.                   *)
(***************************************************************************)
EXTENDS RtosQueue

CONSTANTS
  Scripts,      \* what the applications and the board may do
  QueueType,    \* of each queue: "queue", "semaphore" or "mutex"
  QueueLength,  \* of each queue
  MaxMissed,    \* bound: ticks while the scheduler is suspended
  MaxLock       \* bound: items counted while a queue is locked

ASSUME QueuesAssumption ==
  /\ EventLists = EventListsOf(Queues)
  /\ QueueType \in [Queues -> {"queue", "semaphore", "mutex"}]
  /\ QueueLength \in [Queues -> Nat \ {0}]
  /\ \A q \in Queues : QueueLength[q] = 1 \/ QueueType[q] = "queue"
  /\ NoHolder \notin Tasks

ASSUME BoundsAssumption == MaxMissed \in 0 .. (TickMod - 1) /\ MaxLock \in Nat

SendOps == {"send", "sendToFront"}
ReceiveOps == {"receive", "peek"}
QueueOps == SendOps \cup ReceiveOps
TaskOps == {"suspend", "resume", "delete", "create"}
DelayOps == {"delay", "delayUntil"}

(* A call and whom or what it is made on.  The handle of the idle task is  *)
(* not given out.                                                          *)
Calls ==
  LET By(ops, things) == [task : Tasks \ {idle}, op : ops, on : things, wait : Ticks]
  IN  By(SendOps \cup ReceiveOps, Queues) \cup By(TaskOps, Tasks \ {idle})
        \cup By(DelayOps, {NoHolder})

(* semphr.h: "Mutex type semaphores cannot be used from within interrupt   *)
(* service routines."                                                      *)
ASSUME ScriptsAssumption ==
  \A s \in Scripts :
    /\ s.prio \in [Tasks -> Nat] /\ s.start \subseteq Tasks \ {idle}
    /\ s.items \subseteq Items /\ s.calls \subseteq Calls
    /\ \A q \in Queues : QueueType[q] = "mutex"
         => <<"send", q>> \notin s.interrupts /\ <<"receive", q>> \notin s.interrupts

VARIABLES
  script,  \* the script that is played
  k,       \* the scheduler, see RtosTasks
  queue,   \* the queue control blocks
  frame,   \* the call a task is in: where it is in it and its local variables
  last,    \* xPreviousWakeTime of each task
  handed,  \* ghost: the item a receive returned last
  holds,   \* ghost: the mutexes a task has taken and not given back
  clock,   \* ghost: ticks of the timer
  left,    \* ghost: ticks a sleeping task has still to sleep
  age      \* ghost: ticks since a call began to wait, up to as long as it may

ghosts == <<clock, left, age>>
vars == <<script, k, queue, frame, last, handed, holds, ghosts>>

NoCall == [task |-> idle, op |-> "none", on |-> NoHolder, wait |-> 0]
AtRest == [at |-> "ready", call |-> NoCall, wait |-> 0, timed |-> FALSE,
           entry |-> [xTimeOnEntering |-> 0, xOverflowCount |-> 0], then |-> "return"]

IdleCall == [task |-> idle, op |-> "idle", on |-> NoHolder, wait |-> 0]
Stages == {"ready", "enter", "suspend", "lock", "check", "test", "inherit", "place",
           "unlockTx", "unlockRx", "delay", "resume", "work", "yield"}

CreateQueue(type, length) ==
  CASE type = "mutex" -> xQueueCreateMutex
    [] type = "semaphore" -> vSemaphoreCreateBinary
    [] OTHER -> xQueueCreate(type, length)

Init ==
  /\ script \in Scripts
  /\ k = NoTasks
  /\ queue = [q \in Queues |-> CreateQueue(QueueType[q], QueueLength[q])]
  /\ frame = [t \in Tasks |-> AtRest]
  /\ last = [t \in Tasks |-> 0]
  /\ handed = NoItem
  /\ holds = [t \in Tasks |-> {}]
  /\ clock = 0
  /\ left = [t \in Tasks |-> 0]
  /\ age = [t \in Tasks |-> 0]

-----------------------------------------------------------------------------
(* Steps of the running task.                                              *)

(* A pending switch is taken before the task goes on.                      *)
Runs(t) == k.xSchedulerRunning /\ k.pxCurrentTCB = t /\ ~k.pendsv

(* t begins or goes on with the call c, at its first critical section.     *)
Enters(t, c) ==
  /\ Runs(t)
  /\ \/ frame[t].at = "ready" /\ c \in script.calls /\ c.task = t
     \/ frame[t].at = "enter" /\ c = frame[t].call

Reaches(t, stage) == Runs(t) /\ frame[t].at = stage

GoTo(t, stage) == frame' = [frame EXCEPT ![t].at = stage]
Return(t) == frame' = [frame EXCEPT ![t] = AtRest]
Suspends(t, c, then) ==
  frame' = [frame EXCEPT ![t] = [AtRest EXCEPT !.at = "suspend", !.call = c, !.then = then]]

(* The queue was full or empty: leave if the call does not wait (any more), *)
(* and note the time when it starts to wait.                               *)
WaitOrFail(t, c) ==
  LET f == IF frame[t].at = "ready" THEN [AtRest EXCEPT !.call = c, !.wait = c.wait]
           ELSE frame[t]
      f1 == IF f.timed THEN f ELSE [f EXCEPT !.timed = TRUE, !.entry = TimeOutState(k)]
  IN  /\ IF f.wait = 0 THEN Return(t)
         ELSE frame' = [frame EXCEPT ![t] = [f1 EXCEPT !.at = "suspend"]]
      /\ UNCHANGED <<script, k, queue, last, handed, holds>>

xQueueGenericSend(t) ==
  \E c \in {frame[t].call} \cup script.calls :
    /\ c.op \in SendOps /\ Enters(t, c)
    /\ QueueType[c.on] = "mutex" => c.on \in holds[t]
    /\ IF IsFull(queue[c.on]) THEN WaitOrFail(t, c)
       ELSE \E item \in script.items :
         LET r == SendNow(k, queue[c.on], c.on, item, c.op = "sendToFront")
         IN  /\ k' = r.k
             /\ queue' = [queue EXCEPT ![c.on] = r.Q]
             /\ Return(t)
             /\ holds' = [holds EXCEPT ![t] = @ \ {c.on}]
             /\ UNCHANGED <<script, last, handed>>

xQueueGenericReceive(t) ==
  \E c \in {frame[t].call} \cup script.calls :
    /\ c.op \in ReceiveOps /\ Enters(t, c)
    /\ c.on \notin holds[t]
    /\ IF IsEmpty(queue[c.on]) THEN WaitOrFail(t, c)
       ELSE LET r == IF c.op = "peek" THEN PeekNow(k, queue[c.on], c.on)
                     ELSE ReceiveNow(k, queue[c.on], c.on)
            IN  /\ k' = r.k
                /\ queue' = [queue EXCEPT ![c.on] = r.Q]
                /\ Return(t)
                /\ handed' = IF QueueType[c.on] = "queue" THEN NextItem(queue[c.on].buf)
                             ELSE handed
                /\ holds' = IF QueueType[c.on] = "mutex" /\ c.op = "receive"
                            THEN [holds EXCEPT ![t] = @ \cup {c.on}] ELSE holds
                /\ UNCHANGED <<script, last>>

SuspendAll(t) ==
  /\ Reaches(t, "suspend")
  /\ k' = vTaskSuspendAll(k)
  /\ GoTo(t, CASE frame[t].call.op \in SendOps \cup ReceiveOps -> "lock"
               [] frame[t].call.op \in DelayOps -> "delay"
               [] OTHER -> "resume")
  /\ UNCHANGED <<script, queue, last, handed, holds>>

LockQueue(t) ==
  /\ Reaches(t, "lock")
  /\ queue' = [queue EXCEPT ![frame[t].call.on] = prvLockQueue(@)]
  /\ GoTo(t, "check")
  /\ UNCHANGED <<script, k, last, handed, holds>>

CheckForTimeOut(t) ==
  /\ Reaches(t, "check")
  /\ LET r == xTaskCheckForTimeOut(k, frame[t].entry, frame[t].wait)
     IN  frame' = [frame EXCEPT
           ![t].at = IF r.expired THEN "unlockTx" ELSE "test",
           ![t].then = IF r.expired THEN "fail" ELSE @,
           ![t].wait = r.wait, ![t].entry = r.entry]
  /\ UNCHANGED <<script, k, queue, last, handed, holds>>

(* prvIsQueueFull or prvIsQueueEmpty: block, or try again.                 *)
(* Mutant: the queue is not looked at again once it is locked.             *)
TestQueue_NotAgain(t) ==
  /\ Reaches(t, "test")
  /\ frame' = [frame EXCEPT ![t].at = "place", ![t].then = "block"]
  /\ UNCHANGED <<script, k, queue, last, handed, holds>>

TestQueue(t) ==
  /\ Reaches(t, "test")
  /\ LET c == frame[t].call
         blocks == IF c.op \in SendOps THEN IsFull(queue[c.on]) ELSE IsEmpty(queue[c.on])
         inherits == QueueType[c.on] = "mutex" /\ c.op \in ReceiveOps
     IN  frame' = [frame EXCEPT
           ![t].at = IF ~blocks THEN "unlockTx" ELSE IF inherits THEN "inherit" ELSE "place",
           ![t].then = IF blocks THEN "block" ELSE "retry"]
  /\ UNCHANGED <<script, k, queue, last, handed, holds>>

InheritPriority(t) ==
  /\ Reaches(t, "inherit")
  /\ k' = vTaskPriorityInherit(k, queue[frame[t].call.on].pxMutexHolder)
  /\ GoTo(t, "place")
  /\ UNCHANGED <<script, queue, last, handed, holds>>

PlaceOnEventList(t) ==
  /\ Reaches(t, "place")
  /\ LET c == frame[t].call
         l == IF c.op \in SendOps THEN ToSend(c.on) ELSE ToReceive(c.on)
     IN  k' = vTaskPlaceOnEventList(k, l, frame[t].wait)
  /\ GoTo(t, "unlockTx")
  /\ UNCHANGED <<script, queue, last, handed, holds>>

(* prvUnlockQueue: two critical sections.                                  *)
UnlockQueueTx(t) ==
  /\ Reaches(t, "unlockTx")
  /\ LET q == frame[t].call.on
         r == UnlockTx(k, queue[q], q)
     IN  k' = r.k /\ queue' = [queue EXCEPT ![q] = r.Q]
  /\ GoTo(t, "unlockRx")
  /\ UNCHANGED <<script, last, handed, holds>>

UnlockQueueRx(t) ==
  /\ Reaches(t, "unlockRx")
  /\ LET q == frame[t].call.on
         r == UnlockRx(k, queue[q], q)
     IN  k' = r.k /\ queue' = [queue EXCEPT ![q] = r.Q]
  /\ GoTo(t, "resume")
  /\ UNCHANGED <<script, last, handed, holds>>

(* What follows xTaskResumeAll: a call that blocked yields if that has not *)
(* been done, a queue call that did not fail starts over.                  *)
ResumeAll(t) ==
  /\ Reaches(t, "resume")
  /\ LET r == xTaskResumeAll(k)
         queues == frame[t].call.op \in SendOps \cup ReceiveOps
     IN  /\ k' = r.k
         /\ IF frame[t].then = "block" /\ ~r.yielded THEN GoTo(t, "yield")
            ELSE IF queues /\ frame[t].then # "fail" THEN GoTo(t, "enter")
            ELSE IF frame[t].then = "work" THEN GoTo(t, "work")
            ELSE Return(t)
  /\ UNCHANGED <<script, queue, last, handed, holds>>

Yield(t) ==
  /\ Reaches(t, "yield")
  /\ k' = YieldIf(frame[t].then # "create" \/ k.uxPriority[t] < script.prio[frame[t].call.on],
                  k)
  /\ IF frame[t].call.op \in SendOps \cup ReceiveOps THEN GoTo(t, "enter") ELSE Return(t)
  /\ UNCHANGED <<script, queue, last, handed, holds>>

-----------------------------------------------------------------------------
(* The calls of tasks.c.                                                   *)

vTaskDelay(t) ==
  /\ \/ \E c \in script.calls :
          /\ c.op = "delay" /\ Enters(t, c)
          /\ IF c.wait = 0 THEN k' = taskYIELD(k) /\ UNCHANGED frame
             ELSE /\ frame' = [frame EXCEPT ![t] = [AtRest EXCEPT
                       !.at = "suspend", !.call = c, !.wait = c.wait, !.then = "block"]]
                  /\ UNCHANGED k
     \/ /\ Reaches(t, "delay") /\ frame[t].call.op = "delay"
        /\ k' = Delay(k, TimeToWake(k, frame[t].wait))
        /\ GoTo(t, "resume")
  /\ UNCHANGED <<script, queue, last, handed, holds>>

vTaskDelayUntil(t) ==
  /\ \/ \E c \in script.calls :
          /\ c.op = "delayUntil" /\ Enters(t, c)
          /\ Suspends(t, c, "block")
          /\ UNCHANGED <<k, last>>
     \/ /\ Reaches(t, "delay") /\ frame[t].call.op = "delayUntil"
        /\ LET next == (last[t] + frame[t].call.wait) % TickMod
           IN  /\ last' = [last EXCEPT ![t] = next]
               /\ k' = IF ShouldDelayUntil(k, last[t], next) THEN Delay(k, next) ELSE k
               /\ frame' = [frame EXCEPT ![t].at = "resume",
                                         ![t].wait = (next - k.xTickCount) % TickMod]
  /\ UNCHANGED <<script, queue, handed, holds>>

(* Tasks a call may name: created and not deleted.                         *)
Existing == k.live \ ToSet(k.terminated)

vTaskSuspend(t) ==
  \E c \in script.calls :
    /\ c.op = "suspend" /\ Enters(t, c) /\ c.on \in Existing
    /\ k' = TaskSuspend(k, c.on)
    /\ frame' = IF c.on = t
                THEN [frame EXCEPT ![t] = [AtRest EXCEPT !.at = "yield", !.call = c]]
                ELSE frame
    /\ UNCHANGED <<script, queue, last, handed, holds>>

vTaskResumeCall(t) ==
  \E c \in script.calls :
    /\ c.op = "resume" /\ Enters(t, c) /\ c.on \in Existing \ {t}
    /\ xTaskIsTaskSuspended(k, c.on)
    /\ k' = vTaskResume(k, c.on)
    /\ UNCHANGED <<script, queue, frame, last, handed, holds>>

vTaskDelete(t) ==
  \E c \in script.calls :
    /\ c.op = "delete" /\ Enters(t, c) /\ c.on \in Existing
    /\ k' = TaskDelete(k, c.on)
    /\ frame' = [frame EXCEPT ![c.on] =
                   IF c.on = t THEN [AtRest EXCEPT !.at = "yield", !.call = c] ELSE AtRest]
    /\ UNCHANGED <<script, queue, last, handed, holds>>

(* xTaskCreate: the heap (pvPortMalloc suspends the scheduler), then the   *)
(* critical section, then a yield to a more important task.                *)
xTaskCreateCall(t) ==
  /\ \/ \E c \in script.calls :
          /\ c.op = "create" /\ Enters(t, c) /\ c.on \notin k.live
          /\ \A u \in Tasks : frame[u].call.op = "create" => frame[u].call.on # c.on
          /\ Suspends(t, c, "work")
          /\ UNCHANGED k
     \/ /\ Reaches(t, "work") /\ frame[t].call.op = "create"
        /\ k' = xTaskCreate(k, frame[t].call.on, script.prio[frame[t].call.on])
        /\ frame' = [frame EXCEPT ![t].at = "yield", ![t].then = "create"]
     \/ /\ Reaches(t, "work") /\ frame[t].call.op = "create"
        /\ Return(t)                                  \* the heap is exhausted
        /\ UNCHANGED k
  /\ UNCHANGED <<script, queue, last, handed, holds>>

(* prvIdleTask: prvCheckTasksWaitingTermination suspends the scheduler to  *)
(* look at the list, and vPortFree does for the memory of the task.        *)
prvIdleTask ==
  /\ \/ /\ Runs(idle) /\ frame[idle].at = "ready" /\ k.uxTasksDeleted > 0
        /\ Suspends(idle, IdleCall, "work")
        /\ UNCHANGED k
     \/ /\ Reaches(idle, "work") /\ k.terminated # <<>>
        /\ k' = FreeTerminated(k)
        /\ frame' = [frame EXCEPT
             ![Head(k.terminated)] = AtRest,
             ![idle] = [AtRest EXCEPT !.at = "suspend", !.call = IdleCall]]
  /\ UNCHANGED <<script, queue, last, handed, holds>>

-----------------------------------------------------------------------------
(* Before the scheduler runs, and interrupts.                              *)

(* main creates the tasks of the script and starts the scheduler.          *)
Boot ==
  /\ ~k.xSchedulerRunning
  /\ \/ \E t \in script.start \ k.live : k' = xTaskCreate(k, t, script.prio[t])
     \/ script.start \subseteq k.live /\ k' = vTaskStartScheduler(k)
  /\ UNCHANGED <<script, queue, frame, last, handed, holds>>

(* uxCriticalNesting starts out so high that no vPortExitCritical unmasks  *)
(* interrupts; xPortStartScheduler sets it to 0 and the first task starts  *)
(* with them unmasked.                                                     *)
InterruptsEnabled == k.xSchedulerRunning

xPortPendSVHandler ==
  /\ InterruptsEnabled /\ k.pendsv
  /\ k' = vTaskSwitchContext([k EXCEPT !.pendsv = FALSE])
  /\ UNCHANGED <<script, queue, frame, last, handed, holds>>

xPortSysTickHandler ==
  /\ InterruptsEnabled
  /\ <<"tick", idle>> \in script.interrupts
  /\ k.uxMissedTicks < MaxMissed
  /\ k' = vTaskIncrementTick(taskYIELD(k))
  /\ UNCHANGED <<script, queue, frame, last, handed, holds>>

xQueueGenericSendFromISR(q) ==
  /\ InterruptsEnabled
  /\ <<"send", q>> \in script.interrupts
  /\ ~IsFull(queue[q]) /\ queue[q].xTxLock < MaxLock
  /\ \E item \in script.items :
       LET r == SendFromISR(k, queue[q], q, item)
       IN  k' = r.k /\ queue' = [queue EXCEPT ![q] = r.Q]
  /\ UNCHANGED <<script, frame, last, handed, holds>>

xQueueReceiveFromISR(q) ==
  /\ InterruptsEnabled
  /\ <<"receive", q>> \in script.interrupts
  /\ ~IsEmpty(queue[q]) /\ queue[q].xRxLock < MaxLock
  /\ LET r == ReceiveFromISR(k, queue[q], q)
     IN  k' = r.k /\ queue' = [queue EXCEPT ![q] = r.Q]
  /\ handed' = IF QueueType[q] = "queue" THEN NextItem(queue[q].buf) ELSE handed
  /\ UNCHANGED <<script, frame, last, holds>>

ResumeFromISR(t) ==
  /\ InterruptsEnabled
  /\ <<"resume", t>> \in script.interrupts
  /\ t \in Existing /\ xTaskIsTaskSuspended(k, t)
  /\ k' = xTaskResumeFromISR(k, t)
  /\ UNCHANGED <<script, queue, frame, last, handed, holds>>

-----------------------------------------------------------------------------
(* The ghosts follow every step.                                           *)
Sleeping(s) == ToSet(s.delayed) \cup ToSet(s.overflow)
TicksProcessed == (k'.xTickCount - k.xTickCount) % TickMod

Ghosts ==
  LET ticked == \/ k'.uxMissedTicks > k.uxMissedTicks
                \/ k.uxSchedulerSuspended = 0 /\ k'.xTickCount # k.xTickCount
  IN  /\ clock' = IF ticked THEN (clock + 1) % TickMod ELSE clock
      /\ left' = [t \in Tasks |->
           IF t \notin Sleeping(k') THEN 0
           ELSE IF t \notin Sleeping(k) THEN frame'[t].wait
           ELSE Max2(left[t] - TicksProcessed, 0)]
      /\ age' = [t \in Tasks |->
           IF ~frame'[t].timed THEN 0
           ELSE IF ticked /\ age[t] < frame[t].call.wait THEN age[t] + 1 ELSE age[t]]

(* A step of a call in progress, or of the idle task.                      *)
CallStep(t) ==
  \/ SuspendAll(t) \/ LockQueue(t) \/ CheckForTimeOut(t) \/ TestQueue(t)
  \/ InheritPriority(t) \/ PlaceOnEventList(t) \/ UnlockQueueTx(t) \/ UnlockQueueRx(t)
  \/ ResumeAll(t) \/ Yield(t)

Call(t) ==
  \/ xQueueGenericSend(t) \/ xQueueGenericReceive(t)
  \/ vTaskDelay(t) \/ vTaskDelayUntil(t)
  \/ vTaskSuspend(t) \/ vTaskResumeCall(t) \/ vTaskDelete(t) \/ xTaskCreateCall(t)

Interrupt ==
  \/ xPortSysTickHandler
  \/ \E q \in Queues : xQueueGenericSendFromISR(q) \/ xQueueReceiveFromISR(q)
  \/ \E t \in Tasks : ResumeFromISR(t)

Next ==
  /\ \/ Boot
     \/ \E t \in Tasks : CallStep(t) \/ Call(t)
     \/ prvIdleTask
     \/ xPortPendSVHandler
     \/ Interrupt
  /\ Ghosts

Spec == Init /\ [][Next]_vars

(* Fairness.  The timer never stops and a pending switch is taken.  A task *)
(* that runs again and again gets on with the call it is in: a time slice  *)
(* is long enough for a step.  What a task computes between calls may take *)
(* for ever, except while it holds a mutex: it then gives it back if it    *)
(* runs again and again.                                                   *)
Proceeds(t) ==
  /\ \/ frame[t].at # "ready" /\ (CallStep(t) \/ Call(t))
     \/ t = idle /\ prvIdleTask
  /\ Ghosts

GivesBack(t) == holds[t] # {} /\ xQueueGenericSend(t) /\ Ghosts

Fairness ==
  /\ WF_vars(Boot /\ Ghosts)
  /\ WF_vars(xPortPendSVHandler /\ Ghosts)
  /\ WF_vars(xPortSysTickHandler /\ Ghosts)
  /\ \A t \in Tasks : SF_vars(Proceeds(t)) /\ SF_vars(GivesBack(t))

FairSpec == Spec /\ Fairness

-----------------------------------------------------------------------------
(* Properties.                                                             *)

Fifo == INSTANCE BoundedFifo WITH
  Queues <- {q \in Queues : QueueType[q] = "queue"},
  Length <- QueueLength,
  fifo <- [q \in {q \in Queues : QueueType[q] = "queue"} |-> Contents(queue[q].buf)]

(* The shape of the state: what each record holds, and that a pointer of a *)
(* queue stays in its ring and a priority within the ready lists.          *)
TypeOK ==
  /\ script \in Scripts
  /\ k.live \subseteq Tasks /\ k.suspended \subseteq Tasks
  /\ k.uxPriority \in [Tasks -> Prios] /\ k.uxBasePriority \in [Tasks -> Prios]
  /\ k.eventValue \in [Tasks -> 1 .. configMAX_PRIORITIES]
  /\ k.wakeTime \in [Tasks -> Ticks]
  /\ k.ready \in [Prios -> TaskSeqs] /\ k.event \in [EventLists -> TaskSeqs]
  /\ {k.delayed, k.overflow, k.pending, k.terminated} \subseteq TaskSeqs
  /\ k.pxCurrentTCB \in Tasks /\ k.uxTopReadyPriority \in Prios
  /\ k.uxSchedulerSuspended \in {0, 1} /\ k.uxMissedTicks \in 0 .. MaxMissed
  /\ k.xTickCount \in Ticks /\ k.xNumOfOverflows \in 0 .. (OverflowMod - 1)
  /\ k.uxTasksDeleted \in 0 .. Cardinality(Tasks)
  /\ \A q \in Queues :
       /\ queue[q].buf \in Buffers(QueueLength[q])
       /\ queue[q].pxMutexHolder \in Tasks \cup {NoHolder}
       /\ {queue[q].xRxLock, queue[q].xTxLock} \subseteq -1 .. MaxLock
  /\ \A t \in Tasks : frame[t].at \in Stages /\ frame[t].wait \in Ticks
  /\ last \in [Tasks -> Ticks] /\ holds \in [Tasks -> SUBSET Queues]
  /\ handed \in Items \cup {NoItem} /\ clock \in Ticks

(* Every task is in one list of the scheduler: ready, delayed, suspended or *)
(* waiting for termination; only a task that is not ready waits for an     *)
(* event, on one list; nothing is pending unless the scheduler is          *)
(* suspended; and the idle task counts the deleted tasks right.            *)
GenericLists(t) ==
  {<<"ready", p>> : p \in {p \in Prios : t \in ToSet(k.ready[p])}}
    \cup {x \in {"delayed"} : t \in ToSet(k.delayed)}
    \cup {x \in {"overflow"} : t \in ToSet(k.overflow)}
    \cup {x \in {"suspended"} : t \in k.suspended}
    \cup {x \in {"terminated"} : t \in ToSet(k.terminated)}

WaitsOn(t) ==
  {l \in EventLists : t \in ToSet(k.event[l])}
    \cup {x \in {"pending"} : t \in ToSet(k.pending)}

ListsConsistent ==
  /\ \A t \in Tasks :
       /\ Cardinality(GenericLists(t)) = IF t \in k.live THEN 1 ELSE 0
       /\ Cardinality(WaitsOn(t)) <= 1
       /\ t \in ToSet(k.ready[k.uxPriority[t]]) => WaitsOn(t) = {}
       /\ t \in ToSet(k.terminated) => WaitsOn(t) = {}
       /\ \A p \in Prios : t \in ToSet(k.ready[p]) => p = k.uxPriority[t]
  /\ k.uxSchedulerSuspended = 0 => k.pending = <<>>
  /\ k.uxTasksDeleted = Len(k.terminated)

(* Whenever the processor is between calls, with no switch pending and the *)
(* scheduler not suspended, the running task is one that no ready task     *)
(* outranks (task.h: "the highest priority task ... is the task actually   *)
(* running"), and no ready list above uxTopReadyPriority is missed by the  *)
(* next switch.                                                            *)
HighestRuns ==
  LET t == k.pxCurrentTCB
  IN  /\ \A p \in Prios : p > k.uxTopReadyPriority => k.ready[p] = <<>>
      /\ /\ k.xSchedulerRunning /\ ~k.pendsv
         /\ k.uxSchedulerSuspended = 0 /\ frame[t].at # "yield"
         => /\ t \in ToSet(k.ready[k.uxPriority[t]])
            /\ \A p \in Prios : p > k.uxPriority[t] => k.ready[p] = <<>>

(* An item and a task that waits for it, or a free slot and a task that    *)
(* waits to fill it, are only found together while the queue is locked or  *)
(* while a task that was woken for it is on its way: no wake-up is lost to *)
(* an interrupt, a time-out or another task that came first.               *)
OnItsWay(q, ops) ==
  \E t \in Tasks :
    /\ frame[t].call.op \in ops /\ frame[t].call.on = q
    /\ \A l \in EventLists : t \notin ToSet(k.event[l])

NoLostWakeup ==
  \A q \in Queues :
    /\ /\ queue[q].xTxLock = queueUNLOCKED
       /\ ~IsEmpty(queue[q]) /\ k.event[ToReceive(q)] # <<>>
       => OnItsWay(q, ReceiveOps)
    /\ /\ queue[q].xRxLock = queueUNLOCKED
       /\ ~IsFull(queue[q]) /\ k.event[ToSend(q)] # <<>>
       => OnItsWay(q, SendOps)

(* The tasks that wait for an event are woken in the order of their        *)
(* priorities (tasks.c: "The event list is sorted in priority order").     *)
EventListsSorted ==
  \A l \in EventLists : \A i, j \in DOMAIN k.event[l] :
    i < j => k.uxPriority[k.event[l][i]] >= k.uxPriority[k.event[l][j]]

(* A mutex is held by the one task that took it, or is there to be taken.  *)
MutexesHeld ==
  \A q \in Queues : QueueType[q] = "mutex" =>
    /\ \A t \in Tasks : q \in holds[t] <=> queue[q].pxMutexHolder = t
    /\ IsEmpty(queue[q]) <=> queue[q].pxMutexHolder # NoHolder

(* The holder of a mutex is at least as important as every task that waits *)
(* for it; a task that holds none has its own priority back; and the event *)
(* lists stay in the order of priorities that inheritance changes.         *)
PriorityInheritance ==
  /\ MutexesHeld
  /\ \A q \in Queues : QueueType[q] = "mutex" /\ IsEmpty(queue[q]) =>
       \A t \in ToSet(k.event[ToReceive(q)]) :
         k.uxPriority[queue[q].pxMutexHolder] >= k.uxPriority[t]
  /\ \A t \in Tasks : holds[t] = {} => k.uxPriority[t] = k.uxBasePriority[t]
  /\ EventListsSorted

(* The tick count and the ticks still to be processed are the ticks there  *)
(* have been: suspending the scheduler makes time late, never wrong.       *)
TicksNotLost == (k.xTickCount + k.uxMissedTicks) % TickMod = clock

(* Sleepers are in the order of their wake times and on the right side of  *)
(* the wrap, so that the current list is empty when the lists are swapped  *)
(* (tasks.c: "If there are any items in pxDelayedTaskList here then there  *)
(* is an error!"), and none has slept longer than it asked to.             *)
DelayListsOrdered ==
  LET Sorted(s) == \A i, j \in DOMAIN s : i < j => k.wakeTime[s[i]] <= k.wakeTime[s[j]]
  IN  /\ Sorted(k.delayed) /\ Sorted(k.overflow)
      /\ \A t \in ToSet(k.delayed) : k.wakeTime[t] > k.xTickCount
      /\ \A t \in ToSet(k.overflow) : k.wakeTime[t] < k.xTickCount
      /\ \A t \in Sleeping(k) : left[t] > 0

(* The lists of the kernel agree with each other, with the priorities and  *)
(* with the time, whatever interleaves.                                    *)
KernelSound ==
  TypeOK /\ ListsConsistent /\ TicksNotLost /\ DelayListsOrdered

(* No tick wakes a sleeper before its time.                                *)
WokenInTime ==
  [][\A t \in Sleeping(k) \ Sleeping(k') :
       TicksProcessed > 0 /\ t \notin ToSet(k.pending) => left[t] <= TicksProcessed]_vars

(* While a task has the scheduler suspended, an interrupt leaves the ready *)
(* and the delayed lists alone: the task may be half-way through them.     *)
ListsFrozen ==
  [][k.uxSchedulerSuspended > 0 /\ frame' = frame =>
       /\ k'.ready = k.ready /\ k'.suspended = k.suspended
       /\ k'.delayed = k.delayed /\ k'.overflow = k.overflow]_vars

(* The scheduler's lists only change when they may.                        *)
ListsChangeInTime == WokenInTime /\ ListsFrozen

(* A call that waits fails only when it has waited for as long as it was   *)
(* told to, however often it was woken and lost the race for the queue.    *)
TimedOutFully ==
  [][\A t \in Tasks :
       frame[t].then = "fail" /\ frame'[t] = AtRest => age[t] >= frame[t].call.wait]_vars

(* The queues are bounded sequences: whatever interleaves, each item is    *)
(* handed out once (unless it is peeked at), and in order.                 *)
QueuesAreFifos == Fifo!Spec

-----------------------------------------------------------------------------
(* Liveness, under FairSpec.                                               *)

(* A task that sleeps, or waits with a time-out, is woken, across the wrap *)
(* of the tick count and whatever suspends the scheduler.                  *)
SleepersWake == \A t \in Tasks : t \in Sleeping(k) ~> t \notin Sleeping(k)

(* Ready tasks of one priority share the processor: each gets it, unless   *)
(* something more important is there for it (tasks.c: "the tasks of the    *)
(* same priority get an equal share of the processor time").               *)
Outranked(t) == \E p \in Prios : p > k.uxPriority[t] /\ k.ready[p] # <<>>
IsReady(t) == t \in ToSet(k.ready[k.uxPriority[t]])
EqualsShare ==
  \A t \in Tasks : IsReady(t) ~> (k.pxCurrentTCB = t \/ ~IsReady(t) \/ Outranked(t))

(* A task that waits for a mutex gets it, although a task of a priority    *)
(* between its own and the holder's computes for ever, unless the holder   *)
(* suspends itself or something more important than the waiter is ready.   *)
InversionEnds ==
  \A t \in Tasks, q \in Queues :
    (QueueType[q] = "mutex" /\ t \in ToSet(k.event[ToReceive(q)]))
      ~> (q \in holds[t] \/ queue[q].pxMutexHolder \in k.suspended \/ Outranked(t))

(* If the idle task keeps running, it frees every task that is deleted.    *)
DeletedFreed ==
  []<>(k.pxCurrentTCB = idle /\ ~k.pendsv)
    => \A t \in Tasks : t \in ToSet(k.terminated) ~> t \notin k.live

(* Nobody stays in a list for ever that time, or the idle task, empties.   *)
ListsEmpty == SleepersWake /\ DeletedFreed

-----------------------------------------------------------------------------
(* What a careful application does.                                        *)

(* A task that is deleted by another takes no wake-up with it if it is in  *)
(* no call of queue.c.                                                     *)
SparesWaiters(s) ==
  \A c, d \in s.calls : c.op = "delete" /\ c.on # c.task /\ d.task = c.on => d.op \notin QueueOps

(* The receives of a script that take a mutex, and the tasks that do.      *)
TakesOf(s) == {c \in s.calls : c.op \in ReceiveOps /\ QueueType[c.on] = "mutex"}
Takers(s) == {c.task : c \in TakesOf(s)}

(* The script uses mutexes with care: a task only ever takes one of them,  *)
(* without a time-out and without peeking, waits for no other queue, is    *)
(* suspended by nobody else and not deleted.                               *)
UsesMutexesWell(s) ==
  /\ \A c \in TakesOf(s) : c.op = "receive" /\ c.wait \in {0, portMAX_DELAY}
  /\ \A c, d \in TakesOf(s) : c.task = d.task => c.on = d.on
  /\ \A c \in s.calls :
       /\ /\ c.op \in QueueOps /\ c.task \in Takers(s) /\ QueueType[c.on] # "mutex"
          => c.wait = 0
       /\ c.op = "suspend" /\ c.on \in Takers(s) => c.task = c.on
       /\ c.op = "delete" => c.on \notin Takers(s)

=============================================================================
