-------------------------- MODULE RtosKernelProofs --------------------------
(***************************************************************************)
(* The kernel, whatever the applications call and however interrupts fall  *)
(* between the steps of their calls: mutexes are held by one task each,    *)
(* queues are bounded sequences, the lists of the scheduler agree with     *)
(* each other and with time, and no wake-up is lost.  WaitInv, for the     *)
(* last of these, says that whoever waits on an event list is in a call    *)
(* that will look at its queue again, that a queue stays locked while a    *)
(* call makes up its mind, and that there is a task on its way, or a       *)
(* wake-up counted for the unlock, for every item or slot somebody waits   *)
(* for.                                                                    *)
(***************************************************************************)
EXTENDS RtosTasksProofs

-----------------------------------------------------------------------------
(* Queue control blocks.                                                   *)


(* The stages at which a task is in a call of queue.c.                     *)
QueueStages == {"lock", "check", "test", "inherit", "place", "unlockTx", "unlockRx"}

ControlBlocks(q) ==
  [type : {QueueType[q]}, buf : Buffers(QueueLength[q]), pxMutexHolder : Tasks \cup {NoHolder},
   xRxLock : -1 .. MaxLock, xTxLock : -1 .. MaxLock]

IsQueue(q, Q) ==
  Q \in ControlBlocks(q) /\ (QueueType[q] = "queue" => PointersAgree(Q.buf))

QueuesOK == queue = [q \in Queues |-> queue[q]] /\ \A q \in Queues : IsQueue(q, queue[q])

(* The frame of a task: the call it is in, and what each stage says of it. *)
IsFrame(t, f) ==
  /\ DOMAIN f = {"at", "call", "wait", "timed", "entry", "then"}
  /\ f.at \in Stages /\ f.then \in {"return", "fail", "block", "retry", "work", "create"}
  /\ f.at = "ready" => f = AtRest
  /\ f.at # "ready" => IF t = idle THEN f.call = IdleCall ELSE f.call \in Calls /\ f.call.task = t
  /\ f.at \in QueueStages \cup {"enter"} => f.call.op \in QueueOps
  /\ f.at = "delay" => f.call.op \in DelayOps
  /\ f.at = "work" => f.call.op \in {"create", "idle"}
  /\ f.timed \in BOOLEAN /\ (f.timed <=> f.call.op \in QueueOps)
  /\ f.then = "fail" => f.timed /\ f.at \in {"unlockTx", "unlockRx", "resume"}
  /\ f.then = "create" => f.at = "yield" /\ f.call.op = "create"
  /\ f.then = "work" => f.call.op \in {"create", "idle"}

FramesOK ==
  /\ script \in Scripts
  /\ frame = [t \in Tasks |-> frame[t]]
  /\ \A t \in Tasks : IsFrame(t, frame[t])

MutexInv == QueuesOK /\ FramesOK /\ holds \in [Tasks -> SUBSET Queues] /\ MutexesHeld

(* What is known of the constants, for the solver.                         *)
LEMMA OnQueues ==
  ASSUME NEW c \in Calls, c.op \in QueueOps
  PROVE  c.on \in Queues /\ c.wait \in Ticks /\ c.task \in Tasks \ {idle}
BY SMT DEF Calls, NoCall, IdleCall, QueueOps, SendOps, ReceiveOps, TaskOps, DelayOps

(* Every queue has room for an item; a semaphore and a mutex for one only. *)
LEMMA Lengths ==
  ASSUME NEW q \in Queues
  PROVE  /\ QueueLength[q] \in Nat /\ QueueLength[q] > 0
         /\ QueueType[q] \in {"queue", "semaphore", "mutex"}
         /\ QueueType[q] # "queue" => QueueLength[q] = 1
BY QueuesAssumption

(* A queue's buffer is a buffer in use.                                    *)
LEMMA RingOf ==
  ASSUME NEW q \in Queues, NEW Q, IsQueue(q, Q), QueueType[q] = "queue"
  PROVE  IsBuffer(Q.buf) /\ Q.buf.uxLength = QueueLength[q]
<1>1. Q.buf \in Buffers(QueueLength[q]) /\ PointersAgree(Q.buf)
  BY DEF IsQueue, ControlBlocks
<1>2. Q.buf.uxLength = QueueLength[q]
  BY <1>1 DEF Buffers
<1> QED BY <1>1, <1>2, Lengths DEF IsBuffer

(* The numbers of a control block.                                         *)
LEMMA BlockNumbers ==
  ASSUME NEW q \in Queues, NEW Q, IsQueue(q, Q)
  PROVE  /\ Q \in ControlBlocks(q) /\ Q.type = QueueType[q]
         /\ Q.buf \in Buffers(QueueLength[q]) /\ Q.buf.uxLength = QueueLength[q]
         /\ Q.buf.uxMessagesWaiting \in 0 .. QueueLength[q]
         /\ Q.pxMutexHolder \in Tasks \cup {NoHolder}
         /\ Q.xRxLock \in -1 .. MaxLock /\ Q.xTxLock \in -1 .. MaxLock
BY Lengths DEF IsQueue, ControlBlocks, Buffers

(* One more item, or one less, in a queue whose items have no size.        *)
Counting(Q, n) == [Q EXCEPT !.buf.uxMessagesWaiting = n]

(* A semaphore or mutex stays a block of its queue when its count changes. *)
LEMMA CountFits ==
  ASSUME NEW q \in Queues, NEW Q, IsQueue(q, Q), NEW n \in 0 .. QueueLength[q],
         QueueType[q] # "queue", NEW P, P = Counting(Q, n)
  PROVE  /\ IsQueue(q, P) /\ P.buf.uxMessagesWaiting = n
         /\ P.pxMutexHolder = Q.pxMutexHolder
         /\ P.xTxLock = Q.xTxLock /\ P.xRxLock = Q.xRxLock
<1>1. /\ Q \in ControlBlocks(q) /\ Q.buf \in Buffers(QueueLength[q])
  BY BlockNumbers
<1>2. P = [Q EXCEPT !.buf = [Q.buf EXCEPT !.uxMessagesWaiting = n]]
  BY <1>1 DEF ControlBlocks, Counting
<1>3. [Q.buf EXCEPT !.uxMessagesWaiting = n] \in Buffers(QueueLength[q])
  BY <1>1 DEF Buffers
<1>4. [Q.buf EXCEPT !.uxMessagesWaiting = n].uxMessagesWaiting = n
  BY <1>1 DEF Buffers
<1> QED BY <1>1, <1>2, <1>3, <1>4 DEF ControlBlocks, IsQueue

(* Another buffer in a queue of items.                                     *)
LEMMA BufferFits ==
  ASSUME NEW q \in Queues, NEW Q, IsQueue(q, Q), NEW b, IsBuffer(b),
         b.uxLength = QueueLength[q], NEW P, P = [Q EXCEPT !.buf = b]
  PROVE  /\ IsQueue(q, P) /\ P.buf = b /\ P.pxMutexHolder = Q.pxMutexHolder
         /\ P.xTxLock = Q.xTxLock /\ P.xRxLock = Q.xRxLock
BY DEF IsQueue, ControlBlocks, IsBuffer

(* Other locks, and another holder.                                        *)
LEMMA LocksFit ==
  ASSUME NEW q \in Queues, NEW Q, IsQueue(q, Q), NEW rx \in -1 .. MaxLock,
         NEW tx \in -1 .. MaxLock, NEW P, P = [Q EXCEPT !.xRxLock = rx, !.xTxLock = tx]
  PROVE  /\ IsQueue(q, P) /\ P.buf = Q.buf /\ P.pxMutexHolder = Q.pxMutexHolder
         /\ P.xTxLock = tx /\ P.xRxLock = rx
BY DEF IsQueue, ControlBlocks

(* A control block stays one of its queue when the mutex changes hands.    *)
LEMMA HolderFits ==
  ASSUME NEW q \in Queues, NEW Q, IsQueue(q, Q), NEW t \in Tasks \cup {NoHolder},
         NEW P, P = [Q EXCEPT !.pxMutexHolder = t]
  PROVE  /\ IsQueue(q, P) /\ P.buf = Q.buf /\ P.pxMutexHolder = t
         /\ P.xTxLock = Q.xTxLock /\ P.xRxLock = Q.xRxLock
BY DEF IsQueue, ControlBlocks

(* What was put into a queue: items go to one end of its contents, and a   *)
(* mutex has no holder any more.                                           *)
PutIn(q, Q, P, item) ==
  /\ IsQueue(q, P) /\ P.xTxLock = Q.xTxLock /\ P.xRxLock = Q.xRxLock
  /\ QueueType[q] = "queue" =>
       /\ Len(Contents(Q.buf)) < QueueLength[q]
       /\ \/ Contents(P.buf) = Append(Contents(Q.buf), item)
          \/ Contents(P.buf) = <<item>> \o Contents(Q.buf)
  /\ QueueType[q] = "mutex" =>
       /\ P.pxMutexHolder = NoHolder
       /\ P.buf.uxMessagesWaiting = Q.buf.uxMessagesWaiting + 1

(* prvCopyDataToQueue.                                                     *)
LEMMA CopiedIn ==
  ASSUME NEW q \in Queues, NEW Q, IsQueue(q, Q), ~IsFull(Q), NEW item \in Items,
         NEW front \in BOOLEAN, NEW k0, NEW P, P = prvCopyDataToQueue(k0, Q, item, front).Q
  PROVE  PutIn(q, Q, P, item)
<1>0. /\ Q.buf.uxMessagesWaiting \in 0 .. QueueLength[q]
      /\ Q.buf.uxMessagesWaiting # QueueLength[q] /\ Q.type = QueueType[q]
  BY BlockNumbers DEF IsFull
<1>1. Q.buf.uxMessagesWaiting + 1 \in 0 .. QueueLength[q]
  BY <1>0, Lengths
<1> DEFINE C == CountUp(Q)
<1>2. ASSUME QueueType[q] # "queue"
      PROVE  /\ IsQueue(q, C) /\ C.buf.uxMessagesWaiting = Q.buf.uxMessagesWaiting + 1
             /\ C.pxMutexHolder = Q.pxMutexHolder
             /\ C.xTxLock = Q.xTxLock /\ C.xRxLock = Q.xRxLock
  <2> DEFINE n == Q.buf.uxMessagesWaiting + 1
  <2>1. C = Counting(Q, n)
    BY DEF CountUp, Counting
  <2>2. n \in 0 .. QueueLength[q] /\ n = Q.buf.uxMessagesWaiting + 1
    BY <1>1
  <2> HIDE DEF C, n
  <2> QED BY <1>2, <2>1, <2>2, CountFits
<1>3. CASE QueueType[q] = "mutex"
  <2>1. P = [C EXCEPT !.pxMutexHolder = NoHolder]
    BY <1>3, <1>0 DEF prvCopyDataToQueue
  <2> QED BY <2>1, <1>2, <1>3, HolderFits DEF PutIn
<1>4. CASE QueueType[q] = "semaphore"
  <2>1. P = C
    BY <1>4, <1>0 DEF prvCopyDataToQueue
  <2> QED BY <2>1, <1>2, <1>4 DEF PutIn
<1>5. CASE QueueType[q] = "queue"
  <2>1. IsBuffer(Q.buf) /\ Q.buf.uxLength = QueueLength[q]
    BY <1>5, RingOf
  <2>2. Q.buf.uxMessagesWaiting < Q.buf.uxLength
    BY <1>0, <2>1, Lengths
  <2>3. P = [Q EXCEPT !.buf = IF front THEN CopyToFront(Q.buf, item) ELSE CopyToBack(Q.buf, item)]
    BY <1>5, <1>0, BlockNumbers DEF prvCopyDataToQueue, ControlBlocks
  <2>4. Len(Contents(Q.buf)) < QueueLength[q]
    BY <2>1, <2>2, ContentsAre DEF Holds
  <2>5. CASE front
    <3> DEFINE b == CopyToFront(Q.buf, item)
    <3>1. IsBuffer(b) /\ Contents(b) = <<item>> \o Contents(Q.buf)
      BY <2>1, <2>2, FrontPrepends
    <3>2. b.uxLength = QueueLength[q]
      <4>1. Has(b, Q.buf.uxLength, [Q.buf.store EXCEPT ![Q.buf.pcReadFrom] = item],
                Q.buf.pcWriteTo, PreviousSlot(Q.buf, Q.buf.pcReadFrom),
                Q.buf.uxMessagesWaiting + 1)
        BY <2>1, <2>2, FieldsOfFront
      <4> HIDE DEF b
      <4> QED BY <4>1, <2>1 DEF Has
    <3>3. P = [Q EXCEPT !.buf = b]
      BY <2>3, <2>5
    <3> QED BY <3>1, <3>2, <3>3, <2>4, <1>5, BufferFits DEF PutIn
  <2>6. CASE ~front
    <3> DEFINE b == CopyToBack(Q.buf, item)
    <3>1. IsBuffer(b) /\ Contents(b) = Append(Contents(Q.buf), item)
      BY <2>1, <2>2, BackAppends
    <3>2. b.uxLength = QueueLength[q]
      <4>1. Has(b, Q.buf.uxLength, [Q.buf.store EXCEPT ![Q.buf.pcWriteTo] = item],
                NextSlot(Q.buf, Q.buf.pcWriteTo), Q.buf.pcReadFrom,
                Q.buf.uxMessagesWaiting + 1)
        BY <2>1, <2>2, FieldsOfBack
      <4> HIDE DEF b
      <4> QED BY <4>1, <2>1 DEF Has
    <3>3. P = [Q EXCEPT !.buf = b]
      BY <2>3, <2>6
    <3> QED BY <3>1, <3>2, <3>3, <2>4, <1>5, BufferFits DEF PutIn
  <2> QED BY <2>5, <2>6
<1> QED BY <1>3, <1>4, <1>5, Lengths

(* What was taken out of a queue, by t when it is a mutex.                 *)
TakenOut(q, Q, P, t) ==
  /\ IsQueue(q, P) /\ P.xTxLock = Q.xTxLock /\ P.xRxLock = Q.xRxLock
  /\ QueueType[q] = "queue" =>
       /\ Contents(Q.buf) # <<>> /\ NextItem(Q.buf) = Head(Contents(Q.buf))
       /\ Contents(P.buf) = Tail(Contents(Q.buf))
  /\ QueueType[q] = "mutex" =>
       P.pxMutexHolder = t /\ P.buf.uxMessagesWaiting = Q.buf.uxMessagesWaiting - 1

(* prvCopyDataFromQueue takes the first item, or the mutex for its new     *)
(* holder.                                                                 *)
LEMMA CopiedOut ==
  ASSUME NEW q \in Queues, NEW Q, IsQueue(q, Q), ~IsEmpty(Q), NEW t \in Tasks \cup {NoHolder},
         NEW P, P = TakeFromQueue(Q, t)
  PROVE  TakenOut(q, Q, P, t)
<1>0. /\ Q.buf.uxMessagesWaiting \in 0 .. QueueLength[q] /\ Q.buf.uxMessagesWaiting # 0
      /\ Q.type = QueueType[q]
  BY BlockNumbers DEF IsEmpty
<1>1. Q.buf.uxMessagesWaiting - 1 \in 0 .. QueueLength[q] /\ Q.buf.uxMessagesWaiting > 0
  BY <1>0, Lengths
<1>2. CASE QueueType[q] # "queue"
  <2> DEFINE C == [Q EXCEPT !.buf.uxMessagesWaiting = Q.buf.uxMessagesWaiting - 1]
             h == IF Q.type = "mutex" THEN t ELSE Q.pxMutexHolder
  <2>1. /\ IsQueue(q, C) /\ C.buf.uxMessagesWaiting = Q.buf.uxMessagesWaiting - 1
        /\ C.xTxLock = Q.xTxLock /\ C.xRxLock = Q.xRxLock
    <3> DEFINE n == Q.buf.uxMessagesWaiting - 1
    <3>1. C = Counting(Q, n)
      BY DEF Counting
    <3>2. n \in 0 .. QueueLength[q] /\ n = Q.buf.uxMessagesWaiting - 1
      BY <1>1
    <3> HIDE DEF C, n
    <3> QED BY <1>2, <3>1, <3>2, CountFits
  <2>2. P = [C EXCEPT !.pxMutexHolder = h]
    BY <1>2, <1>0, BlockNumbers DEF TakeFromQueue, ControlBlocks
  <2>3. h \in Tasks \cup {NoHolder}
    BY BlockNumbers
  <2> HIDE DEF C
  <2>4. /\ IsQueue(q, P) /\ P.buf = C.buf /\ P.pxMutexHolder = h
        /\ P.xTxLock = C.xTxLock /\ P.xRxLock = C.xRxLock
    BY <2>1, <2>2, <2>3, HolderFits
  <2> QED BY <2>1, <2>4, <1>0, <1>2 DEF TakenOut
<1>3. CASE QueueType[q] = "queue"
  <2> DEFINE b == CopyFrom(Q.buf)
  <2>1. IsBuffer(Q.buf) /\ Q.buf.uxLength = QueueLength[q]
    BY <1>3, RingOf
  <2>2. IsBuffer(b) /\ Contents(b) = Tail(Contents(Q.buf))
        /\ NextItem(Q.buf) = Head(Contents(Q.buf))
    BY <1>1, <2>1, ReadTakesFirst
  <2>3. b.uxLength = QueueLength[q]
    BY <1>1, <2>1, FieldsOfRead DEF Has
  <2>4. P = [Q EXCEPT !.buf = b]
    BY <1>3, <1>0 DEF TakeFromQueue
  <2>5. Contents(Q.buf) # <<>>
    BY <1>1, <2>1, ContentsAre DEF Holds
  <2> HIDE DEF b
  <2> QED BY <2>1, <2>2, <2>3, <2>4, <2>5, <1>3, BufferFits DEF TakenOut
<1> QED BY <1>2, <1>3

-----------------------------------------------------------------------------
(* Frames.                                                                 *)

(* One frame changes.                                                      *)
LEMMA FrameSet ==
  ASSUME FramesOK, script' = script, NEW t \in Tasks, NEW f, IsFrame(t, f),
         frame' = [frame EXCEPT ![t] = f]
  PROVE  FramesOK'
BY DEF FramesOK, IsFrame

(* The record of a task that is in no call of the kernel is a frame.       *)
LEMMA RestIsFrame ==
  ASSUME NEW t \in Tasks
  PROVE  IsFrame(t, AtRest)
BY SMT DEF IsFrame, AtRest, NoCall, Stages, QueueStages, QueueOps, SendOps, ReceiveOps, DelayOps

(* A call of a script, or the one that a task is in.                       *)
LEMMA Entered ==
  ASSUME FramesOK, NEW t \in Tasks, NEW c, Enters(t, c)
  PROVE  /\ c \in Calls /\ c.task = t /\ t # idle
         /\ frame[t].at # "ready" => frame[t].call = c /\ c.op \in QueueOps
<1>1. IsFrame(t, frame[t]) /\ script.calls \subseteq Calls
  BY ScriptsAssumption DEF FramesOK
<1>2. CASE frame[t].at = "ready" /\ c \in script.calls /\ c.task = t
  <2>1. c \in Calls
    BY <1>1, <1>2
  <2> QED BY <1>2, <2>1, SMT DEF Calls
<1>3. CASE frame[t].at = "enter" /\ c = frame[t].call
  <2>1. c.op \in QueueOps /\ c.op # "idle"
    BY <1>1, <1>3, SMT DEF IsFrame, QueueOps, SendOps, ReceiveOps
  <2> QED BY <1>1, <1>3, <2>1, SMT DEF IsFrame, IdleCall
<1> QED BY <1>2, <1>3 DEF Enters

(* WaitOrFail.                                                             *)
LEMMA WaitFrames ==
  ASSUME FramesOK, NEW t \in Tasks, NEW c, Enters(t, c), c.op \in QueueOps, WaitOrFail(t, c)
  PROVE  FramesOK'
<1> DEFINE f == IF frame[t].at = "ready" THEN [AtRest EXCEPT !.call = c, !.wait = c.wait]
                ELSE frame[t]
           f1 == IF f.timed THEN f ELSE [f EXCEPT !.timed = TRUE, !.entry = TimeOutState(k)]
           f2 == [f1 EXCEPT !.at = "suspend"]
<1>1. c \in Calls /\ c.task = t /\ t # idle /\ IsFrame(t, frame[t]) /\ script' = script
  BY Entered DEF FramesOK, WaitOrFail
<1>2. CASE f.wait = 0
  <2>1. frame' = [frame EXCEPT ![t] = AtRest]
    BY <1>2 DEF WaitOrFail, Return
  <2> QED BY <2>1, <1>1, RestIsFrame, FrameSet
<1>3. CASE f.wait # 0
  <2>1. frame' = [frame EXCEPT ![t] = f2]
    BY <1>3 DEF WaitOrFail
  <2>2. IsFrame(t, f2)
    <3>1. CASE frame[t].at = "ready"
      <4>1. /\ DOMAIN f2 = {"at", "call", "wait", "timed", "entry", "then"}
            /\ f2.at = "suspend" /\ f2.call = c /\ f2.timed /\ f2.timed \in BOOLEAN /\ f2.then = "return"
        BY <3>1 DEF AtRest
      <4> HIDE DEF f2
      <4> QED BY <4>1, <1>1, SMT DEF IsFrame, Stages, QueueStages
    <3>2. CASE frame[t].at # "ready"
      <4>1. frame[t].call = c /\ frame[t].timed /\ frame[t].then # "fail"
            /\ frame[t].then # "create"
        BY <3>2, <1>1, Entered DEF IsFrame, Enters
      <4>2. f2 = [frame[t] EXCEPT !.at = "suspend"]
        BY <3>2, <4>1
      <4>3. /\ DOMAIN f2 = {"at", "call", "wait", "timed", "entry", "then"}
            /\ f2.at = "suspend" /\ f2.call = c /\ f2.timed = frame[t].timed
            /\ f2.then = frame[t].then
        BY <4>1, <4>2, <1>1 DEF IsFrame
      <4>4. frame[t].timed \in BOOLEAN /\ c.op \in QueueOps
            /\ frame[t].then \in {"return", "fail", "block", "retry", "work", "create"}
        BY <3>2, <1>1, Entered DEF IsFrame
      <4> HIDE DEF f2
      <4> QED BY <4>1, <4>3, <4>4, <1>1, SMT DEF IsFrame, Stages, QueueStages
    <3> QED BY <3>1, <3>2
  <2> HIDE DEF f2
  <2> QED BY <2>1, <2>2, <1>1, FrameSet
<1> QED BY <1>2, <1>3

(* The other changes of a frame.                                           *)
LEMMA ReturnFrames ==
  ASSUME FramesOK, NEW t \in Tasks, Return(t), script' = script
  PROVE  FramesOK'
BY RestIsFrame, FrameSet DEF Return

(* A task that goes on to another stage of its call keeps the frames well  *)
(* formed.                                                                 *)
LEMMA GoFrames ==
  ASSUME FramesOK, NEW t \in Tasks, NEW stage, IsFrame(t, [frame[t] EXCEPT !.at = stage]),
         GoTo(t, stage), script' = script
  PROVE  FramesOK'
<1> DEFINE f == [frame[t] EXCEPT !.at = stage]
<1>1. frame' = [frame EXCEPT ![t] = f]
  BY DEF GoTo
<1> HIDE DEF f
<1> QED BY <1>1, FrameSet DEF f

(* So does a call that begins by suspending the scheduler.                 *)
LEMMA SuspendFrames ==
  ASSUME FramesOK, NEW t \in Tasks, NEW c, NEW then, Suspends(t, c, then), script' = script,
         \/ t # idle /\ c \in Calls /\ c.task = t /\ c.op \notin QueueOps
            /\ then \in {"block", "work"} /\ (then = "work" => c.op = "create")
         \/ t = idle /\ c = IdleCall /\ then = "work"
  PROVE  FramesOK'
<1> DEFINE f == [AtRest EXCEPT !.at = "suspend", !.call = c, !.then = then]
<1>1. /\ DOMAIN f = {"at", "call", "wait", "timed", "entry", "then"}
      /\ f.at = "suspend" /\ f.call = c /\ ~f.timed /\ f.timed \in BOOLEAN /\ f.then = then
  BY DEF AtRest
<1>2. frame' = [frame EXCEPT ![t] = f]
  BY DEF Suspends
<1> HIDE DEF f
<1>3. IsFrame(t, f)
  BY <1>1, SMT DEF IsFrame, Stages, QueueStages, IdleCall, QueueOps, SendOps, ReceiveOps
<1> HIDE DEF f
<1> QED BY <1>2, <1>3, FrameSet

(* A call in progress goes on to another stage.                            *)
LEMMA StageChange ==
  ASSUME NEW t, NEW f, IsFrame(t, f), f.at # "ready", NEW at \in Stages \ {"ready"},
         at \in QueueStages \cup {"enter"} => f.call.op \in QueueOps,
         at = "delay" => f.call.op \in DelayOps,
         at = "work" => f.call.op \in {"create", "idle"},
         f.then = "fail" => at \in {"unlockTx", "unlockRx", "resume"},
         f.then = "create" => at = "yield"
  PROVE  IsFrame(t, [f EXCEPT !.at = at])
<1> DEFINE g == [f EXCEPT !.at = at]
<1>1. /\ DOMAIN g = {"at", "call", "wait", "timed", "entry", "then"}
      /\ g.at = at /\ g.call = f.call /\ (g.timed <=> f.timed) /\ g.then = f.then
      /\ g.timed \in BOOLEAN
  BY DEF IsFrame
<1> HIDE DEF g
<1>2. IsFrame(t, g)
  BY <1>1 DEF IsFrame
<1> QED BY <1>2 DEF g

(* The steps of a call in progress.                                        *)
LEMMA CallStepFrames ==
  ASSUME FramesOK, NEW t \in Tasks, CallStep(t)
  PROVE  FramesOK'
<1>0. IsFrame(t, frame[t]) /\ script' = script
  BY DEF FramesOK, Stages, CallStep, SuspendAll, LockQueue, CheckForTimeOut, TestQueue,
         InheritPriority, PlaceOnEventList, UnlockQueueTx, UnlockQueueRx, ResumeAll, Yield
<1>1. CASE SuspendAll(t)
  <2> DEFINE at == CASE frame[t].call.op \in SendOps \cup ReceiveOps -> "lock"
                     [] frame[t].call.op \in DelayOps -> "delay"
                     [] OTHER -> "resume"
  <2>1. frame[t].at = "suspend" /\ GoTo(t, at)
    BY <1>1 DEF SuspendAll, Reaches
  <2>2. /\ at \in {"lock", "delay", "resume"}
        /\ at = "lock" => frame[t].call.op \in QueueOps
        /\ at = "delay" => frame[t].call.op \in DelayOps
    BY DEF QueueOps
  <2> HIDE DEF at
  <2>3. IsFrame(t, [frame[t] EXCEPT !.at = at])
    BY <1>0, <2>1, <2>2, StageChange DEF Stages, QueueStages, IsFrame
  <2> QED BY <1>0, <2>1, <2>3, GoFrames
<1>2. CASE LockQueue(t)
  <2>1. frame[t].at = "lock" /\ GoTo(t, "check")
    BY <1>2 DEF LockQueue, Reaches
  <2>2. IsFrame(t, [frame[t] EXCEPT !.at = "check"])
    BY <1>0, <2>1, StageChange DEF Stages, QueueStages, IsFrame
  <2> QED BY <1>0, <2>1, <2>2, GoFrames
<1>3. CASE CheckForTimeOut(t)
  <2> DEFINE r == xTaskCheckForTimeOut(k, frame[t].entry, frame[t].wait)
             f == [frame[t] EXCEPT !.at = IF r.expired THEN "unlockTx" ELSE "test",
                                   !.then = IF r.expired THEN "fail" ELSE @,
                                   !.wait = r.wait, !.entry = r.entry]
  <2>1. frame[t].at = "check" /\ frame' = [frame EXCEPT ![t] = f]
    BY <1>3 DEF CheckForTimeOut, Reaches
  <2> HIDE DEF r
  <2>2. /\ DOMAIN f = {"at", "call", "wait", "timed", "entry", "then"}
        /\ f.at = IF r.expired THEN "unlockTx" ELSE "test"
        /\ f.then = IF r.expired THEN "fail" ELSE frame[t].then
        /\ f.call = frame[t].call /\ (f.timed <=> frame[t].timed) /\ f.timed \in BOOLEAN
    BY <1>0 DEF IsFrame
  <2> HIDE DEF f
  <2>3. IsFrame(t, f)
    BY <1>0, <2>1, <2>2 DEF IsFrame, Stages, QueueStages
  <2> QED BY <1>0, <2>1, <2>3, FrameSet
<1>4. CASE TestQueue(t)
  <2> DEFINE c == frame[t].call
             blocks == IF c.op \in SendOps THEN IsFull(queue[c.on]) ELSE IsEmpty(queue[c.on])
             inherits == QueueType[c.on] = "mutex" /\ c.op \in ReceiveOps
             f == [frame[t] EXCEPT
                     !.at = IF ~blocks THEN "unlockTx" ELSE IF inherits THEN "inherit" ELSE "place",
                     !.then = IF blocks THEN "block" ELSE "retry"]
  <2>1. frame[t].at = "test" /\ frame' = [frame EXCEPT ![t] = f]
    BY <1>4 DEF TestQueue, Reaches
  <2> HIDE DEF blocks, inherits
  <2>2. /\ DOMAIN f = {"at", "call", "wait", "timed", "entry", "then"}
        /\ f.at \in {"unlockTx", "inherit", "place"} /\ f.then \in {"block", "retry"}
        /\ f.call = frame[t].call /\ (f.timed <=> frame[t].timed) /\ f.timed \in BOOLEAN
    BY <1>0 DEF IsFrame
  <2> HIDE DEF f
  <2>3. IsFrame(t, f)
    BY <1>0, <2>1, <2>2 DEF IsFrame, Stages, QueueStages
  <2> QED BY <1>0, <2>1, <2>3, FrameSet
<1>5. CASE InheritPriority(t)
  <2>1. frame[t].at = "inherit" /\ GoTo(t, "place")
    BY <1>5 DEF InheritPriority, Reaches
  <2>2. IsFrame(t, [frame[t] EXCEPT !.at = "place"])
    BY <1>0, <2>1, StageChange DEF Stages, QueueStages, IsFrame
  <2> QED BY <1>0, <2>1, <2>2, GoFrames
<1>6. CASE PlaceOnEventList(t)
  <2>1. frame[t].at = "place" /\ GoTo(t, "unlockTx")
    BY <1>6 DEF PlaceOnEventList, Reaches
  <2>2. IsFrame(t, [frame[t] EXCEPT !.at = "unlockTx"])
    BY <1>0, <2>1, StageChange DEF Stages, QueueStages, IsFrame
  <2> QED BY <1>0, <2>1, <2>2, GoFrames
<1>7. CASE UnlockQueueTx(t)
  <2>1. frame[t].at = "unlockTx" /\ GoTo(t, "unlockRx")
    BY <1>7 DEF UnlockQueueTx, Reaches
  <2>2. IsFrame(t, [frame[t] EXCEPT !.at = "unlockRx"])
    BY <1>0, <2>1, StageChange DEF Stages, QueueStages, IsFrame
  <2> QED BY <1>0, <2>1, <2>2, GoFrames
<1>8. CASE UnlockQueueRx(t)
  <2>1. frame[t].at = "unlockRx" /\ GoTo(t, "resume")
    BY <1>8 DEF UnlockQueueRx, Reaches
  <2>2. IsFrame(t, [frame[t] EXCEPT !.at = "resume"])
    BY <1>0, <2>1, StageChange DEF Stages, QueueStages, IsFrame
  <2> QED BY <1>0, <2>1, <2>2, GoFrames
<1>9. CASE ResumeAll(t)
  <2>1. /\ frame[t].at = "resume"
        /\ \/ GoTo(t, "yield") /\ frame[t].then = "block"
           \/ GoTo(t, "enter") /\ frame[t].call.op \in QueueOps /\ frame[t].then # "fail"
           \/ GoTo(t, "work") /\ frame[t].then = "work" /\ frame[t].call.op \notin QueueOps
           \/ Return(t)
    BY <1>9 DEF ResumeAll, Reaches, QueueOps
  <2>2. CASE GoTo(t, "yield") /\ frame[t].then = "block"
    <3>1. IsFrame(t, [frame[t] EXCEPT !.at = "yield"])
      BY <1>0, <2>1, <2>2, StageChange DEF Stages, QueueStages, IsFrame
    <3> QED BY <1>0, <2>2, <3>1, GoFrames
  <2>3. CASE GoTo(t, "enter") /\ frame[t].call.op \in QueueOps /\ frame[t].then # "fail"
    <3>1. IsFrame(t, [frame[t] EXCEPT !.at = "enter"])
      BY <1>0, <2>1, <2>3, StageChange DEF Stages, QueueStages, IsFrame
    <3> QED BY <1>0, <2>3, <3>1, GoFrames
  <2>4. CASE GoTo(t, "work") /\ frame[t].then = "work" /\ frame[t].call.op \notin QueueOps
    <3>1. IsFrame(t, [frame[t] EXCEPT !.at = "work"])
      BY <1>0, <2>1, <2>4, StageChange DEF Stages, QueueStages, IsFrame
    <3> QED BY <1>0, <2>4, <3>1, GoFrames
  <2> QED BY <1>0, <2>1, <2>2, <2>3, <2>4, ReturnFrames
<1>10. CASE Yield(t)
  <2>1. /\ frame[t].at = "yield"
        /\ \/ GoTo(t, "enter") /\ frame[t].call.op \in QueueOps
           \/ Return(t)
    BY <1>10 DEF Yield, Reaches, QueueOps
  <2>2. CASE GoTo(t, "enter") /\ frame[t].call.op \in QueueOps
    <3>1. frame[t].call.op # "create"
      BY <2>2, SMT DEF QueueOps, SendOps, ReceiveOps
    <3>2. IsFrame(t, [frame[t] EXCEPT !.at = "enter"])
      BY <1>0, <2>1, <2>2, <3>1, StageChange DEF Stages, QueueStages, IsFrame
    <3> QED BY <1>0, <2>2, <3>2, GoFrames
  <2> QED BY <1>0, <2>1, <2>2, ReturnFrames
<1> QED BY <1>1, <1>2, <1>3, <1>4, <1>5, <1>6, <1>7, <1>8, <1>9, <1>10 DEF CallStep

(* The calls.                                                              *)
LEMMA CallFrames ==
  ASSUME FramesOK, NEW t \in Tasks, Call(t)
  PROVE  FramesOK'
<1>0. IsFrame(t, frame[t]) /\ script.calls \subseteq Calls
  BY ScriptsAssumption DEF FramesOK
<1>1. CASE xQueueGenericSend(t) \/ xQueueGenericReceive(t)
  <2>1. PICK c : /\ c.op \in QueueOps /\ Enters(t, c)
                 /\ WaitOrFail(t, c) \/ (Return(t) /\ script' = script)
    BY <1>1 DEF xQueueGenericSend, xQueueGenericReceive, QueueOps
  <2> QED BY <2>1, WaitFrames, ReturnFrames
<1>2. CASE vTaskDelay(t)
  <2>0. script' = script
    BY <1>2 DEF vTaskDelay
  <2>1. CASE \E c \in script.calls :
              /\ c.op = "delay" /\ Enters(t, c)
              /\ IF c.wait = 0 THEN k' = taskYIELD(k) /\ UNCHANGED frame
                 ELSE /\ frame' = [frame EXCEPT ![t] = [AtRest EXCEPT
                           !.at = "suspend", !.call = c, !.wait = c.wait, !.then = "block"]]
                      /\ UNCHANGED k
    <3>1. PICK c \in script.calls :
              /\ c.op = "delay" /\ Enters(t, c)
              /\ \/ UNCHANGED frame
                 \/ frame' = [frame EXCEPT ![t] = [AtRest EXCEPT
                       !.at = "suspend", !.call = c, !.wait = c.wait, !.then = "block"]]
      BY <2>1
    <3>2. c \in Calls /\ c.task = t /\ t # idle
      BY <3>1, Entered
    <3> DEFINE f == [AtRest EXCEPT !.at = "suspend", !.call = c, !.wait = c.wait, !.then = "block"]
    <3>3. /\ DOMAIN f = {"at", "call", "wait", "timed", "entry", "then"}
          /\ f.at = "suspend" /\ f.call = c /\ ~f.timed /\ f.timed \in BOOLEAN /\ f.then = "block"
      BY DEF AtRest
    <3>4. UNCHANGED frame \/ frame' = [frame EXCEPT ![t] = f]
      BY <3>1
    <3> HIDE DEF f
    <3>5. IsFrame(t, f)
      BY <3>1, <3>2, <3>3, SMT DEF IsFrame, Stages, QueueStages, QueueOps, SendOps, ReceiveOps
    <3>6. CASE UNCHANGED frame
      BY <3>6, <2>0 DEF FramesOK, IsFrame
    <3> QED BY <3>4, <3>5, <3>6, <2>0, FrameSet
  <2>2. CASE Reaches(t, "delay") /\ GoTo(t, "resume")
    <3>1. frame[t].at = "delay"
      BY <2>2 DEF Reaches
    <3>2. IsFrame(t, [frame[t] EXCEPT !.at = "resume"])
      BY <1>0, <3>1, StageChange DEF Stages, QueueStages, IsFrame
    <3> QED BY <2>0, <2>2, <3>2, GoFrames
  <2> QED BY <1>2, <2>1, <2>2 DEF vTaskDelay
<1>3. CASE vTaskDelayUntil(t)
  <2>0. script' = script
    BY <1>3 DEF vTaskDelayUntil
  <2>1. CASE \E c \in script.calls : c.op = "delayUntil" /\ Enters(t, c) /\ Suspends(t, c, "block")
    <3>1. PICK c \in script.calls :
            c.op = "delayUntil" /\ Enters(t, c) /\ Suspends(t, c, "block")
      BY <2>1
    <3>2. c \in Calls /\ c.task = t /\ t # idle /\ c.op \notin QueueOps
      BY <3>1, Entered, SMT DEF QueueOps, SendOps, ReceiveOps
    <3> QED BY <2>0, <3>1, <3>2, SuspendFrames
  <2>2. CASE /\ Reaches(t, "delay") /\ frame[t].call.op = "delayUntil"
             /\ frame' = [frame EXCEPT ![t].at = "resume",
                   ![t].wait = (((last[t] + frame[t].call.wait) % TickMod) - k.xTickCount) % TickMod]
    <3> DEFINE w == (((last[t] + frame[t].call.wait) % TickMod) - k.xTickCount) % TickMod
               f == [frame[t] EXCEPT !.at = "resume", !.wait = w]
    <3>1. frame[t].at = "delay" /\ frame' = [frame EXCEPT ![t] = f]
      BY <2>2 DEF Reaches
    <3> HIDE DEF w
    <3>2. /\ DOMAIN f = {"at", "call", "wait", "timed", "entry", "then"}
          /\ f.at = "resume" /\ f.call = frame[t].call /\ (f.timed <=> frame[t].timed)
          /\ f.timed \in BOOLEAN /\ f.then = frame[t].then
      BY <1>0 DEF IsFrame
    <3> HIDE DEF f
    <3>3. IsFrame(t, f)
      BY <1>0, <3>1, <3>2 DEF IsFrame, Stages, QueueStages
    <3> QED BY <2>0, <3>1, <3>3, FrameSet
  <2> QED BY <1>3, <2>1, <2>2 DEF vTaskDelayUntil
<1>4. CASE vTaskSuspend(t) \/ vTaskDelete(t)
  <2>1. PICK c \in script.calls :
          /\ c.op \in {"suspend", "delete"} /\ Enters(t, c) /\ script' = script
          /\ \/ c.on = t /\ frame' = [frame EXCEPT ![t] = [AtRest EXCEPT !.at = "yield", !.call = c]]
             \/ c.on # t /\ (frame' = frame \/ frame' = [frame EXCEPT ![c.on] = AtRest])
    BY <1>4 DEF vTaskSuspend, vTaskDelete
  <2>2. c \in Calls /\ c.task = t /\ t # idle /\ c.op \notin QueueOps
    BY <2>1, Entered, SMT DEF QueueOps, SendOps, ReceiveOps
  <2>3. c.on \in Tasks
    BY <2>1, <2>2, SMT DEF Calls, QueueOps, SendOps, ReceiveOps, TaskOps, DelayOps
  <2> DEFINE f == [AtRest EXCEPT !.at = "yield", !.call = c]
  <2>4. /\ DOMAIN f = {"at", "call", "wait", "timed", "entry", "then"}
        /\ f.at = "yield" /\ f.call = c /\ ~f.timed /\ f.timed \in BOOLEAN /\ f.then = "return"
    BY DEF AtRest
  <2>5. \/ frame' = [frame EXCEPT ![t] = f]
        \/ frame' = frame \/ frame' = [frame EXCEPT ![c.on] = AtRest]
    BY <2>1
  <2> HIDE DEF f
  <2>6. IsFrame(t, f)
    BY <2>2, <2>4, SMT DEF IsFrame, Stages, QueueStages
  <2>7. CASE frame' = frame
    BY <2>1, <2>7 DEF FramesOK, IsFrame
  <2> QED BY <2>1, <2>3, <2>5, <2>6, <2>7, RestIsFrame, FrameSet
<1>5. CASE vTaskResumeCall(t)
  BY <1>5 DEF vTaskResumeCall, FramesOK, IsFrame
<1>6. CASE xTaskCreateCall(t)
  <2>0. script' = script
    BY <1>6 DEF xTaskCreateCall
  <2>1. CASE \E c \in script.calls : c.op = "create" /\ Enters(t, c) /\ Suspends(t, c, "work")
    <3>1. PICK c \in script.calls : c.op = "create" /\ Enters(t, c) /\ Suspends(t, c, "work")
      BY <2>1
    <3>2. c \in Calls /\ c.task = t /\ t # idle /\ c.op \notin QueueOps
      BY <3>1, Entered, SMT DEF QueueOps, SendOps, ReceiveOps
    <3> QED BY <2>0, <3>1, <3>2, SuspendFrames
  <2>2. CASE /\ Reaches(t, "work") /\ frame[t].call.op = "create"
             /\ frame' = [frame EXCEPT ![t].at = "yield", ![t].then = "create"]
    <3> DEFINE f == [frame[t] EXCEPT !.at = "yield", !.then = "create"]
    <3>1. frame[t].at = "work" /\ frame[t].call.op = "create" /\ frame' = [frame EXCEPT ![t] = f]
      BY <2>2 DEF Reaches
    <3>2. /\ DOMAIN f = {"at", "call", "wait", "timed", "entry", "then"}
          /\ f.at = "yield" /\ f.call = frame[t].call /\ (f.timed <=> frame[t].timed)
          /\ f.timed \in BOOLEAN /\ f.then = "create"
      BY <1>0 DEF IsFrame
    <3> HIDE DEF f
    <3>3. IsFrame(t, f)
      BY <1>0, <3>1, <3>2 DEF IsFrame, Stages, QueueStages
    <3> QED BY <2>0, <3>1, <3>3, FrameSet
  <2>3. CASE Return(t)
    BY <2>0, <2>3, ReturnFrames
  <2> QED BY <1>6, <2>1, <2>2, <2>3 DEF xTaskCreateCall
<1> QED BY <1>1, <1>2, <1>3, <1>4, <1>5, <1>6 DEF Call

(* The idle task.                                                          *)
LEMMA IdleFrames ==
  ASSUME FramesOK, prvIdleTask
  PROVE  FramesOK'
<1>0. script' = script /\ idle \in Tasks
  BY TasksAssumption DEF prvIdleTask
<1>1. CASE Suspends(idle, IdleCall, "work")
  BY <1>0, <1>1, SuspendFrames
<1>2. CASE frame' = [frame EXCEPT
             ![Head(k.terminated)] = AtRest,
             ![idle] = [AtRest EXCEPT !.at = "suspend", !.call = IdleCall]]
  <2> DEFINE f == [AtRest EXCEPT !.at = "suspend", !.call = IdleCall]
             u == Head(k.terminated)
  <2>1. /\ DOMAIN f = {"at", "call", "wait", "timed", "entry", "then"}
        /\ f.at = "suspend" /\ f.call = IdleCall /\ ~f.timed /\ f.timed \in BOOLEAN
        /\ f.then = "return"
    BY DEF AtRest
  <2>2. frame' = [frame EXCEPT ![u] = AtRest, ![idle] = f]
    BY <1>2
  <2> HIDE DEF f, u
  <2>3. IsFrame(idle, f)
    BY <2>1, SMT DEF IsFrame, Stages, QueueStages, IdleCall, QueueOps, SendOps, ReceiveOps
  <2>4. /\ frame' = [t \in Tasks |-> frame'[t]]
        /\ \A t \in Tasks : frame'[t] \in {frame[t], AtRest} \/ (t = idle /\ frame'[t] = f)
    BY <1>0, <2>2 DEF FramesOK
  <2> QED BY <1>0, <2>3, <2>4, RestIsFrame DEF FramesOK
<1> QED BY <1>1, <1>2 DEF prvIdleTask

(* Every step.                                                             *)
LEMMA FramesStep ==
  ASSUME FramesOK, [Next]_vars
  PROVE  FramesOK'
<1>1. CASE UNCHANGED <<script, frame>>
  BY <1>1 DEF FramesOK, IsFrame
<1>2. CASE Next
  <2>1. CASE Boot \/ xPortPendSVHandler \/ Interrupt
    <3>1. UNCHANGED <<script, frame>>
      BY <2>1 DEF Boot, xPortPendSVHandler, Interrupt, xPortSysTickHandler,
                  xQueueGenericSendFromISR, xQueueReceiveFromISR, ResumeFromISR
    <3> QED BY <3>1, <1>1
  <2> QED BY <1>2, <2>1, CallStepFrames, CallFrames, IdleFrames DEF Next
<1> QED BY <1>1, <1>2 DEF vars

-----------------------------------------------------------------------------
(* Queues: what each step does to them, to the mutexes and to what is      *)
(* handed out.                                                             *)

(* Nothing, or one control block changes in its locks alone.               *)
Untouched ==
  /\ handed' = handed /\ holds' = holds
  /\ \/ queue' = queue
     \/ \E q \in Queues, rx, tx \in -1 .. MaxLock :
          queue' = [queue EXCEPT ![q] = [@ EXCEPT !.xRxLock = rx, !.xTxLock = tx]]

(* Something is put into one, by t when it is a task.                      *)
Puts(t, q) ==
  /\ handed' = handed
  /\ \E Q : \E item \in Items :
       /\ queue' = [queue EXCEPT ![q] = Q] /\ IsQueue(q, Q)
       /\ \E P : PutIn(q, queue[q], P, item) /\ Q.buf = P.buf /\ Q.pxMutexHolder = P.pxMutexHolder
  /\ \/ t \in Tasks /\ holds' = [holds EXCEPT ![t] = @ \ {q}]
          /\ (QueueType[q] = "mutex" => q \in holds[t])
     \/ t = NoHolder /\ holds' = holds /\ QueueType[q] # "mutex"

(* Something is taken out of one.                                          *)
Takes(t, q) ==
  /\ \E Q : /\ queue' = [queue EXCEPT ![q] = Q] /\ IsQueue(q, Q)
            /\ \E P : TakenOut(q, queue[q], P, t) /\ Q.buf = P.buf
                        /\ Q.pxMutexHolder = P.pxMutexHolder
  /\ ~IsEmpty(queue[q])
  /\ handed' = IF QueueType[q] = "queue" THEN NextItem(queue[q].buf) ELSE handed
  /\ holds' = IF QueueType[q] = "mutex" THEN [holds EXCEPT ![t] = @ \cup {q}] ELSE holds
  /\ QueueType[q] = "mutex" => t \in Tasks

(* Something is looked at.                                                 *)
Peeks(q) ==
  /\ queue' = queue /\ holds' = holds /\ ~IsEmpty(queue[q])
  /\ handed' = IF QueueType[q] = "queue" THEN NextItem(queue[q].buf) ELSE handed

QueueStep ==
  \/ Untouched
  \/ \E q \in Queues : \/ \E t \in Tasks \cup {NoHolder} : Puts(t, q) \/ Takes(t, q)
                       \/ Peeks(q)

(* A change of the locks alone, put in that form.                          *)
LEMMA LocksOnly ==
  ASSUME QueuesOK, NEW q \in Queues, NEW rx \in -1 .. MaxLock, NEW tx \in -1 .. MaxLock,
         queue' = [queue EXCEPT ![q] = [queue[q] EXCEPT !.xRxLock = rx, !.xTxLock = tx]],
         handed' = handed, holds' = holds
  PROVE  QueueStep
BY DEF QueueStep, Untouched

(* Locking a queue and unlocking it leave what the queue holds alone.      *)
LEMMA LockSteps ==
  ASSUME QueuesOK, FramesOK, NEW t \in Tasks,
         LockQueue(t) \/ UnlockQueueTx(t) \/ UnlockQueueRx(t)
  PROVE  QueueStep
<1> DEFINE q == frame[t].call.on
<1>0. frame[t].at \in {"lock", "unlockTx", "unlockRx"} /\ handed' = handed /\ holds' = holds
  BY DEF LockQueue, UnlockQueueTx, UnlockQueueRx, Reaches
<1>1. frame[t].call \in Calls /\ frame[t].call.op \in QueueOps
  <2>1. IsFrame(t, frame[t])
    BY DEF FramesOK
  <2>2. frame[t].call.op \in QueueOps /\ frame[t].at # "ready"
    BY <1>0, <2>1 DEF IsFrame, QueueStages
  <2>3. IdleCall.op \notin QueueOps
    BY SMT DEF IdleCall, QueueOps, SendOps, ReceiveOps
  <2> QED BY <2>1, <2>2, <2>3 DEF IsFrame
<1>2. q \in Queues
  BY <1>1, OnQueues
<1> HIDE DEF q
<1> DEFINE Q == queue[q]
<1>3. /\ Q.xRxLock \in -1 .. MaxLock /\ Q.xTxLock \in -1 .. MaxLock /\ Q \in ControlBlocks(q)
  BY <1>2, BlockNumbers DEF QueuesOK
<1>4. CASE LockQueue(t)
  <2> DEFINE Locked(lock) == IF lock = queueUNLOCKED THEN queueLOCKED_UNMODIFIED ELSE lock
  <2>1. queue' = [queue EXCEPT ![q] = [Q EXCEPT !.xRxLock = Locked(Q.xRxLock),
                                                !.xTxLock = Locked(Q.xTxLock)]]
    BY <1>3, <1>4 DEF LockQueue, prvLockQueue, q, ControlBlocks
  <2>2. Locked(Q.xRxLock) \in -1 .. MaxLock /\ Locked(Q.xTxLock) \in -1 .. MaxLock
    BY <1>3, BoundsAssumption, SMT DEF queueLOCKED_UNMODIFIED
  <2> HIDE DEF Locked
  <2> QED BY <1>0, <1>2, <2>1, <2>2, LocksOnly
<1>5. -1 \in -1 .. MaxLock
  BY BoundsAssumption
<1>6. CASE UnlockQueueTx(t)
  <2>1. queue' = [queue EXCEPT ![q] = [Q EXCEPT !.xTxLock = -1]]
    BY <1>6 DEF UnlockQueueTx, UnlockTx, queueUNLOCKED, q
  <2>2. [Q EXCEPT !.xTxLock = -1] = [Q EXCEPT !.xRxLock = Q.xRxLock, !.xTxLock = -1]
    BY <1>3 DEF ControlBlocks
  <2> QED BY <1>0, <1>2, <1>3, <1>5, <2>1, <2>2, LocksOnly
<1>7. CASE UnlockQueueRx(t)
  <2>1. queue' = [queue EXCEPT ![q] = [Q EXCEPT !.xRxLock = -1]]
    BY <1>7 DEF UnlockQueueRx, UnlockRx, queueUNLOCKED, q
  <2>2. [Q EXCEPT !.xRxLock = -1] = [Q EXCEPT !.xRxLock = -1, !.xTxLock = Q.xTxLock]
    BY <1>3 DEF ControlBlocks
  <2> QED BY <1>0, <1>2, <1>3, <1>5, <2>1, <2>2, LocksOnly
<1> QED BY <1>4, <1>6, <1>7

(* The calls and the interrupts that put in and take out.                  *)
LEMMA SendStep ==
  ASSUME MutexInv, NEW t \in Tasks, xQueueGenericSend(t)
  PROVE  QueueStep
<1>1. PICK c : /\ c.op \in SendOps /\ Enters(t, c)
               /\ QueueType[c.on] = "mutex" => c.on \in holds[t]
               /\ \/ WaitOrFail(t, c)
                  \/ /\ ~IsFull(queue[c.on])
                     /\ \E item \in script.items :
                          /\ queue' = [queue EXCEPT ![c.on] =
                               SendNow(k, queue[c.on], c.on, item, c.op = "sendToFront").Q]
                          /\ holds' = [holds EXCEPT ![t] = @ \ {c.on}]
                          /\ handed' = handed
  BY DEF xQueueGenericSend
<1>2. c \in Calls /\ c.on \in Queues
  BY <1>1, Entered, OnQueues DEF MutexInv, QueueOps
<1>3. CASE WaitOrFail(t, c)
  BY <1>3 DEF WaitOrFail, QueueStep, Untouched
<1>4. ASSUME ~IsFull(queue[c.on]), NEW item \in script.items,
             queue' = [queue EXCEPT ![c.on] =
                SendNow(k, queue[c.on], c.on, item, c.op = "sendToFront").Q],
             holds' = [holds EXCEPT ![t] = @ \ {c.on}], handed' = handed
      PROVE  QueueStep
  <2> DEFINE Q == prvCopyDataToQueue(k, queue[c.on], item, c.op = "sendToFront").Q
  <2>1. queue' = [queue EXCEPT ![c.on] = Q]
    BY <1>4 DEF SendNow
  <2>2. item \in Items
    BY ScriptsAssumption DEF MutexInv, FramesOK
  <2>3. PutIn(c.on, queue[c.on], Q, item)
    BY <1>2, <1>4, <2>2, CopiedIn DEF MutexInv, QueuesOK
  <2> HIDE DEF Q
  <2>4. Puts(t, c.on)
    BY <1>1, <1>4, <2>1, <2>2, <2>3 DEF Puts, PutIn
  <2> QED BY <1>2, <2>4 DEF QueueStep
<1> QED BY <1>1, <1>3, <1>4

(* xQueueGenericReceive takes from its queue, peeks at it or leaves it     *)
(* alone.                                                                  *)
LEMMA ReceiveStep ==
  ASSUME MutexInv, NEW t \in Tasks, xQueueGenericReceive(t)
  PROVE  QueueStep
<1>1. PICK c : /\ c.op \in ReceiveOps /\ Enters(t, c)
               /\ \/ WaitOrFail(t, c)
                  \/ /\ ~IsEmpty(queue[c.on])
                     /\ LET r == IF c.op = "peek" THEN PeekNow(k, queue[c.on], c.on)
                                 ELSE ReceiveNow(k, queue[c.on], c.on)
                        IN  queue' = [queue EXCEPT ![c.on] = r.Q]
                     /\ handed' = IF QueueType[c.on] = "queue" THEN NextItem(queue[c.on].buf)
                                  ELSE handed
                     /\ holds' = IF QueueType[c.on] = "mutex" /\ c.op = "receive"
                                 THEN [holds EXCEPT ![t] = @ \cup {c.on}] ELSE holds
  BY DEF xQueueGenericReceive
<1>2. c \in Calls /\ c.on \in Queues
  BY <1>1, Entered, OnQueues DEF MutexInv, QueueOps
<1>3. CASE WaitOrFail(t, c)
  BY <1>3 DEF WaitOrFail, QueueStep, Untouched
<1>4. CASE /\ ~WaitOrFail(t, c) /\ c.op = "peek"
  <2>1. queue' = [queue EXCEPT ![c.on] = queue[c.on]]
    BY <1>1, <1>4 DEF PeekNow
  <2>2. queue' = queue
    BY <2>1, <1>2 DEF MutexInv, QueuesOK
  <2>3. c.op # "receive"
    BY <1>4
  <2>4. Peeks(c.on)
    BY <1>1, <1>4, <2>2, <2>3 DEF Peeks
  <2> QED BY <1>2, <2>4 DEF QueueStep
<1>5. CASE /\ ~WaitOrFail(t, c) /\ c.op # "peek"
  <2> DEFINE Q == TakeFromQueue(queue[c.on], t)
  <2>1. k.pxCurrentTCB = t /\ c.op = "receive"
    BY <1>1, <1>5, SMT DEF Enters, Runs, ReceiveOps
  <2>2. queue' = [queue EXCEPT ![c.on] = Q]
    BY <1>1, <1>5, <2>1 DEF ReceiveNow
  <2>3. TakenOut(c.on, queue[c.on], Q, t)
    BY <1>1, <1>2, <1>5, CopiedOut DEF MutexInv, QueuesOK
  <2> HIDE DEF Q
  <2>4. Takes(t, c.on)
    BY <1>1, <1>5, <2>1, <2>2, <2>3 DEF Takes, TakenOut
  <2> QED BY <1>2, <2>4 DEF QueueStep
<1> QED BY <1>1, <1>3, <1>4, <1>5

(* A send by an interrupt puts an item at the back of its queue.           *)
LEMMA SendFromISRStep ==
  ASSUME MutexInv, NEW q \in Queues, xQueueGenericSendFromISR(q)
  PROVE  QueueStep
<1>1. PICK item \in script.items : queue' = [queue EXCEPT ![q] = SendFromISR(k, queue[q], q, item).Q]
  BY DEF xQueueGenericSendFromISR
<1>2. /\ <<"send", q>> \in script.interrupts /\ ~IsFull(queue[q]) /\ queue[q].xTxLock < MaxLock
      /\ handed' = handed /\ holds' = holds
  BY DEF xQueueGenericSendFromISR
<1>3. item \in Items /\ QueueType[q] # "mutex"
  BY <1>2, ScriptsAssumption DEF MutexInv, FramesOK
<1> DEFINE c == prvCopyDataToQueue(k, queue[q], item, FALSE)
<1>4. PutIn(q, queue[q], c.Q, item)
  BY <1>2, <1>3, CopiedIn DEF MutexInv, QueuesOK
<1>5. CASE queue[q].xTxLock = queueUNLOCKED
  <2>1. queue' = [queue EXCEPT ![q] = c.Q]
    BY <1>1, <1>5 DEF SendFromISR
  <2> HIDE DEF c
  <2>2. Puts(NoHolder, q)
    BY <1>2, <1>3, <1>4, <2>1 DEF Puts, PutIn
  <2> QED BY <2>2 DEF QueueStep
<1>6. CASE queue[q].xTxLock # queueUNLOCKED
  <2> DEFINE n == c.Q.xTxLock + 1
             Q == [c.Q EXCEPT !.xRxLock = c.Q.xRxLock, !.xTxLock = n]
  <2>1. c.Q.xTxLock \in -1 .. MaxLock /\ c.Q.xRxLock \in -1 .. MaxLock /\ c.Q.xTxLock < MaxLock
        /\ c.Q \in ControlBlocks(q)
    BY <1>2, <1>4, BlockNumbers DEF PutIn
  <2>2. n \in -1 .. MaxLock
    <3> DEFINE x == c.Q.xTxLock
    <3>1. x \in -1 .. MaxLock /\ x < MaxLock /\ MaxLock \in Nat
      BY <2>1, BoundsAssumption
    <3> HIDE DEF x
    <3>2. x + 1 \in -1 .. MaxLock
      BY <3>1
    <3> QED BY <3>2 DEF x
  <2>3. SendFromISR(k, queue[q], q, item) = [c EXCEPT !.Q.xTxLock = n]
    BY <1>6 DEF SendFromISR
  <2>4. DOMAIN c = {"k", "Q"}
    BY DEF prvCopyDataToQueue
  <2> HIDE DEF c
  <2>5. [c EXCEPT !.Q.xTxLock = n].Q = Q
    BY <2>1, <2>4 DEF ControlBlocks
  <2>6. queue' = [queue EXCEPT ![q] = Q]
    BY <1>1, <2>3, <2>5
  <2>7. IsQueue(q, c.Q)
    BY <1>4 DEF PutIn
  <2> HIDE DEF n
  <2>8. IsQueue(q, Q) /\ Q.buf = c.Q.buf /\ Q.pxMutexHolder = c.Q.pxMutexHolder
    BY <2>1, <2>2, <2>7 DEF IsQueue, ControlBlocks
  <2> HIDE DEF Q
  <2>9. Puts(NoHolder, q)
    BY <1>2, <1>3, <1>4, <2>6, <2>8 DEF Puts
  <2> QED BY <2>9 DEF QueueStep
<1> QED BY <1>5, <1>6

(* A receive by an interrupt takes the first item of its queue.            *)
LEMMA ReceiveFromISRStep ==
  ASSUME MutexInv, NEW q \in Queues, xQueueReceiveFromISR(q)
  PROVE  QueueStep
<1> DEFINE h == queue[q].pxMutexHolder
           P == TakeFromQueue(queue[q], h)
<1>1. queue' = [queue EXCEPT ![q] = ReceiveFromISR(k, queue[q], q).Q]
  BY DEF xQueueReceiveFromISR
<1>2. /\ <<"receive", q>> \in script.interrupts /\ ~IsEmpty(queue[q])
      /\ queue[q].xRxLock < MaxLock /\ holds' = holds
      /\ handed' = IF QueueType[q] = "queue" THEN NextItem(queue[q].buf) ELSE handed
  BY DEF xQueueReceiveFromISR
<1>3. QueueType[q] # "mutex" /\ h \in Tasks \cup {NoHolder} /\ IsQueue(q, queue[q])
  BY <1>2, ScriptsAssumption, BlockNumbers DEF MutexInv, FramesOK, QueuesOK
<1>4. TakenOut(q, queue[q], P, h)
  BY <1>2, <1>3, CopiedOut
<1>5. CASE queue[q].xRxLock = queueUNLOCKED
  <2>1. queue' = [queue EXCEPT ![q] = P]
    BY <1>1, <1>5 DEF ReceiveFromISR
  <2> HIDE DEF P, h
  <2>2. Takes(h, q)
    BY <1>2, <1>3, <1>4, <2>1 DEF Takes, TakenOut
  <2> QED BY <1>3, <2>2 DEF QueueStep
<1>6. CASE queue[q].xRxLock # queueUNLOCKED
  <2> DEFINE n == P.xRxLock + 1
             Q == [P EXCEPT !.xRxLock = n, !.xTxLock = P.xTxLock]
  <2>1. P.xTxLock \in -1 .. MaxLock /\ P.xRxLock \in -1 .. MaxLock /\ P.xRxLock < MaxLock
        /\ P \in ControlBlocks(q) /\ IsQueue(q, P)
    BY <1>2, <1>4, BlockNumbers DEF TakenOut
  <2>2. n \in -1 .. MaxLock
    BY <2>1, BoundsAssumption
  <2>3. ReceiveFromISR(k, queue[q], q).Q = [P EXCEPT !.xRxLock = n]
    BY <1>6 DEF ReceiveFromISR
  <2> HIDE DEF P, h
  <2>4. [P EXCEPT !.xRxLock = n] = Q
    BY <2>1 DEF ControlBlocks
  <2>5. queue' = [queue EXCEPT ![q] = Q]
    BY <1>1, <2>3, <2>4
  <2> HIDE DEF n
  <2>6. IsQueue(q, Q) /\ Q.buf = P.buf /\ Q.pxMutexHolder = P.pxMutexHolder
    BY <2>1, <2>2 DEF IsQueue, ControlBlocks
  <2> HIDE DEF Q
  <2>7. Takes(h, q)
    BY <1>2, <1>3, <1>4, <2>5, <2>6 DEF Takes
  <2> QED BY <1>3, <2>7 DEF QueueStep
<1> QED BY <1>5, <1>6

(* Every step.                                                             *)
LEMMA NextIsQueueStep ==
  ASSUME MutexInv, [Next]_vars
  PROVE  QueueStep
<1>1. CASE UNCHANGED <<queue, handed, holds>>
  BY <1>1 DEF QueueStep, Untouched
<1>2. ASSUME NEW t \in Tasks, CallStep(t) \/ Call(t)
      PROVE  QueueStep
  <2>1. CASE LockQueue(t) \/ UnlockQueueTx(t) \/ UnlockQueueRx(t)
    BY <2>1, LockSteps DEF MutexInv
  <2>2. CASE xQueueGenericSend(t) \/ xQueueGenericReceive(t)
    BY <2>2, SendStep, ReceiveStep
  <2>3. CASE \/ SuspendAll(t) \/ CheckForTimeOut(t) \/ TestQueue(t) \/ InheritPriority(t)
             \/ PlaceOnEventList(t) \/ ResumeAll(t) \/ Yield(t)
             \/ vTaskDelay(t) \/ vTaskDelayUntil(t)
             \/ vTaskSuspend(t) \/ vTaskResumeCall(t) \/ vTaskDelete(t) \/ xTaskCreateCall(t)
    <3>1. UNCHANGED <<queue, handed, holds>>
      BY <2>3 DEF SuspendAll, CheckForTimeOut, TestQueue, InheritPriority, PlaceOnEventList,
                  ResumeAll, Yield, vTaskDelay, vTaskDelayUntil, vTaskSuspend,
                  vTaskResumeCall, vTaskDelete, xTaskCreateCall
    <3> QED BY <3>1, <1>1
  <2> QED BY <1>2, <2>1, <2>2, <2>3 DEF CallStep, Call
<1>3. CASE Boot \/ prvIdleTask \/ xPortPendSVHandler \/ xPortSysTickHandler
           \/ \E t \in Tasks : ResumeFromISR(t)
  <2>1. UNCHANGED <<queue, handed, holds>>
    BY <1>3 DEF Boot, prvIdleTask, xPortPendSVHandler, xPortSysTickHandler, ResumeFromISR
  <2> QED BY <2>1, <1>1
<1> QED BY <1>1, <1>2, <1>3, SendFromISRStep, ReceiveFromISRStep DEF vars, Next, Interrupt

-----------------------------------------------------------------------------
(* The mutexes and the queues.                                             *)

(* One control block changes.                                              *)
LEMMA BlockSet ==
  ASSUME QueuesOK, NEW q \in Queues, NEW Q, IsQueue(q, Q), queue' = [queue EXCEPT ![q] = Q]
  PROVE  /\ QueuesOK' /\ queue'[q] = Q
         /\ \A p \in Queues : p # q => queue'[p] = queue[p]
BY DEF QueuesOK

(* A mutex is there to be taken or has one holder.                         *)
LEMMA MutexCounts ==
  ASSUME QueuesOK, NEW q \in Queues, QueueType[q] = "mutex"
  PROVE  queue[q].buf.uxMessagesWaiting \in {0, 1}
BY BlockNumbers, Lengths DEF QueuesOK

(* A mutex that is given back is held by nobody, and no other mutex moves. *)
LEMMA MutexPut ==
  ASSUME MutexInv, NEW q \in Queues, NEW t \in Tasks \cup {NoHolder}, Puts(t, q)
  PROVE  QueuesOK' /\ holds' \in [Tasks -> SUBSET Queues] /\ MutexesHeld'
<1>1. PICK Q, P : \E item \in Items :
        /\ queue' = [queue EXCEPT ![q] = Q] /\ IsQueue(q, Q)
        /\ PutIn(q, queue[q], P, item) /\ Q.buf = P.buf /\ Q.pxMutexHolder = P.pxMutexHolder
  BY DEF Puts
<1>2. /\ QueuesOK' /\ queue'[q] = Q
      /\ \A p \in Queues : p # q => queue'[p] = queue[p]
  BY <1>1, BlockSet DEF MutexInv
<1>3. CASE t \in Tasks /\ holds' = [holds EXCEPT ![t] = @ \ {q}]
           /\ (QueueType[q] = "mutex" => q \in holds[t])
  <2>1. holds' \in [Tasks -> SUBSET Queues]
    BY <1>3 DEF MutexInv
  <2>2. \A u \in Tasks : \A p \in Queues : p # q => (p \in holds'[u] <=> p \in holds[u])
    BY <1>3 DEF MutexInv
  <2>3. ASSUME QueueType[q] = "mutex"
        PROVE  /\ \A u \in Tasks : q \in holds'[u] <=> Q.pxMutexHolder = u
               /\ Q.buf.uxMessagesWaiting = 0 <=> Q.pxMutexHolder # NoHolder
    <3>1. queue[q].pxMutexHolder = t /\ \A u \in Tasks : q \in holds[u] <=> t = u
      BY <1>3, <2>3 DEF MutexInv, MutexesHeld
    <3>2. \A u \in Tasks : q \notin holds'[u]
      BY <3>1, <1>3 DEF MutexInv
    <3>3. queue[q].buf.uxMessagesWaiting = 0
      BY <3>1, <1>3, <2>3, QueuesAssumption DEF MutexInv, MutexesHeld, IsEmpty
    <3>4. Q.pxMutexHolder = NoHolder /\ Q.buf.uxMessagesWaiting = 1
      BY <1>1, <2>3, <3>3 DEF PutIn
    <3> QED BY <3>2, <3>4, QueuesAssumption
  <2>4. MutexesHeld'
    BY <1>2, <2>2, <2>3 DEF MutexesHeld, MutexInv, IsEmpty
  <2> QED BY <1>2, <2>1, <2>4
<1>4. CASE holds' = holds /\ QueueType[q] # "mutex"
  BY <1>2, <1>4 DEF MutexesHeld, MutexInv, IsEmpty
<1> QED BY <1>3, <1>4 DEF Puts

(* A mutex that is taken is held by the task that took it, and by it       *)
(* alone.                                                                  *)
LEMMA MutexTake ==
  ASSUME MutexInv, NEW q \in Queues, NEW t \in Tasks \cup {NoHolder}, Takes(t, q)
  PROVE  QueuesOK' /\ holds' \in [Tasks -> SUBSET Queues] /\ MutexesHeld'
<1>1. PICK Q, P : /\ queue' = [queue EXCEPT ![q] = Q] /\ IsQueue(q, Q)
                  /\ TakenOut(q, queue[q], P, t) /\ Q.buf = P.buf
                  /\ Q.pxMutexHolder = P.pxMutexHolder
  BY DEF Takes
<1>2. /\ QueuesOK' /\ queue'[q] = Q
      /\ \A p \in Queues : p # q => queue'[p] = queue[p]
  BY <1>1, BlockSet DEF MutexInv
<1>3. CASE QueueType[q] = "mutex"
  <2>0. t \in Tasks /\ holds' = [holds EXCEPT ![t] = @ \cup {q}] /\ ~IsEmpty(queue[q])
    BY <1>3 DEF Takes
  <2>1. holds' \in [Tasks -> SUBSET Queues]
    BY <2>0 DEF MutexInv
  <2>2. \A u \in Tasks : \A p \in Queues : p # q => (p \in holds'[u] <=> p \in holds[u])
    BY <2>0 DEF MutexInv
  <2>3. /\ \A u \in Tasks : q \in holds'[u] <=> Q.pxMutexHolder = u
        /\ Q.buf.uxMessagesWaiting = 0 <=> Q.pxMutexHolder # NoHolder
    <3>1. queue[q].pxMutexHolder = NoHolder /\ \A u \in Tasks : q \notin holds[u]
      BY <1>3, <2>0, QueuesAssumption DEF MutexInv, MutexesHeld
    <3>2. \A u \in Tasks : q \in holds'[u] <=> u = t
      BY <3>1, <2>0 DEF MutexInv
    <3>3. queue[q].buf.uxMessagesWaiting = 1
      BY <1>3, <2>0, MutexCounts DEF MutexInv, IsEmpty
    <3>4. Q.pxMutexHolder = t /\ Q.buf.uxMessagesWaiting = 0
      BY <1>1, <1>3, <3>3 DEF TakenOut
    <3> QED BY <3>2, <3>4, <2>0, QueuesAssumption
  <2>4. MutexesHeld'
    BY <1>2, <2>2, <2>3 DEF MutexesHeld, MutexInv, IsEmpty
  <2> QED BY <1>2, <2>1, <2>4
<1>4. CASE QueueType[q] # "mutex"
  <2>1. holds' = holds
    BY <1>4 DEF Takes
  <2> QED BY <1>2, <1>4, <2>1 DEF MutexesHeld, MutexInv, IsEmpty
<1> QED BY <1>3, <1>4

(* A step that moves the locks of a queue only moves no mutex.             *)
LEMMA MutexUntouched ==
  ASSUME MutexInv, Untouched
  PROVE  QueuesOK' /\ holds' \in [Tasks -> SUBSET Queues] /\ MutexesHeld'
<1>1. CASE queue' = queue
  BY <1>1 DEF Untouched, MutexInv, QueuesOK, MutexesHeld
<1>2. ASSUME NEW q \in Queues, NEW rx \in -1 .. MaxLock, NEW tx \in -1 .. MaxLock,
             queue' = [queue EXCEPT ![q] = [@ EXCEPT !.xRxLock = rx, !.xTxLock = tx]]
      PROVE  QueuesOK' /\ holds' \in [Tasks -> SUBSET Queues] /\ MutexesHeld'
  <2> DEFINE Q == [queue[q] EXCEPT !.xRxLock = rx, !.xTxLock = tx]
  <2>1. queue' = [queue EXCEPT ![q] = Q]
    BY <1>2
  <2>2. IsQueue(q, Q) /\ Q.buf = queue[q].buf /\ Q.pxMutexHolder = queue[q].pxMutexHolder
    BY DEF MutexInv, QueuesOK, IsQueue, ControlBlocks
  <2> HIDE DEF Q
  <2>3. /\ QueuesOK' /\ queue'[q] = Q
        /\ \A p \in Queues : p # q => queue'[p] = queue[p]
    BY <2>1, <2>2, BlockSet DEF MutexInv
  <2>4. holds' = holds
    BY DEF Untouched
  <2>5. \A p \in Queues : /\ queue'[p].buf = queue[p].buf
                          /\ queue'[p].pxMutexHolder = queue[p].pxMutexHolder
    BY <2>2, <2>3
  <2> QED BY <2>3, <2>4, <2>5 DEF MutexInv, MutexesHeld, IsEmpty
<1> QED BY <1>1, <1>2 DEF Untouched

(* Every step keeps the queues, the frames and the holders of the mutexes. *)
LEMMA MutexStep ==
  ASSUME MutexInv, [Next]_vars
  PROVE  MutexInv'
<1>1. FramesOK'
  BY FramesStep DEF MutexInv
<1>2. ASSUME NEW q \in Queues, Peeks(q)
      PROVE  QueuesOK' /\ holds' \in [Tasks -> SUBSET Queues] /\ MutexesHeld'
  BY <1>2 DEF Peeks, MutexInv, QueuesOK, MutexesHeld
<1>3. QueuesOK' /\ holds' \in [Tasks -> SUBSET Queues] /\ MutexesHeld'
  BY <1>2, NextIsQueueStep, MutexUntouched, MutexPut, MutexTake DEF QueueStep
<1> QED BY <1>1, <1>3 DEF MutexInv

(* The queues as they are made.                                            *)
LEMMA Created ==
  ASSUME NEW q \in Queues
  PROVE  LET Q == CreateQueue(QueueType[q], QueueLength[q])
         IN  /\ IsQueue(q, Q) /\ Q.pxMutexHolder = NoHolder
             /\ QueueType[q] = "queue" => Contents(Q.buf) = <<>>
             /\ QueueType[q] = "mutex" => Q.buf.uxMessagesWaiting = 1
<1> DEFINE b == NewBuffer(QueueLength[q])
           New == xQueueCreate(QueueType[q], QueueLength[q])
           Q == CreateQueue(QueueType[q], QueueLength[q])
<1>1. /\ QueueLength[q] \in Nat \ {0} /\ QueueType[q] \in {"queue", "semaphore", "mutex"}
      /\ QueueType[q] # "queue" => QueueLength[q] = 1
  BY Lengths
<1>2. IsBuffer(b) /\ Contents(b) = <<>>
  BY <1>1, NewBufferIsEmpty
<1>3. b.uxLength = QueueLength[q] /\ b.uxMessagesWaiting = 0
  BY DEF NewBuffer
<1> HIDE DEF b
<1>4. New = [type |-> QueueType[q], buf |-> b, pxMutexHolder |-> NoHolder,
             xRxLock |-> -1, xTxLock |-> -1]
  BY DEF xQueueCreate, b, queueUNLOCKED
<1>5. IsQueue(q, New) /\ New.buf = b /\ New.pxMutexHolder = NoHolder
  BY <1>2, <1>3, <1>4, BoundsAssumption DEF IsQueue, ControlBlocks, IsBuffer
<1>6. CASE QueueType[q] = "queue"
  <2>1. Q = New
    BY <1>6 DEF CreateQueue
  <2> HIDE DEF New, Q
  <2>2. IsQueue(q, Q) /\ Q.pxMutexHolder = NoHolder /\ Contents(Q.buf) = <<>>
    BY <2>1, <1>2, <1>5
  <2> QED BY <2>2, <1>6 DEF Q
<1>7. CASE QueueType[q] # "queue"
  <2>1. Q = CountUp(New)
    BY <1>1, <1>7 DEF CreateQueue, xQueueCreateMutex, vSemaphoreCreateBinary
  <2>2. CountUp(New) = Counting(New, New.buf.uxMessagesWaiting + 1)
    BY DEF CountUp, Counting
  <2> HIDE DEF New, Q
  <2>3. Q = Counting(New, 1)
    BY <2>1, <2>2, <1>3, <1>5
  <2>4. 1 \in 0 .. QueueLength[q]
    BY <1>1
  <2>5. IsQueue(q, Q) /\ Q.buf.uxMessagesWaiting = 1 /\ Q.pxMutexHolder = NoHolder
    BY <1>5, <1>7, <2>3, <2>4, CountFits
  <2> QED BY <2>5, <1>7 DEF Q
<1> QED BY <1>6, <1>7

(* Before anything ran the queues are empty and the mutexes free.          *)
LEMMA MutexInit ==
  ASSUME Init
  PROVE  MutexInv
<1>1. QueuesOK
  BY Created DEF Init, QueuesOK
<1>2. FramesOK
  BY RestIsFrame DEF Init, FramesOK
<1>3. holds = [t \in Tasks |-> {}]
  BY DEF Init
<1>4. \A q \in Queues : QueueType[q] = "mutex" =>
        queue[q].pxMutexHolder = NoHolder /\ queue[q].buf.uxMessagesWaiting = 1
  BY Created DEF Init
<1>5. MutexesHeld
  BY <1>3, <1>4, QueuesAssumption DEF MutexesHeld, IsEmpty
<1> QED BY <1>1, <1>2, <1>3, <1>5 DEF MutexInv

(* The invariant of the queues and of the calls.                           *)
LEMMA MutexInvariant == Spec => []MutexInv
BY MutexInit, MutexStep, PTL DEF Spec

(* A mutex is held by the one task that took it and has not given it back, *)
(* or is there to be taken: whatever interleaves, queue.c never hands it   *)
(* to two tasks, and never forgets whose it is.                            *)
THEOREM OneTaskHoldsEach == Spec => []MutexesHeld
<1>1. MutexInv => MutexesHeld
  BY DEF MutexInv
<1> QED BY <1>1, MutexInvariant, PTL

-----------------------------------------------------------------------------
(* The queues implement the bounded sequences of BoundedFifo.              *)

ItemQueues == {q \in Queues : QueueType[q] = "queue"}
Sequence(q) == Contents(queue[q].buf)

FifoStep ==
  \/ UNCHANGED <<[q \in ItemQueues |-> Sequence(q)], handed>>
  \/ \E q \in ItemQueues :
       \/ /\ Sequence(q) # <<>> /\ handed' = Head(Sequence(q))
          /\ \/ [p \in ItemQueues |-> Sequence(p)]' =
                  [[p \in ItemQueues |-> Sequence(p)] EXCEPT ![q] = Tail(@)]
             \/ UNCHANGED [p \in ItemQueues |-> Sequence(p)]
       \/ /\ Len(Sequence(q)) < QueueLength[q] /\ handed' = handed
          /\ \E item \in Items :
               \/ [p \in ItemQueues |-> Sequence(p)]' =
                    [[p \in ItemQueues |-> Sequence(p)] EXCEPT ![q] = Append(@, item)]
               \/ [p \in ItemQueues |-> Sequence(p)]' =
                    [[p \in ItemQueues |-> Sequence(p)] EXCEPT ![q] = <<item>> \o @]

(* One sequence changes, or none does.                                     *)
LEMMA SequenceSet ==
  ASSUME NEW q \in ItemQueues, NEW s, Sequence(q)' = s,
         \A p \in Queues : p # q => queue'[p] = queue[p]
  PROVE  [p \in ItemQueues |-> Sequence(p)]' =
           [[p \in ItemQueues |-> Sequence(p)] EXCEPT ![q] = s]
<1>1. \A p \in ItemQueues : p # q => Sequence(p)' = Sequence(p)
  BY DEF Sequence, ItemQueues
<1> QED BY <1>1

(* The contents of the item queues depend on their buffers only.           *)
LEMMA SequencesSame ==
  ASSUME \A q \in ItemQueues : queue'[q].buf = queue[q].buf
  PROVE  UNCHANGED [p \in ItemQueues |-> Sequence(p)]
<1>1. \A q \in ItemQueues : Sequence(q)' = Sequence(q)
  BY DEF Sequence
<1> QED BY <1>1

(* A step on a queue is a step of the bounded fifos, or stutters.          *)
LEMMA StepIsFifoStep ==
  ASSUME MutexInv, QueueStep
  PROVE  FifoStep
<1>0. QueuesOK /\ ItemQueues \subseteq Queues
  BY DEF MutexInv, ItemQueues
<1>1. CASE Untouched
  <2>1. handed' = handed
    BY <1>1 DEF Untouched
  <2>2. \A q \in Queues : queue'[q].buf = queue[q].buf
    <3>1. ASSUME NEW q \in Queues, NEW rx \in -1 .. MaxLock, NEW tx \in -1 .. MaxLock,
                 queue' = [queue EXCEPT ![q] = [@ EXCEPT !.xRxLock = rx, !.xTxLock = tx]],
                 NEW p \in Queues
          PROVE  queue'[p].buf = queue[p].buf
      <4>1. queue[q] \in ControlBlocks(q)
        BY <1>0 DEF QueuesOK, IsQueue
      <4>2. CASE p = q
        BY <1>0, <3>1, <4>1, <4>2 DEF QueuesOK, ControlBlocks
      <4>3. CASE p # q
        BY <1>0, <3>1, <4>3 DEF QueuesOK
      <4> QED BY <4>2, <4>3
    <3> QED BY <1>1, <3>1 DEF Untouched
  <2> QED BY <1>0, <2>1, <2>2, SequencesSame DEF FifoStep
<1>2. ASSUME NEW q \in Queues, NEW t \in Tasks \cup {NoHolder}, Puts(t, q)
      PROVE  FifoStep
  <2>0. PICK item \in Items : \E Q, P :
          /\ queue' = [queue EXCEPT ![q] = Q] /\ IsQueue(q, Q)
          /\ PutIn(q, queue[q], P, item) /\ Q.buf = P.buf
    BY <1>2 DEF Puts
  <2>1. PICK Q, P : /\ queue' = [queue EXCEPT ![q] = Q] /\ IsQueue(q, Q)
                    /\ PutIn(q, queue[q], P, item) /\ Q.buf = P.buf
    BY <2>0
  <2>2. /\ queue'[q] = Q /\ handed' = handed
        /\ \A p \in Queues : p # q => queue'[p] = queue[p]
    BY <1>0, <1>2, <2>1, BlockSet DEF Puts
  <2>3. CASE q \in ItemQueues
    <3>1. /\ Len(Sequence(q)) < QueueLength[q] /\ Sequence(q)' = Contents(P.buf)
          /\ \/ Contents(P.buf) = Append(Sequence(q), item)
             \/ Contents(P.buf) = <<item>> \o Sequence(q)
      BY <2>1, <2>2, <2>3 DEF PutIn, Sequence, ItemQueues
    <3>2. CASE Sequence(q)' = Append(Sequence(q), item)
      <4>1. [p \in ItemQueues |-> Sequence(p)]' =
              [[p \in ItemQueues |-> Sequence(p)] EXCEPT ![q] = Append(@, item)]
        BY <2>2, <2>3, <3>2, SequenceSet
      <4> QED BY <2>2, <2>3, <3>1, <4>1 DEF FifoStep
    <3>3. CASE Sequence(q)' = <<item>> \o Sequence(q)
      <4>1. [p \in ItemQueues |-> Sequence(p)]' =
              [[p \in ItemQueues |-> Sequence(p)] EXCEPT ![q] = <<item>> \o @]
        BY <2>2, <2>3, <3>3, SequenceSet
      <4> QED BY <2>2, <2>3, <3>1, <4>1 DEF FifoStep
    <3> QED BY <3>1, <3>2, <3>3
  <2>4. CASE q \notin ItemQueues
    BY <1>0, <2>2, <2>4, SequencesSame DEF FifoStep
  <2> QED BY <2>3, <2>4
<1>3. ASSUME NEW q \in Queues, NEW t \in Tasks \cup {NoHolder}, Takes(t, q)
      PROVE  FifoStep
  <2>1. PICK Q, P : /\ queue' = [queue EXCEPT ![q] = Q] /\ IsQueue(q, Q)
                    /\ TakenOut(q, queue[q], P, t) /\ Q.buf = P.buf
    BY <1>3 DEF Takes
  <2>2. /\ queue'[q] = Q
        /\ \A p \in Queues : p # q => queue'[p] = queue[p]
    BY <1>0, <2>1, BlockSet
  <2>3. CASE q \in ItemQueues
    <3>1. /\ Sequence(q) # <<>> /\ Sequence(q)' = Tail(Sequence(q))
          /\ handed' = Head(Sequence(q))
      BY <1>3, <2>1, <2>2, <2>3 DEF Takes, TakenOut, Sequence, ItemQueues
    <3>2. [p \in ItemQueues |-> Sequence(p)]' =
            [[p \in ItemQueues |-> Sequence(p)] EXCEPT ![q] = Tail(@)]
      BY <2>2, <2>3, <3>1, SequenceSet
    <3> QED BY <2>3, <3>1, <3>2 DEF FifoStep
  <2>4. CASE q \notin ItemQueues
    <3>1. handed' = handed
      BY <1>3, <2>4 DEF Takes, ItemQueues
    <3> QED BY <1>0, <2>2, <2>4, <3>1, SequencesSame DEF FifoStep
  <2> QED BY <2>3, <2>4
<1>4. ASSUME NEW q \in Queues, Peeks(q)
      PROVE  FifoStep
  <2>1. UNCHANGED [p \in ItemQueues |-> Sequence(p)]
    BY <1>4, SequencesSame DEF Peeks
  <2>2. CASE q \in ItemQueues
    <3>1. IsBuffer(queue[q].buf)
      BY <1>0, <2>2, RingOf DEF ItemQueues, QueuesOK
    <3>2. queue[q].buf.uxMessagesWaiting > 0
      BY <1>4, <3>1, Numbers DEF Peeks, IsEmpty
    <3>3. Sequence(q) # <<>> /\ NextItem(queue[q].buf) = Head(Sequence(q))
      <4>1. NextItem(queue[q].buf) = Head(Sequence(q))
        BY <3>1, <3>2, ReadTakesFirst DEF Sequence
      <4> QED BY <4>1, <3>1, <3>2, ContentsAre DEF Holds, Sequence
    <3>4. handed' = Head(Sequence(q))
      BY <1>4, <2>2, <3>3 DEF Peeks, ItemQueues
    <3> QED BY <2>1, <2>2, <3>3, <3>4 DEF FifoStep
  <2>3. CASE q \notin ItemQueues
    BY <1>4, <2>1, <2>3 DEF Peeks, FifoStep, ItemQueues
  <2> QED BY <2>2, <2>3
<1> QED BY <1>1, <1>2, <1>3, <1>4 DEF QueueStep

(* Whatever the tasks and the interrupts do at the same time, however the  *)
(* queues are locked in between: each of xQueueGenericSend and its variant *)
(* for interrupts puts one item at the end it names, each receive hands    *)
(* out the first and takes it away unless it only peeks, nothing else      *)
(* changes a queue, and none holds more than its length.                   *)
THEOREM QueuesImplementFifos == Spec => QueuesAreFifos
<1>1. Init => Fifo!Init
  <2> SUFFICES ASSUME Init PROVE Fifo!Init
    OBVIOUS
  <2>1. \A q \in ItemQueues : Sequence(q) = <<>> /\ q \in Queues
    BY Created DEF Init, ItemQueues, Sequence
  <2>2. [q \in ItemQueues |-> Sequence(q)] = [q \in ItemQueues |-> <<>>] /\ handed = NoItem
    BY <2>1 DEF Init
  <2> QED BY <2>2 DEF Fifo!Init, ItemQueues, Sequence
<1>2. MutexInv /\ [Next]_vars => [Fifo!Next]_(Fifo!vars)
  <2> SUFFICES ASSUME MutexInv, [Next]_vars PROVE [Fifo!Next]_(Fifo!vars)
    OBVIOUS
  <2>1. FifoStep
    BY NextIsQueueStep, StepIsFifoStep
  <2> QED BY <2>1 DEF FifoStep, Fifo!Next, Fifo!vars, Fifo!Put, Fifo!Take, ItemQueues, Sequence
<1> QED BY <1>1, <1>2, MutexInvariant, PTL DEF Spec, QueuesAreFifos, Fifo!Spec

-----------------------------------------------------------------------------
(* The tasks and the scheduler.                                            *)

(* The stages at which a task has suspended the scheduler.                 *)
SuspStages == QueueStages \cup {"delay", "resume"}

(* A task that is about to give up the processor: it may be in no ready    *)
(* list any more.                                                          *)
Halting(f) ==
  \/ f.at \in {"unlockTx", "unlockRx", "resume"} /\ f.then = "block"
  \/ f.at = "yield" /\ f.then # "create"

(* Only the running task has the scheduler suspended, and it is ready      *)
(* unless it is about to give up the processor, or is to lose it.          *)
Staged(P) ==
  /\ k.uxSchedulerSuspended = IF frame[k.pxCurrentTCB].at \in SuspStages THEN 1 ELSE 0
  /\ \A t \in Tasks \ {k.pxCurrentTCB} : frame[t].at \notin SuspStages
  /\ /\ k.xSchedulerRunning /\ ~Halting(frame[k.pxCurrentTCB])
     /\ ~k.pendsv \/ k.uxSchedulerSuspended = 1
     => P[k.pxCurrentTCB] >= 0
  /\ ~k.xSchedulerRunning => k.live \subseteq script.start /\ \A t \in Tasks : frame[t] = AtRest

Ticked ==
  \/ k'.uxMissedTicks > k.uxMissedTicks
  \/ k.uxSchedulerSuspended = 0 /\ k'.xTickCount # k.xTickCount

(* What every step does to the lists of the scheduler: n ticks are         *)
(* processed, who sleeps has n ticks less to go or knows how many, and     *)
(* nobody is woken too soon.                                               *)
ListsSame ==
  /\ k'.ready = k.ready /\ k'.suspended = k.suspended
  /\ k'.delayed = k.delayed /\ k'.overflow = k.overflow

Moves(Q, F, P, E, n) ==
  /\ Settled(k', Q, F) /\ Staged(Q)'
  /\ n \in 0 .. (TickMod - 1) /\ ClockMoved(k', k, n)
  /\ n + k'.uxMissedTicks = k.uxMissedTicks + (IF Ticked THEN 1 ELSE 0)
  /\ \A t \in Tasks : Q[t] \in Asleep =>
       IF P[t] \in Asleep THEN TicksTo(k', t) = TicksTo(k, t) - n
       ELSE frame'[t].wait = TicksTo(k', t)
  /\ \A t \in Tasks : P[t] \in Asleep /\ Q[t] \notin Asleep /\ n > 0 =>
       t \in ToSet(k.pending) \/ TicksTo(k, t) <= n
  /\ k.uxSchedulerSuspended > 0 /\ frame' = frame => ListsSame

(* A step that leaves the clock alone.                                     *)
LEMMA TimeStill ==
  ASSUME NEW P, NEW E, Settled(k, P, E), NEW Q, NEW F, Settled(k', Q, F), Staged(Q)',
         k'.xTickCount = k.xTickCount, k'.wakeTime = k.wakeTime,
         k'.uxMissedTicks = k.uxMissedTicks, k'.xNumOfOverflows = k.xNumOfOverflows,
         \A t \in Tasks : Q[t] \in Asleep => P[t] \in Asleep,
         k.uxSchedulerSuspended > 0 /\ frame' = frame => ListsSame
  PROVE  Moves(Q, F, P, E, 0)
<1>2. /\ k.xTickCount \in Ticks /\ k.uxMissedTicks \in Nat /\ k.wakeTime \in [Tasks -> Ticks]
  BY SettledNumbers DEF Typed
<1>3. \A t \in Tasks : TicksTo(k', t) = TicksTo(k, t) /\ TicksTo(k, t) \in Int
  <2> SUFFICES ASSUME NEW t \in Tasks PROVE TicksTo(k', t) = TicksTo(k, t) /\ TicksTo(k, t) \in Int
    OBVIOUS
  <2>1. k.wakeTime[t] - k.xTickCount \in Int
    BY <1>2, Constants
  <2> QED BY <2>1, TickSums, Constants DEF TicksTo
<1>4. ~Ticked
  BY <1>2 DEF Ticked
<1>5. ClockMoved(k', k, 0) /\ 0 \in 0 .. (TickMod - 1)
  BY <1>2, Constants DEF ClockMoved
<1>6. 0 + k'.uxMissedTicks = k.uxMissedTicks + (IF Ticked THEN 1 ELSE 0)
  BY <1>2, <1>4
<1>7. ~(0 > 0) /\ \A t \in Tasks : TicksTo(k', t) = TicksTo(k, t) - 0
  BY <1>3
<1> HIDE DEF TicksTo
<1> QED BY <1>5, <1>6, <1>7 DEF Moves

(* A steady step does.                                                     *)
LEMMA NoTick ==
  ASSUME NEW P, NEW E, Settled(k, P, E), NEW Q, NEW F, Steady(k', Q, F, k, P, E),
         Staged(Q)', k.uxSchedulerSuspended > 0 /\ frame' = frame => ListsSame
  PROVE  Moves(Q, F, P, E, 0)
<1>1. /\ Settled(k', Q, F) /\ k'.xTickCount = k.xTickCount /\ k'.wakeTime = k.wakeTime
      /\ k'.uxMissedTicks = k.uxMissedTicks /\ k'.xNumOfOverflows = k.xNumOfOverflows
      /\ \A t \in Tasks : Q[t] \in Asleep => P[t] \in Asleep
  BY DEF Steady, AllBut, SchedFields, SteadyFields, ListFields, GenericFields, EventFields,
         ReadyFields
<1> QED BY <1>1, TimeStill

(* What a steady step leaves alone.                                        *)
LEMMA SteadyLeaves ==
  ASSUME NEW s, NEW P, NEW E, NEW r, NEW Q, NEW F, Steady(r, Q, F, s, P, E)
  PROVE  /\ r.pxCurrentTCB = s.pxCurrentTCB /\ r.xSchedulerRunning = s.xSchedulerRunning
         /\ r.uxSchedulerSuspended = s.uxSchedulerSuspended
         /\ r.xTickCount = s.xTickCount /\ r.uxMissedTicks = s.uxMissedTicks
         /\ Settled(r, Q, F)
BY DEF Steady, AllBut, SchedFields, SteadyFields, ListFields, GenericFields, EventFields,
       ReadyFields

(* A step of the running task that leaves the clock alone: the task does   *)
(* not cease to be ready unless it is about to give up the processor.      *)
LEMMA TaskMoves ==
  ASSUME NEW P, NEW E, Settled(k, P, E), Staged(P), NEW t \in Tasks, Runs(t),
         NEW Q, NEW F, Steady(k', Q, F, k, P, E), NEW T, StayReady(P, Q, T),
         \A u \in Tasks \ {t} : frame'[u] = frame[u] \/ frame'[u] = AtRest,
         frame'[t].at \in SuspStages <=> frame[t].at \in SuspStages,
         t \in T \/ Halting(frame[t])
           => Halting(frame'[t]) \/ (k'.pendsv /\ k.uxSchedulerSuspended = 0),
         k.uxSchedulerSuspended > 0 /\ frame' = frame => ListsSame
  PROVE  Moves(Q, F, P, E, 0)
<1>1. /\ k.xSchedulerRunning /\ k.pxCurrentTCB = t /\ ~k.pendsv
      /\ k'.pxCurrentTCB = t /\ k'.xSchedulerRunning
      /\ k'.uxSchedulerSuspended = k.uxSchedulerSuspended
  BY SteadyLeaves DEF Runs
<1>2. k'.uxSchedulerSuspended = IF frame'[t].at \in SuspStages THEN 1 ELSE 0
  BY <1>1 DEF Staged
<1>3. \A u \in Tasks \ {t} : frame'[u].at \notin SuspStages
  <2>1. AtRest.at \notin SuspStages
    BY SMT DEF AtRest, SuspStages, QueueStages
  <2> QED BY <1>1, <2>1 DEF Staged
<1>4. ASSUME ~Halting(frame'[t]), ~k'.pendsv \/ k'.uxSchedulerSuspended = 1 PROVE Q[t] >= 0
  <2>1. ~(k'.pendsv /\ k.uxSchedulerSuspended = 0)
    BY <1>1, <1>4
  <2>2. t \notin T /\ ~Halting(frame[t])
    BY <1>4, <2>1
  <2>3. P[t] >= 0
    BY <1>1, <2>2 DEF Staged
  <2> QED BY <2>2, <2>3 DEF StayReady
<1>5. Staged(Q)'
  BY <1>1, <1>2, <1>3, <1>4 DEF Staged, Halting
<1> QED BY <1>5, NoTick

(* An interrupt that leaves the clock alone.                               *)
LEMMA InterruptMoves ==
  ASSUME NEW P, NEW E, Settled(k, P, E), Staged(P), k.xSchedulerRunning,
         NEW Q, NEW F, Steady(k', Q, F, k, P, E), StayReady(P, Q, {}),
         frame' = frame, k.pendsv => k'.pendsv,
         k.uxSchedulerSuspended # 0 => AllBut(k', k, EventFields \cup {"pendsv"})
  PROVE  Moves(Q, F, P, E, 0)
<1>1. /\ k'.pxCurrentTCB = k.pxCurrentTCB /\ k'.xSchedulerRunning
      /\ k'.uxSchedulerSuspended = k.uxSchedulerSuspended /\ k.pxCurrentTCB \in Tasks
  BY SteadyLeaves, SettledNumbers DEF Typed
<1>2. Staged(Q)'
  BY <1>1 DEF Staged, Halting, StayReady
<1>3. k.uxSchedulerSuspended > 0 => ListsSame
  <2>1. AllBut(k', k, EventFields \cup {"pendsv"}) => ListsSame
    BY DEF AllBut, SchedFields, EventFields, ListsSame
  <2> QED BY <2>1
<1> QED BY <1>2, <1>3, NoTick

-----------------------------------------------------------------------------
(* What a call keeps in its frame.                                         *)
IsCareful(f) ==
  /\ f.wait \in Ticks /\ f.entry.xTimeOnEntering \in Ticks
  /\ f.entry.xOverflowCount \in 0 .. (OverflowMod - 1)
  /\ f.timed \/ f.call.op = "delay" => f.wait # 0
  /\ f.call.op \in DelayOps => f.then = "block"
  /\ f.at \in {"inherit", "place"} => f.then = "block"
  /\ f.at = "inherit" => QueueType[f.call.on] = "mutex"

FramesCareful == last \in [Tasks -> Ticks] /\ \A t \in Tasks : IsCareful(frame[t])

(* The time of the scheduler is a time.                                    *)
InTime == k.xTickCount \in Ticks /\ k.xNumOfOverflows \in 0 .. (OverflowMod - 1)

(* The frame of one task may change for another careful one.               *)
LEMMA CarefulSet ==
  ASSUME FramesOK, FramesCareful, NEW t \in Tasks, NEW f, IsCareful(f),
         frame' = [frame EXCEPT ![t] = f], last' = last
  PROVE  FramesCareful'
<1>1. \A u \in Tasks : frame'[u] = frame[u] \/ frame'[u] = f
  BY DEF FramesOK
<1> QED BY <1>1 DEF FramesCareful

(* A task in no call is careful.                                           *)
LEMMA RestIsCareful == IsCareful(AtRest)
<1>1. /\ AtRest.wait = 0 /\ AtRest.entry.xTimeOnEntering = 0 /\ AtRest.entry.xOverflowCount = 0
      /\ ~AtRest.timed /\ AtRest.at = "ready" /\ AtRest.call.op = "none"
  BY DEF AtRest, NoCall
<1>2. 0 \in Ticks /\ 0 \in 0 .. (OverflowMod - 1)
  BY Constants
<1>3. AtRest.call.op \notin DelayOps /\ AtRest.call.op # "delay"
  BY <1>1, SMT DEF DelayOps
<1> QED BY <1>1, <1>2, <1>3 DEF IsCareful

(* So is one whose call returns,                                           *)
LEMMA CarefulReturn ==
  ASSUME FramesOK, FramesCareful, NEW t \in Tasks, Return(t), last' = last
  PROVE  FramesCareful'
BY RestIsCareful, CarefulSet DEF Return

(* one whose call goes on to its next stage,                               *)
LEMMA CarefulGo ==
  ASSUME FramesOK, FramesCareful, NEW t \in Tasks, NEW at, GoTo(t, at), last' = last,
         at # "inherit", at = "place" => frame[t].then = "block"
  PROVE  FramesCareful'
<1> DEFINE f == [frame[t] EXCEPT !.at = at]
<1>0. IsFrame(t, frame[t]) /\ IsCareful(frame[t])
  BY DEF FramesOK, FramesCareful
<1>1. /\ f.at = at /\ f.call = frame[t].call /\ f.timed = frame[t].timed
      /\ f.then = frame[t].then /\ f.wait = frame[t].wait /\ f.entry = frame[t].entry
  BY <1>0 DEF IsFrame
<1>2. frame' = [frame EXCEPT ![t] = f]
  BY DEF GoTo
<1> HIDE DEF f
<1>3. IsCareful(f)
  BY <1>0, <1>1 DEF IsCareful
<1> QED BY <1>2, <1>3, CarefulSet

(* A frame in which nothing but the call and what follows it is set.       *)
LEMMA CarefulFresh ==
  ASSUME NEW f, f.wait = 0, f.entry = AtRest.entry, ~f.timed, f.call.op # "delay",
         f.call.op \in DelayOps => f.then = "block", f.at \notin {"inherit", "place"}
  PROVE  IsCareful(f)
<1>1. f.entry.xTimeOnEntering = 0 /\ f.entry.xOverflowCount = 0
  BY DEF AtRest
<1>2. 0 \in Ticks /\ 0 \in 0 .. (OverflowMod - 1)
  BY Constants
<1> QED BY <1>1, <1>2 DEF IsCareful

(* one that suspends the scheduler,                                        *)
LEMMA CarefulSuspends ==
  ASSUME FramesOK, FramesCareful, NEW t \in Tasks, NEW c, NEW then, Suspends(t, c, then),
         last' = last, c.op # "delay", c.op \in DelayOps => then = "block"
  PROVE  FramesCareful'
<1> DEFINE f == [AtRest EXCEPT !.at = "suspend", !.call = c, !.then = then]
<1>1. /\ f.at = "suspend" /\ f.call = c /\ ~f.timed /\ f.then = then /\ f.wait = 0
      /\ f.entry = AtRest.entry
  BY DEF AtRest
<1>2. frame' = [frame EXCEPT ![t] = f]
  BY DEF Suspends
<1> HIDE DEF f
<1>3. IsCareful(f)
  BY <1>1, CarefulFresh
<1> QED BY <1>2, <1>3, CarefulSet

(* and one whose queue call finds that it has to wait.                     *)
LEMMA CarefulWait ==
  ASSUME FramesOK, FramesCareful, InTime, NEW t \in Tasks, NEW c, Enters(t, c),
         c.op \in QueueOps, WaitOrFail(t, c)
  PROVE  FramesCareful'
<1> DEFINE f == IF frame[t].at = "ready" THEN [AtRest EXCEPT !.call = c, !.wait = c.wait]
                ELSE frame[t]
           f1 == IF f.timed THEN f ELSE [f EXCEPT !.timed = TRUE, !.entry = TimeOutState(k)]
           f2 == [f1 EXCEPT !.at = "suspend"]
<1>0. IsFrame(t, frame[t]) /\ IsCareful(frame[t]) /\ last' = last
  BY DEF FramesOK, FramesCareful, WaitOrFail
<1>1. c \in Calls /\ c.wait \in Ticks
  BY Entered, OnQueues
<1>2. CASE f.wait = 0
  <2>1. Return(t)
    BY <1>2 DEF WaitOrFail
  <2> QED BY <1>0, <2>1, CarefulReturn
<1>3. CASE f.wait # 0
  <2>1. frame' = [frame EXCEPT ![t] = f2]
    BY <1>3 DEF WaitOrFail
  <2>2. /\ f.wait \in Ticks /\ f.call = c
        /\ f.timed => f.entry.xTimeOnEntering \in Ticks
                       /\ f.entry.xOverflowCount \in 0 .. (OverflowMod - 1)
        /\ DOMAIN f = {"at", "call", "wait", "timed", "entry", "then"}
    <3>1. CASE frame[t].at = "ready"
      <4>1. f.wait = c.wait /\ f.call = c /\ ~f.timed
            /\ DOMAIN f = {"at", "call", "wait", "timed", "entry", "then"}
        BY <3>1 DEF AtRest
      <4> QED BY <4>1, <1>1
    <3>2. CASE frame[t].at # "ready"
      <4>1. f = frame[t] /\ f.call = c
        BY <3>2, Entered
      <4> QED BY <4>1, <1>0 DEF IsCareful, IsFrame
    <3> QED BY <3>1, <3>2
  <2> HIDE DEF f
  <2>3. /\ f2.at = "suspend" /\ f2.call = c /\ f2.wait = f.wait
        /\ f2.entry = IF f.timed THEN f.entry ELSE TimeOutState(k)
    BY <2>2
  <2>4. /\ TimeOutState(k).xTimeOnEntering \in Ticks
        /\ TimeOutState(k).xOverflowCount \in 0 .. (OverflowMod - 1)
    BY DEF TimeOutState, InTime
  <2> HIDE DEF f2
  <2>5. c.op \notin DelayOps
    BY SMT DEF QueueOps, SendOps, ReceiveOps, DelayOps
  <2>6. IsCareful(f2)
    BY <1>3, <2>2, <2>3, <2>4, <2>5 DEF IsCareful
  <2> QED BY <1>0, <2>1, <2>6, CarefulSet
<1> QED BY <1>2, <1>3

(* The wait that xTaskCheckForTimeOut leaves is a wait still.              *)
LEMMA WaitLeft ==
  ASSUME InTime, NEW e, e.xTimeOnEntering \in Ticks,
         e.xOverflowCount \in 0 .. (OverflowMod - 1), NEW n \in Ticks, n # 0
  PROVE  LET r == xTaskCheckForTimeOut(k, e, n)
         IN  /\ r.wait \in Ticks /\ r.wait # 0 /\ r.entry.xTimeOnEntering \in Ticks
             /\ r.entry.xOverflowCount \in 0 .. (OverflowMod - 1)
<1> DEFINE r == xTaskCheckForTimeOut(k, e, n)
<1>1. Elapsed(k, e) \in Ticks
  <2>1. k.xTickCount - e.xTimeOnEntering \in Int
    BY Constants DEF InTime
  <2> QED BY <2>1, TickSums DEF Elapsed
<1>2. /\ TimeOutState(k).xTimeOnEntering \in Ticks
      /\ TimeOutState(k).xOverflowCount \in 0 .. (OverflowMod - 1)
  BY DEF TimeOutState, InTime
<1>3. \/ r.wait = n /\ r.entry = e
      \/ r.wait = n - Elapsed(k, e) /\ r.entry = TimeOutState(k) /\ ~(Elapsed(k, e) >= n)
  BY DEF xTaskCheckForTimeOut
<1> HIDE DEF r
<1>4. ~(Elapsed(k, e) >= n) => n - Elapsed(k, e) \in Ticks /\ n - Elapsed(k, e) # 0
  <2> DEFINE x == Elapsed(k, e)
  <2>1. x \in Ticks
    BY <1>1
  <2> HIDE DEF x
  <2>2. ~(x >= n) => n - x \in Ticks /\ n - x # 0
    BY <2>1, Constants DEF Ticks
  <2> QED BY <2>2 DEF x
<1>5. r.wait \in Ticks /\ r.wait # 0
  BY <1>3, <1>4
<1>6. /\ r.entry.xTimeOnEntering \in Ticks
      /\ r.entry.xOverflowCount \in 0 .. (OverflowMod - 1)
  BY <1>2, <1>3
<1> QED BY <1>5, <1>6 DEF r

(* The steps within a call keep the tasks careful,                         *)
LEMMA CarefulSteps ==
  ASSUME FramesOK, FramesCareful, InTime, NEW t \in Tasks, CallStep(t)
  PROVE  FramesCareful'
<1>0. /\ IsFrame(t, frame[t]) /\ IsCareful(frame[t]) /\ last' = last
  BY DEF FramesOK, FramesCareful, CallStep, SuspendAll, LockQueue, CheckForTimeOut, TestQueue,
         InheritPriority, PlaceOnEventList, UnlockQueueTx, UnlockQueueRx, ResumeAll, Yield
<1>1. CASE SuspendAll(t)
  <2> DEFINE at == CASE frame[t].call.op \in SendOps \cup ReceiveOps -> "lock"
                     [] frame[t].call.op \in DelayOps -> "delay"
                     [] OTHER -> "resume"
  <2>1. GoTo(t, at)
    BY <1>1 DEF SuspendAll
  <2>2. at \in {"lock", "delay", "resume"}
    OBVIOUS
  <2> HIDE DEF at
  <2> QED BY <1>0, <2>1, <2>2, CarefulGo
<1>2. CASE LockQueue(t)
  BY <1>0, <1>2, CarefulGo DEF LockQueue
<1>3. CASE CheckForTimeOut(t)
  <2> DEFINE r == xTaskCheckForTimeOut(k, frame[t].entry, frame[t].wait)
             f == [frame[t] EXCEPT !.at = IF r.expired THEN "unlockTx" ELSE "test",
                                   !.then = IF r.expired THEN "fail" ELSE @,
                                   !.wait = r.wait, !.entry = r.entry]
  <2>1. frame[t].at = "check" /\ frame' = [frame EXCEPT ![t] = f]
    BY <1>3 DEF CheckForTimeOut, Reaches
  <2>2. frame[t].timed /\ frame[t].call.op \notin DelayOps
    <3>1. frame[t].call.op \in QueueOps /\ (frame[t].timed <=> frame[t].call.op \in QueueOps)
      BY <1>0, <2>1 DEF IsFrame, QueueStages
    <3> QED BY <3>1, SMT DEF QueueOps, SendOps, ReceiveOps, DelayOps
  <2>3. /\ r.wait \in Ticks /\ r.wait # 0 /\ r.entry.xTimeOnEntering \in Ticks
        /\ r.entry.xOverflowCount \in 0 .. (OverflowMod - 1)
    BY <1>0, <2>2, WaitLeft DEF IsCareful
  <2> HIDE DEF r
  <2>4. /\ f.at \notin {"inherit", "place"} /\ f.call = frame[t].call
        /\ f.wait = r.wait /\ f.entry = r.entry
    BY <1>0 DEF IsFrame
  <2> HIDE DEF f
  <2>5. IsCareful(f)
    BY <1>0, <2>2, <2>3, <2>4 DEF IsCareful
  <2> QED BY <1>0, <2>1, <2>5, CarefulSet
<1>4. CASE TestQueue(t)
  <2> DEFINE c == frame[t].call
             blocks == IF c.op \in SendOps THEN IsFull(queue[c.on]) ELSE IsEmpty(queue[c.on])
             inherits == QueueType[c.on] = "mutex" /\ c.op \in ReceiveOps
             f == [frame[t] EXCEPT
                     !.at = IF ~blocks THEN "unlockTx" ELSE IF inherits THEN "inherit" ELSE "place",
                     !.then = IF blocks THEN "block" ELSE "retry"]
  <2>1. frame[t].at = "test" /\ frame' = [frame EXCEPT ![t] = f]
    BY <1>4 DEF TestQueue, Reaches
  <2>2. frame[t].timed /\ frame[t].call.op \notin DelayOps
    <3>1. frame[t].call.op \in QueueOps /\ (frame[t].timed <=> frame[t].call.op \in QueueOps)
      BY <1>0, <2>1 DEF IsFrame, QueueStages
    <3> QED BY <3>1, SMT DEF QueueOps, SendOps, ReceiveOps, DelayOps
  <2> HIDE DEF blocks
  <2>3. /\ f.at \in {"inherit", "place"} => f.then = "block"
        /\ f.at = "inherit" => QueueType[f.call.on] = "mutex"
        /\ f.call = frame[t].call /\ f.wait = frame[t].wait /\ f.entry = frame[t].entry
        /\ f.timed = frame[t].timed
    BY <1>0 DEF IsFrame
  <2> HIDE DEF f
  <2>4. IsCareful(f)
    BY <1>0, <2>2, <2>3 DEF IsCareful
  <2> QED BY <1>0, <2>1, <2>4, CarefulSet
<1>5. CASE InheritPriority(t)
  <2>1. frame[t].at = "inherit" /\ GoTo(t, "place")
    BY <1>5 DEF InheritPriority, Reaches
  <2> QED BY <1>0, <2>1, CarefulGo DEF IsCareful
<1>6. CASE PlaceOnEventList(t)
  BY <1>0, <1>6, CarefulGo DEF PlaceOnEventList
<1>7. CASE UnlockQueueTx(t)
  BY <1>0, <1>7, CarefulGo DEF UnlockQueueTx
<1>8. CASE UnlockQueueRx(t)
  BY <1>0, <1>8, CarefulGo DEF UnlockQueueRx
<1>9. CASE ResumeAll(t)
  <2>1. GoTo(t, "yield") \/ GoTo(t, "enter") \/ GoTo(t, "work") \/ Return(t)
    BY <1>9 DEF ResumeAll
  <2> QED BY <1>0, <2>1, CarefulGo, CarefulReturn
<1>10. CASE Yield(t)
  <2>1. GoTo(t, "enter") \/ Return(t)
    BY <1>10 DEF Yield
  <2> QED BY <1>0, <2>1, CarefulGo, CarefulReturn
<1> QED BY <1>1, <1>2, <1>3, <1>4, <1>5, <1>6, <1>7, <1>8, <1>9, <1>10 DEF CallStep

(* The calls.                                                              *)
LEMMA CarefulCalls ==
  ASSUME FramesOK, FramesCareful, InTime, NEW t \in Tasks, Call(t)
  PROVE  FramesCareful'
<1>0. IsFrame(t, frame[t]) /\ IsCareful(frame[t]) /\ last \in [Tasks -> Ticks]
  BY DEF FramesOK, FramesCareful
<1>1. CASE xQueueGenericSend(t) \/ xQueueGenericReceive(t)
  <2>1. PICK c : /\ c.op \in QueueOps /\ Enters(t, c)
                 /\ WaitOrFail(t, c) \/ (Return(t) /\ last' = last)
    BY <1>1 DEF xQueueGenericSend, xQueueGenericReceive, QueueOps
  <2> QED BY <2>1, CarefulWait, CarefulReturn
<1>2. CASE vTaskDelay(t)
  <2>0. last' = last
    BY <1>2 DEF vTaskDelay
  <2>1. CASE \E c \in script.calls :
              /\ c.op = "delay" /\ Enters(t, c)
              /\ IF c.wait = 0 THEN k' = taskYIELD(k) /\ UNCHANGED frame
                 ELSE /\ frame' = [frame EXCEPT ![t] = [AtRest EXCEPT
                           !.at = "suspend", !.call = c, !.wait = c.wait, !.then = "block"]]
                      /\ UNCHANGED k
    <3>1. PICK c \in script.calls :
              /\ c.op = "delay" /\ Enters(t, c)
              /\ \/ UNCHANGED frame
                 \/ c.wait # 0 /\ frame' = [frame EXCEPT ![t] = [AtRest EXCEPT
                       !.at = "suspend", !.call = c, !.wait = c.wait, !.then = "block"]]
      BY <2>1
    <3>2. c \in Calls /\ c.wait \in Ticks
      <4>1. c \in Calls
        BY <3>1, Entered
      <4> QED BY <4>1, SMT DEF Calls
    <3> DEFINE f == [AtRest EXCEPT !.at = "suspend", !.call = c, !.wait = c.wait, !.then = "block"]
    <3>3. /\ f.at = "suspend" /\ f.call = c /\ ~f.timed /\ f.then = "block" /\ f.wait = c.wait
          /\ f.entry.xTimeOnEntering = 0 /\ f.entry.xOverflowCount = 0
      BY DEF AtRest
    <3>4. UNCHANGED frame \/ (c.wait # 0 /\ frame' = [frame EXCEPT ![t] = f])
      BY <3>1
    <3> HIDE DEF f
    <3>5. c.wait # 0 => IsCareful(f)
      BY <3>2, <3>3, Constants DEF IsCareful
    <3>6. CASE UNCHANGED frame
      BY <3>6, <2>0 DEF FramesCareful
    <3> QED BY <3>4, <3>5, <3>6, <2>0, CarefulSet
  <2>2. CASE Reaches(t, "delay") /\ GoTo(t, "resume")
    BY <2>0, <2>2, CarefulGo
  <2> QED BY <1>2, <2>1, <2>2 DEF vTaskDelay
<1>3. CASE vTaskDelayUntil(t)
  <2>1. CASE /\ \E c \in script.calls : c.op = "delayUntil" /\ Enters(t, c) /\ Suspends(t, c, "block")
             /\ last' = last
    <3>1. PICK c \in script.calls :
            c.op = "delayUntil" /\ Enters(t, c) /\ Suspends(t, c, "block")
      BY <2>1
    <3> QED BY <2>1, <3>1, CarefulSuspends
  <2>2. CASE /\ Reaches(t, "delay") /\ frame[t].call.op = "delayUntil"
             /\ last' = [last EXCEPT ![t] = (last[t] + frame[t].call.wait) % TickMod]
             /\ frame' = [frame EXCEPT ![t].at = "resume",
                   ![t].wait = (((last[t] + frame[t].call.wait) % TickMod) - k.xTickCount) % TickMod]
    <3> DEFINE next == (last[t] + frame[t].call.wait) % TickMod
               w == (next - k.xTickCount) % TickMod
               f == [frame[t] EXCEPT !.at = "resume", !.wait = w]
    <3>1. frame[t].at = "delay" /\ frame' = [frame EXCEPT ![t] = f]
      BY <2>2 DEF Reaches
    <3>2. frame[t].call.wait \in Ticks
      <4>1. frame[t].call \in Calls \/ frame[t].call = IdleCall
        BY <1>0, <3>1 DEF IsFrame
      <4> QED BY <4>1, Constants, SMT DEF Calls, IdleCall
    <3>3. next \in Ticks
      <4>1. last[t] + frame[t].call.wait \in Int
        BY <1>0, <3>2, Constants
      <4> QED BY <4>1, TickSums
    <3>4. last' = [last EXCEPT ![t] = next]
      BY <2>2
    <3> HIDE DEF next
    <3>5. w \in Ticks
      <4>1. next - k.xTickCount \in Int
        BY <3>3, Constants DEF InTime
      <4> QED BY <4>1, TickSums
    <3> HIDE DEF w
    <3>6. /\ f.at = "resume" /\ f.call = frame[t].call /\ f.timed = frame[t].timed
          /\ f.then = frame[t].then /\ f.wait = w /\ f.entry = frame[t].entry
      BY <1>0 DEF IsFrame
    <3> HIDE DEF f
    <3>7. IsCareful(f)
      <4>1. f.call.op = "delayUntil"
        BY <2>2, <3>6
      <4>2. ~f.timed
        BY <1>0, <3>1, <3>6, <4>1, SMT DEF IsFrame, QueueOps, SendOps, ReceiveOps
      <4> QED BY <1>0, <3>5, <3>6, <4>1, <4>2 DEF IsCareful
    <3>8. last' \in [Tasks -> Ticks]
      BY <1>0, <3>3, <3>4
    <3>9. \A u \in Tasks : frame'[u] = frame[u] \/ frame'[u] = f
      BY <3>1 DEF FramesOK
    <3> QED BY <3>7, <3>8, <3>9 DEF FramesCareful
  <2> QED BY <1>3, <2>1, <2>2 DEF vTaskDelayUntil
<1>4. CASE vTaskSuspend(t) \/ vTaskDelete(t)
  <2>1. PICK c \in script.calls :
          /\ c.op \in {"suspend", "delete"} /\ Enters(t, c) /\ last' = last
          /\ \/ c.on = t /\ frame' = [frame EXCEPT ![t] = [AtRest EXCEPT !.at = "yield", !.call = c]]
             \/ c.on # t /\ (frame' = frame \/ frame' = [frame EXCEPT ![c.on] = AtRest])
    BY <1>4 DEF vTaskSuspend, vTaskDelete
  <2> DEFINE f == [AtRest EXCEPT !.at = "yield", !.call = c]
  <2>2. c.op \notin DelayOps /\ c.op # "delay"
    BY <2>1, SMT DEF DelayOps
  <2>3. f.at = "yield" /\ f.call = c /\ ~f.timed /\ f.wait = 0 /\ f.entry = AtRest.entry
    BY DEF AtRest
  <2>4. frame' = [frame EXCEPT ![t] = f] \/ frame' = frame \/ frame' = [frame EXCEPT ![c.on] = AtRest]
    BY <2>1
  <2> HIDE DEF f
  <2>5. IsCareful(f) /\ IsCareful(AtRest)
    BY <2>2, <2>3, CarefulFresh, RestIsCareful
  <2>6. \A u \in Tasks : frame'[u] = frame[u] \/ frame'[u] = f \/ frame'[u] = AtRest
    BY <2>4 DEF FramesOK
  <2> QED BY <2>1, <2>5, <2>6 DEF FramesCareful
<1>5. CASE vTaskResumeCall(t)
  BY <1>5 DEF vTaskResumeCall, FramesCareful
<1>6. CASE xTaskCreateCall(t)
  <2>0. last' = last
    BY <1>6 DEF xTaskCreateCall
  <2>1. CASE \E c \in script.calls : c.op = "create" /\ Enters(t, c) /\ Suspends(t, c, "work")
    <3>1. PICK c \in script.calls : c.op = "create" /\ Enters(t, c) /\ Suspends(t, c, "work")
      BY <2>1
    <3>2. c.op # "delay" /\ c.op \notin DelayOps
      BY <3>1, SMT DEF DelayOps
    <3> QED BY <2>0, <3>1, <3>2, CarefulSuspends
  <2>2. CASE /\ Reaches(t, "work") /\ frame[t].call.op = "create"
             /\ frame' = [frame EXCEPT ![t].at = "yield", ![t].then = "create"]
    <3> DEFINE f == [frame[t] EXCEPT !.at = "yield", !.then = "create"]
    <3>1. frame' = [frame EXCEPT ![t] = f]
      BY <2>2
    <3>2. /\ f.at = "yield" /\ f.call = frame[t].call /\ f.timed = frame[t].timed
          /\ f.wait = frame[t].wait /\ f.entry = frame[t].entry
      BY <1>0 DEF IsFrame
    <3> HIDE DEF f
    <3>3. f.call.op \notin DelayOps
      BY <2>2, <3>2, SMT DEF DelayOps
    <3>4. IsCareful(f)
      BY <1>0, <3>2, <3>3 DEF IsCareful
    <3> QED BY <2>0, <3>1, <3>4, CarefulSet
  <2> QED BY <1>6, <2>0, <2>1, <2>2, CarefulReturn DEF xTaskCreateCall
<1> QED BY <1>1, <1>2, <1>3, <1>4, <1>5, <1>6 DEF Call

(* the idle task does,                                                     *)
LEMMA CarefulIdle ==
  ASSUME FramesOK, FramesCareful, prvIdleTask
  PROVE  FramesCareful'
<1>0. last' = last /\ idle \in Tasks /\ IdleCall.op = "idle" /\ IdleCall.op \notin DelayOps
  BY TasksAssumption, SMT DEF prvIdleTask, IdleCall, DelayOps
<1>1. CASE Suspends(idle, IdleCall, "work")
  BY <1>0, <1>1, CarefulSuspends
<1>2. CASE frame' = [frame EXCEPT
             ![Head(k.terminated)] = AtRest,
             ![idle] = [AtRest EXCEPT !.at = "suspend", !.call = IdleCall]]
  <2> DEFINE f == [AtRest EXCEPT !.at = "suspend", !.call = IdleCall]
             u == Head(k.terminated)
  <2>1. /\ f.at = "suspend" /\ f.call = IdleCall /\ ~f.timed /\ f.wait = 0
        /\ f.entry = AtRest.entry
    BY DEF AtRest
  <2>2. frame' = [frame EXCEPT ![u] = AtRest, ![idle] = f]
    BY <1>2
  <2> HIDE DEF f, u
  <2>3. IsCareful(f) /\ IsCareful(AtRest)
    BY <1>0, <2>1, CarefulFresh, RestIsCareful
  <2>4. \A t \in Tasks : frame'[t] = frame[t] \/ frame'[t] = AtRest \/ frame'[t] = f
    BY <1>0, <2>2 DEF FramesOK
  <2> QED BY <1>0, <2>3, <2>4 DEF FramesCareful
<1> QED BY <1>1, <1>2 DEF prvIdleTask

(* and so does every step.                                                 *)
LEMMA CarefulStep ==
  ASSUME FramesOK, FramesCareful, InTime, [Next]_vars
  PROVE  FramesCareful'
<1>1. CASE UNCHANGED <<frame, last>>
  BY <1>1 DEF FramesCareful
<1>2. CASE Next
  <2>1. CASE Boot \/ xPortPendSVHandler \/ Interrupt
    <3>1. UNCHANGED <<frame, last>>
      BY <2>1 DEF Boot, xPortPendSVHandler, Interrupt, xPortSysTickHandler,
                  xQueueGenericSendFromISR, xQueueReceiveFromISR, ResumeFromISR
    <3> QED BY <3>1, <1>1
  <2> QED BY <1>2, <2>1, CarefulSteps, CarefulCalls, CarefulIdle DEF Next
<1> QED BY <1>1, <1>2 DEF vars

-----------------------------------------------------------------------------
(* A task that inherits a priority does so from a waiter of a mutex that   *)
(* is held: nobody can give it back while the scheduler is suspended.      *)
EmptyAtInherit == \A t \in Tasks : frame[t].at = "inherit" => IsEmpty(queue[frame[t].call.on])

(* The mutex stays taken until the waiter has lent its priority to the     *)
(* holder.                                                                 *)
LEMMA StaysEmpty ==
  ASSUME MutexInv, FramesCareful, EmptyAtInherit, NEW P, Staged(P), [Next]_vars
  PROVE  EmptyAtInherit'
<1> SUFFICES ASSUME NEW t \in Tasks, frame'[t].at = "inherit"
             PROVE  IsEmpty(queue'[frame'[t].call.on])
  BY DEF EmptyAtInherit
<1>0. FramesOK /\ FramesOK' /\ IsFrame(t, frame[t]) /\ IsCareful(frame[t]) /\ QueuesOK
      /\ AtRest.at = "ready"
  BY FramesStep DEF MutexInv, FramesOK, FramesCareful, AtRest
<1>1. CASE frame'[t] = frame[t]
  <2>0. /\ frame[t].at = "inherit" /\ IsEmpty(queue[frame[t].call.on])
        /\ QueueType[frame[t].call.on] = "mutex"
    BY <1>0, <1>1 DEF EmptyAtInherit, IsCareful
  <2>1. "inherit" \in SuspStages
    BY DEF SuspStages, QueueStages
  <2>2. k.pxCurrentTCB = t
    BY <2>0, <2>1 DEF Staged
  <2>3. SUFFICES queue'[frame[t].call.on] = queue[frame[t].call.on]
    BY <1>1, <2>0
  <2>4. ASSUME NEW u \in Tasks, CallStep(u) \/ Call(u) PROVE FALSE
    <3>1. Runs(u) \/ u = t
      BY <2>4 DEF CallStep, Call, SuspendAll, LockQueue, CheckForTimeOut, TestQueue,
        InheritPriority, PlaceOnEventList, UnlockQueueTx, UnlockQueueRx, ResumeAll, Yield, Reaches,
        xQueueGenericSend, xQueueGenericReceive, vTaskDelay, vTaskDelayUntil, vTaskSuspend,
        vTaskResumeCall, vTaskDelete, xTaskCreateCall, Enters
    <3>2. u = t
      BY <2>2, <3>1 DEF Runs
    <3>3. InheritPriority(t)
      BY <2>0, <2>4, <3>2 DEF CallStep, Call, SuspendAll, LockQueue, CheckForTimeOut, TestQueue,
        PlaceOnEventList, UnlockQueueTx, UnlockQueueRx, ResumeAll, Yield, Reaches,
        xQueueGenericSend, xQueueGenericReceive, vTaskDelay, vTaskDelayUntil, vTaskSuspend,
        vTaskResumeCall, vTaskDelete, xTaskCreateCall, Enters
    <3>4. frame'[t].at = "place"
      BY <1>0, <3>3 DEF InheritPriority, GoTo, FramesOK, IsFrame
    <3> QED BY <1>1, <2>0, <3>4
  <2>5. CASE UNCHANGED queue
    BY <2>5
  <2>6. CASE Interrupt
    <3>1. CASE xPortSysTickHandler \/ \E u \in Tasks : ResumeFromISR(u)
      BY <3>1, <2>5 DEF xPortSysTickHandler, ResumeFromISR
    <3>2. CASE \E q \in Queues : xQueueGenericSendFromISR(q) \/ xQueueReceiveFromISR(q)
      <4>1. PICK q \in Queues : xQueueGenericSendFromISR(q) \/ xQueueReceiveFromISR(q)
        BY <3>2
      <4>2. QueueType[q] # "mutex"
        BY <4>1, <1>0, ScriptsAssumption DEF xQueueGenericSendFromISR, xQueueReceiveFromISR, FramesOK
      <4>3. \E Q : queue' = [queue EXCEPT ![q] = Q]
        BY <4>1 DEF xQueueGenericSendFromISR, xQueueReceiveFromISR
      <4>4. frame[t].call.on # q
        BY <2>0, <4>2
      <4> QED BY <1>0, <4>3, <4>4 DEF QueuesOK
    <3> QED BY <2>6, <3>1, <3>2 DEF Interrupt
  <2>7. Boot \/ xPortPendSVHandler \/ prvIdleTask \/ UNCHANGED vars => UNCHANGED queue
    BY DEF Boot, xPortPendSVHandler, prvIdleTask, vars
  <2> QED BY <2>4, <2>5, <2>6, <2>7 DEF Next
<1>2. CASE frame'[t] # frame[t]
  <2>1. TestQueue(t)
    <3>1. CASE Boot \/ xPortPendSVHandler \/ Interrupt \/ UNCHANGED vars
      BY <3>1, <1>2 DEF Boot, xPortPendSVHandler, Interrupt, xPortSysTickHandler,
                  xQueueGenericSendFromISR, xQueueReceiveFromISR, ResumeFromISR, vars
    <3>2. CASE prvIdleTask
      <4>1. frame'[t].at \in {"suspend", "ready"} \/ frame'[t] = frame[t]
        BY <3>2, <1>0 DEF prvIdleTask, Suspends, FramesOK, AtRest
      <4> QED BY <4>1, <1>2
    <3>3. ASSUME NEW u \in Tasks, CallStep(u) PROVE TestQueue(t)
      <4>1. \/ TestQueue(u)
            \/ \E f : frame' = [frame EXCEPT ![u] = f] /\ (f.at # "inherit")
        <5>0. IsFrame(u, frame[u])
          BY <1>0 DEF FramesOK
        <5>1. CASE CheckForTimeOut(u)
          <6> DEFINE r == xTaskCheckForTimeOut(k, frame[u].entry, frame[u].wait)
                     f == [frame[u] EXCEPT !.at = IF r.expired THEN "unlockTx" ELSE "test",
                                   !.then = IF r.expired THEN "fail" ELSE @,
                                   !.wait = r.wait, !.entry = r.entry]
          <6>1. frame' = [frame EXCEPT ![u] = f]
            BY <5>1 DEF CheckForTimeOut
          <6> HIDE DEF r
          <6>2. f.at # "inherit"
            BY <5>0 DEF IsFrame
          <6> HIDE DEF f
          <6> QED BY <6>1, <6>2
        <5>2. ASSUME NEW at, GoTo(u, at), at # "inherit"
              PROVE  \E f : frame' = [frame EXCEPT ![u] = f] /\ (f.at # "inherit")
          <6>1. frame' = [frame EXCEPT ![u] = [frame[u] EXCEPT !.at = at]]
            BY <5>2 DEF GoTo
          <6>2. [frame[u] EXCEPT !.at = at].at = at
            BY <5>0 DEF IsFrame
          <6> QED BY <6>1, <6>2, <5>2
        <5>3. Return(u) => \E f : frame' = [frame EXCEPT ![u] = f] /\ (f.at # "inherit")
          BY <1>0 DEF Return
        <5>4. \/ CheckForTimeOut(u) \/ TestQueue(u) \/ Return(u)
              \/ \E at : GoTo(u, at) /\ at # "inherit"
          BY <3>3 DEF CallStep, SuspendAll, LockQueue, InheritPriority,
            PlaceOnEventList, UnlockQueueTx, UnlockQueueRx, ResumeAll, Yield
        <5> QED BY <5>1, <5>2, <5>3, <5>4
      <4>2. \E f : frame' = [frame EXCEPT ![u] = f]
        BY <4>1 DEF TestQueue
      <4>3. u = t
        BY <4>2, <1>0, <1>2 DEF FramesOK
      <4>4. ASSUME NEW f, frame' = [frame EXCEPT ![u] = f], f.at # "inherit" PROVE FALSE
        BY <4>3, <4>4, <1>0 DEF FramesOK
      <4> QED BY <4>1, <4>3, <4>4
    <3>4. ASSUME NEW u \in Tasks, Call(u) PROVE FALSE
      <4>0. IsFrame(u, frame[u])
        BY <1>0 DEF FramesOK
      <4>1. \A w \in Tasks : frame'[w] = frame[w] \/ frame'[w].at # "inherit"
        <5>1. CASE xQueueGenericSend(u) \/ xQueueGenericReceive(u)
          <6>1. PICK c : WaitOrFail(u, c) \/ Return(u)
            BY <5>1 DEF xQueueGenericSend, xQueueGenericReceive
          <6>2. CASE Return(u)
            BY <6>2, <1>0 DEF Return, FramesOK
          <6>3. CASE WaitOrFail(u, c)
            <7> DEFINE f == IF frame[u].at = "ready" THEN [AtRest EXCEPT !.call = c, !.wait = c.wait]
                            ELSE frame[u]
                       f1 == IF f.timed THEN f ELSE [f EXCEPT !.timed = TRUE, !.entry = TimeOutState(k)]
                       f2 == [f1 EXCEPT !.at = "suspend"]
            <7>1. Return(u) \/ frame' = [frame EXCEPT ![u] = f2]
              BY <6>3 DEF WaitOrFail
            <7>2. f2.at = "suspend"
              BY <4>0 DEF IsFrame, AtRest
            <7> HIDE DEF f2
            <7> QED BY <6>2, <7>1, <7>2, <1>0 DEF FramesOK
          <6> QED BY <6>1, <6>2, <6>3
        <5>0. ASSUME NEW w \in Tasks, NEW f, frame' = [frame EXCEPT ![w] = f], f.at # "inherit"
              PROVE  \A v \in Tasks : frame'[v] = frame[v] \/ frame'[v].at # "inherit"
          BY <5>0, <1>0 DEF FramesOK
        <5>2. CASE vTaskDelay(u)
          <6>1. CASE frame' = frame
            BY <6>1
          <6>2. ASSUME NEW c, frame' = [frame EXCEPT ![u] = [AtRest EXCEPT
                         !.at = "suspend", !.call = c, !.wait = c.wait, !.then = "block"]]
                PROVE  \A v \in Tasks : frame'[v] = frame[v] \/ frame'[v].at # "inherit"
            <7> DEFINE f == [AtRest EXCEPT
                         !.at = "suspend", !.call = c, !.wait = c.wait, !.then = "block"]
            <7>1. f.at # "inherit"
              BY DEF AtRest
            <7>2. frame' = [frame EXCEPT ![u] = f]
              BY <6>2
            <7> HIDE DEF f
            <7> QED BY <7>1, <7>2, <5>0
          <6>3. CASE GoTo(u, "resume")
            <7> DEFINE f == [frame[u] EXCEPT !.at = "resume"]
            <7>1. f.at # "inherit"
              BY <4>0 DEF IsFrame
            <7>2. frame' = [frame EXCEPT ![u] = f]
              BY <6>3 DEF GoTo
            <7> HIDE DEF f
            <7> QED BY <7>1, <7>2, <5>0
          <6> QED BY <5>2, <6>1, <6>2, <6>3 DEF vTaskDelay
        <5>3. ASSUME NEW c, NEW then, Suspends(u, c, then)
              PROVE  \A v \in Tasks : frame'[v] = frame[v] \/ frame'[v].at # "inherit"
          <6> DEFINE f == [AtRest EXCEPT !.at = "suspend", !.call = c, !.then = then]
          <6>1. f.at # "inherit"
            BY DEF AtRest
          <6>2. frame' = [frame EXCEPT ![u] = f]
            BY <5>3 DEF Suspends
          <6> HIDE DEF f
          <6> QED BY <6>1, <6>2, <5>0
        <5>4. CASE vTaskDelayUntil(u)
          <6>1. ASSUME NEW n,
                       frame' = [frame EXCEPT ![u].at = "resume", ![u].wait = n]
                PROVE  \A v \in Tasks : frame'[v] = frame[v] \/ frame'[v].at # "inherit"
            <7> DEFINE f == [frame[u] EXCEPT !.at = "resume", !.wait = n]
            <7>1. f.at # "inherit"
              BY <4>0 DEF IsFrame
            <7>2. frame' = [frame EXCEPT ![u] = f]
              BY <6>1, <1>0 DEF FramesOK
            <7> HIDE DEF f
            <7> QED BY <7>1, <7>2, <5>0
          <6> QED BY <5>4, <6>1, <5>3 DEF vTaskDelayUntil
        <5>5. CASE vTaskSuspend(u) \/ vTaskResumeCall(u) \/ vTaskDelete(u)
          <6> DEFINE f(c) == [AtRest EXCEPT !.at = "yield", !.call = c]
          <6>1. \A c : f(c).at # "inherit"
            BY DEF AtRest
          <6>2. AtRest.at # "inherit"
            BY DEF AtRest
          <6>3. PICK c \in script.calls :
                  /\ c.op \in {"suspend", "resume", "delete"}
                  /\ \/ frame' = frame
                     \/ frame' = [frame EXCEPT ![u] = f(c)]
                     \/ frame' = [frame EXCEPT ![c.on] = f(c)]
                     \/ frame' = [frame EXCEPT ![c.on] = AtRest]
            BY <5>5 DEF vTaskSuspend, vTaskResumeCall, vTaskDelete
          <6>4. c \in Calls
            BY <6>3, <1>0, ScriptsAssumption DEF FramesOK
          <6>5. c.on \in Tasks
            BY <6>3, <6>4 DEF Calls, SendOps, ReceiveOps, TaskOps, DelayOps
          <6> HIDE DEF f
          <6> QED BY <6>1, <6>2, <6>3, <6>4, <6>5, <5>0
        <5>6. CASE xTaskCreateCall(u)
          <6>1. CASE Return(u)
            <7>1. AtRest.at # "inherit"
              BY DEF AtRest
            <7> QED BY <6>1, <7>1, <5>0 DEF Return
          <6>2. ASSUME frame' = [frame EXCEPT ![u].at = "yield", ![u].then = "create"]
                PROVE  \A v \in Tasks : frame'[v] = frame[v] \/ frame'[v].at # "inherit"
            <7> DEFINE f == [frame[u] EXCEPT !.at = "yield", !.then = "create"]
            <7>1. f.at # "inherit"
              BY <4>0 DEF IsFrame
            <7>2. frame' = [frame EXCEPT ![u] = f]
              BY <6>2, <1>0 DEF FramesOK
            <7> HIDE DEF f
            <7> QED BY <7>1, <7>2, <5>0
          <6> QED BY <5>6, <6>1, <6>2, <5>3 DEF xTaskCreateCall
        <5> QED BY <3>4, <5>1, <5>2, <5>4, <5>5, <5>6 DEF Call
      <4> QED BY <4>1, <1>2
    <3> QED BY <3>1, <3>2, <3>3, <3>4 DEF Next
  <2> DEFINE c == frame[t].call
             blocks == IF c.op \in SendOps THEN IsFull(queue[c.on]) ELSE IsEmpty(queue[c.on])
             inherits == QueueType[c.on] = "mutex" /\ c.op \in ReceiveOps
  <2>2. /\ frame' = [frame EXCEPT
           ![t].at = IF ~blocks THEN "unlockTx" ELSE IF inherits THEN "inherit" ELSE "place",
           ![t].then = IF blocks THEN "block" ELSE "retry"]
        /\ queue' = queue
    BY <2>1 DEF TestQueue
  <2>3. frame'[t].call = c /\ blocks /\ inherits
    <3> DEFINE b == blocks
               h == inherits
               f == [frame[t] EXCEPT
           !.at = IF ~b THEN "unlockTx" ELSE IF h THEN "inherit" ELSE "place",
           !.then = IF b THEN "block" ELSE "retry"]
    <3>1. frame' = [frame EXCEPT ![t] = f]
      BY <2>2, <1>0 DEF FramesOK
    <3> HIDE DEF b, h
    <3>2. IsFrame(t, frame[t])
      BY <1>0 DEF FramesOK
    <3>3. f.call = frame[t].call /\ f.at = IF ~b THEN "unlockTx" ELSE IF h THEN "inherit" ELSE "place"
      BY <3>2 DEF IsFrame
    <3> HIDE DEF f
    <3>4. frame'[t] = f
      BY <3>1, <1>0 DEF FramesOK
    <3>5. frame[t].call = c
      OBVIOUS
    <3>6. frame'[t].at = "inherit"
      OBVIOUS
    <3>7. b /\ h
      BY <3>3, <3>4, <3>6
    <3> QED BY <3>3, <3>4, <3>5, <3>7 DEF b, h
  <2>4. c.op \notin SendOps
    BY <2>3, SMT DEF SendOps, ReceiveOps
  <2> QED BY <2>2, <2>3, <2>4
<1> QED BY <1>1, <1>2

-----------------------------------------------------------------------------
(* No two calls create the same task, nor one that is there.               *)

(* The operators on the lists leave the set of tasks, and a switch that is *)
(* pending, alone.                                                         *)
LEMMA ListsKeepLive ==
  ASSUME NEW s, DOMAIN s = SchedFields, NEW t, NEW p
  PROVE  /\ prvAddTaskToReadyQueue(s, t).pendsv = s.pendsv
         /\ vListRemoveGeneric(s, t).pendsv = s.pendsv
         /\ vListRemoveEvent(s, t).pendsv = s.pendsv
         /\ prvAddTaskToReadyQueue(s, t).live = s.live
         /\ vListRemoveGeneric(s, t).live = s.live
         /\ vListRemoveEvent(s, t).live = s.live
         /\ SetPriority(s, t, p).live = s.live
         /\ DOMAIN prvAddTaskToReadyQueue(s, t) = SchedFields
         /\ DOMAIN vListRemoveGeneric(s, t) = SchedFields
         /\ DOMAIN vListRemoveEvent(s, t) = SchedFields
         /\ DOMAIN SetPriority(s, t, p) = SchedFields
BY DEF prvAddTaskToReadyQueue, vListRemoveGeneric, vListRemoveEvent, SetPriority, SchedFields

(* So do those that ready, wake, suspend and delete a task, and those that *)
(* change a priority.                                                      *)
LEMMA WakingKeepsLive ==
  ASSUME NEW s, DOMAIN s = SchedFields, NEW t, NEW l
  PROVE  /\ ReadyOrPend(s, t).live = s.live /\ DOMAIN ReadyOrPend(s, t) = SchedFields
         /\ WakeWaiter(s, l).live = s.live
         /\ vTaskResume(s, t).live = s.live /\ xTaskResumeFromISR(s, t).live = s.live
         /\ s.pendsv = TRUE => /\ WakeWaiter(s, l).pendsv = TRUE
                               /\ xTaskResumeFromISR(s, t).pendsv = TRUE
<1>1. \A a, u : DOMAIN a = SchedFields =>
        LET r == ReadyOrPend(a, u)
        IN  r.live = a.live /\ DOMAIN r = SchedFields /\ r.pendsv = a.pendsv
  <2> SUFFICES ASSUME NEW a, NEW u, DOMAIN a = SchedFields
               PROVE  LET r == ReadyOrPend(a, u)
                      IN  r.live = a.live /\ DOMAIN r = SchedFields /\ r.pendsv = a.pendsv
    OBVIOUS
  <2>1. LET r == prvAddTaskToReadyQueue(vListRemoveGeneric(a, u), u)
        IN  r.live = a.live /\ DOMAIN r = SchedFields /\ r.pendsv = a.pendsv
    BY ListsKeepLive
  <2>2. LET r == [a EXCEPT !.pending = Append(@, u)]
        IN  r.live = a.live /\ DOMAIN r = SchedFields /\ r.pendsv = a.pendsv
    BY DEF SchedFields
  <2> QED BY <2>1, <2>2 DEF ReadyOrPend
<1>2. \A a, b : DOMAIN a = SchedFields =>
        /\ YieldIf(b, a).live = a.live
        /\ a.pendsv = TRUE => YieldIf(b, a).pendsv = TRUE
  BY DEF YieldIf, taskYIELD, SchedFields
<1>3. /\ WakeWaiter(s, l).live = s.live
      /\ s.pendsv = TRUE => WakeWaiter(s, l).pendsv = TRUE
  <2> DEFINE r == xTaskRemoveFromEventList(s, l)
             e == vListRemoveEvent(s, Head(s.event[l]))
  <2>1. e.live = s.live /\ DOMAIN e = SchedFields /\ e.pendsv = s.pendsv
    BY ListsKeepLive
  <2>2. r.k = ReadyOrPend(e, Head(s.event[l]))
    BY DEF xTaskRemoveFromEventList
  <2> HIDE DEF e
  <2>3. r.k.live = s.live /\ DOMAIN r.k = SchedFields /\ r.k.pendsv = s.pendsv
    BY <1>1, <2>1, <2>2
  <2>4. WakeWaiter(s, l) = IF s.event[l] = <<>> THEN s ELSE YieldIf(r.woken, r.k)
    BY DEF WakeWaiter
  <2> HIDE DEF r
  <2> QED BY <1>2, <2>3, <2>4
<1>4. vTaskResume(s, t).live = s.live
  <2> DEFINE r == prvAddTaskToReadyQueue(vListRemoveGeneric(s, t), t)
  <2>1. r.live = s.live /\ DOMAIN r = SchedFields
    BY ListsKeepLive
  <2>2. vTaskResume(s, t) = YieldIf(s.uxPriority[t] >= s.uxPriority[s.pxCurrentTCB], r)
    BY DEF vTaskResume
  <2> HIDE DEF r
  <2> QED BY <1>2, <2>1, <2>2
<1>5. /\ xTaskResumeFromISR(s, t).live = s.live
      /\ s.pendsv = TRUE => xTaskResumeFromISR(s, t).pendsv = TRUE
  <2> DEFINE r == ReadyOrPend(s, t)
  <2>1. r.live = s.live /\ DOMAIN r = SchedFields /\ r.pendsv = s.pendsv
    BY <1>1
  <2>2. xTaskResumeFromISR(s, t)
          = YieldIf(/\ s.uxSchedulerSuspended = 0
                    /\ s.uxPriority[t] >= s.uxPriority[s.pxCurrentTCB], r)
    BY DEF xTaskResumeFromISR
  <2> HIDE DEF r
  <2> QED BY <1>2, <2>1, <2>2
<1> QED BY <1>1, <1>3, <1>4, <1>5

(* And those of priority inheritance.                                      *)
LEMMA InheritanceKeepsLive ==
  ASSUME NEW s, DOMAIN s = SchedFields, NEW t
  PROVE  /\ vTaskPriorityInherit(s, t).live = s.live
         /\ vTaskPriorityDisinherit(s, t).live = s.live
         /\ DOMAIN vTaskPriorityDisinherit(s, t) = SchedFields
<1>1. vTaskPriorityInherit(s, t).live = s.live
  <2> DEFINE k1 == SetPriority(s, t, s.uxPriority[s.pxCurrentTCB])
             r == prvAddTaskToReadyQueue(vListRemoveGeneric(k1, t), t)
  <2>1. k1.live = s.live /\ DOMAIN k1 = SchedFields
    BY ListsKeepLive
  <2>2. vTaskPriorityInherit(s, t) \in {s, k1, r}
    BY DEF vTaskPriorityInherit
  <2> HIDE DEF k1
  <2>3. r.live = s.live
    BY <2>1, ListsKeepLive
  <2> HIDE DEF r
  <2> QED BY <2>1, <2>2, <2>3
<1>2. /\ vTaskPriorityDisinherit(s, t).live = s.live
      /\ DOMAIN vTaskPriorityDisinherit(s, t) = SchedFields
  <2> DEFINE k0 == vListRemoveGeneric(s, t)
             k1 == SetPriority(k0, t, s.uxBasePriority[t])
             r == prvAddTaskToReadyQueue(k1, t)
  <2>1. vTaskPriorityDisinherit(s, t) \in {s, r}
    BY DEF vTaskPriorityDisinherit
  <2>2. k0.live = s.live /\ DOMAIN k0 = SchedFields
    BY ListsKeepLive
  <2> HIDE DEF k0
  <2>3. k1.live = s.live /\ DOMAIN k1 = SchedFields
    BY <2>2, ListsKeepLive
  <2> HIDE DEF k1
  <2>4. r.live = s.live /\ DOMAIN r = SchedFields
    BY <2>3, ListsKeepLive
  <2> HIDE DEF r
  <2> QED BY <2>1, <2>4
<1> QED BY <1>1, <1>2

(* And those that suspend and delete.                                      *)
LEMMA EndingKeepsLive ==
  ASSUME NEW s, DOMAIN s = SchedFields, NEW t
  PROVE  TaskSuspend(s, t).live = s.live /\ TaskDelete(s, t).live = s.live
<1> DEFINE r == vListRemoveEvent(vListRemoveGeneric(s, t), t)
<1>1. r.live = s.live /\ DOMAIN r = SchedFields
  BY ListsKeepLive
<1>2. /\ TaskSuspend(s, t) = [r EXCEPT !.suspended = @ \cup {t}]
      /\ TaskDelete(s, t) = [r EXCEPT !.terminated = Append(@, t), !.uxTasksDeleted = @ + 1]
  BY DEF TaskSuspend, TaskDelete
<1> HIDE DEF r
<1> QED BY <1>1, <1>2 DEF SchedFields

-----------------------------------------------------------------------------
(* The steps of a call, one at a time.                                     *)

(* A call that creates a task, until it has.                               *)
Creating(f) == f.call.op = "create" /\ f.at # "yield"

(* What it creates is not there, and nobody else creates it.               *)
CreatesOK ==
  \A t \in Tasks : Creating(frame[t]) =>
    /\ frame[t].call.on \notin k.live
    /\ \A u \in Tasks \ {t} : Creating(frame[u]) => frame[u].call.on # frame[t].call.on

(* What is known before a step, and shown of it.                           *)
Sound(P, E) ==
  /\ Settled(k, P, E) /\ Staged(P)
  /\ MutexInv /\ FramesCareful /\ EmptyAtInherit /\ CreatesOK

Goes(P, E) == \E Q, F, n : Moves(Q, F, P, E, n)

(* Which stages a task has the scheduler suspended at.                     *)
LEMMA StagesSuspend ==
  /\ \A a \in {"lock", "check", "test", "inherit", "place", "unlockTx", "unlockRx", "delay",
               "resume"} : a \in SuspStages
  /\ \A a \in {"ready", "enter", "suspend", "work", "yield"} : a \notin SuspStages
BY SMT DEF SuspStages, QueueStages

(* What is left of a frame when its stage changes.                         *)
LEMMA StageGone ==
  ASSUME FramesOK, NEW t \in Tasks, NEW at, GoTo(t, at)
  PROVE  /\ frame'[t].at = at /\ frame'[t].then = frame[t].then
         /\ frame'[t].call = frame[t].call /\ frame'[t].wait = frame[t].wait
         /\ \A u \in Tasks \ {t} : frame'[u] = frame[u]
<1>1. IsFrame(t, frame[t])
  BY DEF FramesOK
<1> DEFINE f == [frame[t] EXCEPT !.at = at]
<1>2. f.at = at /\ f.then = frame[t].then /\ f.call = frame[t].call /\ f.wait = frame[t].wait
  BY <1>1 DEF IsFrame
<1>3. frame' = [frame EXCEPT ![t] = f]
  BY DEF GoTo
<1> HIDE DEF f
<1> QED BY <1>2, <1>3 DEF FramesOK

(* And when the frame of one task changes.                                 *)
LEMMA OneFrame ==
  ASSUME FramesOK, NEW t \in Tasks, NEW f, frame' = [frame EXCEPT ![t] = f]
  PROVE  frame'[t] = f /\ \A u \in Tasks \ {t} : frame'[u] = frame[u]
BY DEF FramesOK

(* A task at rest is not about to give up the processor.                   *)
LEMMA RestRuns == AtRest.at = "ready" /\ AtRest.then = "return" /\ ~Halting(AtRest)
BY DEF AtRest, Halting

(* What is known of the task that runs.                                    *)
LEMMA RunningTask ==
  ASSUME NEW P, NEW E, Sound(P, E), NEW t \in Tasks, Runs(t)
  PROVE  /\ k.xSchedulerRunning /\ k.pxCurrentTCB = t /\ ~k.pendsv
         /\ k.uxSchedulerSuspended = IF frame[t].at \in SuspStages THEN 1 ELSE 0
         /\ ~Halting(frame[t]) => P[t] >= 0
         /\ IsFrame(t, frame[t]) /\ IsCareful(frame[t]) /\ FramesOK
         /\ Settled(k, P, E) /\ Staged(P)
BY DEF Sound, Runs, Staged, MutexInv, FramesOK, FramesCareful

(* Steps that leave the scheduler alone.                                   *)
LEMMA StillGoes ==
  ASSUME NEW P, NEW E, Sound(P, E), NEW t \in Tasks, Runs(t), k' = k,
         \A u \in Tasks \ {t} : frame'[u] = frame[u],
         frame'[t].at \in SuspStages <=> frame[t].at \in SuspStages,
         Halting(frame[t]) => Halting(frame'[t])
  PROVE  Goes(P, E)
<1>1. ListsSame
  BY DEF ListsSame
<1>2. Settled(k, P, E) /\ Staged(P)
  BY DEF Sound
<1>3. Steady(k', P, E, k, P, E) /\ StayReady(P, P, {})
  BY <1>2, SteadyStill
<1>4. Moves(P, E, P, E, 0)
  BY <1>1, <1>2, <1>3, TaskMoves
<1> QED BY <1>4 DEF Goes

(* prvLockQueue moves no task.                                             *)
LEMMA LockGoes ==
  ASSUME NEW P, NEW E, Sound(P, E), NEW t \in Tasks, LockQueue(t)
  PROVE  Goes(P, E)
<1>1. Runs(t) /\ frame[t].at = "lock" /\ k' = k /\ GoTo(t, "check")
  BY DEF LockQueue, Reaches
<1>2. frame'[t].at = "check" /\ \A u \in Tasks \ {t} : frame'[u] = frame[u]
  BY <1>1, RunningTask, StageGone
<1>3. ~Halting(frame[t])
  BY <1>1 DEF Halting
<1> QED BY <1>1, <1>2, <1>3, StagesSuspend, StillGoes

(* xTaskCheckForTimeOut moves no task.                                     *)
LEMMA CheckGoes ==
  ASSUME NEW P, NEW E, Sound(P, E), NEW t \in Tasks, CheckForTimeOut(t)
  PROVE  Goes(P, E)
<1>1. Runs(t) /\ frame[t].at = "check" /\ k' = k
  BY DEF CheckForTimeOut, Reaches
<1>2. IsFrame(t, frame[t]) /\ FramesOK
  BY <1>1, RunningTask
<1> DEFINE r == xTaskCheckForTimeOut(k, frame[t].entry, frame[t].wait)
           f == [frame[t] EXCEPT !.at = IF r.expired THEN "unlockTx" ELSE "test",
                         !.then = IF r.expired THEN "fail" ELSE @,
                         !.wait = r.wait, !.entry = r.entry]
<1>3. frame' = [frame EXCEPT ![t] = f]
  BY <1>2 DEF CheckForTimeOut, FramesOK
<1> HIDE DEF r
<1>4. f.at \in {"unlockTx", "test"}
  BY <1>2 DEF IsFrame
<1> HIDE DEF f
<1>5. frame'[t] = f /\ \A u \in Tasks \ {t} : frame'[u] = frame[u]
  BY <1>2, <1>3, OneFrame
<1>6. ~Halting(frame[t])
  BY <1>1 DEF Halting
<1> QED BY <1>1, <1>4, <1>5, <1>6, StagesSuspend, StillGoes

(* The second look at the queue moves no task.                             *)
LEMMA TestGoes ==
  ASSUME NEW P, NEW E, Sound(P, E), NEW t \in Tasks, TestQueue(t)
  PROVE  Goes(P, E)
<1>1. Runs(t) /\ frame[t].at = "test" /\ k' = k
  BY DEF TestQueue, Reaches
<1>2. IsFrame(t, frame[t]) /\ FramesOK
  BY <1>1, RunningTask
<1> DEFINE c == frame[t].call
           b == IF c.op \in SendOps THEN IsFull(queue[c.on]) ELSE IsEmpty(queue[c.on])
           h == QueueType[c.on] = "mutex" /\ c.op \in ReceiveOps
           f == [frame[t] EXCEPT
             !.at = IF ~b THEN "unlockTx" ELSE IF h THEN "inherit" ELSE "place",
             !.then = IF b THEN "block" ELSE "retry"]
<1>3. frame' = [frame EXCEPT ![t] = f]
  BY <1>2 DEF TestQueue, FramesOK
<1> HIDE DEF b, h
<1>4. f.at \in {"unlockTx", "inherit", "place"}
  BY <1>2 DEF IsFrame
<1> HIDE DEF f
<1>5. frame'[t] = f /\ \A u \in Tasks \ {t} : frame'[u] = frame[u]
  BY <1>2, <1>3, OneFrame
<1>6. ~Halting(frame[t])
  BY <1>1 DEF Halting
<1> QED BY <1>1, <1>4, <1>5, <1>6, StagesSuspend, StillGoes

(* Suspending the scheduler.                                               *)
LEMMA SuspendGoes ==
  ASSUME NEW P, NEW E, Sound(P, E), NEW t \in Tasks, SuspendAll(t)
  PROVE  Goes(P, E)
<1>1. Runs(t) /\ frame[t].at = "suspend" /\ k' = vTaskSuspendAll(k)
  BY DEF SuspendAll, Reaches
<1>2. /\ k.xSchedulerRunning /\ k.pxCurrentTCB = t /\ ~k.pendsv /\ FramesOK
      /\ k.uxSchedulerSuspended = 0 /\ Settled(k, P, E) /\ Staged(P)
  BY <1>1, RunningTask, StagesSuspend
<1>3. P[t] >= 0
  <2>1. ~Halting(frame[t])
    BY <1>1 DEF Halting
  <2> QED BY <1>1, <2>1, RunningTask
<1>4. /\ Settled(k', P, E) /\ AllBut(k', k, {"uxSchedulerSuspended"})
      /\ k'.uxSchedulerSuspended = 1
  BY <1>1, <1>2, AllSuspended
<1>5. \E at \in {"lock", "delay", "resume"} : GoTo(t, at)
  BY DEF SuspendAll
<1>6. frame'[t].at \in SuspStages /\ \A u \in Tasks \ {t} : frame'[u] = frame[u]
  BY <1>2, <1>5, StageGone, StagesSuspend
<1>7. /\ k'.pxCurrentTCB = t /\ k'.xSchedulerRunning /\ k'.xTickCount = k.xTickCount
      /\ k'.wakeTime = k.wakeTime /\ k'.uxMissedTicks = k.uxMissedTicks
      /\ k'.xNumOfOverflows = k.xNumOfOverflows
  BY <1>2, <1>4 DEF AllBut, SchedFields
<1>8. Staged(P)'
  BY <1>2, <1>3, <1>4, <1>6, <1>7 DEF Staged
<1>9. Moves(P, E, P, E, 0)
  BY <1>2, <1>4, <1>7, <1>8, TimeStill
<1> QED BY <1>9 DEF Goes

(* The holder of the mutex inherits the priority of the running task.      *)
LEMMA InheritGoes ==
  ASSUME NEW P, NEW E, Sound(P, E), NEW t \in Tasks, InheritPriority(t)
  PROVE  Goes(P, E)
<1>1. Runs(t) /\ frame[t].at = "inherit" /\ GoTo(t, "place")
  BY DEF InheritPriority, Reaches
<1>2. /\ k.xSchedulerRunning /\ FramesOK /\ IsFrame(t, frame[t]) /\ IsCareful(frame[t])
      /\ Settled(k, P, E) /\ Staged(P)
  BY <1>1, RunningTask
<1> DEFINE q == frame[t].call.on
           h == queue[q].pxMutexHolder
<1>3. q \in Queues /\ QueueType[q] = "mutex" /\ IsEmpty(queue[q])
  <2>1. "inherit" \in QueueStages /\ "inherit" # "ready"
    BY SMT DEF QueueStages
  <2>2. frame[t].call.op \in QueueOps
    BY <1>1, <1>2, <2>1 DEF IsFrame
  <2>3. frame[t].call \in Calls
    BY <1>1, <1>2, <2>1, <2>2, SMT DEF IsFrame, IdleCall, QueueOps, SendOps, ReceiveOps
  <2> QED BY <1>1, <1>2, <2>2, <2>3, OnQueues DEF Sound, EmptyAtInherit, IsCareful
<1>4. h \in Tasks
  <2>1. h # NoHolder
    BY <1>3 DEF Sound, MutexInv, MutexesHeld
  <2>2. IsQueue(q, queue[q])
    BY <1>3 DEF Sound, MutexInv, QueuesOK
  <2> QED BY <2>1, <2>2 DEF IsQueue, ControlBlocks
<1>5. k' = vTaskPriorityInherit(k, h)
  BY DEF InheritPriority
<1> HIDE DEF h
<1>6. PICK Q : Steady(k', Q, E, k, P, E) /\ StayReady(P, Q, {})
  BY <1>2, <1>4, <1>5, Inherited
<1>7. /\ frame'[t].at = "place" /\ \A u \in Tasks \ {t} : frame'[u] = frame[u]
  BY <1>1, <1>2, StageGone
<1>8. ~Halting(frame[t]) /\ frame' # frame
  BY <1>1, <1>7 DEF Halting
<1>9. Moves(Q, E, P, E, 0)
  BY <1>1, <1>2, <1>6, <1>7, <1>8, StagesSuspend, TaskMoves
<1> QED BY <1>9 DEF Goes

(* The running task leaves the ready lists: it is about to give up the     *)
(* processor, and knows how long it will be asleep.                        *)
LEMMA StopMoves ==
  ASSUME NEW P, NEW E, Sound(P, E), NEW t \in Tasks, Runs(t), P[t] >= 0,
         NEW n, NEW Q, NEW F, Stopped(k', Q, F, k, P, n),
         frame[t].at \in SuspStages, frame'[t].at \in SuspStages, Halting(frame'[t]),
         frame'[t].wait = n, frame'[t] # frame[t],
         \A u \in Tasks \ {t} : frame'[u] = frame[u]
  PROVE  Moves(Q, F, P, E, 0)
<1>1. /\ k.xSchedulerRunning /\ k.pxCurrentTCB = t /\ ~k.pendsv
      /\ k.uxSchedulerSuspended = 1 /\ Settled(k, P, E) /\ Staged(P)
  BY RunningTask
<1>2. /\ Settled(k', Q, F) /\ AllBut(k', k, GenericFields \cup EventFields \cup {"wakeTime"})
      /\ Q[t] \in Asleep => TicksTo(k', t) = n
      /\ \A u \in Tasks \ {t} : Q[u] = P[u] /\ TicksTo(k', u) = TicksTo(k, u)
      /\ Q[t] \in Asleep \cup {Suspended}
  BY <1>1 DEF Stopped
<1>3. /\ k'.pxCurrentTCB = t /\ k'.xSchedulerRunning /\ k'.uxSchedulerSuspended = 1
      /\ k'.xTickCount = k.xTickCount /\ k'.uxMissedTicks = k.uxMissedTicks
      /\ k'.xNumOfOverflows = k.xNumOfOverflows
  BY <1>1, <1>2 DEF AllBut, SchedFields, GenericFields, EventFields
<1>4. k.xTickCount \in Ticks /\ k.uxMissedTicks \in Nat /\ k.wakeTime \in [Tasks -> Ticks]
  BY <1>1, SettledNumbers DEF Typed
<1>5. Staged(Q)'
  BY <1>1, <1>3 DEF Staged
<1>6. ~Ticked
  BY <1>3, <1>4 DEF Ticked
<1>7. ClockMoved(k', k, 0) /\ 0 \in 0 .. (TickMod - 1)
  BY <1>3, <1>4, Constants DEF ClockMoved
<1>8. 0 + k'.uxMissedTicks = k.uxMissedTicks + (IF Ticked THEN 1 ELSE 0)
  BY <1>3, <1>4, <1>6
<1>9. P[t] \notin Asleep
  BY PlacesDiffer DEF Asleep, PlacesOff
<1>10. \A u \in Tasks : TicksTo(k, u) \in Int
  <2> SUFFICES ASSUME NEW u \in Tasks PROVE TicksTo(k, u) \in Int
    OBVIOUS
  <2>1. k.wakeTime[u] - k.xTickCount \in Int
    BY <1>4, Constants
  <2> QED BY <2>1, TickSums, Constants DEF TicksTo
<1>11. \A u \in Tasks : Q[u] \in Asleep =>
         IF P[u] \in Asleep THEN TicksTo(k', u) = TicksTo(k, u) - 0
         ELSE frame'[u].wait = TicksTo(k', u)
  <2> HIDE DEF TicksTo
  <2> QED BY <1>2, <1>9, <1>10
<1>12. frame' # frame /\ ~(0 > 0)
  OBVIOUS
<1> HIDE DEF TicksTo
<1> QED BY <1>2, <1>5, <1>7, <1>8, <1>11, <1>12 DEF Moves

(* Waiting for an event.                                                   *)
LEMMA PlaceGoes ==
  ASSUME NEW P, NEW E, Sound(P, E), NEW t \in Tasks, PlaceOnEventList(t)
  PROVE  Goes(P, E)
<1>1. Runs(t) /\ frame[t].at = "place" /\ GoTo(t, "unlockTx")
  BY DEF PlaceOnEventList, Reaches
<1>2. /\ k.xSchedulerRunning /\ k.pxCurrentTCB = t /\ FramesOK /\ IsFrame(t, frame[t])
      /\ IsCareful(frame[t]) /\ Settled(k, P, E)
  BY <1>1, RunningTask
<1>3. frame[t].call.op \in QueueOps /\ frame[t].timed
  BY <1>1, <1>2, SMT DEF IsFrame, QueueStages
<1>4. t # idle /\ frame[t].call \in Calls
  BY <1>1, <1>2, <1>3, SMT DEF IsFrame, IdleCall, QueueOps, SendOps, ReceiveOps
<1>5. P[t] >= 0
  <2>1. ~Halting(frame[t])
    BY <1>1 DEF Halting
  <2> QED BY <2>1, <1>1, RunningTask
<1> DEFINE c == frame[t].call
           l == IF c.op \in SendOps THEN ToSend(c.on) ELSE ToReceive(c.on)
           n == frame[t].wait
<1>6. l \in EventLists
  BY <1>3, <1>4, OnQueues, QueuesAssumption DEF EventListsOf, ToSend, ToReceive
<1>7. n \in Ticks /\ n # 0 /\ frame[t].then = "block"
  BY <1>1, <1>2, <1>3 DEF IsCareful
<1>8. k' = vTaskPlaceOnEventList(k, l, n)
  BY DEF PlaceOnEventList
<1> HIDE DEF l
<1>9. PICK Q, F : Stopped(k', Q, F, k, P, n)
  BY <1>2, <1>4, <1>5, <1>6, <1>7, <1>8, PlacedOnList
<1>10. /\ frame'[t].at = "unlockTx" /\ frame'[t].then = "block" /\ frame'[t].wait = n
       /\ \A u \in Tasks \ {t} : frame'[u] = frame[u]
  BY <1>1, <1>2, <1>7, StageGone
<1>11. Halting(frame'[t]) /\ frame'[t] # frame[t]
  BY <1>1, <1>10 DEF Halting
<1>12. Moves(Q, F, P, E, 0)
  BY <1>1, <1>5, <1>9, <1>10, <1>11, StagesSuspend, StopMoves
<1> QED BY <1>12 DEF Goes

(* Unlocking the queue, which wakes tasks as far as the scheduler being    *)
(* suspended lets it.                                                      *)
LEMMA CountedGoes ==
  ASSUME NEW P, NEW E, Sound(P, E), NEW t \in Tasks, Runs(t),
         frame[t].at \in {"unlockTx", "unlockRx"},
         NEW at \in {"unlockRx", "resume"}, GoTo(t, at), at # frame[t].at,
         NEW l \in EventLists, NEW lock \in Int, k' = WakeCounted(k, l, lock)
  PROVE  Goes(P, E)
<1>1. /\ k.xSchedulerRunning /\ k.pxCurrentTCB = t /\ FramesOK /\ Settled(k, P, E)
      /\ Staged(P) /\ k.uxSchedulerSuspended # 0
  BY RunningTask, StagesSuspend
<1>2. PICK F : Steady(k', P, F, k, P, E)
  BY <1>1, CountedSteady DEF Unlocks
<1>3. StayReady(P, P, {})
  BY DEF StayReady
<1>4. /\ frame'[t].at = at /\ frame'[t].then = frame[t].then
      /\ \A u \in Tasks \ {t} : frame'[u] = frame[u]
  BY <1>1, StageGone
<1>5. (Halting(frame[t]) => Halting(frame'[t])) /\ frame' # frame
  BY <1>4 DEF Halting
<1>6. Moves(P, F, P, E, 0)
  BY <1>1, <1>2, <1>3, <1>4, <1>5, StagesSuspend, TaskMoves
<1> QED BY <1>6 DEF Goes

(* prvUnlockQueue makes waiters pending, and moves nothing else.           *)
LEMMA UnlockGoes ==
  ASSUME NEW P, NEW E, Sound(P, E), NEW t \in Tasks, UnlockQueueTx(t) \/ UnlockQueueRx(t)
  PROVE  Goes(P, E)
<1> DEFINE q == frame[t].call.on
<1>1. Runs(t) /\ frame[t].at \in {"unlockTx", "unlockRx"}
  BY DEF UnlockQueueTx, UnlockQueueRx, Reaches
<1>2. IsFrame(t, frame[t])
  BY <1>1, RunningTask
<1>3. frame[t].call.op \in QueueOps
  BY <1>1, <1>2, SMT DEF IsFrame, QueueStages
<1>4. frame[t].call \in Calls
  BY <1>1, <1>2, <1>3, SMT DEF IsFrame, IdleCall, QueueOps, SendOps, ReceiveOps
<1>5. q \in Queues
  BY <1>3, <1>4, OnQueues
<1>6. ToSend(q) \in EventLists /\ ToReceive(q) \in EventLists
  BY <1>5, QueuesAssumption DEF EventListsOf, ToSend, ToReceive
<1>7. queue[q].xTxLock \in Int /\ queue[q].xRxLock \in Int
  <2>1. IsQueue(q, queue[q])
    BY <1>5 DEF Sound, MutexInv, QueuesOK
  <2> QED BY <2>1, Constants DEF IsQueue, ControlBlocks
<1>8. CASE UnlockQueueTx(t)
  <2>1. /\ k' = WakeCounted(k, ToReceive(q), queue[q].xTxLock)
        /\ GoTo(t, "unlockRx") /\ frame[t].at = "unlockTx"
    BY <1>8 DEF UnlockQueueTx, UnlockTx, Reaches
  <2> QED BY <2>1, <1>1, <1>6, <1>7, CountedGoes
<1>9. CASE UnlockQueueRx(t)
  <2>1. /\ k' = WakeCounted(k, ToSend(q), queue[q].xRxLock)
        /\ GoTo(t, "resume") /\ frame[t].at = "unlockRx"
    BY <1>9 DEF UnlockQueueRx, UnlockRx, Reaches
  <2> QED BY <2>1, <1>1, <1>6, <1>7, CountedGoes
<1> QED BY <1>8, <1>9

(* Giving up the processor.                                                *)
LEMMA YieldGoes ==
  ASSUME NEW P, NEW E, Sound(P, E), NEW t \in Tasks, Yield(t)
  PROVE  Goes(P, E)
<1>1. Runs(t) /\ frame[t].at = "yield" /\ (GoTo(t, "enter") \/ Return(t))
  BY DEF Yield, Reaches
<1>2. /\ k.xSchedulerRunning /\ FramesOK /\ Settled(k, P, E) /\ Staged(P)
      /\ k.uxSchedulerSuspended = 0
  BY <1>1, RunningTask, StagesSuspend
<1>3. /\ frame'[t].at \in {"enter", "ready"}
      /\ \A u \in Tasks \ {t} : frame'[u] = frame[u]
  BY <1>1, <1>2, StageGone, OneFrame, RestRuns DEF Return
<1> DEFINE b == frame[t].then # "create" \/ k.uxPriority[t] < script.prio[frame[t].call.on]
<1>4. k' = YieldIf(b, k) /\ Steady(k', P, E, k, P, E)
  BY <1>2, YieldedIf DEF Yield
<1>5. Halting(frame[t]) => k'.pendsv
  <2>1. Halting(frame[t]) => b
    BY <1>1 DEF Halting
  <2> HIDE DEF b
  <2>2. taskYIELD(k).pendsv = TRUE
    BY <1>2, YieldedIf
  <2> QED BY <2>1, <2>2, <1>4 DEF YieldIf
<1>6. StayReady(P, P, {})
  BY DEF StayReady
<1>7. Moves(P, E, P, E, 0)
  BY <1>1, <1>2, <1>3, <1>4, <1>5, <1>6, StagesSuspend, TaskMoves
<1> QED BY <1>7 DEF Goes

(* Resuming the scheduler, which takes the ticks and the wake-ups that     *)
(* came in the meantime.                                                   *)
LEMMA ResumeGoes ==
  ASSUME NEW P, NEW E, Sound(P, E), NEW t \in Tasks, ResumeAll(t)
  PROVE  Goes(P, E)
<1>1. Runs(t) /\ frame[t].at = "resume"
  BY DEF ResumeAll, Reaches
<1>2. /\ k.xSchedulerRunning /\ k.pxCurrentTCB = t /\ FramesOK /\ Settled(k, P, E) /\ Staged(P)
      /\ k.uxSchedulerSuspended = 1 /\ ~k.pendsv /\ (~Halting(frame[t]) => P[t] >= 0)
  BY <1>1, RunningTask, StagesSuspend
<1> DEFINE r == xTaskResumeAll(k)
           n == k.uxMissedTicks
<1>3. r.k = k'
  BY DEF ResumeAll
<1>4. PICK Q, F : /\ TimePassed(r.k, Q, F, k, P, n) /\ r.k.uxMissedTicks = 0
                  /\ r.k.pendsv \/ ~r.yielded
  BY <1>2, AllResumed
<1>5. /\ TimePassed(k', Q, F, k, P, n) /\ k'.uxMissedTicks = 0
      /\ k'.pendsv \/ ~r.yielded
  BY <1>3, <1>4
<1>6. \/ frame[t].then = "block" /\ ~r.yielded /\ GoTo(t, "yield")
      \/ ~(frame[t].then = "block" /\ ~r.yielded)
           /\ (GoTo(t, "enter") \/ GoTo(t, "work") \/ Return(t))
  BY DEF ResumeAll
<1> HIDE DEF r
<1>7. /\ frame'[t].at \in {"enter", "work", "ready", "yield"}
      /\ \A u \in Tasks \ {t} : frame'[u] = frame[u]
  BY <1>2, <1>6, StageGone, OneFrame, RestRuns DEF Return
<1>8. ~Halting(frame'[t]) /\ ~k'.pendsv => ~Halting(frame[t])
  <2> SUFFICES ASSUME ~Halting(frame'[t]), ~k'.pendsv, Halting(frame[t]) PROVE FALSE
    OBVIOUS
  <2>1. frame[t].then = "block" /\ ~r.yielded
    BY <1>1, <1>5 DEF Halting
  <2>2. frame'[t].at = "yield" /\ frame'[t].then = "block"
    BY <1>2, <1>6, <2>1, StageGone
  <2> QED BY <2>2 DEF Halting
<1>9. /\ Settled(k', Q, F) /\ StayReady(P, Q, {}) /\ ClockMoved(k', k, n)
      /\ k'.uxSchedulerSuspended = 0
      /\ AllBut(k', k, ResumedFields)
  BY <1>5 DEF TimePassed
<1>10. k'.pxCurrentTCB = t /\ k'.xSchedulerRunning
  BY <1>2, <1>9 DEF AllBut, SchedFields, ResumedFields, TimeFields, ListFields, GenericFields,
     EventFields, ReadyFields
<1>11. Staged(Q)'
  <2>1. \A u \in Tasks : frame'[u].at \notin SuspStages
    BY <1>2, <1>7, StagesSuspend DEF Staged
  <2>2. ~Halting(frame'[t]) /\ ~k'.pendsv => Q[t] >= 0
    BY <1>2, <1>8, <1>9 DEF StayReady
  <2> QED BY <1>9, <1>10, <2>1, <2>2 DEF Staged
<1>12. n \in 0 .. (TickMod - 1)
  BY <1>2, SettledNumbers, Constants DEF Settled, Typed
<1>13. ~Ticked
  BY <1>2, <1>5, <1>12 DEF Ticked
<1>14. n + k'.uxMissedTicks = k.uxMissedTicks + (IF Ticked THEN 1 ELSE 0)
  BY <1>5, <1>12, <1>13
<1>15. frame' # frame
  BY <1>1, <1>7
<1>16. /\ \A u \in Tasks : Q[u] \in Asleep =>
            P[u] \in Asleep /\ TicksTo(k', u) = TicksTo(k, u) - n
       /\ \A u \in Tasks : P[u] \in Asleep /\ Q[u] \notin Asleep /\ n > 0 =>
            u \in ToSet(k.pending) \/ TicksTo(k, u) <= n
  <2> HIDE DEF TicksTo, n
  <2> QED BY <1>5 DEF TimePassed
<1> HIDE DEF TicksTo, n
<1>17. Moves(Q, F, P, E, n)
  BY <1>9, <1>11, <1>12, <1>14, <1>15, <1>16 DEF Moves
<1> QED BY <1>17 DEF Goes

(* A call of tasks.c that begins does so between calls.                    *)
LEMMA Begins ==
  ASSUME NEW P, NEW E, Sound(P, E), NEW t \in Tasks, NEW c, c.op \notin QueueOps, Enters(t, c)
  PROVE  /\ Runs(t) /\ frame[t].at = "ready" /\ ~Halting(frame[t])
         /\ c \in Calls /\ c.task = t /\ c.op \notin {"idle", "none"}
         /\ k.uxSchedulerSuspended = 0 /\ P[t] >= 0 /\ t # idle
<1>1. Runs(t)
  BY DEF Enters
<1>2. /\ IsFrame(t, frame[t]) /\ (~Halting(frame[t]) => P[t] >= 0)
      /\ k.uxSchedulerSuspended = IF frame[t].at \in SuspStages THEN 1 ELSE 0
  BY <1>1, RunningTask
<1>3. frame[t].at = "ready" /\ c \in script.calls /\ c.task = t
  <2>1. ~(frame[t].at = "enter" /\ c = frame[t].call)
    BY <1>2 DEF IsFrame
  <2> QED BY <2>1 DEF Enters
<1>4. ~Halting(frame[t])
  BY <1>3 DEF Halting
<1>5. c \in Calls
  BY <1>3, ScriptsAssumption DEF Sound, MutexInv, FramesOK
<1>6. c.op \notin {"idle", "none"} /\ c.task \in Tasks \ {idle}
  BY <1>5, SMT DEF Calls, SendOps, ReceiveOps, TaskOps, DelayOps
<1> QED BY <1>1, <1>2, <1>3, <1>4, <1>5, <1>6, StagesSuspend

(* vTaskDelay.                                                             *)
LEMMA DelayGoes ==
  ASSUME NEW P, NEW E, Sound(P, E), NEW t \in Tasks, vTaskDelay(t)
  PROVE  Goes(P, E)
<1>1. ASSUME NEW c, c.op = "delay", Enters(t, c), k' = taskYIELD(k), frame' = frame
      PROVE  Goes(P, E)
  <2>1. c.op \notin QueueOps
    BY <1>1, SMT DEF QueueOps, SendOps, ReceiveOps
  <2>2. Runs(t) /\ ~Halting(frame[t]) /\ k.uxSchedulerSuspended = 0
    BY <1>1, <2>1, Begins
  <2>3. Settled(k, P, E) /\ Staged(P) /\ k.xSchedulerRunning
    BY <2>2, RunningTask
  <2>4. Steady(k', P, E, k, P, E) /\ StayReady(P, P, {})
    BY <1>1, <2>3, YieldedIf DEF StayReady
  <2>5. Moves(P, E, P, E, 0)
    BY <1>1, <2>2, <2>3, <2>4, TaskMoves
  <2> QED BY <2>5 DEF Goes
<1>2. ASSUME NEW c, c.op = "delay", Enters(t, c), k' = k,
             frame' = [frame EXCEPT ![t] = [AtRest EXCEPT
                         !.at = "suspend", !.call = c, !.wait = c.wait, !.then = "block"]]
      PROVE  Goes(P, E)
  <2>1. c.op \notin QueueOps
    BY <1>2, SMT DEF QueueOps, SendOps, ReceiveOps
  <2>2. Runs(t) /\ ~Halting(frame[t]) /\ frame[t].at = "ready"
    BY <1>2, <2>1, Begins
  <2> DEFINE f == [AtRest EXCEPT !.at = "suspend", !.call = c, !.wait = c.wait, !.then = "block"]
  <2>3. f.at = "suspend"
    BY DEF AtRest
  <2>4. frame' = [frame EXCEPT ![t] = f] /\ FramesOK
    BY <1>2, <2>2, RunningTask
  <2> HIDE DEF f
  <2>5. frame'[t].at = "suspend" /\ \A u \in Tasks \ {t} : frame'[u] = frame[u]
    BY <2>3, <2>4, OneFrame
  <2> QED BY <1>2, <2>2, <2>5, StagesSuspend, StillGoes
<1>3. ASSUME Reaches(t, "delay"), frame[t].call.op = "delay", GoTo(t, "resume"),
             k' = Delay(k, TimeToWake(k, frame[t].wait))
      PROVE  Goes(P, E)
  <2>1. Runs(t) /\ frame[t].at = "delay" /\ ~Halting(frame[t])
    BY <1>3 DEF Reaches, Halting
  <2>2. /\ k.xSchedulerRunning /\ k.pxCurrentTCB = t /\ FramesOK /\ IsFrame(t, frame[t])
        /\ IsCareful(frame[t]) /\ Settled(k, P, E) /\ P[t] >= 0
    BY <2>1, RunningTask
  <2>3. t # idle
    BY <1>3, <2>1, <2>2 DEF IsFrame, IdleCall
  <2> DEFINE n == frame[t].wait
             w == TimeToWake(k, n)
  <2>4. n \in Ticks /\ n # 0 /\ frame[t].then = "block"
    BY <1>3, <2>2, SMT DEF IsCareful, DelayOps
  <2>5. k.xTickCount \in Ticks
    BY <2>2, SettledNumbers DEF Typed
  <2>6. w \in Ticks /\ w # k.xTickCount /\ (w - k.xTickCount) % TickMod = n
    <3>1. w = IF k.xTickCount + n >= TickMod THEN k.xTickCount + n - TickMod
              ELSE k.xTickCount + n
      BY <2>4, <2>5, TickSums DEF TimeToWake
    <3>2. w \in Ticks /\ w # k.xTickCount
      BY <2>4, <2>5, <3>1, Constants DEF Ticks
    <3>3. (w - k.xTickCount) % TickMod = IF w >= k.xTickCount THEN w - k.xTickCount
                                         ELSE w - k.xTickCount + TickMod
      BY <2>5, <3>2, TickSums
    <3> HIDE DEF w
    <3>4. n \in Nat /\ n < TickMod /\ k.xTickCount \in Nat /\ TickMod \in Nat
      BY <2>4, <2>5, Constants
    <3>5. (IF w >= k.xTickCount THEN w - k.xTickCount ELSE w - k.xTickCount + TickMod) = n
      BY <3>1, <3>4
    <3> QED BY <3>2, <3>3, <3>5
  <2> HIDE DEF w
  <2>7. k' = Delay(k, w)
    BY <1>3 DEF w
  <2>8. PICK Q : Stopped(k', Q, E, k, P, (w - k.xTickCount) % TickMod)
    BY <2>2, <2>3, <2>6, <2>7, DelayedFor
  <2>9. Stopped(k', Q, E, k, P, n)
    BY <2>6, <2>8
  <2>10. /\ frame'[t].at = "resume" /\ frame'[t].then = "block" /\ frame'[t].wait = n
         /\ \A u \in Tasks \ {t} : frame'[u] = frame[u]
    BY <1>3, <2>2, <2>4, StageGone
  <2>11. Halting(frame'[t]) /\ frame'[t] # frame[t]
    BY <2>1, <2>10 DEF Halting
  <2>12. Moves(Q, E, P, E, 0)
    BY <2>1, <2>2, <2>9, <2>10, <2>11, StagesSuspend, StopMoves
  <2> QED BY <2>12 DEF Goes
<1> QED BY <1>1, <1>2, <1>3 DEF vTaskDelay

(* vTaskDelayUntil.                                                        *)
LEMMA DelayUntilGoes ==
  ASSUME NEW P, NEW E, Sound(P, E), NEW t \in Tasks, vTaskDelayUntil(t)
  PROVE  Goes(P, E)
<1>1. ASSUME NEW c, c.op = "delayUntil", Enters(t, c), Suspends(t, c, "block"), k' = k
      PROVE  Goes(P, E)
  <2>1. c.op \notin QueueOps
    BY <1>1, SMT DEF QueueOps, SendOps, ReceiveOps
  <2>2. Runs(t) /\ ~Halting(frame[t]) /\ frame[t].at = "ready"
    BY <1>1, <2>1, Begins
  <2> DEFINE f == [AtRest EXCEPT !.at = "suspend", !.call = c, !.then = "block"]
  <2>3. f.at = "suspend"
    BY DEF AtRest
  <2>4. frame' = [frame EXCEPT ![t] = f] /\ FramesOK
    BY <1>1, <2>2, RunningTask DEF Suspends
  <2> HIDE DEF f
  <2>5. frame'[t].at = "suspend" /\ \A u \in Tasks \ {t} : frame'[u] = frame[u]
    BY <2>3, <2>4, OneFrame
  <2> QED BY <1>1, <2>2, <2>5, StagesSuspend, StillGoes
<1>2. ASSUME NEW next, next = (last[t] + frame[t].call.wait) % TickMod,
             Reaches(t, "delay"), frame[t].call.op = "delayUntil",
             k' = IF ShouldDelayUntil(k, last[t], next) THEN Delay(k, next) ELSE k,
             frame' = [frame EXCEPT ![t].at = "resume",
                                    ![t].wait = (next - k.xTickCount) % TickMod]
      PROVE  Goes(P, E)
  <2>1. Runs(t) /\ frame[t].at = "delay" /\ ~Halting(frame[t])
    BY <1>2 DEF Reaches, Halting
  <2>2. /\ k.xSchedulerRunning /\ k.pxCurrentTCB = t /\ FramesOK /\ IsFrame(t, frame[t])
        /\ IsCareful(frame[t]) /\ Settled(k, P, E) /\ P[t] >= 0
    BY <2>1, RunningTask
  <2>3. t # idle /\ frame[t].call \in Calls
    BY <1>2, <2>1, <2>2 DEF IsFrame, IdleCall
  <2> DEFINE n == (next - k.xTickCount) % TickMod
             f == [frame[t] EXCEPT !.at = "resume", !.wait = n]
  <2>4. frame[t].then = "block"
    BY <1>2, <2>2, SMT DEF IsCareful, DelayOps
  <2>5. k.xTickCount \in Ticks /\ last[t] \in Ticks /\ frame[t].call.wait \in Ticks
    BY <2>2, <2>3, SettledNumbers, SMT DEF Typed, Sound, FramesCareful, Calls
  <2>6. next \in Ticks
    <3>1. last[t] + frame[t].call.wait \in Int
      BY <2>5, Constants
    <3> QED BY <1>2, <3>1, TickSums
  <2>7. frame' = [frame EXCEPT ![t] = f]
    BY <1>2, <2>2 DEF FramesOK
  <2>8. f.at = "resume" /\ f.then = "block" /\ f.wait = n
    BY <2>2, <2>4 DEF IsFrame
  <2> HIDE DEF f, n
  <2>9. /\ frame'[t].at = "resume" /\ frame'[t].then = "block" /\ frame'[t].wait = n
        /\ \A u \in Tasks \ {t} : frame'[u] = frame[u]
    BY <2>2, <2>7, <2>8, OneFrame
  <2>10. Halting(frame'[t]) /\ frame'[t] # frame[t]
    BY <2>1, <2>9 DEF Halting
  <2>11. CASE ShouldDelayUntil(k, last[t], next)
    <3>1. next # k.xTickCount
      BY <2>5, <2>6, <2>11, Constants DEF ShouldDelayUntil
    <3>2. PICK Q : Stopped(k', Q, E, k, P, n)
      BY <1>2, <2>2, <2>3, <2>6, <2>11, <3>1, DelayedFor DEF n
    <3>3. Moves(Q, E, P, E, 0)
      BY <2>1, <2>2, <2>9, <2>10, <3>2, StagesSuspend, StopMoves
    <3> QED BY <3>3 DEF Goes
  <2>12. CASE ~ShouldDelayUntil(k, last[t], next)
    BY <1>2, <2>1, <2>9, <2>12, StagesSuspend, StillGoes
  <2> QED BY <2>11, <2>12
<1> QED BY <1>1, <1>2 DEF vTaskDelayUntil

(* The tasks a call may name are in some list.                             *)
LEMMA ExistingPlaces ==
  ASSUME NEW P, NEW E, Settled(k, P, E), NEW t \in Existing
  PROVE  t \in Tasks /\ P[t] \notin {Terminated, Absent}
<1>1. /\ k.live \subseteq Tasks /\ Lists(k.terminated, P, Terminated)
      /\ \A u \in Tasks : P[u] = Absent <=> u \notin k.live
  BY SettledNumbers DEF Typed, Placed, Settled
<1> QED BY <1>1 DEF Existing, Lists

(* A full or empty queue: the call fails, or begins to wait.               *)
LEMMA WaitGoes ==
  ASSUME NEW P, NEW E, Sound(P, E), NEW t \in Tasks, NEW c, Enters(t, c), WaitOrFail(t, c)
  PROVE  Goes(P, E)
<1>1. Runs(t) /\ frame[t].at \in {"ready", "enter"} /\ k' = k
  BY DEF Enters, WaitOrFail
<1>2. IsFrame(t, frame[t]) /\ FramesOK
  BY <1>1, RunningTask
<1> DEFINE f == IF frame[t].at = "ready" THEN [AtRest EXCEPT !.call = c, !.wait = c.wait]
                ELSE frame[t]
           f1 == IF f.timed THEN f ELSE [f EXCEPT !.timed = TRUE, !.entry = TimeOutState(k)]
           f2 == [f1 EXCEPT !.at = "suspend"]
<1>3. frame' = [frame EXCEPT ![t] = f2] \/ frame' = [frame EXCEPT ![t] = AtRest]
  BY DEF WaitOrFail, Return
<1>4. f2.at = "suspend"
  BY <1>2 DEF IsFrame, AtRest
<1> HIDE DEF f2
<1>5. frame'[t].at \in {"suspend", "ready"} /\ \A u \in Tasks \ {t} : frame'[u] = frame[u]
  BY <1>2, <1>3, <1>4, OneFrame, RestRuns
<1>6. ~Halting(frame[t])
  BY <1>1 DEF Halting
<1> QED BY <1>1, <1>5, <1>6, StagesSuspend, StillGoes

(* A waiter is woken, and the call returns.                                *)
LEMMA WakeGoes ==
  ASSUME NEW P, NEW E, Sound(P, E), NEW t \in Tasks, Runs(t), frame[t].at \in {"ready", "enter"},
         NEW s, NEW A, Steady(s, A, E, k, P, E), StayReady(P, A, {}),
         NEW l \in EventLists, k' = WakeWaiter(s, l), Return(t)
  PROVE  Goes(P, E)
<1>1. /\ k.xSchedulerRunning /\ FramesOK /\ Settled(k, P, E) /\ Staged(P)
      /\ k.uxSchedulerSuspended = 0
  BY RunningTask, StagesSuspend
<1>2. Settled(s, A, E) /\ s.xSchedulerRunning
  BY <1>1, SteadyLeaves
<1>3. PICK Q, F : Steady(k', Q, F, s, A, E) /\ StayReady(A, Q, {})
  BY <1>2, WaiterWoken
<1>4. Steady(k', Q, F, k, P, E) /\ StayReady(P, Q, {})
  BY <1>3, SteadyAgain DEF StayReady
<1>5. frame'[t] = AtRest /\ \A u \in Tasks \ {t} : frame'[u] = frame[u]
  BY <1>1, OneFrame DEF Return
<1>6. ~Halting(frame[t])
  BY DEF Halting
<1>7. Moves(Q, F, P, E, 0)
  BY <1>1, <1>4, <1>5, <1>6, RestRuns, StagesSuspend, TaskMoves
<1> QED BY <1>7 DEF Goes

(* The queue a call is on, when the call goes into queue.c.                *)
LEMMA EntersQueue ==
  ASSUME NEW P, NEW E, Sound(P, E), NEW t \in Tasks, NEW c, c.op \in QueueOps, Enters(t, c)
  PROVE  /\ Runs(t) /\ frame[t].at \in {"ready", "enter"} /\ c.on \in Queues
         /\ ToSend(c.on) \in EventLists /\ ToReceive(c.on) \in EventLists
         /\ P[t] >= 0
<1>1. Runs(t) /\ frame[t].at \in {"ready", "enter"}
  BY DEF Enters
<1>2. IsFrame(t, frame[t]) /\ (~Halting(frame[t]) => P[t] >= 0)
  BY <1>1, RunningTask
<1>3. ~Halting(frame[t])
  BY <1>1 DEF Halting
<1>4. c \in Calls
  <2>1. CASE c \in script.calls
    BY <2>1, ScriptsAssumption DEF Sound, MutexInv, FramesOK
  <2>2. CASE frame[t].at = "enter" /\ c = frame[t].call
    BY <1>2, <2>2, SMT DEF IsFrame, IdleCall, QueueOps, SendOps, ReceiveOps
  <2> QED BY <2>1, <2>2 DEF Enters
<1>5. c.on \in Queues
  BY <1>4, OnQueues
<1>6. ToSend(c.on) \in EventLists /\ ToReceive(c.on) \in EventLists
  BY <1>5, QueuesAssumption DEF EventListsOf, ToSend, ToReceive
<1> QED BY <1>1, <1>2, <1>3, <1>5, <1>6

(* Sending.                                                                *)
LEMMA SendGoes ==
  ASSUME NEW P, NEW E, Sound(P, E), NEW t \in Tasks, xQueueGenericSend(t)
  PROVE  Goes(P, E)
<1>1. PICK c : /\ c.op \in SendOps /\ Enters(t, c)
               /\ QueueType[c.on] = "mutex" => c.on \in holds[t]
               /\ \/ WaitOrFail(t, c)
                  \/ \E item : /\ k' = SendNow(k, queue[c.on], c.on, item, c.op = "sendToFront").k
                               /\ Return(t)
  BY DEF xQueueGenericSend
<1>2. /\ Runs(t) /\ frame[t].at \in {"ready", "enter"} /\ c.on \in Queues
      /\ ToReceive(c.on) \in EventLists /\ P[t] >= 0
  BY <1>1, EntersQueue DEF QueueOps
<1>3. Settled(k, P, E) /\ k.xSchedulerRunning
  BY <1>2, RunningTask
<1>4. ASSUME NEW item, k' = SendNow(k, queue[c.on], c.on, item, c.op = "sendToFront").k, Return(t)
      PROVE  Goes(P, E)
  <2> DEFINE s == prvCopyDataToQueue(k, queue[c.on], item, c.op = "sendToFront").k
  <2>1. k' = WakeWaiter(s, ToReceive(c.on))
    BY <1>4 DEF SendNow
  <2>2. \E A : Steady(s, A, E, k, P, E) /\ StayReady(P, A, {})
    <3>1. s = k \/ (QueueType[c.on] = "mutex"
                      /\ s = vTaskPriorityDisinherit(k, queue[c.on].pxMutexHolder))
      <4>1. queue[c.on].type = QueueType[c.on]
        BY <1>2 DEF Sound, MutexInv, QueuesOK, IsQueue, ControlBlocks
      <4> QED BY <4>1 DEF prvCopyDataToQueue
    <3> HIDE DEF s
    <3>2. CASE s = k
      BY <1>3, <3>2, SteadyStill
    <3>3. CASE QueueType[c.on] = "mutex" /\ s = vTaskPriorityDisinherit(k, queue[c.on].pxMutexHolder)
      <4>1. queue[c.on].pxMutexHolder = t
        BY <1>1, <1>2, <3>3 DEF Sound, MutexInv, MutexesHeld
      <4> QED BY <1>2, <1>3, <3>3, <4>1, Disinherited
    <3> QED BY <3>1, <3>2, <3>3
  <2> HIDE DEF s
  <2> QED BY <1>2, <1>4, <2>1, <2>2, WakeGoes
<1> QED BY <1>1, <1>4, WaitGoes

(* Receiving.                                                              *)
LEMMA ReceiveGoes ==
  ASSUME NEW P, NEW E, Sound(P, E), NEW t \in Tasks, xQueueGenericReceive(t)
  PROVE  Goes(P, E)
<1>1. PICK c : /\ c.op \in ReceiveOps /\ Enters(t, c)
               /\ \/ WaitOrFail(t, c)
                  \/ /\ k' = IF c.op = "peek" THEN PeekNow(k, queue[c.on], c.on).k
                             ELSE ReceiveNow(k, queue[c.on], c.on).k
                     /\ Return(t)
  BY DEF xQueueGenericReceive
<1>2. /\ Runs(t) /\ frame[t].at \in {"ready", "enter"} /\ c.on \in Queues
      /\ ToReceive(c.on) \in EventLists /\ ToSend(c.on) \in EventLists
  BY <1>1, EntersQueue DEF QueueOps
<1>3. Settled(k, P, E) /\ k.xSchedulerRunning
  BY <1>2, RunningTask
<1>4. Steady(k, P, E, k, P, E) /\ StayReady(P, P, {})
  BY <1>3, SteadyStill
<1>5. ASSUME k' = IF c.op = "peek" THEN PeekNow(k, queue[c.on], c.on).k
                  ELSE ReceiveNow(k, queue[c.on], c.on).k,
             Return(t)
      PROVE  Goes(P, E)
  <2>1. \E l \in EventLists : k' = WakeWaiter(k, l)
    BY <1>2, <1>5 DEF PeekNow, ReceiveNow
  <2> QED BY <1>2, <1>4, <1>5, <2>1, WakeGoes
<1> QED BY <1>1, <1>5, WaitGoes

(* Suspending and deleting a task, the caller or another.                  *)
LEMMA EndGoes ==
  ASSUME NEW P, NEW E, Sound(P, E), NEW t \in Tasks, vTaskSuspend(t) \/ vTaskDelete(t)
  PROVE  Goes(P, E)
<1> DEFINE f(c) == [AtRest EXCEPT !.at = "yield", !.call = c]
<1>1. PICK c \in script.calls :
        /\ c.op \in {"suspend", "delete"} /\ Enters(t, c) /\ c.on \in Existing
        /\ k' = TaskSuspend(k, c.on) \/ k' = TaskDelete(k, c.on)
        /\ IF c.on = t THEN frame' = [frame EXCEPT ![t] = f(c)]
           ELSE frame' = frame \/ frame' = [frame EXCEPT ![c.on] = AtRest]
  BY DEF vTaskSuspend, vTaskDelete
<1>2. c.op \notin QueueOps
  BY <1>1, SMT DEF QueueOps, SendOps, ReceiveOps
<1>3. /\ Runs(t) /\ frame[t].at = "ready" /\ ~Halting(frame[t]) /\ c \in Calls
      /\ k.uxSchedulerSuspended = 0
  BY <1>1, <1>2, Begins
<1>4. Settled(k, P, E) /\ Staged(P) /\ k.xSchedulerRunning /\ FramesOK
  BY <1>3, RunningTask
<1>5. c.on \in Tasks \ {idle} /\ P[c.on] \notin {Terminated, Absent}
  <2>1. c.on \in Tasks /\ P[c.on] \notin {Terminated, Absent}
    BY <1>1, <1>4, ExistingPlaces
  <2>2. c.on # idle
    BY <1>1, <1>3, SMT DEF Calls, SendOps, ReceiveOps, TaskOps, DelayOps
  <2> QED BY <2>1, <2>2
<1>6. \E Q, F : Steady(k', Q, F, k, P, E) /\ StayReady(P, Q, {c.on})
  <2> DEFINE G == [E EXCEPT ![c.on] = Nothing]
             A == [P EXCEPT ![c.on] = Suspended]
             B == [P EXCEPT ![c.on] = Terminated]
  <2>1. /\ Steady(TaskSuspend(k, c.on), A, G, k, P, E) /\ StayReady(P, A, {c.on})
        /\ Steady(TaskDelete(k, c.on), B, G, k, P, E) /\ StayReady(P, B, {c.on})
    BY <1>4, <1>5, SuspendedOrDeleted
  <2> HIDE DEF A, B, G
  <2> QED BY <1>1, <2>1
<1>7. f(c).at = "yield" /\ f(c).then = "return"
  BY DEF AtRest
<1> HIDE DEF f
<1>8. Halting(f(c))
  BY <1>7 DEF Halting
<1>9. /\ \A u \in Tasks \ {t} : frame'[u] = frame[u] \/ frame'[u] = AtRest
      /\ frame'[t] = IF c.on = t THEN f(c) ELSE frame[t]
  BY <1>1, <1>4, <1>5, OneFrame
<1>10. PICK Q, F : Steady(k', Q, F, k, P, E) /\ StayReady(P, Q, {c.on})
  BY <1>6
<1>11. Moves(Q, F, P, E, 0)
  <2>1. frame'[t].at \notin SuspStages /\ frame[t].at \notin SuspStages
    BY <1>3, <1>7, <1>9, StagesSuspend
  <2>2. t \in {c.on} \/ Halting(frame[t]) => Halting(frame'[t])
    BY <1>3, <1>8, <1>9
  <2> QED BY <1>3, <1>4, <1>10, <1>9, <2>1, <2>2, TaskMoves
<1> QED BY <1>11 DEF Goes

(* Resuming one.                                                           *)
LEMMA ResumeCallGoes ==
  ASSUME NEW P, NEW E, Sound(P, E), NEW t \in Tasks, vTaskResumeCall(t)
  PROVE  Goes(P, E)
<1>1. PICK c : /\ c.op = "resume" /\ Enters(t, c) /\ c.on \in Existing
               /\ xTaskIsTaskSuspended(k, c.on) /\ k' = vTaskResume(k, c.on) /\ frame' = frame
  BY DEF vTaskResumeCall
<1>2. c.op \notin QueueOps
  BY <1>1, SMT DEF QueueOps, SendOps, ReceiveOps
<1>3. /\ Runs(t) /\ frame[t].at = "ready" /\ ~Halting(frame[t]) /\ k.uxSchedulerSuspended = 0
  BY <1>1, <1>2, Begins
<1>4. Settled(k, P, E) /\ Staged(P) /\ k.xSchedulerRunning
  BY <1>3, RunningTask
<1>5. c.on \in Tasks
  BY <1>1, <1>4, ExistingPlaces
<1>6. PICK Q, F : Steady(k', Q, F, k, P, E) /\ StayReady(P, Q, {})
  BY <1>1, <1>4, <1>5, Resumed
<1>7. Moves(Q, F, P, E, 0)
  BY <1>1, <1>3, <1>4, <1>6, TaskMoves
<1> QED BY <1>7 DEF Goes

(* Creating one.                                                           *)
LEMMA CreateGoes ==
  ASSUME NEW P, NEW E, Sound(P, E), NEW t \in Tasks, xTaskCreateCall(t)
  PROVE  Goes(P, E)
<1>1. ASSUME NEW c, c.op = "create", Enters(t, c), Suspends(t, c, "work"), k' = k
      PROVE  Goes(P, E)
  <2>1. c.op \notin QueueOps
    BY <1>1, SMT DEF QueueOps, SendOps, ReceiveOps
  <2>2. Runs(t) /\ ~Halting(frame[t]) /\ frame[t].at = "ready"
    BY <1>1, <2>1, Begins
  <2> DEFINE f == [AtRest EXCEPT !.at = "suspend", !.call = c, !.then = "work"]
  <2>3. f.at = "suspend"
    BY DEF AtRest
  <2>4. frame' = [frame EXCEPT ![t] = f] /\ FramesOK
    BY <1>1, <2>2, RunningTask DEF Suspends
  <2> HIDE DEF f
  <2>5. frame'[t].at = "suspend" /\ \A u \in Tasks \ {t} : frame'[u] = frame[u]
    BY <2>3, <2>4, OneFrame
  <2> QED BY <1>1, <2>2, <2>5, StagesSuspend, StillGoes
<1>2. ASSUME Reaches(t, "work"), frame[t].call.op = "create",
             k' = xTaskCreate(k, frame[t].call.on, script.prio[frame[t].call.on]),
             frame' = [frame EXCEPT ![t].at = "yield", ![t].then = "create"]
      PROVE  Goes(P, E)
  <2>1. Runs(t) /\ frame[t].at = "work" /\ ~Halting(frame[t])
    BY <1>2 DEF Reaches, Halting
  <2>2. /\ k.xSchedulerRunning /\ FramesOK /\ IsFrame(t, frame[t]) /\ Settled(k, P, E)
        /\ Staged(P)
    BY <2>1, RunningTask
  <2>3. frame[t].call \in Calls
    BY <1>2, <2>1, <2>2 DEF IsFrame, IdleCall
  <2> DEFINE u == frame[t].call.on
  <2>4. u \in Tasks
    BY <1>2, <2>3, SMT DEF Calls, SendOps, ReceiveOps, TaskOps, DelayOps
  <2>5. u \notin k.live
    BY <1>2, <2>1 DEF Sound, CreatesOK, Creating
  <2>6. script.prio[u] \in Nat
    BY <2>2, <2>4, ScriptsAssumption DEF FramesOK
  <2>7. PICK Q : Steady(k', Q, E, k, P, E) /\ StayReady(P, Q, {})
    BY <1>2, <2>2, <2>4, <2>5, <2>6, CreatedSteady
  <2> DEFINE f == [frame[t] EXCEPT !.at = "yield", !.then = "create"]
  <2>8. f.at = "yield"
    BY <2>2 DEF IsFrame
  <2>9. frame' = [frame EXCEPT ![t] = f]
    BY <1>2, <2>2 DEF FramesOK
  <2> HIDE DEF f
  <2>10. frame'[t].at = "yield" /\ \A v \in Tasks \ {t} : frame'[v] = frame[v]
    BY <2>2, <2>8, <2>9, OneFrame
  <2>11. k.uxSchedulerSuspended = 0
    BY <2>1, RunningTask, StagesSuspend
  <2>12. Moves(Q, E, P, E, 0)
    BY <2>1, <2>2, <2>7, <2>10, <2>11, StagesSuspend, TaskMoves
  <2> QED BY <2>12 DEF Goes
<1>3. ASSUME Reaches(t, "work"), Return(t), k' = k
      PROVE  Goes(P, E)
  <2>1. Runs(t) /\ frame[t].at = "work" /\ ~Halting(frame[t])
    BY <1>3 DEF Reaches, Halting
  <2>2. FramesOK
    BY <2>1, RunningTask
  <2>3. frame'[t] = AtRest /\ \A u \in Tasks \ {t} : frame'[u] = frame[u]
    BY <1>3, <2>2, OneFrame DEF Return
  <2> QED BY <1>3, <2>1, <2>3, RestRuns, StagesSuspend, StillGoes
<1> QED BY <1>1, <1>2, <1>3 DEF xTaskCreateCall

(* The idle task.                                                          *)
LEMMA IdleGoes ==
  ASSUME NEW P, NEW E, Sound(P, E), prvIdleTask
  PROVE  Goes(P, E)
<1>0. idle \in Tasks
  BY Constants
<1>1. ASSUME Runs(idle), frame[idle].at = "ready", Suspends(idle, IdleCall, "work"), k' = k
      PROVE  Goes(P, E)
  <2> DEFINE f == [AtRest EXCEPT !.at = "suspend", !.call = IdleCall, !.then = "work"]
  <2>1. f.at = "suspend" /\ ~Halting(frame[idle])
    BY <1>1 DEF AtRest, Halting
  <2>2. frame' = [frame EXCEPT ![idle] = f] /\ FramesOK
    BY <1>0, <1>1, RunningTask DEF Suspends
  <2> HIDE DEF f
  <2>3. frame'[idle].at = "suspend" /\ \A u \in Tasks \ {idle} : frame'[u] = frame[u]
    BY <1>0, <2>1, <2>2, OneFrame
  <2> QED BY <1>0, <1>1, <2>1, <2>3, StagesSuspend, StillGoes
<1>2. ASSUME Reaches(idle, "work"), k.terminated # <<>>, k' = FreeTerminated(k),
             frame' = [frame EXCEPT
               ![Head(k.terminated)] = AtRest,
               ![idle] = [AtRest EXCEPT !.at = "suspend", !.call = IdleCall]]
      PROVE  Goes(P, E)
  <2>1. Runs(idle) /\ frame[idle].at = "work" /\ ~Halting(frame[idle])
    BY <1>2 DEF Reaches, Halting
  <2>2. /\ k.xSchedulerRunning /\ FramesOK /\ Settled(k, P, E) /\ Staged(P)
        /\ k.uxSchedulerSuspended = 0
    BY <1>0, <2>1, RunningTask, StagesSuspend
  <2> DEFINE h == Head(k.terminated)
             Q == [P EXCEPT ![h] = Absent]
  <2>3. Steady(k', Q, E, k, P, E) /\ StayReady(P, Q, {}) /\ h \in Tasks /\ P[h] = Terminated
    BY <1>2, <2>2, Freed
  <2> HIDE DEF Q, h
  <2> DEFINE f == [AtRest EXCEPT !.at = "suspend", !.call = IdleCall]
  <2>4. f.at = "suspend"
    BY DEF AtRest
  <2>5. frame' = [frame EXCEPT ![h] = AtRest, ![idle] = f]
    BY <1>2 DEF h
  <2> HIDE DEF f
  <2>6. /\ frame'[idle] = f
        /\ \A u \in Tasks \ {idle} : frame'[u] = frame[u] \/ frame'[u] = AtRest
    BY <1>0, <2>2, <2>5 DEF FramesOK
  <2>7. Moves(Q, E, P, E, 0)
    BY <1>0, <2>1, <2>2, <2>3, <2>4, <2>6, StagesSuspend, TaskMoves
  <2> QED BY <2>7 DEF Goes
<1> QED BY <1>1, <1>2 DEF prvIdleTask

-----------------------------------------------------------------------------
(* Interrupts, the switch of tasks and the start of the scheduler.         *)

(* What is known when an interrupt comes.                                  *)
LEMMA AtInterrupt ==
  ASSUME NEW P, NEW E, Sound(P, E)
  PROVE  /\ Settled(k, P, E) /\ Staged(P) /\ FramesOK
         /\ k.pxCurrentTCB \in Tasks /\ DOMAIN k = SchedFields
         /\ k.xSchedulerRunning \in BOOLEAN /\ k.pendsv \in BOOLEAN
         /\ k.uxSchedulerSuspended \in {0, 1}
<1>1. Settled(k, P, E) /\ Staged(P) /\ FramesOK
  BY DEF Sound, MutexInv
<1> QED BY <1>1, SettledNumbers DEF Typed, Settled

(* A waiter is woken by an interrupt, or nobody is.                        *)
LEMMA WakingInterrupt ==
  ASSUME NEW P, NEW E, Sound(P, E), k.xSchedulerRunning, frame' = frame,
         k' = k \/ \E l \in EventLists : k' = WakeWaiter(k, l)
  PROVE  Goes(P, E)
<1>1. Settled(k, P, E) /\ Staged(P) /\ DOMAIN k = SchedFields /\ k.pendsv \in BOOLEAN
  BY AtInterrupt
<1>2. CASE k' = k
  <2>1. Steady(k', P, E, k, P, E) /\ StayReady(P, P, {})
    BY <1>1, <1>2, SteadyStill
  <2>2. AllBut(k', k, EventFields \cup {"pendsv"})
    BY <1>2 DEF AllBut
  <2>3. Moves(P, E, P, E, 0)
    BY <1>1, <1>2, <2>1, <2>2, InterruptMoves
  <2> QED BY <2>3 DEF Goes
<1>3. ASSUME NEW l \in EventLists, k' = WakeWaiter(k, l)
      PROVE  Goes(P, E)
  <2>1. PICK Q, F : /\ Steady(k', Q, F, k, P, E) /\ StayReady(P, Q, {})
                    /\ k.uxSchedulerSuspended # 0
                         => AllBut(k', k, EventFields \cup {"pendsv"})
    BY <1>1, <1>3, WaiterWoken
  <2>2. k.pendsv => k'.pendsv
    BY <1>1, <1>3, WakingKeepsLive
  <2>3. Moves(Q, F, P, E, 0)
    BY <1>1, <2>1, <2>2, InterruptMoves
  <2> QED BY <2>3 DEF Goes
<1> QED BY <1>2, <1>3

(* A queue that interrupts use is no mutex.                                *)
LEMMA QueueInterruptGoes ==
  ASSUME NEW P, NEW E, Sound(P, E), NEW q \in Queues,
         xQueueGenericSendFromISR(q) \/ xQueueReceiveFromISR(q)
  PROVE  Goes(P, E)
<1>1. k.xSchedulerRunning /\ frame' = frame
  BY DEF xQueueGenericSendFromISR, xQueueReceiveFromISR, InterruptsEnabled
<1>2. QueueType[q] # "mutex" /\ queue[q].type = QueueType[q]
  BY ScriptsAssumption DEF xQueueGenericSendFromISR, xQueueReceiveFromISR, Sound, MutexInv,
     FramesOK, QueuesOK, IsQueue, ControlBlocks
<1>3. ToSend(q) \in EventLists /\ ToReceive(q) \in EventLists
  BY QueuesAssumption DEF EventListsOf, ToSend, ToReceive
<1>4. CASE xQueueGenericSendFromISR(q)
  <2>1. PICK item : k' = SendFromISR(k, queue[q], q, item).k
    BY <1>4 DEF xQueueGenericSendFromISR
  <2> DEFINE c == prvCopyDataToQueue(k, queue[q], item, FALSE)
  <2>2. c.k = k
    BY <1>2 DEF prvCopyDataToQueue
  <2>3. [c EXCEPT !.Q.xTxLock = @ + 1].k = c.k
    BY DEF prvCopyDataToQueue
  <2>4. SendFromISR(k, queue[q], q, item).k \in {WakeWaiter(c.k, ToReceive(q)), c.k}
    BY <2>3 DEF SendFromISR
  <2> HIDE DEF c
  <2>5. k' = k \/ k' = WakeWaiter(k, ToReceive(q))
    BY <2>1, <2>2, <2>4
  <2> QED BY <1>1, <1>3, <2>5, WakingInterrupt
<1>5. CASE xQueueReceiveFromISR(q)
  <2>1. k' = k \/ k' = WakeWaiter(k, ToSend(q))
    BY <1>5 DEF xQueueReceiveFromISR, ReceiveFromISR
  <2> QED BY <1>1, <1>3, <2>1, WakingInterrupt
<1> QED BY <1>4, <1>5

(* xTaskResumeFromISR readies a suspended task, or makes it pending.       *)
LEMMA ResumeInterruptGoes ==
  ASSUME NEW P, NEW E, Sound(P, E), NEW t \in Tasks, ResumeFromISR(t)
  PROVE  Goes(P, E)
<1>1. /\ k.xSchedulerRunning /\ frame' = frame /\ xTaskIsTaskSuspended(k, t)
      /\ k' = xTaskResumeFromISR(k, t)
  BY DEF ResumeFromISR, InterruptsEnabled
<1>2. Settled(k, P, E) /\ Staged(P) /\ DOMAIN k = SchedFields /\ k.pendsv \in BOOLEAN
  BY AtInterrupt
<1>3. /\ \E Q, F : Steady(k', Q, F, k, P, E) /\ StayReady(P, Q, {})
      /\ k.uxSchedulerSuspended # 0 => AllBut(k', k, EventFields \cup {"pendsv"})
  BY <1>1, <1>2, Resumed
<1>4. PICK Q, F : Steady(k', Q, F, k, P, E) /\ StayReady(P, Q, {})
  BY <1>3
<1>5. k.pendsv => k'.pendsv
  BY <1>1, <1>2, WakingKeepsLive
<1>6. Moves(Q, F, P, E, 0)
  BY <1>1, <1>2, <1>3, <1>4, <1>5, InterruptMoves
<1> QED BY <1>6 DEF Goes

(* The timer: a tick is processed at once or, while the scheduler is       *)
(* suspended, counted.                                                     *)
LEMMA TickGoes ==
  ASSUME NEW P, NEW E, Sound(P, E), xPortSysTickHandler
  PROVE  Goes(P, E)
<1>1. /\ k.xSchedulerRunning /\ frame' = frame /\ k.uxMissedTicks < MaxMissed
      /\ k' = vTaskIncrementTick(taskYIELD(k))
  BY DEF xPortSysTickHandler, InterruptsEnabled
<1>2. /\ Settled(k, P, E) /\ Staged(P) /\ k.uxSchedulerSuspended \in {0, 1}
      /\ k.pxCurrentTCB \in Tasks
  BY AtInterrupt
<1>3. k.uxMissedTicks \in Nat /\ k.xTickCount \in Ticks /\ k.wakeTime \in [Tasks -> Ticks]
  BY <1>2, SettledNumbers DEF Typed
<1>4. CASE k.uxSchedulerSuspended # 0
  <2>1. /\ Settled(k', P, E) /\ AllBut(k', k, {"pendsv", "uxMissedTicks"})
        /\ k'.uxMissedTicks = k.uxMissedTicks + 1 /\ k'.pendsv
    BY <1>1, <1>2, <1>4, TickMissed
  <2>2. /\ k'.pxCurrentTCB = k.pxCurrentTCB /\ k'.xSchedulerRunning
        /\ k'.uxSchedulerSuspended = k.uxSchedulerSuspended
        /\ k'.xTickCount = k.xTickCount /\ k'.xNumOfOverflows = k.xNumOfOverflows
        /\ k'.wakeTime = k.wakeTime
    BY <1>1, <2>1 DEF AllBut, SchedFields
  <2>3. ListsSame
    BY <2>1 DEF AllBut, SchedFields, ListsSame
  <2>4. Staged(P)'
    BY <1>1, <1>2, <1>4, <2>2 DEF Staged
  <2>5. Ticked
    BY <1>3, <2>1 DEF Ticked
  <2>6. ClockMoved(k', k, 0) /\ 0 \in 0 .. (TickMod - 1)
    BY <1>3, <2>2, Constants DEF ClockMoved
  <2>7. 0 + k'.uxMissedTicks = k.uxMissedTicks + (IF Ticked THEN 1 ELSE 0)
    BY <1>3, <2>1, <2>5
  <2>8. \A t \in Tasks : TicksTo(k', t) = TicksTo(k, t) - 0
    <3> SUFFICES ASSUME NEW t \in Tasks PROVE TicksTo(k', t) = TicksTo(k, t) - 0
      OBVIOUS
    <3>1. k.wakeTime[t] - k.xTickCount \in Int
      BY <1>3, Constants
    <3> QED BY <2>2, <3>1, TickSums, Constants DEF TicksTo
  <2>9. ~(0 > 0)
    OBVIOUS
  <2> HIDE DEF TicksTo
  <2>10. Moves(P, E, P, E, 0)
    BY <2>1, <2>3, <2>4, <2>6, <2>7, <2>8, <2>9 DEF Moves
  <2> QED BY <2>10 DEF Goes
<1>5. CASE k.uxSchedulerSuspended = 0
  <2>1. PICK Q, F : TimePassed(k', Q, F, k, P, 1) /\ k'.uxMissedTicks = 0 /\ k'.pendsv
    BY <1>1, <1>2, <1>5, TickProcessed
  <2>2. /\ Settled(k', Q, F) /\ StayReady(P, Q, {}) /\ ClockMoved(k', k, 1)
        /\ k'.uxSchedulerSuspended = 0 /\ AllBut(k', k, ResumedFields)
    BY <2>1 DEF TimePassed
  <2>3. k'.pxCurrentTCB = k.pxCurrentTCB /\ k'.xSchedulerRunning
    BY <1>1, <2>2 DEF AllBut, SchedFields, ResumedFields, TimeFields, ListFields, GenericFields,
       EventFields, ReadyFields
  <2>4. Staged(Q)'
    BY <1>1, <1>2, <1>5, <2>1, <2>2, <2>3 DEF Staged
  <2>5. k.uxMissedTicks = 0
    BY <1>2, <1>5 DEF Settled
  <2>6. Ticked
    <3>1. k'.xTickCount # k.xTickCount
      BY <1>3, <2>2, Constants DEF ClockMoved
    <3> QED BY <1>5, <3>1 DEF Ticked
  <2>7. 1 + k'.uxMissedTicks = k.uxMissedTicks + (IF Ticked THEN 1 ELSE 0)
    BY <2>1, <2>5, <2>6
  <2>8. 1 \in 0 .. (TickMod - 1) /\ ~(k.uxSchedulerSuspended > 0)
    BY <1>5, Constants
  <2> HIDE DEF TicksTo
  <2>9. /\ \A u \in Tasks : Q[u] \in Asleep =>
             P[u] \in Asleep /\ TicksTo(k', u) = TicksTo(k, u) - 1
        /\ \A u \in Tasks : P[u] \in Asleep /\ Q[u] \notin Asleep =>
             u \in ToSet(k.pending) \/ TicksTo(k, u) <= 1
    BY <2>1 DEF TimePassed
  <2>10. Moves(Q, F, P, E, 1)
    BY <2>2, <2>4, <2>7, <2>8, <2>9 DEF Moves
  <2> QED BY <2>10 DEF Goes
<1> QED BY <1>2, <1>4, <1>5

(* The switch: the most important ready task is chosen, unless the         *)
(* scheduler is suspended.                                                 *)
LEMMA SwitchGoes ==
  ASSUME NEW P, NEW E, Sound(P, E), xPortPendSVHandler
  PROVE  Goes(P, E)
<1>1. /\ k.xSchedulerRunning /\ frame' = frame /\ k.pendsv
      /\ k' = vTaskSwitchContext([k EXCEPT !.pendsv = FALSE])
  BY DEF xPortPendSVHandler, InterruptsEnabled
<1>2. /\ Settled(k, P, E) /\ Staged(P) /\ k.uxSchedulerSuspended \in {0, 1}
      /\ k.pxCurrentTCB \in Tasks /\ DOMAIN k = SchedFields
  BY AtInterrupt
<1> DEFINE s == [k EXCEPT !.pendsv = FALSE]
<1>3. AllBut(s, k, {"pendsv", "xMissedYield"}) /\ s.pendsv = FALSE /\ AllBut(s, k, {"pendsv"})
  BY <1>2 DEF AllBut, SchedFields
<1> HIDE DEF s
<1>4. Steady(s, P, E, k, P, E)
  BY <1>1, <1>2, <1>3, Yielded
<1>5. /\ Settled(s, P, E) /\ s.xSchedulerRunning
      /\ s.uxSchedulerSuspended = k.uxSchedulerSuspended
  BY <1>1, <1>4, SteadyLeaves
<1>6. k' = vTaskSwitchContext(s)
  BY <1>1 DEF s
<1>7. StayReady(P, P, {})
  BY DEF StayReady
<1>8. CASE k.uxSchedulerSuspended # 0
  <2>1. Steady(k', P, E, s, P, E) /\ AllBut(k', s, {"xMissedYield"})
    BY <1>5, <1>6, <1>8, Switched
  <2>2. Steady(k', P, E, k, P, E)
    BY <1>4, <2>1, SteadyAgain
  <2>3. AllBut(k', k, {"pendsv", "xMissedYield"})
    BY <1>3, <2>1 DEF AllBut, SchedFields
  <2>4. ListsSame
    BY <2>3 DEF AllBut, SchedFields, ListsSame
  <2>5. /\ k'.pxCurrentTCB = k.pxCurrentTCB /\ k'.xSchedulerRunning
        /\ k'.uxSchedulerSuspended = k.uxSchedulerSuspended
    BY <1>1, <2>2, SteadyLeaves
  <2>6. k.uxSchedulerSuspended = 1
    BY <1>2, <1>8
  <2>7. Staged(P)'
    BY <1>1, <1>2, <2>5, <2>6 DEF Staged
  <2>8. Moves(P, E, P, E, 0)
    BY <1>2, <2>2, <2>4, <2>7, NoTick
  <2> QED BY <2>8 DEF Goes
<1>9. CASE k.uxSchedulerSuspended = 0
  <2>1. /\ Settled(k', P, E) /\ P[k'.pxCurrentTCB] >= 0 /\ k'.pxCurrentTCB \in Tasks
        /\ AllBut(k', s, ReadyFields \cup {"pxCurrentTCB"})
    BY <1>5, <1>6, <1>9, Switched
  <2>2. AllBut(k', k, ReadyFields \cup {"pxCurrentTCB", "pendsv"})
    BY <1>3, <2>1 DEF AllBut, SchedFields, ReadyFields
  <2>3. /\ k'.xSchedulerRunning /\ k'.uxSchedulerSuspended = 0
        /\ k'.xTickCount = k.xTickCount /\ k'.xNumOfOverflows = k.xNumOfOverflows
        /\ k'.wakeTime = k.wakeTime /\ k'.uxMissedTicks = k.uxMissedTicks
    BY <1>1, <1>9, <2>2 DEF AllBut, SchedFields, ReadyFields
  <2>4. \A t \in Tasks : frame'[t].at \notin SuspStages
    BY <1>1, <1>2, <1>9 DEF Staged
  <2>5. Staged(P)'
    BY <2>1, <2>3, <2>4 DEF Staged
  <2>6. ~(k.uxSchedulerSuspended > 0)
    BY <1>9
  <2>7. Moves(P, E, P, E, 0)
    BY <1>2, <2>1, <2>3, <2>5, <2>6, TimeStill
  <2> QED BY <2>7 DEF Goes
<1> QED BY <1>8, <1>9

(* The start.                                                              *)
LEMMA BootGoes ==
  ASSUME NEW P, NEW E, Sound(P, E), Boot
  PROVE  Goes(P, E)
<1>1. ~k.xSchedulerRunning /\ frame' = frame /\ script' = script
  BY DEF Boot
<1>2. Settled(k, P, E) /\ Staged(P) /\ FramesOK /\ DOMAIN k = SchedFields
  BY AtInterrupt
<1>3. /\ k.xTickCount = 0 /\ k.uxSchedulerSuspended = 0 /\ k.uxMissedTicks = 0
      /\ k.uxMissedTicks \in Nat /\ k.xTickCount \in Ticks
      /\ k.live \subseteq script.start /\ \A t \in Tasks : frame[t] = AtRest
      /\ idle \notin script.start /\ ~k.pendsv
      /\ \A t \in Tasks : P[t] \notin Asleep
  <2>1. Booting(k, P)
    BY <1>1, <1>2 DEF Settled
  <2>2. \A t \in Tasks : P[t] \notin Asleep
    BY <2>1, PlacesDiffer DEF Booting, Asleep, PlacesOff
  <2>3. idle \notin script.start
    BY <1>2, ScriptsAssumption DEF FramesOK
  <2>4. k.xTickCount \in Ticks /\ k.uxMissedTicks \in Nat
    BY <1>2, SettledNumbers DEF Typed
  <2> QED BY <1>1, <1>2, <2>1, <2>2, <2>3, <2>4 DEF Settled, Staged, Booting
<1>4. ASSUME NEW t \in script.start \ k.live, k' = xTaskCreate(k, t, script.prio[t])
      PROVE  Goes(P, E)
  <2>1. t \in Tasks /\ t # idle /\ script.prio[t] \in Nat
    BY <1>2, <1>3, ScriptsAssumption DEF FramesOK
  <2>2. PICK Q : /\ Settled(k', Q, E)
                 /\ \A u \in Tasks : Q[u] >= 0 \/ Q[u] = Absent
                 /\ AllBut(k', k, CreateFields) /\ k'.live = k.live \cup {t}
    BY <1>1, <1>2, <1>4, <2>1, CreatedBooting
  <2>3. /\ k'.xTickCount = k.xTickCount /\ k'.xNumOfOverflows = k.xNumOfOverflows
        /\ k'.wakeTime = k.wakeTime /\ k'.uxMissedTicks = k.uxMissedTicks
        /\ k'.uxSchedulerSuspended = 0 /\ k'.xSchedulerRunning = k.xSchedulerRunning
        /\ k'.pxCurrentTCB \in Tasks
    <3>1. k'.pxCurrentTCB \in Tasks
      BY <2>2, SettledNumbers DEF Typed
    <3> QED BY <1>3, <2>2, <3>1 DEF AllBut, SchedFields, CreateFields, ReadyFields
  <2>4. Staged(Q)'
    <3>1. \A u \in Tasks : frame'[u] = AtRest /\ AtRest.at \notin SuspStages
      BY <1>1, <1>3, RestRuns, StagesSuspend
    <3>2. k'.live \subseteq script'.start
      BY <1>1, <1>3, <2>2
    <3> QED BY <1>1, <2>3, <3>1, <3>2 DEF Staged
  <2>5. \A u \in Tasks : Q[u] \notin Asleep
    BY <2>2, PlacesDiffer DEF Asleep, PlacesOff
  <2>6. ~(k.uxSchedulerSuspended > 0)
    BY <1>3
  <2>7. Moves(Q, E, P, E, 0)
    BY <1>2, <2>2, <2>3, <2>4, <2>5, <2>6, TimeStill
  <2> QED BY <2>7 DEF Goes
<1>5. ASSUME k' = vTaskStartScheduler(k)
      PROVE  Goes(P, E)
  <2>1. PICK Q : /\ Settled(k', Q, E) /\ k'.xSchedulerRunning /\ Q[k'.pxCurrentTCB] >= 0
                 /\ k'.xTickCount = 0 /\ k'.uxMissedTicks = k.uxMissedTicks
                 /\ k'.xNumOfOverflows = k.xNumOfOverflows
                 /\ k'.uxSchedulerSuspended = k.uxSchedulerSuspended
                 /\ \A t \in Tasks : Q[t] \notin Asleep
    BY <1>1, <1>2, <1>5, Started
  <2>2. k'.pxCurrentTCB \in Tasks
    BY <2>1, SettledNumbers DEF Typed
  <2>3. Staged(Q)'
    <3>1. \A u \in Tasks : frame'[u] = AtRest /\ AtRest.at \notin SuspStages
      BY <1>1, <1>3, RestRuns, StagesSuspend
    <3> QED BY <1>3, <2>1, <2>2, <3>1 DEF Staged
  <2>4. ~Ticked
    BY <1>3, <2>1 DEF Ticked
  <2>5. ClockMoved(k', k, 0) /\ 0 \in 0 .. (TickMod - 1)
    BY <1>3, <2>1, Constants DEF ClockMoved
  <2>6. 0 + k'.uxMissedTicks = k.uxMissedTicks + (IF Ticked THEN 1 ELSE 0)
    BY <1>3, <2>1, <2>4
  <2>7. ~(k.uxSchedulerSuspended > 0) /\ ~(0 > 0)
    BY <1>3
  <2> HIDE DEF TicksTo
  <2>8. Moves(Q, E, P, E, 0)
    BY <2>1, <2>3, <2>5, <2>6, <2>7 DEF Moves
  <2> QED BY <2>8 DEF Goes
<1> QED BY <1>4, <1>5 DEF Boot

-----------------------------------------------------------------------------
(* That CreatesOK holds on.                                                *)

(* Going to sleep leaves the set of tasks alone.                           *)
LEMMA SleepKeepsLive ==
  ASSUME NEW s, DOMAIN s = SchedFields, NEW w, NEW l
  PROVE  /\ Delay(s, w).live = s.live /\ vTaskPlaceOnEventList(s, l, w).live = s.live
<1>1. ASSUME NEW a, DOMAIN a = SchedFields, NEW v PROVE Delay(a, v).live = a.live
  <2> DEFINE t == a.pxCurrentTCB
             at == [a.wakeTime EXCEPT ![t] = v]
             k0 == vListRemoveGeneric(a, t)
             k1 == [k0 EXCEPT !.wakeTime = at]
  <2>1. k0.live = a.live /\ DOMAIN k0 = SchedFields
    BY <1>1, ListsKeepLive
  <2>2. Delay(a, v) = IF v < a.xTickCount
                      THEN [k1 EXCEPT !.overflow = vListInsert(@, t, at)]
                      ELSE [k1 EXCEPT !.delayed = vListInsert(@, t, at)]
    BY DEF Delay
  <2> HIDE DEF k0, at
  <2>3. k1.live = a.live /\ DOMAIN k1 = SchedFields
    BY <2>1 DEF SchedFields
  <2> HIDE DEF k1
  <2> QED BY <2>2, <2>3 DEF SchedFields
<1> DEFINE t == s.pxCurrentTCB
           k1 == [s EXCEPT !.event[l] = vListInsert(@, t, s.eventValue)]
           k0 == vListRemoveGeneric(k1, t)
<1>2. k1.live = s.live /\ DOMAIN k1 = SchedFields
  BY DEF SchedFields
<1>3. vTaskPlaceOnEventList(s, l, w) = IF w = portMAX_DELAY
                                       THEN [k0 EXCEPT !.suspended = @ \cup {t}]
                                       ELSE Delay(k1, TimeToWake(s, w))
  BY DEF vTaskPlaceOnEventList
<1> HIDE DEF k1
<1>4. k0.live = s.live /\ DOMAIN k0 = SchedFields
  BY <1>2, ListsKeepLive
<1> HIDE DEF k0
<1>5. [k0 EXCEPT !.suspended = @ \cup {t}].live = s.live
  BY <1>4 DEF SchedFields
<1>6. Delay(k1, TimeToWake(s, w)).live = s.live
  BY <1>1, <1>2
<1> QED BY <1>1, <1>3, <1>5, <1>6

(* So do the steps of a call in progress.                                  *)
LEMMA CallStepLive ==
  ASSUME NEW P, NEW E, Sound(P, E), NEW t \in Tasks, CallStep(t)
  PROVE  k'.live = k.live
<1>1. Settled(k, P, E) /\ Staged(P) /\ DOMAIN k = SchedFields
  BY AtInterrupt
<1>2. CASE LockQueue(t) \/ CheckForTimeOut(t) \/ TestQueue(t)
  BY <1>2 DEF LockQueue, CheckForTimeOut, TestQueue
<1>3. CASE SuspendAll(t)
  BY <1>1, <1>3 DEF SuspendAll, vTaskSuspendAll, SchedFields
<1>4. CASE InheritPriority(t)
  BY <1>1, <1>4, InheritanceKeepsLive DEF InheritPriority
<1>5. CASE PlaceOnEventList(t)
  BY <1>1, <1>5, SleepKeepsLive DEF PlaceOnEventList
<1>6. CASE UnlockQueueTx(t) \/ UnlockQueueRx(t)
  <2> DEFINE q == frame[t].call.on
  <2>1. Runs(t) /\ frame[t].at \in {"unlockTx", "unlockRx"}
    BY <1>6 DEF UnlockQueueTx, UnlockQueueRx, Reaches
  <2>2. IsFrame(t, frame[t]) /\ k.xSchedulerRunning /\ k.uxSchedulerSuspended # 0
    BY <2>1, RunningTask, StagesSuspend
  <2>3. frame[t].call.op \in QueueOps
    BY <2>1, <2>2, SMT DEF IsFrame, QueueStages
  <2>4. frame[t].call \in Calls
    BY <2>1, <2>2, <2>3, SMT DEF IsFrame, IdleCall, QueueOps, SendOps, ReceiveOps
  <2>5. q \in Queues
    BY <2>3, <2>4, OnQueues
  <2>6. ToSend(q) \in EventLists /\ ToReceive(q) \in EventLists
    BY <2>5, QueuesAssumption DEF EventListsOf, ToSend, ToReceive
  <2>7. queue[q].xTxLock \in Int /\ queue[q].xRxLock \in Int
    <3>1. IsQueue(q, queue[q])
      BY <2>5 DEF Sound, MutexInv, QueuesOK
    <3> QED BY <3>1, Constants DEF IsQueue, ControlBlocks
  <2>8. \E l \in EventLists, lock \in Int : k' = WakeCounted(k, l, lock)
    BY <1>6, <2>6, <2>7 DEF UnlockQueueTx, UnlockQueueRx, UnlockTx, UnlockRx
  <2>9. AllBut(k', k, EventFields \cup {"xMissedYield"})
    BY <1>1, <2>2, <2>8, CountedSteady DEF Unlocks
  <2> QED BY <2>9 DEF AllBut, SchedFields, EventFields
<1>7. CASE ResumeAll(t)
  <2>1. Runs(t) /\ frame[t].at = "resume" /\ k' = xTaskResumeAll(k).k
    BY <1>7 DEF ResumeAll, Reaches
  <2>2. k.xSchedulerRunning /\ k.uxSchedulerSuspended = 1
    BY <2>1, RunningTask, StagesSuspend
  <2>3. AllBut(k', k, ResumedFields)
    BY <1>1, <2>1, <2>2, AllResumed DEF TimePassed
  <2> QED BY <2>3 DEF AllBut, SchedFields, ResumedFields, TimeFields, ListFields, GenericFields,
       EventFields, ReadyFields
<1>8. CASE Yield(t)
  BY <1>1, <1>8 DEF Yield, YieldIf, taskYIELD, SchedFields
<1> QED BY <1>2, <1>3, <1>4, <1>5, <1>6, <1>7, <1>8 DEF CallStep

(* And the calls, all but the one that creates.                            *)
LEMMA CallLive ==
  ASSUME NEW P, NEW E, Sound(P, E), NEW t \in Tasks, Call(t)
  PROVE  k'.live = k.live \/ xTaskCreateCall(t)
<1>1. Settled(k, P, E) /\ Staged(P) /\ DOMAIN k = SchedFields
  BY AtInterrupt
<1>2. CASE xQueueGenericSend(t)
  <2>1. PICK c : \/ k' = k
                 \/ \E item, front : k' = SendNow(k, queue[c.on], c.on, item, front).k
    BY <1>2 DEF xQueueGenericSend, WaitOrFail
  <2>2. ASSUME NEW item, NEW front, k' = SendNow(k, queue[c.on], c.on, item, front).k
        PROVE  k'.live = k.live
    <3> DEFINE s == prvCopyDataToQueue(k, queue[c.on], item, front).k
    <3>1. k' = WakeWaiter(s, ToReceive(c.on))
      BY <2>2 DEF SendNow
    <3>2. s = k \/ s = vTaskPriorityDisinherit(k, queue[c.on].pxMutexHolder)
      BY DEF prvCopyDataToQueue
    <3>3. s.live = k.live /\ DOMAIN s = SchedFields
      BY <1>1, <3>2, InheritanceKeepsLive
    <3> HIDE DEF s
    <3>4. \A l : WakeWaiter(s, l).live = s.live
      BY <3>3, WakingKeepsLive
    <3> QED BY <3>1, <3>3, <3>4
  <2> QED BY <2>1, <2>2
<1>3. CASE xQueueGenericReceive(t)
  <2>1. k' = k \/ \E l : k' = WakeWaiter(k, l)
    BY <1>3 DEF xQueueGenericReceive, WaitOrFail, PeekNow, ReceiveNow
  <2>2. \A l : WakeWaiter(k, l).live = k.live
    BY <1>1, WakingKeepsLive
  <2> QED BY <2>1, <2>2
<1>4. CASE vTaskDelay(t) \/ vTaskDelayUntil(t)
  <2>1. k' = k \/ k' = taskYIELD(k) \/ \E w : k' = Delay(k, w)
    BY <1>4 DEF vTaskDelay, vTaskDelayUntil
  <2>2. taskYIELD(k).live = k.live
    BY <1>1 DEF taskYIELD, SchedFields
  <2>3. \A w : Delay(k, w).live = k.live
    BY <1>1, SleepKeepsLive
  <2> QED BY <2>1, <2>2, <2>3
<1>5. CASE vTaskSuspend(t) \/ vTaskDelete(t)
  <2>1. \E u : k' = TaskSuspend(k, u) \/ k' = TaskDelete(k, u)
    BY <1>5 DEF vTaskSuspend, vTaskDelete
  <2>2. \A u : TaskSuspend(k, u).live = k.live /\ TaskDelete(k, u).live = k.live
    BY <1>1, EndingKeepsLive
  <2> QED BY <2>1, <2>2
<1>6. CASE vTaskResumeCall(t)
  <2>1. \E u : k' = vTaskResume(k, u)
    BY <1>6 DEF vTaskResumeCall
  <2>2. \A u : vTaskResume(k, u).live = k.live
    BY <1>1, WakingKeepsLive
  <2> QED BY <2>1, <2>2
<1> QED BY <1>2, <1>3, <1>4, <1>5, <1>6 DEF Call

(* And interrupts and switches.                                            *)
LEMMA InterruptLive ==
  ASSUME NEW P, NEW E, Sound(P, E), Interrupt \/ xPortPendSVHandler
  PROVE  k'.live = k.live /\ frame' = frame
<1>1. Settled(k, P, E) /\ Staged(P) /\ DOMAIN k = SchedFields
  BY AtInterrupt
<1>2. CASE xPortPendSVHandler
  <2> DEFINE s == [k EXCEPT !.pendsv = FALSE]
  <2>1. s.live = k.live /\ DOMAIN s = SchedFields
    BY <1>1 DEF SchedFields
  <2>2. k' = vTaskSwitchContext(s) /\ frame' = frame
    BY <1>2 DEF xPortPendSVHandler
  <2> HIDE DEF s
  <2>3. vTaskSwitchContext(s).live = s.live
    <3> DEFINE top == CHOOSE p \in 0 .. s.uxTopReadyPriority :
                    /\ s.ready[p] # <<>>
                    /\ \A q \in (p + 1) .. s.uxTopReadyPriority : s.ready[q] = <<>>
               list == OwnerOfNextEntry(s.ready[top])
    <3>1. vTaskSwitchContext(s) \in {[s EXCEPT !.xMissedYield = TRUE],
            [s EXCEPT !.uxTopReadyPriority = top, !.ready[top] = list, !.pxCurrentTCB = Last(list)]}
      BY DEF vTaskSwitchContext
    <3> HIDE DEF top, list
    <3> QED BY <2>1, <3>1 DEF SchedFields
  <2> QED BY <2>1, <2>2, <2>3
<1>3. CASE xPortSysTickHandler
  <2>1. /\ k.xSchedulerRunning /\ frame' = frame /\ k.uxMissedTicks < MaxMissed
        /\ k' = vTaskIncrementTick(taskYIELD(k))
    BY <1>3 DEF xPortSysTickHandler, InterruptsEnabled
  <2>2. \/ AllBut(k', k, {"pendsv", "uxMissedTicks"}) \/ AllBut(k', k, ResumedFields)
    BY <1>1, <2>1, TickMissed, TickProcessed DEF TimePassed
  <2> QED BY <2>1, <2>2 DEF AllBut, SchedFields, ResumedFields, TimeFields, ListFields,
       GenericFields, EventFields, ReadyFields
<1>4. CASE \E q \in Queues : xQueueGenericSendFromISR(q) \/ xQueueReceiveFromISR(q)
  <2>1. PICK q \in Queues : xQueueGenericSendFromISR(q) \/ xQueueReceiveFromISR(q)
    BY <1>4
  <2>2. frame' = frame
    BY <2>1 DEF xQueueGenericSendFromISR, xQueueReceiveFromISR
  <2>3. CASE xQueueGenericSendFromISR(q)
    <3>1. PICK item : k' = SendFromISR(k, queue[q], q, item).k
      BY <2>3 DEF xQueueGenericSendFromISR
    <3> DEFINE c == prvCopyDataToQueue(k, queue[q], item, FALSE)
    <3>2. c.k = k \/ c.k = vTaskPriorityDisinherit(k, queue[q].pxMutexHolder)
      BY DEF prvCopyDataToQueue
    <3>3. [c EXCEPT !.Q.xTxLock = @ + 1].k = c.k
      BY DEF prvCopyDataToQueue
    <3>4. k' = WakeWaiter(c.k, ToReceive(q)) \/ k' = c.k
      BY <3>1, <3>3 DEF SendFromISR
    <3> HIDE DEF c
    <3>5. c.k.live = k.live /\ DOMAIN c.k = SchedFields
      BY <1>1, <3>2, InheritanceKeepsLive
    <3>6. \A l : WakeWaiter(c.k, l).live = c.k.live
      BY <3>5, WakingKeepsLive
    <3> QED BY <2>2, <3>4, <3>5, <3>6
  <2>4. CASE xQueueReceiveFromISR(q)
    <3>1. k' = k \/ k' = WakeWaiter(k, ToSend(q))
      BY <2>4 DEF xQueueReceiveFromISR, ReceiveFromISR
    <3>2. \A l : WakeWaiter(k, l).live = k.live
      BY <1>1, WakingKeepsLive
    <3> QED BY <2>2, <3>1, <3>2
  <2> QED BY <2>1, <2>3, <2>4
<1>5. CASE \E t \in Tasks : ResumeFromISR(t)
  <2>1. (\E t : k' = xTaskResumeFromISR(k, t)) /\ frame' = frame
    BY <1>5 DEF ResumeFromISR
  <2>2. \A t : xTaskResumeFromISR(k, t).live = k.live
    BY <1>1, WakingKeepsLive
  <2> QED BY <2>1, <2>2
<1> QED BY <1>2, <1>3, <1>4, <1>5 DEF Interrupt

(* A step by which no call begins to create.                               *)
NoneBegins ==
  \A u \in Tasks : Creating(frame'[u]) => Creating(frame[u]) /\ frame'[u].call = frame[u].call

(* If no call begins to create, the calls that do still create one task    *)
(* each.                                                                   *)
LEMMA CreatesKept ==
  ASSUME CreatesOK, NoneBegins, k'.live \subseteq k.live
  PROVE  CreatesOK'
BY DEF CreatesOK, NoneBegins

(* The frame of one task changes, and it does not begin to create.         *)
LEMMA NoneBeginsAt ==
  ASSUME FramesOK, NEW t \in Tasks, NEW f, frame' = [frame EXCEPT ![t] = f],
         Creating(f) => Creating(frame[t]) /\ f.call = frame[t].call
  PROVE  NoneBegins
BY OneFrame DEF NoneBegins

(* A task in no call creates nothing.                                      *)
LEMMA RestCreates == ~Creating(AtRest)
BY DEF Creating, AtRest, NoCall

(* No step within a call begins to create: xTaskCreate does so when        *)
(* called.                                                                 *)
LEMMA CallStepBegins ==
  ASSUME NEW P, NEW E, Sound(P, E), NEW t \in Tasks, CallStep(t)
  PROVE  NoneBegins
<1>1. FramesOK /\ IsFrame(t, frame[t])
  BY DEF Sound, MutexInv, FramesOK
<1>2. ASSUME NEW at, GoTo(t, at), frame[t].at # "yield" PROVE NoneBegins
  <2>1. /\ frame'[t].call = frame[t].call /\ \A u \in Tasks \ {t} : frame'[u] = frame[u]
    BY <1>1, <1>2, StageGone
  <2> QED BY <1>2, <2>1 DEF NoneBegins, Creating
<1>3. ASSUME Return(t) PROVE NoneBegins
  BY <1>1, <1>3, RestCreates, NoneBeginsAt DEF Return
<1>4. CASE SuspendAll(t) \/ LockQueue(t) \/ InheritPriority(t) \/ PlaceOnEventList(t)
           \/ UnlockQueueTx(t) \/ UnlockQueueRx(t)
  <2>1. frame[t].at # "yield" /\ \E at : GoTo(t, at)
    BY <1>4 DEF SuspendAll, LockQueue, InheritPriority, PlaceOnEventList, UnlockQueueTx,
         UnlockQueueRx, Reaches
  <2> QED BY <1>2, <2>1
<1>5. CASE CheckForTimeOut(t)
  <2> DEFINE r == xTaskCheckForTimeOut(k, frame[t].entry, frame[t].wait)
             f == [frame[t] EXCEPT !.at = IF r.expired THEN "unlockTx" ELSE "test",
                         !.then = IF r.expired THEN "fail" ELSE @,
                         !.wait = r.wait, !.entry = r.entry]
  <2>1. frame' = [frame EXCEPT ![t] = f] /\ frame[t].at = "check"
    BY <1>1, <1>5 DEF CheckForTimeOut, FramesOK, Reaches
  <2> HIDE DEF r
  <2>2. f.call = frame[t].call
    BY <1>1 DEF IsFrame
  <2> HIDE DEF f
  <2> QED BY <1>1, <2>1, <2>2, NoneBeginsAt DEF Creating
<1>6. CASE TestQueue(t)
  <2> DEFINE c == frame[t].call
             b == IF c.op \in SendOps THEN IsFull(queue[c.on]) ELSE IsEmpty(queue[c.on])
             h == QueueType[c.on] = "mutex" /\ c.op \in ReceiveOps
             f == [frame[t] EXCEPT
               !.at = IF ~b THEN "unlockTx" ELSE IF h THEN "inherit" ELSE "place",
               !.then = IF b THEN "block" ELSE "retry"]
  <2>1. frame' = [frame EXCEPT ![t] = f] /\ frame[t].at = "test"
    BY <1>1, <1>6 DEF TestQueue, FramesOK, Reaches
  <2> HIDE DEF b, h
  <2>2. f.call = frame[t].call
    BY <1>1 DEF IsFrame
  <2> HIDE DEF f
  <2> QED BY <1>1, <2>1, <2>2, NoneBeginsAt DEF Creating
<1>7. CASE ResumeAll(t)
  <2>1. frame[t].at # "yield" /\ ((\E at : GoTo(t, at)) \/ Return(t))
    BY <1>7 DEF ResumeAll, Reaches
  <2> QED BY <1>2, <1>3, <2>1
<1>8. CASE Yield(t)
  <2>1. CASE Return(t)
    BY <1>3, <2>1
  <2>2. CASE GoTo(t, "enter") /\ frame[t].call.op \in SendOps \cup ReceiveOps
    <3>1. frame[t].call.op # "create"
      BY <2>2 DEF SendOps, ReceiveOps
    <3>2. /\ frame'[t].call = frame[t].call /\ \A u \in Tasks \ {t} : frame'[u] = frame[u]
      BY <1>1, <2>2, StageGone
    <3> QED BY <3>1, <3>2 DEF NoneBegins, Creating
  <2> QED BY <1>8, <2>1, <2>2 DEF Yield
<1> QED BY <1>4, <1>5, <1>6, <1>7, <1>8 DEF CallStep

(* Calls other than xTaskCreate.                                           *)
LEMMA CallBegins ==
  ASSUME NEW P, NEW E, Sound(P, E), NEW t \in Tasks, Call(t), ~xTaskCreateCall(t)
  PROVE  NoneBegins
<1>1. FramesOK /\ IsFrame(t, frame[t])
  BY DEF Sound, MutexInv, FramesOK
<1>2. ASSUME NEW u \in Tasks, NEW f, frame' = [frame EXCEPT ![u] = f], ~Creating(f)
      PROVE  NoneBegins
  BY <1>1, <1>2, NoneBeginsAt
<1>3. ASSUME Return(t) PROVE NoneBegins
  BY <1>2, <1>3, RestCreates DEF Return
<1>4. CASE xQueueGenericSend(t) \/ xQueueGenericReceive(t)
  <2>1. PICK c : c.op \in SendOps \cup ReceiveOps /\ Enters(t, c) /\ (WaitOrFail(t, c) \/ Return(t))
    BY <1>4 DEF xQueueGenericSend, xQueueGenericReceive
  <2>2. CASE WaitOrFail(t, c)
    <3> DEFINE f == IF frame[t].at = "ready" THEN [AtRest EXCEPT !.call = c, !.wait = c.wait]
                    ELSE frame[t]
               f1 == IF f.timed THEN f ELSE [f EXCEPT !.timed = TRUE, !.entry = TimeOutState(k)]
               f2 == [f1 EXCEPT !.at = "suspend"]
    <3>1. frame' = [frame EXCEPT ![t] = f2] \/ Return(t)
      BY <2>2 DEF WaitOrFail
    <3>2. f2.call = c
      <4>1. f.call = c /\ DOMAIN f = DOMAIN AtRest
        BY <1>1, <2>1 DEF Enters, IsFrame, AtRest
      <4>2. "call" \in DOMAIN AtRest /\ "timed" \in DOMAIN AtRest
        BY DEF AtRest
      <4> HIDE DEF f
      <4>3. f1.call = c /\ DOMAIN f1 = DOMAIN f
        BY <4>1, <4>2
      <4> HIDE DEF f1
      <4> QED BY <4>1, <4>2, <4>3
    <3> HIDE DEF f2
    <3>3. ~Creating(f2)
      BY <2>1, <3>2 DEF Creating, SendOps, ReceiveOps
    <3> QED BY <1>2, <1>3, <3>1, <3>3
  <2> QED BY <1>3, <2>1, <2>2
<1>5. CASE vTaskDelay(t) \/ vTaskDelayUntil(t)
  <2>1. ASSUME NEW c, c.op # "create", frame' = [frame EXCEPT ![t] = [AtRest EXCEPT
                       !.at = "suspend", !.call = c, !.wait = c.wait, !.then = "block"]]
        PROVE  NoneBegins
    <3> DEFINE f == [AtRest EXCEPT
                       !.at = "suspend", !.call = c, !.wait = c.wait, !.then = "block"]
    <3>1. f.call = c
      BY DEF AtRest
    <3>2. frame' = [frame EXCEPT ![t] = f]
      BY <2>1
    <3> HIDE DEF f
    <3> QED BY <1>2, <2>1, <3>1, <3>2 DEF Creating
  <2>2. ASSUME NEW c, c.op # "create", Suspends(t, c, "block") PROVE NoneBegins
    <3> DEFINE f == [AtRest EXCEPT !.at = "suspend", !.call = c, !.then = "block"]
    <3>1. f.call = c
      BY DEF AtRest
    <3>2. frame' = [frame EXCEPT ![t] = f]
      BY <2>2 DEF Suspends
    <3> HIDE DEF f
    <3> QED BY <1>2, <2>2, <3>1, <3>2 DEF Creating
  <2>3. ASSUME GoTo(t, "resume"), frame[t].call.op # "create" PROVE NoneBegins
    <3>1. frame'[t].call = frame[t].call /\ \A u \in Tasks \ {t} : frame'[u] = frame[u]
      BY <1>1, <2>3, StageGone
    <3> QED BY <2>3, <3>1 DEF NoneBegins, Creating
  <2>4. ASSUME NEW n, frame[t].call.op # "create",
               frame' = [frame EXCEPT ![t].at = "resume", ![t].wait = n]
        PROVE  NoneBegins
    <3> DEFINE f == [frame[t] EXCEPT !.at = "resume", !.wait = n]
    <3>1. f.call = frame[t].call
      BY <1>1 DEF IsFrame
    <3>2. frame' = [frame EXCEPT ![t] = f]
      BY <1>1, <2>4 DEF FramesOK
    <3> HIDE DEF f
    <3> QED BY <1>2, <2>4, <3>1, <3>2 DEF Creating
  <2>5. frame' = frame => NoneBegins
    BY DEF NoneBegins
  <2>6. CASE vTaskDelay(t)
    BY <2>1, <2>3, <2>5, <2>6 DEF vTaskDelay
  <2>7. CASE vTaskDelayUntil(t)
    BY <2>2, <2>4, <2>7 DEF vTaskDelayUntil
  <2> QED BY <1>5, <2>6, <2>7
<1>6. CASE vTaskSuspend(t) \/ vTaskResumeCall(t) \/ vTaskDelete(t)
  <2> DEFINE f(c) == [AtRest EXCEPT !.at = "yield", !.call = c]
  <2>1. \A c : f(c).at = "yield"
    BY DEF AtRest
  <2>2. \A c : ~Creating(f(c))
    BY <2>1 DEF Creating
  <2>3. PICK c \in script.calls :
          /\ c.op \in {"suspend", "resume", "delete"}
          /\ \/ frame' = frame
             \/ frame' = [frame EXCEPT ![t] = f(c)]
             \/ frame' = [frame EXCEPT ![c.on] = f(c)]
             \/ frame' = [frame EXCEPT ![c.on] = AtRest]
    BY <1>6 DEF vTaskSuspend, vTaskResumeCall, vTaskDelete
  <2>4. c \in Calls
    BY <1>1, <2>3, ScriptsAssumption DEF FramesOK
  <2>5. c.on \in Tasks
    BY <2>3, <2>4 DEF Calls, SendOps, ReceiveOps, TaskOps, DelayOps
  <2>6. frame' = frame => NoneBegins
    BY DEF NoneBegins
  <2> HIDE DEF f
  <2> QED BY <1>2, <2>2, <2>3, <2>5, <2>6, RestCreates
<1> QED BY <1>4, <1>5, <1>6 DEF Call

(* Every step.                                                             *)
LEMMA CreatesStep ==
  ASSUME NEW P, NEW E, Sound(P, E), Next
  PROVE  CreatesOK'
<1>1. CreatesOK /\ FramesOK /\ Staged(P) /\ DOMAIN k = SchedFields /\ Settled(k, P, E)
  BY AtInterrupt DEF Sound
<1>2. ASSUME NEW t \in Tasks, CallStep(t) PROVE CreatesOK'
  BY <1>1, <1>2, CallStepLive, CallStepBegins, CreatesKept
<1>3. ASSUME NEW t \in Tasks, Call(t), ~xTaskCreateCall(t) PROVE CreatesOK'
  <2>1. k'.live = k.live
    BY <1>3, CallLive
  <2> QED BY <1>1, <1>3, <2>1, CallBegins, CreatesKept
<1>4. ASSUME NEW t \in Tasks, xTaskCreateCall(t) PROVE CreatesOK'
  <2>1. IsFrame(t, frame[t])
    BY <1>1 DEF FramesOK
  <2>2. ASSUME NEW c, c.on \notin k.live, Suspends(t, c, "work"), k' = k,
               \A u \in Tasks : frame[u].call.op = "create" => frame[u].call.on # c.on
        PROVE  CreatesOK'
    <3> DEFINE f == [AtRest EXCEPT !.at = "suspend", !.call = c, !.then = "work"]
    <3>1. f.call = c
      BY DEF AtRest
    <3>2. frame' = [frame EXCEPT ![t] = f]
      BY <2>2 DEF Suspends
    <3> HIDE DEF f
    <3>3. frame'[t].call = c /\ \A u \in Tasks \ {t} : frame'[u] = frame[u]
      BY <1>1, <3>1, <3>2, OneFrame
    <3> QED BY <1>1, <2>2, <3>3 DEF CreatesOK, Creating
  <2>3. ASSUME Reaches(t, "work"), frame[t].call.op = "create",
               k' = xTaskCreate(k, frame[t].call.on, script.prio[frame[t].call.on]),
               frame' = [frame EXCEPT ![t].at = "yield", ![t].then = "create"]
        PROVE  CreatesOK'
    <3> DEFINE v == frame[t].call.on
               f == [frame[t] EXCEPT !.at = "yield", !.then = "create"]
    <3>1. Runs(t) /\ frame[t].at = "work"
      BY <2>3 DEF Reaches
    <3>2. k.xSchedulerRunning
      BY <3>1, RunningTask
    <3>3. frame[t].call \in Calls
      BY <2>1, <2>3, <3>1 DEF IsFrame, IdleCall
    <3>4. v \in Tasks
      BY <2>3, <3>3, SMT DEF Calls, SendOps, ReceiveOps, TaskOps, DelayOps
    <3>5. script.prio[v] \in Nat
      BY <1>1, <3>4, ScriptsAssumption DEF FramesOK
    <3>6. Creating(frame[t]) /\ v \notin k.live
      BY <1>1, <2>3, <3>1 DEF CreatesOK, Creating
    <3>7. k'.live = k.live \cup {v}
      BY <1>1, <2>3, <3>2, <3>4, <3>5, <3>6, CreatedSteady
    <3>8. f.at = "yield"
      BY <2>1 DEF IsFrame
    <3>9. frame' = [frame EXCEPT ![t] = f]
      BY <1>1, <2>3 DEF FramesOK
    <3> HIDE DEF f
    <3>10. frame'[t].at = "yield" /\ \A u \in Tasks \ {t} : frame'[u] = frame[u]
      BY <1>1, <3>8, <3>9, OneFrame
    <3>11. ~Creating(frame'[t])
      BY <3>10 DEF Creating
    <3> QED BY <1>1, <3>6, <3>7, <3>10, <3>11 DEF CreatesOK
  <2>4. ASSUME Return(t), k' = k PROVE CreatesOK'
    BY <1>1, <2>4, RestCreates, NoneBeginsAt, CreatesKept DEF Return
  <2> QED BY <1>4, <2>2, <2>3, <2>4 DEF xTaskCreateCall
<1>5. CASE prvIdleTask
  <2>0. idle \in Tasks
    BY Constants
  <2>1. CASE Suspends(idle, IdleCall, "work") /\ k' = k
    <3> DEFINE f == [AtRest EXCEPT !.at = "suspend", !.call = IdleCall, !.then = "work"]
    <3>1. f.call = IdleCall
      BY DEF AtRest
    <3>2. frame' = [frame EXCEPT ![idle] = f]
      BY <2>1 DEF Suspends
    <3> HIDE DEF f
    <3>3. ~Creating(f)
      BY <3>1 DEF Creating, IdleCall
    <3>4. NoneBegins
      BY <1>1, <2>0, <3>2, <3>3, NoneBeginsAt
    <3> QED BY <1>1, <2>1, <3>4, CreatesKept
  <2>2. ASSUME k' = FreeTerminated(k),
               frame' = [frame EXCEPT ![Head(k.terminated)] = AtRest,
                 ![idle] = [AtRest EXCEPT !.at = "suspend", !.call = IdleCall]]
        PROVE  CreatesOK'
    <3> DEFINE h == Head(k.terminated)
               f == [AtRest EXCEPT !.at = "suspend", !.call = IdleCall]
    <3>1. k'.live \subseteq k.live
      BY <1>1, <2>2 DEF FreeTerminated, SchedFields
    <3>2. f.call = IdleCall
      BY DEF AtRest
    <3>3. frame' = [frame EXCEPT ![h] = AtRest, ![idle] = f]
      BY <2>2
    <3> HIDE DEF f, h
    <3>4. ~Creating(f) /\ ~Creating(AtRest)
      BY <3>2, RestCreates DEF Creating, IdleCall
    <3>5. \A u \in Tasks : frame'[u] \in {frame[u], AtRest, f}
      BY <1>1, <2>0, <3>3 DEF FramesOK
    <3>6. NoneBegins
      BY <3>4, <3>5 DEF NoneBegins
    <3> QED BY <1>1, <3>1, <3>6, CreatesKept
  <2> QED BY <1>5, <2>1, <2>2 DEF prvIdleTask
<1>6. CASE Boot
  <2>1. \A t \in Tasks : frame'[t] = AtRest
    BY <1>1, <1>6 DEF Boot, Staged
  <2> QED BY <2>1, RestCreates DEF CreatesOK
<1>7. CASE Interrupt \/ xPortPendSVHandler
  <2>1. k'.live = k.live /\ frame' = frame
    BY <1>7, InterruptLive
  <2>2. NoneBegins
    BY <2>1 DEF NoneBegins
  <2> QED BY <1>1, <2>1, <2>2, CreatesKept
<1> QED BY <1>2, <1>3, <1>4, <1>5, <1>6, <1>7 DEF Next

-----------------------------------------------------------------------------
(* The invariant.                                                          *)

(* The ghosts: how long each sleeper has still to sleep, and what time it  *)
(* is.                                                                     *)
LeftIs == left = [t \in Tasks |-> IF t \in Sleeping(k) THEN TicksTo(k, t) ELSE 0]

TimeOK == clock \in Ticks /\ TicksNotLost

KernelInv ==
  /\ \E P, E : Sound(P, E)
  /\ LeftIs /\ TimeOK /\ handed \in Items \cup {NoItem}

(* The scheduler before the first task is created is settled: all lists    *)
(* are empty.                                                              *)
LEMMA EmptyLists ==
  ASSUME NEW F, NEW v, \A t \in Tasks : F[t] # v
  PROVE  Lists(<<>>, F, v)
<1>1. <<>> \in Seq(Tasks) /\ Len(<<>>) = 0
  OBVIOUS
<1>2. ToSet(<<>>) = {}
  BY Members, <1>1
<1> QED BY <1>1, <1>2 DEF Lists, IsList

(* Before anything was created the scheduler is settled: its lists are     *)
(* empty.                                                                  *)
LEMMA NoTasksSettled ==
  LET P == [t \in Tasks |-> Absent]
      E == [t \in Tasks |-> Nothing]
  IN  Settled(NoTasks, P, E)
<1> DEFINE P == [t \in Tasks |-> Absent]
           E == [t \in Tasks |-> Nothing]
           s == NoTasks
<1>1. /\ DOMAIN s = SchedFields
      /\ s.live = {} /\ s.pxCurrentTCB = idle /\ s.suspended = {}
      /\ s.uxPriority = [t \in Tasks |-> 0] /\ s.uxBasePriority = [t \in Tasks |-> 0]
      /\ s.eventValue = [t \in Tasks |-> configMAX_PRIORITIES]
      /\ s.wakeTime = [t \in Tasks |-> 0] /\ s.uxTopReadyPriority = 0
      /\ s.ready = [p \in Prios |-> <<>>] /\ s.event = [l \in EventLists |-> <<>>]
      /\ s.delayed = <<>> /\ s.overflow = <<>> /\ s.pending = <<>> /\ s.terminated = <<>>
      /\ s.xSchedulerRunning = FALSE /\ s.pendsv = FALSE
      /\ s.uxSchedulerSuspended = 0 /\ s.uxMissedTicks = 0
      /\ s.xTickCount = 0 /\ s.xNumOfOverflows = 0 /\ s.uxTasksDeleted = 0
  BY DEF NoTasks, SchedFields, tskIDLE_PRIORITY
<1> HIDE DEF s
<1>2. Typed(s)
  <2>1. 0 \in Prios /\ 0 \in Ticks /\ idle \in Tasks /\ 0 \in Nat
    BY Constants
  <2>2. configMAX_PRIORITIES \in 1 .. configMAX_PRIORITIES
    BY Constants
  <2>3. 0 \in 0 .. (OverflowMod - 1)
    BY Constants
  <2>4. s.uxPriority \in [Tasks -> Prios] /\ s.uxBasePriority \in [Tasks -> Prios]
    BY <1>1, <2>1
  <2>5. s.eventValue \in [Tasks -> 1 .. configMAX_PRIORITIES]
    BY <1>1, <2>2
  <2>6. s.wakeTime \in [Tasks -> Ticks]
    BY <1>1, <2>1
  <2>7. /\ s.live \subseteq Tasks /\ s.pxCurrentTCB \in Tasks /\ s.uxTopReadyPriority \in Prios
        /\ s.xSchedulerRunning \in BOOLEAN /\ s.pendsv \in BOOLEAN
        /\ s.uxSchedulerSuspended \in Nat /\ s.uxMissedTicks \in Nat
        /\ s.xTickCount \in Ticks /\ s.xNumOfOverflows \in 0 .. (OverflowMod - 1)
        /\ s.uxTasksDeleted \in Nat
    BY <1>1, <2>1, <2>3
  <2> QED BY <1>1, <2>4, <2>5, <2>6, <2>7 DEF Typed
<1>3. P \in [Tasks -> Int] /\ E \in [Tasks -> Waits] /\ Somewhere(P)
  BY PlacesDiffer DEF Waits, Somewhere, PlacesOff
<1>4. \A t \in Tasks : P[t] = Absent /\ E[t] = Nothing
  OBVIOUS
<1> HIDE DEF P, E
<1>5. \A p \in Prios : \A t \in Tasks : P[t] # p
  BY <1>4, PlacesDiffer DEF PlacesOff
<1>6. \A t \in Tasks : P[t] \notin {Delayed, Overflowed, Suspended, Terminated, Limbo}
  BY <1>4, PlacesDiffer
<1>7. \A t \in Tasks : E[t] # Pending /\ \A l \in EventLists : E[t] # l
  BY <1>4, WaitsDiffer
<1>8. Placed(s, P, E)
  <2>1. \A p \in Prios : Lists(s.ready[p], P, p)
    BY <1>1, <1>5, EmptyLists
  <2>2. Lists(s.delayed, P, Delayed) /\ Lists(s.overflow, P, Overflowed)
        /\ Lists(s.terminated, P, Terminated)
    BY <1>1, <1>6, EmptyLists
  <2>3. \A l \in EventLists : Lists(s.event[l], E, l)
    BY <1>1, <1>7, EmptyLists
  <2>4. Lists(s.pending, E, Pending)
    BY <1>1, <1>7, EmptyLists
  <2>5. s.suspended = {t \in Tasks : P[t] = Suspended}
    BY <1>1, <1>6
  <2>6. IsOver(s.ready, Prios) /\ IsOver(s.event, EventLists)
    BY <1>1 DEF IsOver
  <2> QED BY <1>3, <2>1, <2>2, <2>3, <2>4, <2>5, <2>6 DEF Placed
<1>9. OnTime(s)
  <2>1. <<>> \in Seq(Tasks) /\ Len(<<>>) = 0
    OBVIOUS
  <2>2. ToSet(<<>>) = {}
    BY Members, <2>1
  <2> QED BY <1>1, <2>1, <2>2 DEF OnTime, InOrder
<1>10. Ranked(s, P)
  BY <1>4, PlacesDiffer DEF Ranked, PlacesOff
<1>11. Early(s, P)
  BY <1>6 DEF Early
<1>12. Booting(s, P)
  BY <1>1, <1>4, Constants DEF Booting
<1>13. /\ \A t \in Tasks : P[t] # Limbo /\ (P[t] = Absent <=> t \notin s.live)
       /\ s.uxTasksDeleted = Len(s.terminated) /\ s.uxMissedTicks <= MaxMissed
  BY <1>1, <1>4, <1>6, Constants
<1>14. Settled(s, P, E)
  BY <1>1, <1>2, <1>4, <1>7, <1>8, <1>9, <1>10, <1>11, <1>12, <1>13 DEF Settled, Sched
<1> QED BY <1>14 DEF P, E, s

(* The invariant holds before anything ran.                                *)
LEMMA KernelInit ==
  ASSUME Init
  PROVE  KernelInv
<1> DEFINE P == [t \in Tasks |-> Absent]
           E == [t \in Tasks |-> Nothing]
<1>1. Settled(k, P, E)
  BY NoTasksSettled DEF Init
<1>2. /\ k.live = {} /\ k.xSchedulerRunning = FALSE /\ k.uxSchedulerSuspended = 0
      /\ k.delayed = <<>> /\ k.overflow = <<>> /\ k.xTickCount = 0 /\ k.uxMissedTicks = 0
      /\ k.pxCurrentTCB = idle
  BY DEF Init, NoTasks
<1>3. /\ \A t \in Tasks : frame[t] = AtRest
      /\ AtRest.at \notin SuspStages /\ AtRest.at # "inherit" /\ ~Creating(AtRest)
  BY RestRuns, RestCreates, StagesSuspend DEF Init
<1>4. Staged(P)
  BY <1>2, <1>3, Constants DEF Staged
<1>5. FramesCareful
  BY <1>3, RestIsCareful, Constants DEF FramesCareful, Init
<1>6. EmptyAtInherit /\ CreatesOK
  BY <1>3 DEF EmptyAtInherit, CreatesOK
<1> HIDE DEF P, E
<1>7. Sound(P, E)
  BY <1>1, <1>4, <1>5, <1>6, MutexInit DEF Sound
<1>8. LeftIs
  <2>a. <<>> \in Seq(Tasks)
    OBVIOUS
  <2>1. ToSet(<<>>) = {}
    BY Members, <2>a
  <2>2. Sleeping(k) = {}
    BY <1>2, <2>1 DEF Sleeping
  <2> QED BY <2>2 DEF LeftIs, Init
<1>9. TimeOK
  BY <1>2, TickSums, Constants DEF TimeOK, TicksNotLost, Init
<1>10. handed \in Items \cup {NoItem}
  BY DEF Init
<1> QED BY <1>7, <1>8, <1>9, <1>10 DEF KernelInv

(* Every step moves the lists of the scheduler as Moves says.              *)
LEMMA NextGoes ==
  ASSUME NEW P, NEW E, Sound(P, E), Next
  PROVE  Goes(P, E)
<1>1. ASSUME NEW t \in Tasks, CallStep(t) PROVE Goes(P, E)
  BY <1>1, SuspendGoes, LockGoes, CheckGoes, TestGoes, InheritGoes, PlaceGoes, UnlockGoes,
     ResumeGoes, YieldGoes DEF CallStep
<1>2. ASSUME NEW t \in Tasks, Call(t) PROVE Goes(P, E)
  BY <1>2, SendGoes, ReceiveGoes, DelayGoes, DelayUntilGoes, EndGoes, ResumeCallGoes, CreateGoes
     DEF Call
<1>3. CASE Interrupt
  BY <1>3, TickGoes, QueueInterruptGoes, ResumeInterruptGoes DEF Interrupt
<1> QED BY <1>1, <1>2, <1>3, BootGoes, IdleGoes, SwitchGoes DEF Next

(* What was known is known again.                                          *)
LEMMA SoundStep ==
  ASSUME NEW P, NEW E, Sound(P, E), Next, NEW Q, NEW F, NEW n, Moves(Q, F, P, E, n)
  PROVE  Sound(Q, F)'
<1>1. Settled(k', Q, F) /\ Staged(Q)'
  BY DEF Moves
<1>2. InTime
  <2>1. Settled(k, P, E)
    BY DEF Sound
  <2> QED BY <2>1, SettledNumbers DEF InTime, Typed
<1>3. MutexInv' /\ FramesCareful'
  BY <1>2, MutexStep, CarefulStep DEF Sound, MutexInv
<1>4. EmptyAtInherit'
  BY StaysEmpty DEF Sound
<1> QED BY <1>1, <1>3, <1>4, CreatesStep DEF Sound

(* Who sleeps, by the lists.                                               *)
LEMMA SleepersAre ==
  ASSUME NEW s, NEW P, NEW E, Settled(s, P, E)
  PROVE  Sleeping(s) = {t \in Tasks : P[t] \in Asleep}
BY SettledNumbers DEF Sleeping, Placed, Lists, Asleep

(* The ticks that a step processes.                                        *)
LEMMA TicksOfMove ==
  ASSUME NEW P, NEW E, Settled(k, P, E), NEW Q, NEW F, NEW n, Moves(Q, F, P, E, n)
  PROVE  TicksProcessed = n
<1>1. n \in Ticks /\ ClockMoved(k', k, n) /\ k.xTickCount \in Ticks /\ k'.xTickCount \in Ticks
  BY SettledNumbers DEF Moves, Typed, Ticks
<1>2. k'.xTickCount = IF k.xTickCount + n >= TickMod THEN k.xTickCount + n - TickMod
                      ELSE k.xTickCount + n
  BY <1>1 DEF ClockMoved
<1>3. TicksProcessed = IF k'.xTickCount >= k.xTickCount THEN k'.xTickCount - k.xTickCount
                       ELSE k'.xTickCount - k.xTickCount + TickMod
  BY <1>1, TickSums DEF TicksProcessed
<1> QED BY <1>1, <1>2, <1>3, Constants

(* The ghosts.                                                             *)
LEMMA LeftStep ==
  ASSUME NEW P, NEW E, Settled(k, P, E), LeftIs, Ghosts,
         NEW Q, NEW F, NEW n, Moves(Q, F, P, E, n)
  PROVE  LeftIs'
<1>1. Settled(k', Q, F)
  BY DEF Moves
<1>2. Sleeping(k) = {t \in Tasks : P[t] \in Asleep} /\ Sleeping(k') = {t \in Tasks : Q[t] \in Asleep}
  BY <1>1, SleepersAre
<1>3. left' = [t \in Tasks |->
           IF t \notin Sleeping(k') THEN 0
           ELSE IF t \notin Sleeping(k) THEN frame'[t].wait
           ELSE Max2(left[t] - n, 0)]
  BY TicksOfMove DEF Ghosts
<1>4. \A t \in Tasks : Q[t] \in Asleep =>
        IF P[t] \in Asleep THEN TicksTo(k', t) = TicksTo(k, t) - n
        ELSE frame'[t].wait = TicksTo(k', t)
  BY DEF Moves
<1>5. \A t \in Tasks : TicksTo(k', t) \in Int /\ TicksTo(k', t) >= 0
  <2> SUFFICES ASSUME NEW t \in Tasks PROVE TicksTo(k', t) \in Int /\ TicksTo(k', t) >= 0
    OBVIOUS
  <2>1. k'.wakeTime[t] - k'.xTickCount \in Int
    BY <1>1, SettledNumbers, Constants DEF Typed
  <2> QED BY <2>1, TickSums, Constants DEF TicksTo
<1> HIDE DEF TicksTo
<1>6. ASSUME NEW t \in Tasks
      PROVE  (IF t \notin Sleeping(k') THEN 0
              ELSE IF t \notin Sleeping(k) THEN frame'[t].wait ELSE Max2(left[t] - n, 0))
             = IF t \in Sleeping(k') THEN TicksTo(k', t) ELSE 0
  <2>1. CASE t \notin Sleeping(k') \/ t \notin Sleeping(k)
    BY <1>2, <1>4, <2>1
  <2>2. CASE t \in Sleeping(k') /\ t \in Sleeping(k)
    <3>1. TicksTo(k', t) = TicksTo(k, t) - n /\ left[t] = TicksTo(k, t)
      BY <1>2, <1>4, <2>2 DEF LeftIs
    <3>2. left[t] - n = TicksTo(k', t)
      BY <3>1
    <3>3. Max2(TicksTo(k', t), 0) = TicksTo(k', t)
      BY <1>5 DEF Max2
    <3> QED BY <2>2, <3>2, <3>3
  <2> QED BY <2>1, <2>2
<1>7. left' = [t \in Tasks |-> IF t \in Sleeping(k') THEN TicksTo(k', t) ELSE 0]
  BY <1>3, <1>6
<1> QED BY <1>7 DEF LeftIs, TicksTo, Sleeping

(* The tick count follows the clock, less the ticks that were missed.      *)
LEMMA TimeStep ==
  ASSUME NEW P, NEW E, Settled(k, P, E), TimeOK, Ghosts,
         NEW Q, NEW F, NEW n, Moves(Q, F, P, E, n)
  PROVE  TimeOK'
<1>1. /\ n \in 0 .. (TickMod - 1) /\ ClockMoved(k', k, n) /\ Settled(k', Q, F)
      /\ n + k'.uxMissedTicks = k.uxMissedTicks + (IF Ticked THEN 1 ELSE 0)
  BY DEF Moves
<1>2. /\ k.xTickCount \in Ticks /\ k'.xTickCount \in Ticks
      /\ k.uxMissedTicks \in Ticks /\ k'.uxMissedTicks \in Ticks
  <2>1. \A s, A, B : Settled(s, A, B) => s.xTickCount \in Ticks /\ s.uxMissedTicks \in Ticks
    BY SettledNumbers, Constants DEF Settled, Typed, Ticks
  <2> QED BY <1>1, <2>1
<1>3. clock' = IF Ticked THEN (clock + 1) % TickMod ELSE clock
  BY DEF Ghosts, Ticked
<1>4. clock \in Ticks /\ clock = IF k.xTickCount + k.uxMissedTicks >= TickMod
                                 THEN k.xTickCount + k.uxMissedTicks - TickMod
                                 ELSE k.xTickCount + k.uxMissedTicks
  BY <1>2, TickSums DEF TimeOK, TicksNotLost
<1>5. clock' = IF Ticked THEN IF clock + 1 = TickMod THEN 0 ELSE clock + 1 ELSE clock
  BY <1>3, <1>4, TickSums
<1>6. (k'.xTickCount + k'.uxMissedTicks) % TickMod
        = IF k'.xTickCount + k'.uxMissedTicks >= TickMod
          THEN k'.xTickCount + k'.uxMissedTicks - TickMod ELSE k'.xTickCount + k'.uxMissedTicks
  BY <1>2, TickSums
<1>7. k'.xTickCount = IF k.xTickCount + n >= TickMod THEN k.xTickCount + n - TickMod
                      ELSE k.xTickCount + n
  BY <1>1 DEF ClockMoved
<1>8. /\ \A x \in Ticks : x \in Nat /\ x < TickMod
      /\ TickMod \in Nat
  BY Constants
<1>9. (k'.xTickCount + k'.uxMissedTicks) % TickMod = clock'
  <2> DEFINE x == k.xTickCount
             m == k.uxMissedTicks
             x1 == k'.xTickCount
             m1 == k'.uxMissedTicks
             one == IF Ticked THEN 1 ELSE 0
             M == TickMod
  <2>1. one \in {0, 1}
    OBVIOUS
  <2>2. clock' = IF clock + one = M THEN 0 ELSE clock + one
    <3>1. CASE Ticked
      BY <3>1, <1>5
    <3>2. CASE ~Ticked
      <4>1. clock + one = clock /\ clock # M
        BY <3>2, <1>4, <1>8
      <4> QED BY <3>2, <4>1, <1>5
    <3> QED BY <3>1, <3>2
  <2>3. /\ x \in Nat /\ m \in Nat /\ x1 \in Nat /\ m1 \in Nat /\ n \in Nat
        /\ M \in Nat /\ clock \in Nat
    <3>1. n \in Nat
      BY <1>1
    <3>2. clock \in Nat
      BY <1>4, <1>8
    <3> QED BY <1>2, <1>8, <3>1, <3>2
  <2>4. x < M /\ m < M /\ x1 < M /\ m1 < M /\ n < M
    BY <1>1, <1>2, <1>8
  <2>5. n + m1 = m + one
    BY <1>1
  <2>6. clock = IF x + m >= M THEN x + m - M ELSE x + m
    BY <1>4
  <2>7. x1 = IF x + n >= M THEN x + n - M ELSE x + n
    BY <1>7
  <2> HIDE DEF x, m, x1, m1, one, M
  <2>8. (IF x1 + m1 >= M THEN x1 + m1 - M ELSE x1 + m1) = clock'
    BY <2>1, <2>2, <2>3, <2>4, <2>5, <2>6, <2>7
  <2> QED BY <2>8, <1>6 DEF x1, m1, M
<1>10. clock' \in Ticks
  BY <1>4, <1>5, Constants DEF Ticks
<1> QED BY <1>9, <1>10 DEF TimeOK, TicksNotLost

(* What a receive hands out is an item.                                    *)
LEMMA HandedStep ==
  ASSUME MutexInv, handed \in Items \cup {NoItem}, [Next]_vars
  PROVE  handed' \in Items \cup {NoItem}
<1>1. QueueStep
  BY NextIsQueueStep
<1>2. ASSUME NEW q \in Queues, QueueType[q] = "queue"
      PROVE  NextItem(queue[q].buf) \in Items \cup {NoItem}
  <2> DEFINE b == queue[q].buf
  <2>1. IsBuffer(b)
    BY <1>2, RingOf DEF MutexInv, QueuesOK
  <2> HIDE DEF b
  <2>2. NextSlot(b, b.pcReadFrom) \in Slots(b)
    BY <2>1, Numbers, NextToSlots
  <2>3. NextItem(b) \in Items \cup {NoItem}
    BY <2>1, <2>2, Numbers DEF NextItem
  <2> QED BY <2>3 DEF b
<1>3. handed' = handed \/ \E q \in Queues : QueueType[q] = "queue" /\ handed' = NextItem(queue[q].buf)
  BY <1>1 DEF QueueStep, Untouched, Puts, Takes, Peeks
<1> QED BY <1>2, <1>3

(* Every step keeps the invariant.                                         *)
LEMMA KernelStep ==
  ASSUME KernelInv, [Next]_vars
  PROVE  KernelInv'
<1>1. PICK P, E : Sound(P, E)
  BY DEF KernelInv
<1>2. Settled(k, P, E) /\ MutexInv
  BY <1>1 DEF Sound
<1>3. CASE Next
  <2>1. PICK Q, F, n : Moves(Q, F, P, E, n)
    BY <1>1, <1>3, NextGoes DEF Goes
  <2>2. Ghosts
    BY <1>3 DEF Next
  <2>3. Sound(Q, F)'
    BY <1>1, <1>3, <2>1, SoundStep
  <2> QED BY <1>2, <1>3, <2>1, <2>2, <2>3, LeftStep, TimeStep, HandedStep DEF KernelInv
<1>4. CASE UNCHANGED vars
  <2>1. /\ script' = script /\ k' = k /\ queue' = queue /\ frame' = frame /\ last' = last
        /\ handed' = handed /\ holds' = holds /\ clock' = clock /\ left' = left
    BY <1>4 DEF vars, ghosts
  <2>2. Sound(P, E)'
    <3>1. MutexInv'
      BY <1>2, <1>4, MutexStep
    <3> QED BY <1>1, <2>1, <3>1 DEF Sound, Staged, FramesCareful, EmptyAtInherit, CreatesOK
  <2>3. LeftIs' /\ TimeOK'
    BY <2>1 DEF KernelInv, LeftIs, TimeOK, TicksNotLost
  <2> QED BY <2>1, <2>2, <2>3 DEF KernelInv
<1> QED BY <1>3, <1>4

(* The invariant of the scheduler.                                         *)
LEMMA KernelInvariant == Spec => []KernelInv
BY KernelInit, KernelStep, PTL DEF Spec

-----------------------------------------------------------------------------
(* What the invariant says of the lists.                                   *)

(* A list of tasks, each once, is no longer than there are tasks.          *)
LEMMA ListsAreShort ==
  ASSUME NEW s, IsList(s)
  PROVE  s \in TaskSeqs /\ Len(s) \in 0 .. Cardinality(Tasks)
<1> DEFINE n == Len(s)
           D == 1 .. n
<1>1. /\ n \in Nat /\ DOMAIN s = D /\ s \in [D -> Tasks]
      /\ \A i, j \in D : s[i] = s[j] => i = j
  BY DEF IsList
<1>2. IsFiniteSet(Tasks)
  BY TasksAssumption
<1>3. s \in Injection(D, Tasks)
  BY <1>1 DEF Injection, IsInjective
<1> HIDE DEF n
<1>4. Cardinality(D) <= Cardinality(Tasks) /\ Cardinality(Tasks) \in Nat
  BY <1>2, <1>3, FS_Injection, FS_CardinalityType
<1>5. Cardinality(D) = n
  <2>1. Cardinality(D) = IF 1 > n THEN 0 ELSE n - 1 + 1
    BY <1>1, FS_Interval
  <2> QED BY <2>1, <1>1
<1>6. n \in 0 .. Cardinality(Tasks)
  BY <1>1, <1>4, <1>5
<1>7. s \in TaskSeqs
  BY <1>1, <1>6 DEF TaskSeqs
<1> QED BY <1>6, <1>7 DEF n

(* The invariant gives every variable its type.                            *)
LEMMA SoundIsTyped ==
  ASSUME NEW P, NEW E, Sound(P, E), clock \in Ticks, handed \in Items \cup {NoItem}
  PROVE  TypeOK
<1>1. /\ Settled(k, P, E) /\ Typed(k) /\ Placed(k, P, E) /\ QueuesOK /\ FramesOK
      /\ FramesCareful /\ holds \in [Tasks -> SUBSET Queues]
  BY SettledNumbers DEF Sound, MutexInv
<1>2. \A p \in Prios : k.ready[p] \in TaskSeqs
  BY <1>1, ListsAreShort DEF Placed, Lists
<1>3. \A l \in EventLists : k.event[l] \in TaskSeqs
  BY <1>1, ListsAreShort DEF Placed, Lists
<1>4. k.ready \in [Prios -> TaskSeqs] /\ k.event \in [EventLists -> TaskSeqs]
  BY <1>1, <1>2, <1>3 DEF Placed, IsOver
<1>5. {k.delayed, k.overflow, k.pending, k.terminated} \subseteq TaskSeqs
  BY <1>1, ListsAreShort DEF Placed, Lists
<1>6. k.uxTasksDeleted \in 0 .. Cardinality(Tasks)
  BY <1>1, ListsAreShort DEF Settled, Placed, Lists
<1>7. k.suspended \subseteq Tasks /\ k.live \subseteq Tasks
  BY <1>1 DEF Placed, Typed
<1>8. k.uxMissedTicks \in 0 .. MaxMissed
  <2>1. k.uxMissedTicks \in Nat
    BY <1>1 DEF Typed
  <2>2. k.uxMissedTicks <= MaxMissed
    BY <1>1 DEF Settled
  <2> QED BY <2>1, <2>2, Constants
<1>9. \A q \in Queues :
        /\ queue[q].buf \in Buffers(QueueLength[q])
        /\ queue[q].pxMutexHolder \in Tasks \cup {NoHolder}
        /\ {queue[q].xRxLock, queue[q].xTxLock} \subseteq -1 .. MaxLock
  BY <1>1 DEF QueuesOK, IsQueue, ControlBlocks
<1>10. \A t \in Tasks : frame[t].at \in Stages /\ frame[t].wait \in Ticks
  BY <1>1 DEF FramesOK, IsFrame, FramesCareful, IsCareful
<1>11. script \in Scripts /\ last \in [Tasks -> Ticks]
  BY <1>1 DEF FramesOK, FramesCareful
<1>12. k.uxSchedulerSuspended \in {0, 1}
  BY <1>1 DEF Settled
<1>13. /\ k.uxPriority \in [Tasks -> Prios] /\ k.uxBasePriority \in [Tasks -> Prios]
       /\ k.eventValue \in [Tasks -> 1 .. configMAX_PRIORITIES]
       /\ k.wakeTime \in [Tasks -> Ticks]
       /\ k.pxCurrentTCB \in Tasks /\ k.uxTopReadyPriority \in Prios
       /\ k.xTickCount \in Ticks /\ k.xNumOfOverflows \in 0 .. (OverflowMod - 1)
  BY <1>1 DEF Typed
<1> QED BY <1>1, <1>4, <1>5, <1>6, <1>7, <1>8, <1>9, <1>10, <1>11, <1>12, <1>13 DEF TypeOK

(* A set that names at most one thing.                                     *)
LEMMA AtMostOne ==
  /\ Cardinality({}) = 0
  /\ \A x : Cardinality({x}) = 1
BY FS_EmptySet, FS_Singleton

(* A live task is on one list of the scheduler, and another task on none.  *)
LEMMA OneGenericList ==
  ASSUME NEW P, NEW E, Settled(k, P, E), NEW t \in Tasks
  PROVE  Cardinality(GenericLists(t)) = IF t \in k.live THEN 1 ELSE 0
<1>1. /\ Placed(k, P, E) /\ P[t] \in Prios \cup PlacesOff /\ P[t] # Limbo
      /\ P[t] = Absent <=> t \notin k.live
  BY SettledNumbers DEF Placed, Somewhere, Settled
<1>2. /\ \A p \in Prios : t \in ToSet(k.ready[p]) <=> P[t] = p
      /\ t \in ToSet(k.delayed) <=> P[t] = Delayed
      /\ t \in ToSet(k.overflow) <=> P[t] = Overflowed
      /\ t \in k.suspended <=> P[t] = Suspended
      /\ t \in ToSet(k.terminated) <=> P[t] = Terminated
  BY <1>1 DEF Placed, Lists
<1>3. CASE P[t] \in Prios
  <2>1. P[t] \notin {Delayed, Overflowed, Suspended, Terminated, Absent}
    BY <1>3, PlacesDiffer DEF PlacesOff
  <2>2. GenericLists(t) = {<<"ready", P[t]>>}
    BY <1>2, <1>3, <2>1 DEF GenericLists
  <2> QED BY <1>1, <2>1, <2>2, AtMostOne
<1>4. CASE P[t] \in PlacesOff
  <2>1. \A p \in Prios : P[t] # p
    BY <1>4, PlacesDiffer
  <2>2. P[t] \in {Delayed, Overflowed, Suspended, Terminated, Absent}
    BY <1>1, <1>4 DEF PlacesOff
  <2>3. CASE P[t] = Delayed
    <3>1. P[t] \notin {Overflowed, Suspended, Terminated, Absent}
      BY <2>3, PlacesDiffer
    <3>2. GenericLists(t) = {"delayed"}
      BY <1>2, <2>1, <2>3, <3>1 DEF GenericLists
    <3> QED BY <1>1, <3>1, <3>2, AtMostOne
  <2>4. CASE P[t] = Overflowed
    <3>1. P[t] \notin {Delayed, Suspended, Terminated, Absent}
      BY <2>4, PlacesDiffer
    <3>2. GenericLists(t) = {"overflow"}
      BY <1>2, <2>1, <2>4, <3>1 DEF GenericLists
    <3> QED BY <1>1, <3>1, <3>2, AtMostOne
  <2>5. CASE P[t] = Suspended
    <3>1. P[t] \notin {Delayed, Overflowed, Terminated, Absent}
      BY <2>5, PlacesDiffer
    <3>2. GenericLists(t) = {"suspended"}
      BY <1>2, <2>1, <2>5, <3>1 DEF GenericLists
    <3> QED BY <1>1, <3>1, <3>2, AtMostOne
  <2>6. CASE P[t] = Terminated
    <3>1. P[t] \notin {Delayed, Overflowed, Suspended, Absent}
      BY <2>6, PlacesDiffer
    <3>2. GenericLists(t) = {"terminated"}
      BY <1>2, <2>1, <2>6, <3>1 DEF GenericLists
    <3> QED BY <1>1, <3>1, <3>2, AtMostOne
  <2>7. CASE P[t] = Absent
    <3>1. P[t] \notin {Delayed, Overflowed, Suspended, Terminated}
      BY <2>7, PlacesDiffer
    <3>2. GenericLists(t) = {}
      BY <1>2, <2>1, <3>1 DEF GenericLists
    <3> QED BY <1>1, <2>7, <3>2, AtMostOne
  <2> QED BY <2>2, <2>3, <2>4, <2>5, <2>6, <2>7
<1> QED BY <1>1, <1>3, <1>4

(* A task waits on one event list at most.                                 *)
LEMMA OneEventList ==
  ASSUME NEW P, NEW E, Settled(k, P, E), NEW t \in Tasks
  PROVE  /\ Cardinality(WaitsOn(t)) <= 1
         /\ E[t] = Nothing => WaitsOn(t) = {}
<1>1. Placed(k, P, E) /\ E[t] \in Waits
  BY SettledNumbers
<1>2. /\ \A l \in EventLists : t \in ToSet(k.event[l]) <=> E[t] = l
      /\ t \in ToSet(k.pending) <=> E[t] = Pending
  BY <1>1 DEF Placed, Lists
<1>3. CASE E[t] \in EventLists
  <2>1. E[t] # Pending /\ E[t] # Nothing
    BY <1>3, WaitsDiffer
  <2>2. {l \in EventLists : t \in ToSet(k.event[l])} = {E[t]}
    BY <1>2, <1>3
  <2>3. t \notin ToSet(k.pending)
    BY <1>2, <2>1
  <2>4. WaitsOn(t) = {E[t]}
    BY <2>2, <2>3, Zenon DEF WaitsOn
  <2>5. Cardinality(WaitsOn(t)) = 1
    BY <2>4, AtMostOne
  <2> QED BY <2>1, <2>5
<1>4. CASE E[t] = Pending
  <2>1. E[t] # Nothing /\ \A l \in EventLists : E[t] # l
    BY <1>4, WaitsDiffer
  <2>2. WaitsOn(t) = {"pending"}
    BY <1>2, <1>4, <2>1 DEF WaitsOn
  <2>3. Cardinality(WaitsOn(t)) = 1
    BY <2>2, AtMostOne
  <2> QED BY <2>1, <2>3
<1>5. CASE E[t] = Nothing
  <2>1. E[t] # Pending /\ \A l \in EventLists : E[t] # l
    BY <1>5, WaitsDiffer
  <2>2. WaitsOn(t) = {}
    BY <1>2, <2>1 DEF WaitsOn
  <2> QED BY <2>2, AtMostOne
<1> QED BY <1>1, <1>3, <1>4, <1>5 DEF Waits

(* The lists of a settled scheduler agree with each other.                 *)
LEMMA SettledIsConsistent ==
  ASSUME NEW P, NEW E, Settled(k, P, E)
  PROVE  ListsConsistent
<1>1. /\ Placed(k, P, E) /\ Ranked(k, P) /\ Typed(k) /\ P \in [Tasks -> Int]
      /\ \A t \in Tasks : E[t] # Nothing => P[t] \in Asleep \cup {Suspended}
      /\ k.uxTasksDeleted = Len(k.terminated)
      /\ k.uxSchedulerSuspended = 0 => \A t \in Tasks : E[t] # Pending
  BY SettledNumbers DEF Settled
<1>2. ASSUME NEW t \in Tasks
      PROVE  /\ \A p \in Prios : t \in ToSet(k.ready[p]) => p = k.uxPriority[t] /\ WaitsOn(t) = {}
             /\ t \in ToSet(k.terminated) => WaitsOn(t) = {}
  <2>1. \A p \in Prios : t \in ToSet(k.ready[p]) => P[t] = p
    BY <1>1 DEF Placed, Lists
  <2>2. t \in ToSet(k.terminated) => P[t] = Terminated
    BY <1>1 DEF Placed, Lists
  <2>3. ASSUME NEW p \in Prios, P[t] = p PROVE p = k.uxPriority[t] /\ E[t] = Nothing
    <3>1. p >= 0 /\ p \notin Asleep \cup {Suspended}
      BY Constants, PlacesDiffer DEF Asleep, PlacesOff
    <3> QED BY <1>1, <2>3, <3>1 DEF Ranked
  <2>4. P[t] = Terminated => E[t] = Nothing
    BY <1>1, PlacesDiffer DEF Asleep
  <2> QED BY <2>1, <2>2, <2>3, <2>4, OneEventList
<1>3. k.uxSchedulerSuspended = 0 => k.pending = <<>>
  <2>1. Lists(k.pending, E, Pending)
    BY <1>1 DEF Placed
  <2>2. k.uxSchedulerSuspended = 0 => ToSet(k.pending) = {}
    BY <1>1, <2>1 DEF Lists
  <2> QED BY <2>1, <2>2, Members DEF Lists, IsList
<1>4. \A t \in Tasks : k.uxPriority[t] \in Prios
  BY <1>1 DEF Typed
<1> QED BY <1>1, <1>2, <1>3, <1>4, OneGenericList, OneEventList DEF ListsConsistent

(* A list in the order of its values is sorted by them.                    *)
LEMMA InOrderIsSorted ==
  ASSUME NEW s, IsList(s), NEW value, InOrder(s, value)
  PROVE  \A i, j \in DOMAIN s : i < j => value[s[i]] <= value[s[j]]
BY DEF IsList, InOrder

(* The delayed lists are sorted, and wake each task when its delay is      *)
(* over.                                                                   *)
LEMMA DelaysInOrder ==
  ASSUME NEW P, NEW E, Settled(k, P, E), LeftIs
  PROVE  DelayListsOrdered
<1>1. /\ Placed(k, P, E) /\ OnTime(k) /\ Early(k, P) /\ Typed(k)
      /\ Lists(k.delayed, P, Delayed) /\ Lists(k.overflow, P, Overflowed)
  BY SettledNumbers DEF Settled, Placed
<1>2. /\ \A i, j \in DOMAIN k.delayed : i < j => k.wakeTime[k.delayed[i]] <= k.wakeTime[k.delayed[j]]
      /\ \A i, j \in DOMAIN k.overflow : i < j => k.wakeTime[k.overflow[i]] <= k.wakeTime[k.overflow[j]]
  BY <1>1, InOrderIsSorted DEF OnTime, Lists
<1>3. \A t \in ToSet(k.delayed) : k.wakeTime[t] > k.xTickCount
  BY <1>1 DEF Early, Lists
<1>4. \A t \in ToSet(k.overflow) : k.wakeTime[t] < k.xTickCount
  BY <1>1 DEF OnTime
<1>5. ASSUME NEW t \in Sleeping(k) PROVE left[t] > 0
  <2>1. t \in Tasks /\ t \in ToSet(k.delayed) \cup ToSet(k.overflow)
    BY <1>1 DEF Sleeping, Lists
  <2>2. left[t] = TicksTo(k, t)
    BY <2>1 DEF LeftIs
  <2>3. k.wakeTime[t] \in Ticks /\ k.xTickCount \in Ticks
    BY <1>1, <2>1 DEF Typed
  <2>4. TicksTo(k, t) = IF k.wakeTime[t] >= k.xTickCount THEN k.wakeTime[t] - k.xTickCount
                        ELSE k.wakeTime[t] - k.xTickCount + TickMod
    BY <2>3, TickSums DEF TicksTo
  <2>5. k.wakeTime[t] > k.xTickCount \/ k.wakeTime[t] < k.xTickCount
    BY <1>3, <1>4, <2>1
  <2>6. TicksTo(k, t) > 0
    BY <2>3, <2>4, <2>5, Constants
  <2> QED BY <2>2, <2>6
<1> QED BY <1>2, <1>3, <1>4, <1>5 DEF DelayListsOrdered

(* Whatever the applications call and however interrupts fall between the  *)
(* steps of their calls, the lists of the scheduler agree with each other, *)
(* with the priorities and with the time (tasks.c).                        *)
THEOREM ListsStaySound == Spec => []KernelSound
<1>1. ASSUME KernelInv PROVE KernelSound
  <2>1. PICK P, E : Sound(P, E)
    BY <1>1 DEF KernelInv
  <2>2. Settled(k, P, E)
    BY <2>1 DEF Sound
  <2>3. LeftIs /\ clock \in Ticks /\ TicksNotLost /\ handed \in Items \cup {NoItem}
    BY <1>1 DEF KernelInv, TimeOK
  <2> QED BY <2>1, <2>2, <2>3, SoundIsTyped, SettledIsConsistent, DelaysInOrder DEF KernelSound
<1> QED BY <1>1, KernelInvariant, PTL

-----------------------------------------------------------------------------
(* What a step does to the sleepers.                                       *)

(* A sleeper that a tick wakes has slept its time.                         *)
LEMMA StepWakesInTime ==
  ASSUME KernelInv, Next, NEW t \in Sleeping(k) \ Sleeping(k'), TicksProcessed > 0,
         t \notin ToSet(k.pending)
  PROVE  left[t] <= TicksProcessed
<1>1. PICK P, E : Sound(P, E)
  BY DEF KernelInv
<1>2. PICK Q, F, n : Moves(Q, F, P, E, n)
  BY <1>1, NextGoes DEF Goes
<1>3. Settled(k, P, E) /\ Settled(k', Q, F) /\ TicksProcessed = n
  BY <1>1, <1>2, TicksOfMove DEF Sound, Moves
<1>4. t \in Tasks /\ P[t] \in Asleep /\ Q[t] \notin Asleep
  BY <1>3, SleepersAre
<1>5. TicksTo(k, t) <= n
  BY <1>2, <1>3, <1>4 DEF Moves
<1>6. left[t] = TicksTo(k, t)
  BY <1>4 DEF KernelInv, LeftIs
<1> QED BY <1>3, <1>5, <1>6

(* The lists stand still for interrupts while the scheduler is suspended.  *)
LEMMA StepFreezesLists ==
  ASSUME KernelInv, Next, k.uxSchedulerSuspended > 0, frame' = frame
  PROVE  ListsSame
<1>1. PICK P, E : Sound(P, E)
  BY DEF KernelInv
<1>2. PICK Q, F, n : Moves(Q, F, P, E, n)
  BY <1>1, NextGoes DEF Goes
<1> QED BY <1>2 DEF Moves

(* No tick wakes a sleeper before its time, and no interrupt touches the   *)
(* ready and the delayed lists while a task has the scheduler suspended.   *)
THEOREM ListsChangeWhenTheyMay == Spec => ListsChangeInTime
<1>1. ASSUME KernelInv, [Next]_vars
      PROVE  [\A t \in Sleeping(k) \ Sleeping(k') :
                TicksProcessed > 0 /\ t \notin ToSet(k.pending) => left[t] <= TicksProcessed]_vars
  BY <1>1, StepWakesInTime
<1>2. ASSUME KernelInv, [Next]_vars
      PROVE  [k.uxSchedulerSuspended > 0 /\ frame' = frame =>
                /\ k'.ready = k.ready /\ k'.suspended = k.suspended
                /\ k'.delayed = k.delayed /\ k'.overflow = k.overflow]_vars
  BY <1>2, StepFreezesLists DEF ListsSame
<1>3. Spec => WokenInTime
  BY <1>1, KernelInvariant, PTL DEF Spec, WokenInTime
<1>4. Spec => ListsFrozen
  BY <1>2, KernelInvariant, PTL DEF Spec, ListsFrozen
<1> QED BY <1>3, <1>4 DEF ListsChangeInTime

-----------------------------------------------------------------------------
(* Calls that wait with a time-out.                                        *)

(* The tick count has not come round to the time noted in e since then.    *)
Behind(s, e) ==
  \/ s.xNumOfOverflows = e.xOverflowCount /\ s.xTickCount >= e.xTimeOnEntering
  \/ s.xTickCount < e.xTimeOnEntering

(* A call that has waited a ticks has counted no more than that: what it   *)
(* has taken off its wait, what has passed since it noted the time, and    *)
(* what is still to be processed.                                          *)
OfAge(s, f, a) ==
  /\ f.wait > 0 /\ f.wait <= f.call.wait /\ a \in 0 .. f.call.wait
  /\ f.then = "fail" => a >= f.call.wait
  /\ a < f.call.wait =>
       /\ f.call.wait - f.wait + Elapsed(s, f.entry) + s.uxMissedTicks <= a
       /\ Behind(s, f.entry)

Aged == \A t \in Tasks : IF frame[t].timed THEN OfAge(k, frame[t], age[t]) ELSE age[t] = 0

(* What a step may do to the frame of a task: nothing that its time-out    *)
(* depends on; it begins to wait; or it checks whether it is out of time.  *)
Keeps(f, g) ==
  /\ g.wait = f.wait /\ g.entry = f.entry /\ g.call = f.call /\ (g.timed <=> f.timed)
  /\ g.then = "fail" => f.then = "fail"

MayWait(c) ==
  /\ Enters(c.task, c)
  /\ IF c.op \in SendOps
     THEN IsFull(queue[c.on]) /\ (QueueType[c.on] = "mutex" => c.on \in holds[c.task])
     ELSE IsEmpty(queue[c.on]) /\ c.on \notin holds[c.task]

StartsToWait(f, g) ==
  /\ ~f.timed /\ g.timed /\ g.call.wait \in Ticks /\ g.wait = g.call.wait /\ g.wait # 0
  /\ g.entry = TimeOutState(k) /\ g.then # "fail" /\ MayWait(g.call)

Checks(f, g) ==
  LET r == xTaskCheckForTimeOut(k, f.entry, f.wait)
  IN  /\ f.timed /\ g.timed /\ g.call = f.call /\ g.wait = r.wait /\ g.entry = r.entry
      /\ g.then = IF r.expired THEN "fail" ELSE f.then

TimedStep(f, g) ==
  \/ ~g.timed
  \/ Keeps(f, g)
  \/ k' = k /\ k.uxSchedulerSuspended = 0 /\ StartsToWait(f, g)
  \/ k' = k /\ Checks(f, g)

TimedSteps == \A t \in Tasks : TimedStep(frame[t], frame'[t])

(* A frame that does not change.                                           *)
LEMMA KeepsItself ==
  ASSUME NEW f
  PROVE  TimedStep(f, f)
BY DEF TimedStep, Keeps

(* One frame changes.                                                      *)
LEMMA TimedAt ==
  ASSUME FramesOK, NEW t \in Tasks, NEW f, frame' = [frame EXCEPT ![t] = f],
         TimedStep(frame[t], f)
  PROVE  TimedSteps
BY OneFrame, KeepsItself DEF TimedSteps

(* A call returns.                                                         *)
LEMMA TimedReturn ==
  ASSUME FramesOK, NEW t \in Tasks, Return(t)
  PROVE  TimedSteps
<1>1. \A f : TimedStep(f, AtRest)
  BY DEF TimedStep, AtRest
<1> QED BY <1>1, TimedAt DEF Return

(* It goes on to another stage.                                            *)
LEMMA TimedGo ==
  ASSUME FramesOK, NEW t \in Tasks, NEW at, GoTo(t, at)
  PROVE  TimedSteps
<1> DEFINE f == [frame[t] EXCEPT !.at = at]
<1>1. IsFrame(t, frame[t])
  BY DEF FramesOK
<1>2. /\ f.wait = frame[t].wait /\ f.entry = frame[t].entry /\ f.call = frame[t].call
      /\ f.timed = frame[t].timed /\ f.then = frame[t].then
  BY <1>1 DEF IsFrame
<1>3. frame' = [frame EXCEPT ![t] = f]
  BY DEF GoTo
<1> HIDE DEF f
<1>4. TimedStep(frame[t], f)
  BY <1>2 DEF TimedStep, Keeps
<1> QED BY <1>3, <1>4, TimedAt

(* It waits, or begins to.                                                 *)
LEMMA TimedWait ==
  ASSUME NEW P, NEW E, Sound(P, E), NEW t \in Tasks, NEW c, Enters(t, c),
         c.op \in QueueOps, MayWait(c), WaitOrFail(t, c)
  PROVE  TimedSteps
<1> DEFINE f == IF frame[t].at = "ready" THEN [AtRest EXCEPT !.call = c, !.wait = c.wait]
                ELSE frame[t]
           f1 == IF f.timed THEN f ELSE [f EXCEPT !.timed = TRUE, !.entry = TimeOutState(k)]
           f2 == [f1 EXCEPT !.at = "suspend"]
<1>1. /\ Runs(t) /\ frame[t].at \in {"ready", "enter"} /\ FramesOK /\ IsFrame(t, frame[t])
      /\ k.uxSchedulerSuspended = 0 /\ k' = k
  <2>1. Runs(t) /\ frame[t].at \in {"ready", "enter"}
    BY DEF Enters
  <2> QED BY <2>1, RunningTask, StagesSuspend DEF WaitOrFail
<1>2. c \in Calls /\ c.wait \in Ticks
  BY <1>1, Entered, OnQueues
<1>3. CASE f.wait = 0
  <2>1. Return(t)
    BY <1>3 DEF WaitOrFail
  <2> QED BY <1>1, <2>1, TimedReturn
<1>4. CASE f.wait # 0
  <2>1. frame' = [frame EXCEPT ![t] = f2]
    BY <1>4 DEF WaitOrFail
  <2>2. CASE frame[t].at = "ready"
    <3>1. /\ f.wait = c.wait /\ f.call = c /\ ~f.timed /\ f.then = "return"
          /\ DOMAIN f = {"at", "call", "wait", "timed", "entry", "then"}
      BY <2>2 DEF AtRest
    <3>2. ~frame[t].timed
      BY <1>1, <2>2 DEF IsFrame, AtRest
    <3> HIDE DEF f
    <3>3. /\ f2.wait = f.wait /\ f2.call = f.call /\ f2.timed /\ f2.then = f.then
          /\ f2.entry = TimeOutState(k)
      BY <3>1
    <3> HIDE DEF f2
    <3>4. StartsToWait(frame[t], f2)
      BY <1>2, <1>4, <3>1, <3>2, <3>3 DEF StartsToWait
    <3> QED BY <1>1, <2>1, <3>4, TimedAt DEF TimedStep
  <2>3. CASE frame[t].at # "ready"
    <3>1. frame[t].timed /\ f = frame[t]
      BY <1>1, <2>3 DEF IsFrame
    <3>2. f2 = [frame[t] EXCEPT !.at = "suspend"]
      BY <3>1
    <3>3. GoTo(t, "suspend")
      BY <2>1, <3>2 DEF GoTo
    <3> QED BY <1>1, <3>3, TimedGo
  <2> QED BY <2>2, <2>3
<1> QED BY <1>3, <1>4

(* The steps of a call in progress.                                        *)
LEMMA TimedCallStep ==
  ASSUME NEW P, NEW E, Sound(P, E), NEW t \in Tasks, CallStep(t)
  PROVE  TimedSteps
<1>1. FramesOK /\ IsFrame(t, frame[t])
  BY DEF Sound, MutexInv, FramesOK
<1>2. CASE (\E at : GoTo(t, at)) \/ Return(t)
  BY <1>1, <1>2, TimedGo, TimedReturn
<1>3. CASE SuspendAll(t) \/ LockQueue(t) \/ InheritPriority(t) \/ PlaceOnEventList(t)
           \/ UnlockQueueTx(t) \/ UnlockQueueRx(t)
  BY <1>2, <1>3 DEF SuspendAll, LockQueue, InheritPriority, PlaceOnEventList, UnlockQueueTx,
     UnlockQueueRx
<1>4. CASE ResumeAll(t) \/ Yield(t)
  BY <1>2, <1>4 DEF ResumeAll, Yield
<1>5. CASE CheckForTimeOut(t)
  <2> DEFINE r == xTaskCheckForTimeOut(k, frame[t].entry, frame[t].wait)
             f == [frame[t] EXCEPT !.at = IF r.expired THEN "unlockTx" ELSE "test",
                         !.then = IF r.expired THEN "fail" ELSE @,
                         !.wait = r.wait, !.entry = r.entry]
  <2>1. frame' = [frame EXCEPT ![t] = f] /\ frame[t].at = "check" /\ k' = k
    BY <1>1, <1>5 DEF CheckForTimeOut, FramesOK, Reaches
  <2>2. frame[t].timed
    BY <1>1, <2>1 DEF IsFrame, QueueStages
  <2> HIDE DEF r
  <2>3. /\ f.call = frame[t].call /\ f.timed = frame[t].timed /\ f.wait = r.wait
        /\ f.entry = r.entry /\ f.then = IF r.expired THEN "fail" ELSE frame[t].then
    BY <1>1 DEF IsFrame
  <2> HIDE DEF f
  <2>4. Checks(frame[t], f)
    BY <2>2, <2>3 DEF Checks, r
  <2> QED BY <1>1, <2>1, <2>4, TimedAt DEF TimedStep
<1>6. CASE TestQueue(t)
  <2> DEFINE c == frame[t].call
             b == IF c.op \in SendOps THEN IsFull(queue[c.on]) ELSE IsEmpty(queue[c.on])
             h == QueueType[c.on] = "mutex" /\ c.op \in ReceiveOps
             f == [frame[t] EXCEPT
               !.at = IF ~b THEN "unlockTx" ELSE IF h THEN "inherit" ELSE "place",
               !.then = IF b THEN "block" ELSE "retry"]
  <2>1. frame' = [frame EXCEPT ![t] = f]
    BY <1>1, <1>6 DEF TestQueue, FramesOK
  <2> HIDE DEF b, h
  <2>2. /\ f.call = frame[t].call /\ f.timed = frame[t].timed /\ f.wait = frame[t].wait
        /\ f.entry = frame[t].entry /\ f.then # "fail"
    BY <1>1 DEF IsFrame
  <2> HIDE DEF f
  <2>3. Keeps(frame[t], f)
    BY <2>2 DEF Keeps
  <2> QED BY <1>1, <2>1, <2>3, TimedAt DEF TimedStep
<1> QED BY <1>3, <1>4, <1>5, <1>6 DEF CallStep

(* Calls.                                                                  *)
LEMMA TimedCall ==
  ASSUME NEW P, NEW E, Sound(P, E), NEW t \in Tasks, Call(t)
  PROVE  TimedSteps
<1>1. FramesOK /\ IsFrame(t, frame[t])
  BY DEF Sound, MutexInv, FramesOK
<1>2. ASSUME NEW u \in Tasks, NEW f, frame' = [frame EXCEPT ![u] = f], ~f.timed
      PROVE  TimedSteps
  BY <1>1, <1>2, TimedAt DEF TimedStep
<1>3. frame' = frame => TimedSteps
  BY KeepsItself DEF TimedSteps
<1>4. CASE xQueueGenericSend(t) \/ xQueueGenericReceive(t)
  <2>1. ASSUME NEW c, Enters(t, c) PROVE c.task = t
    BY <1>1, <2>1, Entered
  <2>2. CASE xQueueGenericSend(t)
    <3>1. PICK c : /\ c.op \in SendOps /\ Enters(t, c)
                   /\ QueueType[c.on] = "mutex" => c.on \in holds[t]
                   /\ (IsFull(queue[c.on]) /\ WaitOrFail(t, c)) \/ Return(t)
      BY <2>2 DEF xQueueGenericSend
    <3>2. c.op \in QueueOps /\ (IsFull(queue[c.on]) => MayWait(c))
      BY <2>1, <3>1 DEF MayWait, QueueOps
    <3> QED BY <1>1, <3>1, <3>2, TimedWait, TimedReturn
  <2>3. CASE xQueueGenericReceive(t)
    <3>1. PICK c : /\ c.op \in ReceiveOps /\ Enters(t, c) /\ c.on \notin holds[t]
                   /\ (IsEmpty(queue[c.on]) /\ WaitOrFail(t, c)) \/ Return(t)
      BY <2>3 DEF xQueueGenericReceive
    <3>2. c.op \in QueueOps /\ (IsEmpty(queue[c.on]) => MayWait(c))
      BY <2>1, <3>1 DEF MayWait, QueueOps, SendOps, ReceiveOps
    <3> QED BY <1>1, <3>1, <3>2, TimedWait, TimedReturn
  <2> QED BY <1>4, <2>2, <2>3
<1>5. ASSUME NEW c, NEW then, Suspends(t, c, then) PROVE TimedSteps
  <2> DEFINE f == [AtRest EXCEPT !.at = "suspend", !.call = c, !.then = then]
  <2>1. ~f.timed
    BY DEF AtRest
  <2>2. frame' = [frame EXCEPT ![t] = f]
    BY <1>5 DEF Suspends
  <2> HIDE DEF f
  <2> QED BY <1>2, <2>1, <2>2
<1>6. CASE vTaskDelay(t)
  <2> DEFINE f(c) == [AtRest EXCEPT
                       !.at = "suspend", !.call = c, !.wait = c.wait, !.then = "block"]
  <2>1. \A c : ~f(c).timed
    BY DEF AtRest
  <2>2. \/ frame' = frame
        \/ \E c : frame' = [frame EXCEPT ![t] = f(c)]
        \/ GoTo(t, "resume")
    BY Zenon, <1>6 DEF vTaskDelay
  <2> HIDE DEF f
  <2> QED BY <1>1, <1>2, <1>3, <2>1, <2>2, TimedGo
<1>7. CASE vTaskDelayUntil(t)
  <2>1. ASSUME NEW n, frame[t].call.op = "delayUntil",
               frame' = [frame EXCEPT ![t].at = "resume", ![t].wait = n]
        PROVE  TimedSteps
    <3> DEFINE f == [frame[t] EXCEPT !.at = "resume", !.wait = n]
    <3>1. f.timed = frame[t].timed
      BY <1>1 DEF IsFrame
    <3>2. frame' = [frame EXCEPT ![t] = f]
      BY <1>1, <2>1 DEF FramesOK
    <3>3. ~frame[t].timed
      BY <1>1, <2>1 DEF IsFrame, QueueOps, SendOps, ReceiveOps
    <3> HIDE DEF f
    <3> QED BY <1>2, <3>1, <3>2, <3>3
  <2> QED BY <1>5, <1>7, <2>1 DEF vTaskDelayUntil
<1>8. CASE vTaskSuspend(t) \/ vTaskResumeCall(t) \/ vTaskDelete(t)
  <2> DEFINE f(c) == [AtRest EXCEPT !.at = "yield", !.call = c]
  <2>1. \A c : ~f(c).timed
    BY DEF AtRest
  <2>2. ~AtRest.timed
    BY DEF AtRest
  <2> DEFINE Named(c) == c \in script.calls /\ c.op \in {"suspend", "resume", "delete"}
             Resumes(c) == \/ frame' = frame
                         \/ frame' = [frame EXCEPT ![t] = f(c)]
                         \/ frame' = [frame EXCEPT ![c.on] = f(c)]
                         \/ frame' = [frame EXCEPT ![c.on] = AtRest]
  <2>3. PICK c : Named(c) /\ Resumes(c)
    <3>1. vTaskSuspend(t) => \E c : Named(c) /\ Resumes(c)
      BY Zenon DEF vTaskSuspend
    <3>2. vTaskResumeCall(t) => \E c : Named(c) /\ Resumes(c)
      BY Zenon DEF vTaskResumeCall
    <3>3. vTaskDelete(t) => \E c : Named(c) /\ Resumes(c)
      BY Zenon DEF vTaskDelete
    <3> HIDE DEF Named, Resumes
    <3> QED BY <1>8, <3>1, <3>2, <3>3
  <2>4. c \in Calls
    BY <1>1, <2>3, ScriptsAssumption DEF FramesOK
  <2>5. c.on \in Tasks
    BY <2>3, <2>4 DEF Calls, SendOps, ReceiveOps, TaskOps, DelayOps
  <2> HIDE DEF f
  <2> QED BY <1>2, <1>3, <2>1, <2>2, <2>3, <2>5
<1>9. CASE xTaskCreateCall(t)
  <2>1. ASSUME frame[t].call.op = "create",
               frame' = [frame EXCEPT ![t].at = "yield", ![t].then = "create"]
        PROVE  TimedSteps
    <3> DEFINE f == [frame[t] EXCEPT !.at = "yield", !.then = "create"]
    <3>1. f.timed = frame[t].timed
      BY <1>1 DEF IsFrame
    <3>2. frame' = [frame EXCEPT ![t] = f]
      BY <1>1, <2>1 DEF FramesOK
    <3>3. ~frame[t].timed
      BY <1>1, <2>1 DEF IsFrame, QueueOps, SendOps, ReceiveOps
    <3> HIDE DEF f
    <3> QED BY <1>2, <3>1, <3>2, <3>3
  <2>2. Return(t) => TimedSteps
    BY <1>1, TimedReturn
  <2> QED BY <1>5, <1>9, <2>1, <2>2 DEF xTaskCreateCall
<1> QED BY <1>4, <1>6, <1>7, <1>8, <1>9 DEF Call

(* The idle task.                                                          *)
LEMMA TimedIdle ==
  ASSUME FramesOK, prvIdleTask
  PROVE  TimedSteps
<1> DEFINE f == [AtRest EXCEPT !.at = "suspend", !.call = IdleCall, !.then = "work"]
           g == [AtRest EXCEPT !.at = "suspend", !.call = IdleCall]
           u == Head(k.terminated)
<1>1. ~AtRest.timed /\ ~f.timed /\ ~g.timed /\ idle \in Tasks
  BY Constants DEF AtRest
<1>2. \/ frame' = [frame EXCEPT ![idle] = f]
      \/ frame' = [frame EXCEPT ![u] = AtRest, ![idle] = g]
  BY DEF prvIdleTask, Suspends
<1> HIDE DEF f, g, u
<1>3. \A t \in Tasks : frame'[t] \in {frame[t], f, g, AtRest}
  BY <1>1, <1>2 DEF FramesOK
<1> QED BY <1>1, <1>3, KeepsItself DEF TimedSteps, TimedStep

(* Every step.                                                             *)
LEMMA TimedNext ==
  ASSUME NEW P, NEW E, Sound(P, E), Next
  PROVE  TimedSteps
<1>1. FramesOK
  BY DEF Sound, MutexInv
<1>2. CASE Boot \/ xPortPendSVHandler \/ Interrupt
  <2>1. frame' = frame
    BY <1>2 DEF Boot, xPortPendSVHandler, Interrupt, xPortSysTickHandler,
                xQueueGenericSendFromISR, xQueueReceiveFromISR, ResumeFromISR
  <2> QED BY <2>1, KeepsItself DEF TimedSteps
<1> QED BY <1>1, <1>2, TimedCallStep, TimedCall, TimedIdle DEF Next

(* The ticks since a time, when a few more are processed.                  *)
LEMMA MoreElapsed ==
  ASSUME NEW s, NEW r, NEW e, NEW n \in 0 .. (TickMod - 1), ClockMoved(r, s, n),
         s.xTickCount \in Ticks, r.xTickCount \in Ticks, e.xTimeOnEntering \in Ticks,
         Elapsed(s, e) + n < TickMod, Behind(s, e)
  PROVE  Elapsed(r, e) = Elapsed(s, e) + n /\ Behind(r, e) /\ Elapsed(s, e) \in Nat
<1> DEFINE x == s.xTickCount
           y == r.xTickCount
           z == e.xTimeOnEntering
           M == TickMod
           a == Elapsed(s, e)
           b == Elapsed(r, e)
<1>1. /\ a = IF x >= z THEN x - z ELSE x - z + M
      /\ b = IF y >= z THEN y - z ELSE y - z + M
  BY TickSums DEF Elapsed
<1>2. /\ M \in Nat /\ x \in Nat /\ y \in Nat /\ z \in Nat /\ n \in Nat
      /\ x < M /\ y < M /\ z < M /\ n < M
  BY Constants DEF Ticks
<1>3. IF x + n >= M THEN y = x + n - M
      ELSE y = x + n /\ r.xNumOfOverflows = s.xNumOfOverflows
  BY DEF ClockMoved
<1>4. x < z \/ (x >= z /\ s.xNumOfOverflows = e.xOverflowCount)
  BY <1>2 DEF Behind
<1>5. a + n < M
  OBVIOUS
<1> HIDE DEF x, y, z, M, a, b
<1>6. a \in Nat
  BY <1>1, <1>2
<1>7. CASE x < z
  <2>1. x + n < z
    BY <1>1, <1>2, <1>5, <1>7
  <2>2. y = x + n /\ y < z
    BY <1>2, <1>3, <2>1
  <2>3. b = a + n
    BY <1>1, <1>2, <1>7, <2>1, <2>2
  <2>4. Behind(r, e)
    BY <2>2 DEF Behind, y, z
  <2> QED BY <1>6, <2>3, <2>4 DEF a, b
<1>8. CASE x >= z /\ s.xNumOfOverflows = e.xOverflowCount
  <2>1. CASE x + n >= M
    <3>1. y = x + n - M /\ y < z
      BY <1>1, <1>2, <1>3, <1>5, <1>8, <2>1
    <3>2. b = a + n
      BY <1>1, <1>2, <1>8, <3>1
    <3>3. Behind(r, e)
      BY <3>1 DEF Behind, y, z
    <3> QED BY <1>6, <3>2, <3>3 DEF a, b
  <2>2. CASE ~(x + n >= M)
    <3>1. y = x + n /\ y >= z /\ r.xNumOfOverflows = e.xOverflowCount
      BY <1>2, <1>3, <1>8, <2>2
    <3>2. b = a + n
      BY <1>1, <1>2, <1>8, <3>1
    <3>3. Behind(r, e)
      BY <3>1 DEF Behind, y, z
    <3> QED BY <1>6, <3>2, <3>3 DEF a, b
  <2> QED BY <2>1, <2>2
<1> QED BY <1>4, <1>7, <1>8

(* A frame that keeps its time-out, while n ticks are processed and one    *)
(* may be counted.                                                         *)
LEMMA KeepsAge ==
  ASSUME NEW s, NEW r, NEW n \in 0 .. (TickMod - 1), ClockMoved(r, s, n), NEW one \in {0, 1},
         s.xTickCount \in Ticks, r.xTickCount \in Ticks,
         s.uxMissedTicks \in Nat, r.uxMissedTicks \in Nat,
         n + r.uxMissedTicks = s.uxMissedTicks + one,
         NEW f, f.entry.xTimeOnEntering \in Ticks, f.wait \in Ticks, f.call.wait \in Ticks,
         NEW a, OfAge(s, f, a), NEW g, Keeps(f, g)
  PROVE  OfAge(r, g, IF a < f.call.wait THEN a + one ELSE a)
<1> DEFINE C == f.call.wait
           W == f.wait
           x == Elapsed(s, f.entry)
           y == Elapsed(r, f.entry)
           m == s.uxMissedTicks
           m1 == r.uxMissedTicks
           a1 == IF a < C THEN a + one ELSE a
<1>1. /\ C \in Nat /\ W \in Nat /\ C < TickMod /\ m \in Nat /\ m1 \in Nat /\ TickMod \in Nat
      /\ n \in Nat
  BY Constants DEF Ticks
<1>2. W > 0 /\ W <= C /\ a \in 0 .. C /\ (f.then = "fail" => a >= C)
  BY DEF OfAge
<1>3. a < C => C - W + x + m <= a /\ Behind(s, f.entry)
  BY DEF OfAge
<1>4. g.wait = W /\ g.call.wait = C /\ g.entry = f.entry /\ (g.then = "fail" => f.then = "fail")
  BY DEF Keeps
<1>5. n + m1 = m + one
  OBVIOUS
<1>a. x \in Nat
  <2>1. s.xTickCount - f.entry.xTimeOnEntering \in Int
    BY Constants DEF Ticks
  <2>2. x \in Ticks
    BY <2>1, TickSums DEF Elapsed
  <2> QED BY <2>2, Constants DEF Ticks
<1> HIDE DEF C, W, x, y, m, m1
<1>6. a1 \in 0 .. C /\ (f.then = "fail" => a1 >= C)
  BY <1>1, <1>2
<1>7. ASSUME a1 < C PROVE C - W + y + m1 <= a1 /\ Behind(r, f.entry)
  <2>1. a < C /\ a1 = a + one
    BY <1>2, <1>7
  <2>2. C - W + x + m <= a /\ Behind(s, f.entry)
    BY <1>3, <2>1
  <2>3. x + n + m1 <= a1
    BY <1>1, <1>2, <1>5, <1>a, <2>1, <2>2
  <2>4. x + n < TickMod
    BY <1>1, <1>2, <1>7, <1>a, <2>1, <2>3
  <2>5. y = x + n /\ Behind(r, f.entry)
    BY <2>2, <2>4, MoreElapsed DEF x, y
  <2>6. C - W + y + m1 <= a1
    BY <1>1, <1>2, <1>5, <1>a, <2>1, <2>2, <2>5
  <2> QED BY <2>5, <2>6
<1> HIDE DEF a1
<1>8. OfAge(r, g, a1)
  BY <1>2, <1>4, <1>6, <1>7 DEF OfAge, y, m1
<1> QED BY <1>8 DEF a1, C

(* xTaskCheckForTimeOut finds that time is out only when it is, and takes  *)
(* what has passed off the wait once.                                      *)
LEMMA ChecksAge ==
  ASSUME k.xTickCount \in Ticks, k.uxMissedTicks \in Nat,
         NEW f, f.entry.xTimeOnEntering \in Ticks, f.wait \in Ticks, f.call.wait \in Ticks,
         NEW a, OfAge(k, f, a), NEW g, Checks(f, g)
  PROVE  OfAge(k, g, a)
<1> DEFINE C == f.call.wait
           W == f.wait
           x == Elapsed(k, f.entry)
           m == k.uxMissedTicks
           r == xTaskCheckForTimeOut(k, f.entry, W)
           now == TimeOutState(k)
<1>1. C \in Nat /\ W \in Nat /\ m \in Nat
  BY Constants DEF Ticks
<1>2. x \in Nat
  <2>1. k.xTickCount - f.entry.xTimeOnEntering \in Int
    BY Constants DEF Ticks
  <2>2. x \in Ticks
    BY <2>1, TickSums DEF Elapsed
  <2> QED BY <2>2, Constants DEF Ticks
<1>3. /\ W > 0 /\ W <= C /\ a \in 0 .. C /\ (f.then = "fail" => a >= C)
      /\ a < C => C - W + x + m <= a /\ Behind(k, f.entry)
  BY DEF OfAge
<1>4. /\ g.wait = r.wait /\ g.call.wait = C /\ g.entry = r.entry
      /\ g.then = IF r.expired THEN "fail" ELSE f.then
  BY DEF Checks
<1>5. Elapsed(k, now) = 0 /\ Behind(k, now)
  <2>1. now.xTimeOnEntering = k.xTickCount /\ now.xOverflowCount = k.xNumOfOverflows
    BY DEF TimeOutState
  <2> HIDE DEF now
  <2>2. Elapsed(k, now) = 0
    <3>1. \A i, j \in Ticks : i = j => (i - j) % TickMod = 0
      BY TickSums, Constants
    <3> QED BY <2>1, <3>1 DEF Elapsed
  <2> QED BY <2>1, <2>2, Constants DEF Behind
<1>6. CASE W = portMAX_DELAY
  <2>1. ~r.expired /\ r.wait = W /\ r.entry = f.entry
    BY <1>6 DEF xTaskCheckForTimeOut
  <2> HIDE DEF r
  <2> QED BY <1>3, <1>4, <2>1 DEF OfAge
<1> DEFINE out == \/ k.xNumOfOverflows # f.entry.xOverflowCount
                      /\ k.xTickCount >= f.entry.xTimeOnEntering
                  \/ x >= W
<1>7. CASE W # portMAX_DELAY /\ out
  <2>1. r.expired /\ r.wait = W /\ r.entry = f.entry
    BY <1>7 DEF xTaskCheckForTimeOut
  <2>2. Behind(k, f.entry) => x >= W
    BY <1>7, Constants DEF Behind
  <2> HIDE DEF r, out, x
  <2>3. ASSUME a < C PROVE FALSE
    <3>1. x >= W /\ C - W + x + m <= a
      BY <1>3, <2>2, <2>3
    <3> HIDE DEF C, W, m
    <3> QED BY <1>1, <1>2, <1>3, <2>3, <3>1
  <2>4. a >= C
    BY <1>1, <1>3, <2>3
  <2> QED BY <1>3, <1>4, <2>1, <2>3, <2>4 DEF OfAge
<1>8. CASE W # portMAX_DELAY /\ ~out
  <2>1. ~r.expired /\ r.wait = W - x /\ r.entry = now /\ ~(x >= W)
    BY <1>8 DEF xTaskCheckForTimeOut
  <2> HIDE DEF r, out, x, now
  <2>2. W - x > 0 /\ W - x <= C
    BY <1>1, <1>2, <1>3, <2>1
  <2>3. a < C => C - (W - x) + 0 + m <= a
    <3> HIDE DEF C, W, m
    <3> QED BY <1>1, <1>2, <1>3
  <2> QED BY <1>3, <1>4, <1>5, <2>1, <2>2, <2>3 DEF OfAge
<1> QED BY <1>6, <1>7, <1>8

(* A call that begins to wait has waited no time.                          *)
LEMMA BeginsAge ==
  ASSUME k.xTickCount \in Ticks, k.uxMissedTicks = 0, NEW f, NEW g, StartsToWait(f, g)
  PROVE  OfAge(k, g, 0)
<1> DEFINE now == TimeOutState(k)
<1>1. Elapsed(k, now) = 0 /\ Behind(k, now)
  <2>1. now.xTimeOnEntering = k.xTickCount /\ now.xOverflowCount = k.xNumOfOverflows
    BY DEF TimeOutState
  <2> HIDE DEF now
  <2>2. Elapsed(k, now) = 0
    <3>1. \A i, j \in Ticks : i = j => (i - j) % TickMod = 0
      BY TickSums, Constants
    <3> QED BY <2>1, <3>1 DEF Elapsed
  <2> QED BY <2>1, <2>2, Constants DEF Behind
<1>2. /\ g.call.wait \in Nat /\ g.call.wait > 0 /\ g.wait = g.call.wait
      /\ g.entry = now /\ g.then # "fail"
  BY Constants DEF StartsToWait, Ticks
<1> HIDE DEF now
<1>3. g.call.wait - g.call.wait + 0 + 0 <= 0
  BY <1>2
<1> QED BY <1>1, <1>2, <1>3 DEF OfAge

(* Every call that waits is of its age.                                    *)
LEMMA AgedInit ==
  ASSUME Init
  PROVE  Aged
BY DEF Init, Aged, AtRest

(* Every step keeps the ages of the waits.                                 *)
LEMMA AgedStep ==
  ASSUME KernelInv, Aged, Next
  PROVE  Aged'
<1>1. PICK P, E : Sound(P, E)
  BY DEF KernelInv
<1>2. PICK Q, F, n : Moves(Q, F, P, E, n)
  BY <1>1, NextGoes DEF Goes
<1>3. /\ Settled(k, P, E) /\ Settled(k', Q, F) /\ n \in 0 .. (TickMod - 1) /\ ClockMoved(k', k, n)
      /\ n + k'.uxMissedTicks = k.uxMissedTicks + (IF Ticked THEN 1 ELSE 0)
  BY <1>1, <1>2 DEF Sound, Moves
<1>4. /\ k.xTickCount \in Ticks /\ k'.xTickCount \in Ticks
      /\ k.uxMissedTicks \in Nat /\ k'.uxMissedTicks \in Nat
      /\ k.uxSchedulerSuspended = 0 => k.uxMissedTicks = 0
  BY <1>3, SettledNumbers DEF Typed, Settled
<1>5. FramesOK /\ FramesCareful
  BY <1>1 DEF Sound, MutexInv
<1>6. TimedSteps
  BY <1>1, TimedNext
<1> DEFINE one == IF Ticked THEN 1 ELSE 0
<1>7. \A t \in Tasks : age'[t] = IF ~frame'[t].timed THEN 0
                                 ELSE IF age[t] < frame[t].call.wait THEN age[t] + one ELSE age[t]
  <2>1. \A t \in Tasks : age'[t] = IF ~frame'[t].timed THEN 0
                                   ELSE IF Ticked /\ age[t] < frame[t].call.wait THEN age[t] + 1
                                   ELSE age[t]
    <3>1. Ghosts
      BY DEF Next
    <3> QED BY <3>1 DEF Ghosts, Ticked
  <2>2. \A t \in Tasks : age[t] \in Int
    BY DEF Aged, OfAge
  <2>3. CASE Ticked
    BY <2>1, <2>3
  <2>4. CASE ~Ticked
    BY <2>1, <2>2, <2>4
  <2> QED BY <2>3, <2>4
<1>8. k' = k => one = 0
  BY <1>4 DEF Ticked
<1>9. one \in {0, 1} /\ n + k'.uxMissedTicks = k.uxMissedTicks + one
  BY <1>3
<1> HIDE DEF one
<1> SUFFICES ASSUME NEW t \in Tasks, frame'[t].timed PROVE OfAge(k', frame'[t], age'[t])
  BY <1>7 DEF Aged
<1>a. frame[t].timed => /\ OfAge(k, frame[t], age[t]) /\ frame[t].wait \in Ticks
                         /\ frame[t].entry.xTimeOnEntering \in Ticks
                         /\ frame[t].call.wait \in Ticks
  <2>1. IsFrame(t, frame[t]) /\ IsCareful(frame[t])
    BY <1>5 DEF FramesOK, FramesCareful
  <2>2. ASSUME frame[t].timed PROVE frame[t].call.wait \in Ticks
    <3>1. frame[t].call.op \in QueueOps /\ frame[t].at # "ready"
      BY <2>1, <2>2 DEF IsFrame, AtRest
    <3>2. t # idle
      BY <2>1, <3>1 DEF IsFrame, IdleCall, QueueOps, SendOps, ReceiveOps
    <3>3. frame[t].call \in Calls
      BY <2>1, <3>1, <3>2 DEF IsFrame
    <3> QED BY <3>1, <3>3, OnQueues
  <2> QED BY <2>1, <2>2 DEF Aged, IsCareful
<1>b. TimedStep(frame[t], frame'[t])
  BY <1>6 DEF TimedSteps
<1>c. age'[t] = IF age[t] < frame[t].call.wait THEN age[t] + one ELSE age[t]
  BY <1>7
<1>d. CASE Keeps(frame[t], frame'[t])
  <2>1. frame[t].timed
    BY <1>d DEF Keeps
  <2>2. OfAge(k', frame'[t], IF age[t] < frame[t].call.wait THEN age[t] + one ELSE age[t])
    BY <1>3, <1>4, <1>9, <1>a, <1>d, <2>1, KeepsAge
  <2> QED BY <1>c, <2>2
<1>e. CASE k' = k /\ k.uxSchedulerSuspended = 0 /\ StartsToWait(frame[t], frame'[t])
  <2>1. age[t] = 0 /\ one = 0
    BY <1>8, <1>e DEF StartsToWait, Aged
  <2>2. age'[t] = 0
    BY <1>c, <2>1
  <2> QED BY <1>4, <1>e, <2>2, BeginsAge
<1>f. CASE k' = k /\ Checks(frame[t], frame'[t])
  <2>1. frame[t].timed /\ one = 0
    BY <1>8, <1>f DEF Checks
  <2>2. OfAge(k, frame'[t], age[t]) /\ age[t] \in Nat
    BY <1>4, <1>a, <1>f, <2>1, ChecksAge DEF OfAge
  <2>3. age'[t] = age[t]
    BY <1>c, <2>1, <2>2
  <2> QED BY <1>f, <2>2, <2>3
<1> QED BY <1>b, <1>d, <1>e, <1>f DEF TimedStep

(* A call that waits fails only when it has waited for as long as it was   *)
(* told to, however often it was woken and lost the race for the queue     *)
(* (queue.c, xTaskCheckForTimeOut of tasks.c).                             *)
THEOREM NoCallFailsEarly == Spec => TimedOutFully
<1>1. Spec => []Aged
  <2>1. ASSUME KernelInv, Aged, [Next]_vars PROVE Aged'
    <3>1. CASE UNCHANGED vars
      <4>1. k' = k /\ frame' = frame /\ age' = age
        BY <3>1 DEF vars, ghosts
      <4> QED BY <2>1, <4>1 DEF Aged
    <3> QED BY <2>1, <3>1, AgedStep
  <2> QED BY <2>1, AgedInit, KernelInvariant, PTL DEF Spec
<1>2. ASSUME KernelInv, Aged, NEW t \in Tasks, frame[t].then = "fail"
      PROVE  age[t] >= frame[t].call.wait
  <2>1. IsFrame(t, frame[t])
    BY <1>2 DEF KernelInv, Sound, MutexInv, FramesOK
  <2>2. frame[t].timed
    BY <1>2, <2>1 DEF IsFrame
  <2> QED BY <1>2, <2>2 DEF Aged, OfAge
<1>3. ASSUME KernelInv, Aged, [Next]_vars
      PROVE  [\A t \in Tasks :
                frame[t].then = "fail" /\ frame'[t] = AtRest => age[t] >= frame[t].call.wait]_vars
  BY <1>2, <1>3
<1> QED BY <1>1, <1>3, KernelInvariant, PTL DEF Spec, TimedOutFully

-----------------------------------------------------------------------------
(* Who is on its way.                                                      *)

(* The two sides of a queue: senders wait for free slots and receivers for *)
(* items.  An item a handler sends to a locked queue is counted in xTxLock, *)
(* a slot it frees in xRxLock, for the unlock to wake a waiter for each.   *)
Sides == {"send", "receive"}
Ops(side) == IF side = "send" THEN SendOps ELSE ReceiveOps
ListOf(q, side) == IF side = "send" THEN ToSend(q) ELSE ToReceive(q)
Offer(Q, side) ==
  IF side = "send" THEN Q.buf.uxLength - Q.buf.uxMessagesWaiting ELSE Q.buf.uxMessagesWaiting
LockOf(Q, side) == IF side = "send" THEN Q.xRxLock ELSE Q.xTxLock
Counted(lock) == IF lock = queueUNLOCKED THEN 0 ELSE lock
Margin(Q, side) == Offer(Q, side) - Counted(LockOf(Q, side))

(* The stages from which a call looks at its queue again.                  *)
Looks(f) ==
  \/ f.at \in {"yield", "enter"}
  \/ f.at \in {"unlockTx", "unlockRx", "resume"} /\ f.then \in {"block", "retry"}

InCall(f, q, side) == f.call.op \in Ops(side) /\ f.call.on = q

Coming(q, side) ==
  {t \in Tasks : InCall(frame[t], q, side) /\ Looks(frame[t]) /\ NotListed(k, t)}

(* Who waits on an event list is in the call the list is for.              *)
WaitersLook ==
  \A q \in Queues, side \in Sides : \A t \in ToSet(k.event[ListOf(q, side)]) :
    InCall(frame[t], q, side) /\ Looks(frame[t])

(* While a call looks whether to block, its queue is locked, and what      *)
(* comes in meanwhile is counted.                                          *)
LockStages == {"check", "test", "inherit", "place"}
IsLocked(f, Q) ==
  /\ Q.xTxLock >= 0 /\ Q.xRxLock >= 0
  /\ f.at \in {"inherit", "place"} =>
       \A side \in Sides : f.call.op \in Ops(side) => Offer(Q, side) <= LockOf(Q, side)
QueuesLocked ==
  \A t \in Tasks : frame[t].at \in LockStages => IsLocked(frame[t], queue[frame[t].call.on])

(* A task that is deleted is in no call of queue.c, and every call is one  *)
(* of the script's.                                                        *)
EndedLeave == \A t \in ToSet(k.terminated) : frame[t].call.op \notin QueueOps
CallsScripted == \A t \in Tasks : frame[t].call.op \in QueueOps => frame[t].call \in script.calls

(* If somebody waits, there is a task on its way, or a waiter to be woken  *)
(* by the unlock, for every item or slot there is.                         *)
Served(q, side) ==
  SparesWaiters(script) /\ k.event[ListOf(q, side)] # <<>> =>
    Offer(queue[q], side) <= Cardinality(Coming(q, side)) + Counted(LockOf(queue[q], side))
AllServed == \A q \in Queues, side \in Sides : Served(q, side)

WaitInv == WaitersLook /\ QueuesLocked /\ EndedLeave /\ CallsScripted /\ AllServed

(* What a step may do to a frame and to the lists.                         *)
Still(f, g) == f.call.op \in QueueOps /\ Looks(f) => g.call = f.call /\ Looks(g)
CallKept(t) ==
  frame'[t].call.op \in QueueOps =>
    \/ frame'[t].call = frame[t].call
    \/ Runs(t) /\ frame[t].at = "ready" /\ frame'[t].call \in script.calls
CallsKept == \A t \in Tasks : CallKept(t)
Eases ==
  /\ \A l \in EventLists : ToSet(k'.event[l]) \subseteq ToSet(k.event[l])
  /\ \A t \in ToSet(k'.terminated) :
       t \in ToSet(k.terminated) \/ frame'[t].call.op \notin QueueOps

(* A step that trims the lists puts nobody on them.                        *)
LEMMA TrimsEases ==
  ASSUME Trims(k', k)
  PROVE  Eases
BY DEF Trims, Eases

(* Each side has its operations, its list, its offer and its lock.         *)
LEMMA SidesAre ==
  /\ \A q \in Queues, side \in Sides : ListOf(q, side) \in EventLists
  /\ \A side \in Sides : \A op \in Ops(side) : op \in QueueOps
  /\ \A op \in QueueOps : \E side \in Sides : op \in Ops(side)
  /\ \A a, b \in Sides : \A op \in Ops(a) : op \in Ops(b) => a = b
  /\ "send" \in Sides /\ "receive" \in Sides /\ \A side \in Sides : side \in {"send", "receive"}
BY WaitsDiffer DEF ListOf, Sides, Ops, QueueOps, SendOps, ReceiveOps

(* Lists of different queues and sides are different.                      *)
LEMMA ListsDiffer ==
  ASSUME NEW p \in Queues, NEW q \in Queues, NEW a \in Sides, NEW b \in Sides,
         ListOf(p, a) = ListOf(q, b)
  PROVE  p = q /\ a = b
BY DEF ListOf, Sides, ToSend, ToReceive

(* Offers and locks are numbers.                                           *)
LEMMA OffersAre ==
  ASSUME NEW q \in Queues, NEW Q, IsQueue(q, Q), NEW side \in Sides
  PROVE  /\ Offer(Q, side) \in Nat /\ LockOf(Q, side) \in -1 .. MaxLock
         /\ LockOf(Q, side) \in Int /\ LockOf(Q, side) >= -1
         /\ Counted(LockOf(Q, side)) \in Nat /\ Margin(Q, side) \in Int
<1>1. /\ Q.buf.uxLength = QueueLength[q] /\ Q.buf.uxMessagesWaiting \in 0 .. QueueLength[q]
      /\ Q.xRxLock \in -1 .. MaxLock /\ Q.xTxLock \in -1 .. MaxLock
      /\ QueueLength[q] \in Nat /\ MaxLock \in Nat
  BY BlockNumbers, Lengths, Constants
<1>2. Offer(Q, side) \in Nat
  BY <1>1 DEF Offer
<1>3. LockOf(Q, side) \in -1 .. MaxLock
  BY <1>1 DEF LockOf
<1>4. Counted(LockOf(Q, side)) \in Nat
  BY <1>1, <1>3 DEF Counted, queueUNLOCKED
<1> QED BY <1>1, <1>2, <1>3, <1>4 DEF Margin

(* The sum: A leaves, B comes.                                             *)
LEMMA Balance ==
  ASSUME NEW C, IsFiniteSet(C), NEW D, IsFiniteSet(D), NEW A \in SUBSET C, NEW B \in SUBSET D,
         B \cap C = {}, C \ A \subseteq D
  PROVE  /\ Cardinality(C) \in Nat /\ Cardinality(D) \in Nat
         /\ Cardinality(A) \in Nat /\ Cardinality(B) \in Nat
         /\ Cardinality(C) - Cardinality(A) + Cardinality(B) <= Cardinality(D)
<1> DEFINE R == C \ A
<1>1. IsFiniteSet(A) /\ IsFiniteSet(B)
  BY FS_Subset
<1>2. IsFiniteSet(R) /\ Cardinality(R) = Cardinality(C) - Cardinality(A)
  <2>1. C \cap A = A
    OBVIOUS
  <2> QED BY <2>1, FS_Difference
<1>3. /\ IsFiniteSet(R \cup B)
      /\ Cardinality(R \cup B) = Cardinality(R) + Cardinality(B) - Cardinality(R \cap B)
  BY <1>1, <1>2, FS_Union
<1>4. Cardinality(R \cap B) = 0
  <2>1. R \cap B = {}
    OBVIOUS
  <2> QED BY <2>1, FS_EmptySet
<1>5. R \cup B \in SUBSET D
  OBVIOUS
<1> HIDE DEF R
<1>6. Cardinality(R \cup B) <= Cardinality(D)
  BY <1>5, FS_Subset
<1>7. /\ Cardinality(C) \in Nat /\ Cardinality(D) \in Nat
      /\ Cardinality(A) \in Nat /\ Cardinality(B) \in Nat /\ Cardinality(R) \in Nat
  BY <1>1, <1>2, FS_CardinalityType
<1> QED BY <1>2, <1>3, <1>4, <1>6, <1>7

(* Those on their way can be counted.                                      *)
LEMMA ComingIsFinite ==
  ASSUME NEW q, NEW side
  PROVE  IsFiniteSet(Coming(q, side)) /\ IsFiniteSet(Coming(q, side)')
<1>1. Coming(q, side) \in SUBSET Tasks /\ Coming(q, side)' \in SUBSET Tasks
  BY DEF Coming
<1> QED BY <1>1, FS_Subset, TasksAssumption

(* One side of one queue: those of A leave, those of B come, and what is   *)
(* on offer and not counted grows by no more.                              *)
LEMMA StaysServed ==
  ASSUME QueuesOK, QueuesOK', Shaped(k'), script' = script,
         NEW q \in Queues, NEW side \in Sides, Served(q, side),
         ToSet(k'.event[ListOf(q, side)]) \subseteq ToSet(k.event[ListOf(q, side)]),
         NEW A \in SUBSET Coming(q, side), NEW B \in SUBSET Coming(q, side)',
         B \cap Coming(q, side) = {}, Coming(q, side) \ A \subseteq Coming(q, side)',
         k'.event[ListOf(q, side)] # <<>> =>
           Margin(queue'[q], side) <= Margin(queue[q], side) - Cardinality(A) + Cardinality(B)
  PROVE  Served(q, side)'
<1> DEFINE l == ListOf(q, side)
           C == Coming(q, side)
           D == Coming(q, side)'
<1>0. SparesWaiters(script)' => SparesWaiters(script)
  BY DEF SparesWaiters
<1>1. SUFFICES ASSUME SparesWaiters(script), k'.event[l] # <<>>
               PROVE  Offer(queue'[q], side) <= Cardinality(D) + Counted(LockOf(queue'[q], side))
  BY <1>0 DEF Served
<1>2. k.event[l] # <<>>
  <2>1. k'.event[l] \in Seq(Tasks) /\ l \in EventLists
    BY SidesAre DEF Shaped, IsList
  <2>2. ToSet(k'.event[l]) # {}
    BY <1>1, <2>1, Members
  <2>3. ToSet(<<>>) = {}
    BY DEF ToSet
  <2> QED BY <2>2, <2>3
<1>3. /\ Offer(queue[q], side) <= Cardinality(C) + Counted(LockOf(queue[q], side))
      /\ Margin(queue'[q], side) <= Margin(queue[q], side) - Cardinality(A) + Cardinality(B)
  BY <1>1, <1>2 DEF Served
<1>4. /\ Cardinality(C) \in Nat /\ Cardinality(D) \in Nat
      /\ Cardinality(A) \in Nat /\ Cardinality(B) \in Nat
      /\ Cardinality(C) - Cardinality(A) + Cardinality(B) <= Cardinality(D)
  <2> HIDE DEF C, D
  <2>1. IsFiniteSet(C) /\ IsFiniteSet(D)
    BY ComingIsFinite DEF C, D
  <2>2. A \in SUBSET C /\ B \in SUBSET D /\ B \cap C = {} /\ C \ A \subseteq D
    BY DEF C, D
  <2> QED BY <2>1, <2>2, Balance
<1> HIDE DEF C, D
<1>5. /\ Offer(queue[q], side) \in Nat /\ Counted(LockOf(queue[q], side)) \in Nat
      /\ Offer(queue'[q], side) \in Nat /\ Counted(LockOf(queue'[q], side)) \in Nat
  <2>1. IsQueue(q, queue[q]) /\ IsQueue(q, queue'[q])
    BY DEF QueuesOK
  <2> QED BY <2>1, OffersAre
<1> QED BY <1>3, <1>4, <1>5 DEF Margin

(* Who is on its way and is left alone stays on its way.                   *)
LEMMA StaysComing ==
  ASSUME Eases, NEW q \in Queues, NEW side \in Sides, NEW t \in Coming(q, side),
         Still(frame[t], frame'[t])
  PROVE  t \in Coming(q, side)'
BY SidesAre DEF Coming, InCall, Still, NotListed, Eases

(* Who waits and is taken off the lists is on its way.                     *)
LEMMA WokenComes ==
  ASSUME WaitersLook, NEW q \in Queues, NEW side \in Sides, NEW t \in Tasks,
         t \in ToSet(k.event[ListOf(q, side)]), NotListed(k', t), Still(frame[t], frame'[t])
  PROVE  t \in Coming(q, side)' /\ t \notin Coming(q, side)
<1>1. InCall(frame[t], q, side) /\ Looks(frame[t])
  BY DEF WaitersLook
<1>2. InCall(frame'[t], q, side) /\ Looks(frame'[t])
  BY <1>1, SidesAre DEF InCall, Still
<1>3. t \in Coming(q, side)'
  BY <1>2 DEF Coming
<1>4. t \notin Coming(q, side)
  BY SidesAre DEF Coming, NotListed
<1> QED BY <1>3, <1>4

(* The part of the invariant that does not count.                          *)
LEMMA OthersKept ==
  ASSUME NEW P, NEW E, Sound(P, E), WaitInv, script' = script, Eases, CallsKept,
         \A t \in Tasks : Still(frame[t], frame'[t]) \/ P[t] >= 0 \/ NotListed(k', t)
  PROVE  WaitersLook' /\ EndedLeave' /\ CallsScripted'
<1>1. /\ Settled(k, P, E) /\ Placed(k, P, E) /\ WaitersLook /\ EndedLeave /\ CallsScripted
  BY SettledNumbers DEF Sound, WaitInv
<1>2. WaitersLook'
  <2> SUFFICES ASSUME NEW q \in Queues, NEW side \in Sides,
                      NEW t \in ToSet(k'.event[ListOf(q, side)])
               PROVE  InCall(frame'[t], q, side) /\ Looks(frame'[t])
    BY DEF WaitersLook
  <2> DEFINE l == ListOf(q, side)
  <2>1. l \in EventLists /\ t \in ToSet(k.event[l])
    BY SidesAre DEF Eases
  <2>2. InCall(frame[t], q, side) /\ Looks(frame[t])
    BY <1>1, <2>1 DEF WaitersLook
  <2>3. t \in Tasks /\ E[t] = l
    BY <1>1, <2>1 DEF Placed, Lists
  <2>4. P[t] \in Asleep \cup {Suspended}
    BY <1>1, <2>1, <2>3, WaitsDiffer DEF Settled
  <2>5. ~(P[t] >= 0)
    BY <2>4 DEF Asleep, Delayed, Overflowed, Suspended
  <2>6. ~NotListed(k', t)
    BY <2>1 DEF NotListed
  <2> QED BY <2>2, <2>3, <2>5, <2>6, SidesAre DEF Still, InCall
<1>3. ASSUME NEW t \in Tasks, frame'[t].call.op \in QueueOps, frame'[t].call # frame[t].call
      PROVE  P[t] >= 0 /\ frame'[t].call \in script.calls
  <2>1. Runs(t) /\ frame[t].at = "ready" /\ frame'[t].call \in script.calls
    BY <1>3 DEF CallsKept, CallKept
  <2>2. ~Halting(frame[t])
    BY <2>1 DEF Halting
  <2> QED BY <2>1, <2>2, RunningTask
<1>4. EndedLeave'
  <2> SUFFICES ASSUME NEW t \in ToSet(k'.terminated), frame'[t].call.op \in QueueOps
               PROVE  FALSE
    BY DEF EndedLeave
  <2>1. t \in ToSet(k.terminated)
    BY DEF Eases
  <2>2. t \in Tasks /\ P[t] = Terminated /\ frame[t].call.op \notin QueueOps
    BY <1>1, <2>1 DEF Placed, Lists, EndedLeave
  <2>3. P[t] >= 0
    BY <1>3, <2>2
  <2> QED BY <2>2, <2>3 DEF Terminated
<1>5. CallsScripted'
  BY <1>1, <1>3 DEF CallsScripted
<1> QED BY <1>2, <1>4, <1>5

(* A step that wakes nobody and takes nothing.                             *)
LEMMA QuietStep ==
  ASSUME NEW P, NEW E, Sound(P, E), WaitInv, script' = script, Eases, CallsKept,
         Shaped(k'), QueuesOK', QueuesLocked',
         \A t \in Tasks : Still(frame[t], frame'[t]),
         \A q \in Queues, side \in Sides :
           Margin(queue'[q], side) <= Margin(queue[q], side)
  PROVE  WaitInv'
<1>1. WaitersLook' /\ EndedLeave' /\ CallsScripted'
  BY OthersKept
<1>2. ASSUME NEW q \in Queues, NEW side \in Sides PROVE Served(q, side)'
  <2> DEFINE l == ListOf(q, side)
  <2>1. /\ QueuesOK /\ Served(q, side) /\ l \in EventLists
        /\ ToSet(k'.event[l]) \subseteq ToSet(k.event[l])
        /\ IsQueue(q, queue[q]) /\ IsQueue(q, queue'[q])
    BY SidesAre DEF Sound, MutexInv, WaitInv, AllServed, Eases, QueuesOK
  <2>2. Coming(q, side) \subseteq Coming(q, side)'
    <3> SUFFICES ASSUME NEW t \in Coming(q, side) PROVE t \in Coming(q, side)'
      OBVIOUS
    <3>1. t \in Tasks
      BY DEF Coming
    <3> QED BY <3>1, StaysComing
  <2>3. Cardinality({}) = 0
    BY FS_EmptySet
  <2>4. /\ Margin(queue'[q], side) \in Int /\ Margin(queue[q], side) \in Int
        /\ Margin(queue'[q], side) <= Margin(queue[q], side)
    BY <2>1, OffersAre
  <2>5. Margin(queue'[q], side)
          <= Margin(queue[q], side) - Cardinality({}) + Cardinality({})
    BY <2>3, <2>4
  <2>6. /\ {} \in SUBSET Coming(q, side) /\ {} \in SUBSET Coming(q, side)'
        /\ {} \cap Coming(q, side) = {} /\ Coming(q, side) \ {} \subseteq Coming(q, side)'
    BY <2>2
  <2> QED BY <2>1, <2>5, <2>6, StaysServed
<1> QED BY <1>1, <1>2 DEF WaitInv, AllServed

(* A task, if any, is done with its call on q and somebody who waits on    *)
(* the side w of q is woken for what it put in or took out.                *)
LEMMA TurnStep ==
  ASSUME NEW P, NEW E, Sound(P, E), WaitInv, script' = script, CallsKept,
         Shaped(k'), QueuesOK', QueuesLocked',
         NEW q \in Queues, NEW own \in Sides, NEW w \in Sides,
         NEW s, Trims(s, k), s.event = k.event, k' = WakeWaiter(s, ListOf(q, w)),
         NEW T \in SUBSET Tasks, IsFiniteSet(T), Cardinality(T) \in {0, 1},
         \A t \in Tasks \ T : Still(frame[t], frame'[t]),
         \A t \in T : P[t] >= 0 /\ (frame[t].call.op \in QueueOps /\ Looks(frame[t])
                                      => InCall(frame[t], q, own)),
         \A p \in Queues \ {q} : queue'[p] = queue[p],
         \A side \in Sides : Margin(queue'[q], side)
           <= Margin(queue[q], side) - (IF side = own THEN Cardinality(T) ELSE 0)
                + (IF side = w THEN 1 ELSE 0)
  PROVE  WaitInv'
<1> DEFINE lw == ListOf(q, w)
           h == Head(k.event[lw])
<1>1. /\ Settled(k, P, E) /\ Placed(k, P, E) /\ QueuesOK /\ WaitersLook /\ AllServed
      /\ lw \in EventLists /\ IsList(k.event[lw])
  BY SettledNumbers, SidesAre DEF Sound, MutexInv, WaitInv, Placed, Lists
<1>2. Trims(k', s) /\ (k.event[lw] # <<>> => NotListed(k', h)) /\ (k.event[lw] = <<>> => k' = s)
  <2>1. Shaped(s)
    BY DEF Trims
  <2> QED BY <1>1, <2>1, WakingTrims
<1>3. Trims(k', k)
  BY <1>2, TrimsAgain
<1>4. Eases
  BY <1>3, TrimsEases
<1>5. WaitersLook' /\ EndedLeave' /\ CallsScripted'
  BY <1>4, OthersKept
<1>6. \A t \in T : NotListed(k, t)
  <2> SUFFICES ASSUME NEW t \in T, NEW l \in EventLists, t \in ToSet(k.event[l]) PROVE FALSE
    BY DEF NotListed
  <2>1. E[t] = l /\ t \in Tasks
    BY <1>1 DEF Placed, Lists
  <2>2. P[t] \in Asleep \cup {Suspended}
    BY <1>1, <2>1, WaitsDiffer DEF Settled
  <2> QED BY <2>2 DEF Asleep, Delayed, Overflowed, Suspended
<1>7. ASSUME NEW p \in Queues, NEW side \in Sides PROVE Served(p, side)'
  <2> DEFINE l == ListOf(p, side)
             C == Coming(p, side)
             D == Coming(p, side)'
             A == C \cap T
             B == IF p = q /\ side = w /\ k.event[lw] # <<>> THEN {h} ELSE {}
  <2>1. /\ Served(p, side) /\ l \in EventLists /\ IsList(k.event[l]) /\ IsList(k'.event[l])
        /\ ToSet(k'.event[l]) \subseteq ToSet(k.event[l])
        /\ IsQueue(p, queue[p]) /\ IsQueue(p, queue'[p])
    BY <1>1, <1>4, SidesAre DEF AllServed, Eases, QueuesOK, Placed, Lists, Shaped
  <2>2. C \ A \subseteq D
    <3> SUFFICES ASSUME NEW t \in Coming(p, side), t \notin T PROVE t \in Coming(p, side)'
      OBVIOUS
    <3>1. t \in Tasks
      BY DEF Coming
    <3> QED BY <1>4, <3>1, StaysComing
  <2>3. A # {} => p = q /\ side = own
    <3> SUFFICES ASSUME NEW t \in T, t \in Coming(p, side) PROVE p = q /\ side = own
      OBVIOUS
    <3>1. InCall(frame[t], p, side) /\ Looks(frame[t])
      BY DEF Coming
    <3>2. InCall(frame[t], q, own)
      BY <3>1, SidesAre DEF InCall
    <3> QED BY <3>1, <3>2, SidesAre DEF InCall
  <2>4. B \in SUBSET D /\ B \cap C = {}
    <3>1. CASE p = q /\ side = w /\ k.event[lw] # <<>>
      <4>1. h \in ToSet(k.event[lw]) /\ h \in Tasks /\ NotListed(k', h)
        BY <1>1, <1>2, <3>1, HeadAndTail
      <4>2. h \notin T
        BY <1>1, <1>6, <4>1 DEF NotListed
      <4>3. h \in D /\ h \notin C
        BY <1>1, <3>1, <4>1, <4>2, WokenComes
      <4> QED BY <3>1, <4>3
    <3>2. CASE ~(p = q /\ side = w /\ k.event[lw] # <<>>)
      BY <3>2
    <3> QED BY <3>1, <3>2
  <2>5. /\ Cardinality(A) \in Nat /\ Cardinality(A) <= Cardinality(T)
        /\ (A = {} => Cardinality(A) = 0)
        /\ Cardinality(B) = IF p = q /\ side = w /\ k.event[lw] # <<>> THEN 1 ELSE 0
    <3>1. A \in SUBSET T
      OBVIOUS
    <3>2. Cardinality(B) = IF p = q /\ side = w /\ k.event[lw] # <<>> THEN 1 ELSE 0
      BY FS_EmptySet, FS_Singleton
    <3> HIDE DEF A
    <3> QED BY <3>1, <3>2, FS_Subset, FS_CardinalityType, FS_EmptySet
  <2>6. ASSUME k'.event[l] # <<>>
        PROVE  Margin(queue'[p], side) <= Margin(queue[p], side) - Cardinality(A) + Cardinality(B)
    <3>1. p = q /\ side = w => k.event[lw] # <<>>
      <4>1. ToSet(k'.event[l]) # {}
        BY <2>1, <2>6, Members DEF IsList
      <4>2. ToSet(<<>>) = {}
        BY DEF ToSet
      <4> QED BY <2>1, <4>1, <4>2
    <3>2. Margin(queue'[p], side) \in Int /\ Margin(queue[p], side) \in Int
      BY <2>1, OffersAre
    <3> HIDE DEF A, B
    <3>3. CASE p # q
      BY <2>3, <2>5, <3>2, <3>3
    <3>4. CASE p = q
      BY <2>3, <2>5, <3>1, <3>2, <3>4
    <3> QED BY <3>3, <3>4
  <2>7. A \in SUBSET C
    OBVIOUS
  <2> HIDE DEF A, B
  <2> QED BY <1>1, <2>1, <2>2, <2>4, <2>6, <2>7, StaysServed
<1> QED BY <1>5, <1>7 DEF WaitInv, AllServed

-----------------------------------------------------------------------------
(* The steps, one by one.                                                  *)

(* What is known before a step, and of the shape of what it leaves.        *)
Going(P, E) ==
  Sound(P, E) /\ WaitInv /\ script' = script /\ Shaped(k') /\ QueuesOK'

(* What the invariants of the other modules give a step.                   *)
LEMMA GoingIs ==
  ASSUME NEW P, NEW E, Going(P, E)
  PROVE  /\ Sound(P, E) /\ WaitInv /\ script' = script /\ Shaped(k') /\ QueuesOK'
         /\ Settled(k, P, E) /\ Staged(P) /\ FramesOK /\ FramesCareful /\ MutexInv /\ QueuesOK
         /\ Shaped(k) /\ Trims(k, k)
BY SettledIsShaped DEF Going, Sound, MutexInv

(* Nobody but the running task looks whether to block.                     *)
LEMMA OneLocks ==
  ASSUME NEW P, Staged(P), NEW t \in Tasks \ {k.pxCurrentTCB}
  PROVE  frame[t].at \notin LockStages
BY DEF Staged, SuspStages, QueueStages, LockStages

(* The margins of queues that are left alone.                              *)
LEMMA SameMargins ==
  ASSUME QueuesOK, queue' = queue
  PROVE  \A q \in Queues, side \in Sides : Margin(queue'[q], side) <= Margin(queue[q], side)
<1> SUFFICES ASSUME NEW q \in Queues, NEW side \in Sides
             PROVE  Margin(queue'[q], side) <= Margin(queue[q], side)
  OBVIOUS
<1>1. Margin(queue[q], side) \in Int
  BY OffersAre DEF QueuesOK
<1> QED BY <1>1

(* The frames when one changes.                                            *)
LEMMA OneCall ==
  ASSUME FramesOK, NEW t \in Tasks, NEW f, frame' = [frame EXCEPT ![t] = f],
         f.call.op \in QueueOps =>
           f.call = frame[t].call \/ (Runs(t) /\ frame[t].at = "ready" /\ f.call \in script.calls)
  PROVE  /\ CallsKept
         /\ \A u \in Tasks \ {t} : Still(frame[u], frame'[u])
         /\ Still(frame[t], f) => \A u \in Tasks : Still(frame[u], frame'[u])
<1>1. frame'[t] = f /\ \A u \in Tasks \ {t} : frame'[u] = frame[u]
  BY OneFrame
<1>2. \A u \in Tasks \ {t} : Still(frame[u], frame'[u])
  BY <1>1 DEF Still
<1>3. CallsKept
  <2> SUFFICES ASSUME NEW u \in Tasks PROVE CallKept(u)
    BY DEF CallsKept
  <2> QED BY <1>1 DEF CallKept
<1> QED BY <1>1, <1>2, <1>3

(* A step that leaves the frames and the queues alone.                     *)
LEMMA QuietFrames ==
  ASSUME NEW P, NEW E, Going(P, E), frame' = frame, queue' = queue, Eases
  PROVE  WaitInv'
<1>1. \A t \in Tasks : Still(frame[t], frame'[t])
  BY DEF Still
<1>2. CallsKept
  BY DEF CallsKept, CallKept
<1>3. QueuesLocked'
  BY GoingIs DEF WaitInv, QueuesLocked
<1> QED BY <1>1, <1>2, <1>3, GoingIs, SameMargins, QuietStep

(* A step of the running task that leaves the queues alone.                *)
LEMMA QuietTask ==
  ASSUME NEW P, NEW E, Going(P, E), NEW t \in Tasks, Runs(t), queue' = queue, Eases,
         NEW f, frame' = [frame EXCEPT ![t] = f], Still(frame[t], f), f.at \notin LockStages,
         f.call.op \in QueueOps =>
           f.call = frame[t].call \/ (frame[t].at = "ready" /\ f.call \in script.calls)
  PROVE  WaitInv'
<1>1. /\ CallsKept /\ \A u \in Tasks : Still(frame[u], frame'[u])
      /\ frame'[t] = f /\ \A u \in Tasks \ {t} : frame'[u] = frame[u]
  BY GoingIs, OneCall, OneFrame
<1>2. QueuesLocked'
  <2>1. \A u \in Tasks : frame'[u].at \notin LockStages
    BY <1>1, GoingIs, OneLocks DEF Runs
  <2> QED BY <2>1 DEF QueuesLocked
<1> QED BY <1>1, <1>2, GoingIs, SameMargins, QuietStep

(* A step that sets the stage, and one that ends the call.                 *)
LEMMA QuietGo ==
  ASSUME NEW P, NEW E, Going(P, E), NEW t \in Tasks, Runs(t), queue' = queue, Trims(k', k),
         NEW at, GoTo(t, at), at \notin LockStages,
         \/ frame[t].call.op \notin QueueOps
         \/ ~Looks(frame[t])
         \/ at \in {"yield", "enter"}
  PROVE  WaitInv'
<1> DEFINE f == [frame[t] EXCEPT !.at = at]
<1>1. frame' = [frame EXCEPT ![t] = f]
  BY DEF GoTo
<1>2. f.at = at /\ f.call = frame[t].call /\ f.then = frame[t].then
  <2>1. DOMAIN frame[t] = {"at", "call", "wait", "timed", "entry", "then"}
    BY GoingIs DEF FramesOK, IsFrame
  <2> QED BY <2>1
<1> HIDE DEF f
<1>3. Still(frame[t], f)
  BY <1>2 DEF Still, Looks
<1> QED BY <1>1, <1>2, <1>3, TrimsEases, QuietTask

(* A task that rests is in no call of queue.c.                             *)
LEMMA RestIsQuiet ==
  /\ AtRest.call.op \notin QueueOps /\ AtRest.at = "ready" /\ AtRest.at \notin LockStages
  /\ ~Looks(AtRest)
BY DEF AtRest, NoCall, QueueOps, SendOps, ReceiveOps, LockStages, Looks

(* A call of tasks.c returns.                                              *)
LEMMA QuietReturn ==
  ASSUME NEW P, NEW E, Going(P, E), NEW t \in Tasks, Runs(t), queue' = queue, Trims(k', k),
         Return(t), frame[t].call.op \notin QueueOps \/ ~Looks(frame[t])
  PROVE  WaitInv'
<1>1. Still(frame[t], AtRest)
  BY DEF Still
<1> QED BY <1>1, RestIsQuiet, TrimsEases, QuietTask DEF Return

(* The steps of a call.                                                    *)
LEMMA SuspendWaits ==
  ASSUME NEW P, NEW E, Going(P, E), NEW t \in Tasks, SuspendAll(t)
  PROVE  WaitInv'
<1>1. /\ Runs(t) /\ frame[t].at = "suspend" /\ k' = vTaskSuspendAll(k) /\ queue' = queue
      /\ \E at \in {"lock", "delay", "resume"} : GoTo(t, at)
  BY DEF SuspendAll, Reaches
<1>2. Trims(k', k)
  BY <1>1, GoingIs, RunningTask, SwitchingTrims
<1>3. ~Looks(frame[t])
  BY <1>1 DEF Looks
<1> QED BY <1>1, <1>2, <1>3, QuietGo DEF LockStages

(* xTaskResumeAll.                                                         *)
LEMMA ResumeWaits ==
  ASSUME NEW P, NEW E, Going(P, E), NEW t \in Tasks, ResumeAll(t)
  PROVE  WaitInv'
<1>1. /\ Runs(t) /\ frame[t].at = "resume" /\ k' = xTaskResumeAll(k).k /\ queue' = queue
  BY DEF ResumeAll, Reaches
<1>2. k.uxSchedulerSuspended = 1 /\ k.xSchedulerRunning /\ Settled(k, P, E)
  BY <1>1, GoingIs, RunningTask, StagesSuspend
<1>3. Trims(k', k)
  BY <1>1, <1>2, TimeTrims
<1>4. \/ GoTo(t, "yield") \/ GoTo(t, "enter")
      \/ /\ GoTo(t, "work") \/ Return(t)
         /\ frame[t].call.op \notin QueueOps \/ frame[t].then = "fail"
  BY DEF ResumeAll, QueueOps
<1>5. frame[t].then = "fail" => ~Looks(frame[t])
  BY <1>1 DEF Looks
<1>6. "yield" \notin LockStages /\ "enter" \notin LockStages /\ "work" \notin LockStages
  BY DEF LockStages
<1>7. CASE GoTo(t, "yield") \/ GoTo(t, "enter")
  BY <1>1, <1>3, <1>6, <1>7, QuietGo
<1>8. CASE /\ GoTo(t, "work") \/ Return(t)
           /\ frame[t].call.op \notin QueueOps \/ frame[t].then = "fail"
  BY <1>1, <1>3, <1>5, <1>6, <1>8, QuietGo, QuietReturn
<1> QED BY <1>4, <1>7, <1>8

(* A yield.                                                                *)
LEMMA YieldWaits ==
  ASSUME NEW P, NEW E, Going(P, E), NEW t \in Tasks, Yield(t)
  PROVE  WaitInv'
<1>1. /\ Runs(t) /\ queue' = queue /\ \E b : k' = YieldIf(b, k)
      /\ GoTo(t, "enter") \/ (Return(t) /\ frame[t].call.op \notin QueueOps)
  BY DEF Yield, Reaches, QueueOps
<1>2. Trims(k', k)
  BY <1>1, GoingIs, ReadyingTrims
<1>3. "enter" \notin LockStages
  BY DEF LockStages
<1> QED BY <1>1, <1>2, <1>3, QuietGo, QuietReturn

(* The running task in a call of queue.c, and its queue.                   *)
LEMMA InQueueCall ==
  ASSUME NEW P, NEW E, Going(P, E), NEW t \in Tasks, Runs(t),
         frame[t].at \in QueueStages \cup {"enter"}
  PROVE  /\ frame[t].call.op \in QueueOps /\ frame[t].call.on \in Queues
         /\ IsQueue(frame[t].call.on, queue[frame[t].call.on])
         /\ DOMAIN frame[t] = {"at", "call", "wait", "timed", "entry", "then"}
         /\ k.pxCurrentTCB = t /\ k.xSchedulerRunning /\ t # idle
<1>1. IsFrame(t, frame[t]) /\ k.pxCurrentTCB = t /\ k.xSchedulerRunning
  BY GoingIs, RunningTask
<1>2. frame[t].call.op \in QueueOps /\ frame[t].at # "ready"
  BY <1>1, SMT DEF IsFrame, QueueStages
<1>3. frame[t].call \in Calls /\ t # idle
  BY <1>1, <1>2, SMT DEF IsFrame, IdleCall, QueueOps, SendOps, ReceiveOps
<1>4. frame[t].call.on \in Queues
  BY <1>2, <1>3, OnQueues
<1> QED BY <1>1, <1>2, <1>3, <1>4, GoingIs DEF QueuesOK, IsFrame

(* A step of the running task under the lock, or out of it, that wakes     *)
(* nobody.                                                                 *)
LEMMA QuietLock ==
  ASSUME NEW P, NEW E, Going(P, E), NEW t \in Tasks, Runs(t), Eases,
         NEW f, frame' = [frame EXCEPT ![t] = f], Still(frame[t], f), f.call = frame[t].call,
         f.at \in LockStages => IsLocked(f, queue'[f.call.on]),
         \A q \in Queues, side \in Sides : Margin(queue'[q], side) <= Margin(queue[q], side)
  PROVE  WaitInv'
<1>1. /\ CallsKept /\ \A u \in Tasks : Still(frame[u], frame'[u])
      /\ frame'[t] = f /\ \A u \in Tasks \ {t} : frame'[u] = frame[u]
  BY GoingIs, OneCall, OneFrame
<1>2. QueuesLocked'
  <2> SUFFICES ASSUME NEW u \in Tasks, frame'[u].at \in LockStages
               PROVE  IsLocked(frame'[u], queue'[frame'[u].call.on])
    BY DEF QueuesLocked
  <2>1. u = t
    BY <1>1, GoingIs, OneLocks DEF Runs
  <2> QED BY <1>1, <2>1
<1> QED BY <1>1, <1>2, GoingIs, QuietStep

(* prvLockQueue: nothing is counted before the queue is locked.            *)
LEMMA LockWaits ==
  ASSUME NEW P, NEW E, Going(P, E), NEW t \in Tasks, LockQueue(t)
  PROVE  WaitInv'
<1> DEFINE q == frame[t].call.on
           Q == queue[q]
           Locked(lock) == IF lock = queueUNLOCKED THEN queueLOCKED_UNMODIFIED ELSE lock
           R == [Q EXCEPT !.xRxLock = Locked(Q.xRxLock), !.xTxLock = Locked(Q.xTxLock)]
           f == [frame[t] EXCEPT !.at = "check"]
<1>1. /\ Runs(t) /\ frame[t].at = "lock" /\ k' = k /\ frame' = [frame EXCEPT ![t] = f]
      /\ queue' = [queue EXCEPT ![q] = prvLockQueue(@)]
  BY DEF LockQueue, Reaches, GoTo
<1>2. /\ q \in Queues /\ IsQueue(q, Q)
      /\ DOMAIN frame[t] = {"at", "call", "wait", "timed", "entry", "then"}
  BY <1>1, InQueueCall DEF QueueStages
<1>3. f.at = "check" /\ f.call = frame[t].call
  BY <1>2
<1>4. ~Looks(frame[t])
  BY <1>1 DEF Looks
<1> HIDE DEF f, q
<1>5. /\ Q.xRxLock \in -1 .. MaxLock /\ Q.xTxLock \in -1 .. MaxLock /\ Q \in ControlBlocks(q)
      /\ MaxLock \in Nat
  BY <1>2, BlockNumbers, BoundsAssumption
<1>6. queue' = [queue EXCEPT ![q] = R]
  <2>1. prvLockQueue(Q) = R
    BY <1>5 DEF prvLockQueue, ControlBlocks
  <2> QED BY <1>1, <2>1
<1>7. /\ Locked(Q.xRxLock) \in -1 .. MaxLock /\ Locked(Q.xTxLock) \in -1 .. MaxLock
      /\ Locked(Q.xRxLock) >= 0 /\ Locked(Q.xTxLock) >= 0
      /\ Counted(Locked(Q.xRxLock)) = Counted(Q.xRxLock)
      /\ Counted(Locked(Q.xTxLock)) = Counted(Q.xTxLock)
  BY <1>5 DEF Counted, queueUNLOCKED, queueLOCKED_UNMODIFIED
<1>8. /\ IsQueue(q, R) /\ R.buf = Q.buf
      /\ R.xTxLock = Locked(Q.xTxLock) /\ R.xRxLock = Locked(Q.xRxLock)
  <2> DEFINE rx == Locked(Q.xRxLock)
             tx == Locked(Q.xTxLock)
  <2>1. rx \in -1 .. MaxLock /\ tx \in -1 .. MaxLock
    BY <1>7
  <2>2. R = [Q EXCEPT !.xRxLock = rx, !.xTxLock = tx]
    OBVIOUS
  <2> HIDE DEF rx, tx, R
  <2>3. IsQueue(q, R) /\ R.buf = Q.buf /\ R.xTxLock = tx /\ R.xRxLock = rx
    BY <1>2, <1>5, <2>1, <2>2 DEF IsQueue, ControlBlocks
  <2> QED BY <2>3 DEF rx, tx
<1> HIDE DEF R, Locked
<1>9. queue'[q] = R /\ \A p \in Queues : p # q => queue'[p] = queue[p]
  BY <1>2, <1>6, <1>8, GoingIs, BlockSet
<1>10. \A p \in Queues, side \in Sides : Margin(queue'[p], side) <= Margin(queue[p], side)
  <2> SUFFICES ASSUME NEW p \in Queues, NEW side \in Sides
               PROVE  Margin(queue'[p], side) <= Margin(queue[p], side)
    OBVIOUS
  <2>1. Margin(queue[p], side) \in Int
    BY GoingIs, OffersAre DEF QueuesOK
  <2>2. Margin(R, side) = Margin(Q, side)
    BY <1>7, <1>8 DEF Margin, Offer, LockOf
  <2> QED BY <1>9, <2>1, <2>2
<1>11. IsLocked(f, queue'[f.call.on])
  BY <1>3, <1>7, <1>8, <1>9 DEF IsLocked, q
<1>12. Still(frame[t], f)
  BY <1>4 DEF Still
<1>13. Eases
  BY <1>1, GoingIs, TrimsEases
<1> QED BY <1>1, <1>3, <1>10, <1>11, <1>12, <1>13, QuietLock

(* xTaskCheckForTimeOut: the call fails, or looks at the locked queue.     *)
LEMMA CheckWaits ==
  ASSUME NEW P, NEW E, Going(P, E), NEW t \in Tasks, CheckForTimeOut(t)
  PROVE  WaitInv'
<1> DEFINE r == xTaskCheckForTimeOut(k, frame[t].entry, frame[t].wait)
           f == [frame[t] EXCEPT !.at = IF r.expired THEN "unlockTx" ELSE "test",
                         !.then = IF r.expired THEN "fail" ELSE @,
                         !.wait = r.wait, !.entry = r.entry]
<1>1. Runs(t) /\ frame[t].at = "check" /\ k' = k /\ queue' = queue
  BY DEF CheckForTimeOut, Reaches
<1>2. DOMAIN frame[t] = {"at", "call", "wait", "timed", "entry", "then"}
  BY <1>1, InQueueCall DEF QueueStages
<1>3. frame' = [frame EXCEPT ![t] = f]
  BY <1>1, GoingIs DEF CheckForTimeOut, FramesOK
<1> HIDE DEF r
<1>4. f.at \in {"unlockTx", "test"} /\ f.call = frame[t].call
  BY <1>2
<1> HIDE DEF f
<1>5. Still(frame[t], f)
  BY <1>1 DEF Still, Looks
<1>6. f.at \in LockStages => IsLocked(f, queue'[f.call.on])
  <2>1. IsLocked(frame[t], queue[frame[t].call.on])
    BY <1>1, GoingIs DEF WaitInv, QueuesLocked, LockStages
  <2> QED BY <1>1, <1>4, <2>1 DEF IsLocked, LockStages
<1>7. Eases
  BY <1>1, GoingIs, TrimsEases
<1> QED BY <1>1, <1>3, <1>4, <1>5, <1>6, <1>7, GoingIs, SameMargins, QuietLock

(* The second look: who blocks found nothing that was not counted.         *)
LEMMA TestWaits ==
  ASSUME NEW P, NEW E, Going(P, E), NEW t \in Tasks, TestQueue(t)
  PROVE  WaitInv'
<1> DEFINE c == frame[t].call
           b == IF c.op \in SendOps THEN IsFull(queue[c.on]) ELSE IsEmpty(queue[c.on])
           h == QueueType[c.on] = "mutex" /\ c.op \in ReceiveOps
           f == [frame[t] EXCEPT
             !.at = IF ~b THEN "unlockTx" ELSE IF h THEN "inherit" ELSE "place",
             !.then = IF b THEN "block" ELSE "retry"]
<1>1. Runs(t) /\ frame[t].at = "test" /\ k' = k /\ queue' = queue
  BY DEF TestQueue, Reaches
<1>2. /\ DOMAIN frame[t] = {"at", "call", "wait", "timed", "entry", "then"}
      /\ c.op \in QueueOps /\ c.on \in Queues /\ IsQueue(c.on, queue[c.on])
  BY <1>1, InQueueCall DEF QueueStages
<1>3. frame' = [frame EXCEPT ![t] = f]
  BY <1>1, GoingIs DEF TestQueue, FramesOK
<1> HIDE DEF b, h
<1>4. /\ f.at \in {"unlockTx", "inherit", "place"} /\ f.call = c
      /\ f.at \in {"inherit", "place"} => b
  BY <1>2
<1> HIDE DEF f
<1>5. Still(frame[t], f)
  BY <1>1 DEF Still, Looks
<1>6. ASSUME f.at \in LockStages
      PROVE  IsLocked(f, queue'[f.call.on])
  <2>1. queue[c.on].xTxLock >= 0 /\ queue[c.on].xRxLock >= 0
    BY <1>1, GoingIs DEF WaitInv, QueuesLocked, LockStages, IsLocked
  <2>2. b
    BY <1>4, <1>6 DEF LockStages
  <2>3. \A side \in Sides : c.op \in Ops(side) => Offer(queue[c.on], side) = 0
    <3> SUFFICES ASSUME NEW side \in Sides, c.op \in Ops(side)
                 PROVE  Offer(queue[c.on], side) = 0
      OBVIOUS
    <3>1. /\ queue[c.on].buf.uxMessagesWaiting \in Int /\ queue[c.on].buf.uxLength \in Int
      BY <1>2, BlockNumbers, Lengths
    <3>2. IF side = "send" THEN IsFull(queue[c.on]) ELSE IsEmpty(queue[c.on])
      BY <2>2, SMT DEF b, Ops, SendOps, ReceiveOps
    <3> QED BY <3>1, <3>2 DEF Offer, IsFull, IsEmpty
  <2>4. \A side \in Sides : LockOf(queue[c.on], side) >= 0
    BY <2>1 DEF LockOf
  <2>5. \A side \in Sides : c.op \in Ops(side)
          => Offer(queue[c.on], side) <= LockOf(queue[c.on], side)
    <3> SUFFICES ASSUME NEW side \in Sides, c.op \in Ops(side)
                 PROVE  Offer(queue[c.on], side) <= LockOf(queue[c.on], side)
      OBVIOUS
    <3>1. LockOf(queue[c.on], side) \in Int
      BY <1>2, OffersAre
    <3> QED BY <2>3, <2>4, <3>1
  <2> QED BY <1>1, <1>4, <2>1, <2>5 DEF IsLocked
<1>7. Eases
  BY <1>1, GoingIs, TrimsEases
<1> QED BY <1>1, <1>3, <1>4, <1>5, <1>6, <1>7, GoingIs, SameMargins, QuietLock

(* vTaskPriorityInherit.                                                   *)
LEMMA InheritWaits ==
  ASSUME NEW P, NEW E, Going(P, E), NEW t \in Tasks, InheritPriority(t)
  PROVE  WaitInv'
<1> DEFINE f == [frame[t] EXCEPT !.at = "place"]
<1>1. /\ Runs(t) /\ frame[t].at = "inherit" /\ queue' = queue
      /\ k' = vTaskPriorityInherit(k, queue[frame[t].call.on].pxMutexHolder)
      /\ frame' = [frame EXCEPT ![t] = f]
  BY DEF InheritPriority, Reaches, GoTo
<1>2. DOMAIN frame[t] = {"at", "call", "wait", "timed", "entry", "then"}
  BY <1>1, InQueueCall DEF QueueStages
<1>3. f.at = "place" /\ f.call = frame[t].call
  BY <1>2
<1> HIDE DEF f
<1>4. Still(frame[t], f)
  BY <1>1 DEF Still, Looks
<1>5. IsLocked(f, queue'[f.call.on])
  <2>1. IsLocked(frame[t], queue[frame[t].call.on])
    BY <1>1, GoingIs DEF WaitInv, QueuesLocked, LockStages
  <2> QED BY <1>1, <1>3, <2>1 DEF IsLocked
<1>6. Eases
  BY <1>1, GoingIs, PrioritiesTrim, TrimsEases
<1> QED BY <1>1, <1>3, <1>4, <1>5, <1>6, GoingIs, SameMargins, QuietLock

(* A task is placed on the list of its queue: what it found too little of  *)
(* is on offer only as far as it is counted.                               *)
LEMMA PlaceWaits ==
  ASSUME NEW P, NEW E, Going(P, E), NEW t \in Tasks, PlaceOnEventList(t)
  PROVE  WaitInv'
<1> DEFINE f == [frame[t] EXCEPT !.at = "unlockTx"]
           c == frame[t].call
           q == c.on
           l == IF c.op \in SendOps THEN ToSend(q) ELSE ToReceive(q)
<1>1. /\ Runs(t) /\ frame[t].at = "place" /\ queue' = queue
      /\ k' = vTaskPlaceOnEventList(k, l, frame[t].wait)
      /\ frame' = [frame EXCEPT ![t] = f]
  BY DEF PlaceOnEventList, Reaches, GoTo
<1>2. /\ DOMAIN frame[t] = {"at", "call", "wait", "timed", "entry", "then"}
      /\ c.op \in QueueOps /\ q \in Queues /\ IsQueue(q, queue[q])
      /\ k.pxCurrentTCB = t /\ frame[t].then = "block" /\ P[t] >= 0
  <2>1. ~Halting(frame[t])
    BY <1>1 DEF Halting
  <2> QED BY <1>1, <2>1, InQueueCall, RunningTask, GoingIs DEF QueueStages, IsCareful
<1>3. f.at = "unlockTx" /\ f.call = c /\ f.then = "block"
  BY <1>2
<1>4. PICK own \in Sides : c.op \in Ops(own) /\ l = ListOf(q, own)
  <2>1. CASE c.op \in SendOps
    BY <2>1 DEF Sides, Ops, ListOf
  <2>2. CASE c.op \notin SendOps
    BY <1>2, <2>2 DEF QueueOps, Sides, Ops, ListOf
  <2> QED BY <2>1, <2>2
<1> HIDE DEF f, l
<1>5. /\ frame'[t] = f /\ \A u \in Tasks \ {t} : frame'[u] = frame[u]
      /\ InCall(f, q, own) /\ Looks(f)
  BY <1>1, <1>3, <1>4, GoingIs, OneFrame DEF InCall, Looks
<1>6. NotListed(k, t) /\ t \notin ToSet(k.terminated)
  <2>1. Placed(k, P, E) /\ Settled(k, P, E)
    BY GoingIs, SettledNumbers
  <2>2. P[t] \notin Asleep \cup {Suspended} /\ P[t] # Terminated
    BY <1>2 DEF Asleep, Delayed, Overflowed, Suspended, Terminated
  <2>3. \A m \in EventLists : E[t] # m
    BY <2>1, <2>2, WaitsDiffer DEF Settled
  <2> QED BY <2>1, <2>2, <2>3 DEF NotListed, Placed, Lists
<1>7. /\ ToSet(k'.event[l]) = ToSet(k.event[l]) \cup {t}
      /\ \A m \in EventLists \ {l} : k'.event[m] = k.event[m]
      /\ ToSet(k'.terminated) \subseteq ToSet(k.terminated)
      /\ l \in EventLists
  <2>1. l \in EventLists
    BY <1>2, <1>4, SidesAre
  <2>2. t \notin ToSet(k.event[l])
    BY <1>6, <2>1 DEF NotListed
  <2> QED BY <1>1, <1>2, <2>1, <2>2, GoingIs, PlacingTrims
<1>8. QueuesLocked'
  <2>1. \A u \in Tasks : frame'[u].at \notin LockStages
    BY <1>1, <1>3, <1>5, GoingIs, OneLocks DEF Runs, LockStages
  <2> QED BY <2>1 DEF QueuesLocked
<1>9. EndedLeave' /\ CallsScripted'
  <2>1. EndedLeave /\ CallsScripted /\ script' = script /\ ToSet(k.terminated) \subseteq Tasks
    <3>1. Placed(k, P, E)
      BY GoingIs, SettledNumbers
    <3> QED BY <3>1, GoingIs DEF WaitInv, Placed, Lists
  <2>2. \A u \in Tasks : frame'[u].call = frame[u].call
    BY <1>3, <1>5
  <2> QED BY <1>7, <2>1, <2>2 DEF EndedLeave, CallsScripted
<1>10. WaitersLook'
  <2> SUFFICES ASSUME NEW p \in Queues, NEW side \in Sides,
                      NEW u \in ToSet(k'.event[ListOf(p, side)])
               PROVE  InCall(frame'[u], p, side) /\ Looks(frame'[u])
    BY DEF WaitersLook
  <2>1. CASE u = t
    <3>1. ListOf(p, side) = ListOf(q, own)
      <4>1. ListOf(p, side) \in EventLists
        BY SidesAre
      <4>2. l = ListOf(p, side)
        BY <1>6, <1>7, <2>1, <4>1 DEF NotListed
      <4> QED BY <1>4, <4>2
    <3>2. p = q /\ side = own
      BY <1>2, <3>1, ListsDiffer
    <3> QED BY <1>5, <2>1, <3>2
  <2>2. CASE u # t
    <3>1. ListOf(p, side) \in EventLists
      BY SidesAre
    <3>2. u \in ToSet(k.event[ListOf(p, side)])
      BY <1>7, <2>2, <3>1
    <3>3. InCall(frame[u], p, side) /\ Looks(frame[u])
      BY <3>2, GoingIs DEF WaitInv, WaitersLook
    <3>4. u \in Tasks
      <4>1. Placed(k, P, E)
        BY GoingIs, SettledNumbers
      <4> QED BY <3>1, <3>2, <4>1 DEF Placed, Lists
    <3> QED BY <1>5, <2>2, <3>3, <3>4
  <2> QED BY <2>1, <2>2
<1>11. ASSUME NEW p \in Queues, NEW side \in Sides PROVE Served(p, side)'
  <2>1. CASE p = q /\ side = own
    <3>1. /\ Offer(queue[q], own) <= LockOf(queue[q], own)
          /\ queue[q].xTxLock >= 0 /\ queue[q].xRxLock >= 0
      BY <1>1, <1>4, GoingIs DEF WaitInv, QueuesLocked, LockStages, IsLocked
    <3>2. /\ Offer(queue[q], own) \in Int /\ LockOf(queue[q], own) \in Int
      BY <1>2, OffersAre
    <3>3. LockOf(queue[q], own) >= 0
      BY <3>1 DEF LockOf
    <3>4. Counted(LockOf(queue[q], own)) = LockOf(queue[q], own)
      BY <3>2, <3>3 DEF Counted, queueUNLOCKED
    <3>5. Cardinality(Coming(p, side)') \in Nat
      BY ComingIsFinite, FS_CardinalityType
    <3>6. Offer(queue'[p], side)
            <= Cardinality(Coming(p, side)') + Counted(LockOf(queue'[p], side))
      BY <1>1, <2>1, <3>1, <3>2, <3>4, <3>5
    <3> QED BY <3>6 DEF Served
  <2>2. CASE ~(p = q /\ side = own)
    <3>1. ListOf(p, side) \in EventLists \ {l}
      BY <1>2, <1>4, <2>2, SidesAre, ListsDiffer
    <3>2. k'.event[ListOf(p, side)] = k.event[ListOf(p, side)]
      BY <1>7, <3>1
    <3>3. \A u \in Coming(p, side) : u \in Coming(p, side)'
      <4> SUFFICES ASSUME NEW u \in Coming(p, side) PROVE u \in Coming(p, side)'
        OBVIOUS
      <4>1. u \in Tasks /\ InCall(frame[u], p, side) /\ Looks(frame[u]) /\ NotListed(k, u)
        BY DEF Coming
      <4>2. u # t
        BY <1>1, <4>1 DEF Looks
      <4>3. NotListed(k', u)
        BY <1>7, <4>1, <4>2 DEF NotListed
      <4> QED BY <1>5, <4>1, <4>2, <4>3 DEF Coming
    <3>4. Margin(queue'[p], side) <= Margin(queue[p], side) - Cardinality({}) + Cardinality({})
      <4>1. Margin(queue[p], side) \in Int
        BY GoingIs, OffersAre DEF QueuesOK
      <4> QED BY <1>1, <4>1, FS_EmptySet
    <3>5. /\ {} \in SUBSET Coming(p, side) /\ {} \in SUBSET Coming(p, side)'
          /\ {} \cap Coming(p, side) = {} /\ Coming(p, side) \ {} \subseteq Coming(p, side)'
      BY <3>3
    <3>6. Served(p, side) /\ QueuesOK /\ QueuesOK' /\ Shaped(k') /\ script' = script
      BY GoingIs DEF WaitInv, AllServed
    <3> QED BY <3>2, <3>4, <3>5, <3>6, StaysServed
  <2> QED BY <2>1, <2>2
<1> QED BY <1>8, <1>9, <1>10, <1>11 DEF WaitInv, AllServed

(* One loop of prvUnlockQueue: for every item or slot that was counted a   *)
(* waiter is woken, or there is none left.                                 *)
UnlocksSide(t, q, w, R) ==
  /\ IsQueue(q, R) /\ queue' = [queue EXCEPT ![q] = R] /\ R.buf = queue[q].buf
  /\ LockOf(R, w) = queueUNLOCKED
  /\ \A side \in Sides : side # w => LockOf(R, side) = LockOf(queue[q], side)
  /\ k' = WakeCounted(k, ListOf(q, w), LockOf(queue[q], w))
  /\ frame[t].at \in {"unlockTx", "unlockRx"}
  /\ GoTo(t, "unlockRx") \/ GoTo(t, "resume")

(* One step of prvUnlockQueue, on either side.                             *)
LEMMA UnlockStep ==
  ASSUME NEW P, NEW E, Going(P, E), NEW t \in Tasks, Runs(t),
         NEW q \in Queues, NEW w \in Sides, NEW R, UnlocksSide(t, q, w, R)
  PROVE  WaitInv'
<1>0. /\ IsQueue(q, R) /\ queue' = [queue EXCEPT ![q] = R] /\ R.buf = queue[q].buf
      /\ LockOf(R, w) = queueUNLOCKED
      /\ \A side \in Sides : side # w => LockOf(R, side) = LockOf(queue[q], side)
      /\ k' = WakeCounted(k, ListOf(q, w), LockOf(queue[q], w))
      /\ frame[t].at \in {"unlockTx", "unlockRx"}
  BY DEF UnlocksSide
<1>at. PICK at \in {"unlockRx", "resume"} : GoTo(t, at)
  BY DEF UnlocksSide
<1> DEFINE f == [frame[t] EXCEPT !.at = at]
           lw == ListOf(q, w)
           lock == LockOf(queue[q], w)
           X == ToSet(k.event[lw]) \ ToSet(k'.event[lw])
<1>1. /\ DOMAIN frame[t] = {"at", "call", "wait", "timed", "entry", "then"}
      /\ k.xSchedulerRunning /\ k.uxSchedulerSuspended # 0 /\ Settled(k, P, E)
  BY <1>0, InQueueCall, RunningTask, GoingIs, StagesSuspend DEF QueueStages
<1>2. f.at = at /\ f.call = frame[t].call /\ f.then = frame[t].then
  BY <1>1
<1>3. frame' = [frame EXCEPT ![t] = f]
  BY <1>at DEF GoTo
<1> HIDE DEF f
<1>4. Still(frame[t], f)
  BY <1>0, <1>2, <1>at DEF Still, Looks
<1>5. /\ CallsKept /\ \A u \in Tasks : Still(frame[u], frame'[u])
      /\ frame'[t] = f /\ \A u \in Tasks \ {t} : frame'[u] = frame[u]
  BY <1>2, <1>3, <1>4, GoingIs, OneCall, OneFrame
<1>6. QueuesLocked'
  <2>1. \A u \in Tasks : frame'[u].at \notin LockStages
    BY <1>2, <1>5, <1>at, GoingIs, OneLocks DEF Runs, LockStages
  <2> QED BY <2>1 DEF QueuesLocked
<1>7. /\ lw \in EventLists /\ lock \in Int /\ lock >= -1
      /\ QueuesOK /\ IsQueue(q, queue[q]) /\ QueuesOK'
  BY SidesAre, GoingIs, OffersAre DEF QueuesOK
<1>8. /\ Trims(k', k) /\ \A u \in X : NotListed(k', u)
      /\ IsFiniteSet(X)
      /\ k'.event[lw] # <<>> => Cardinality(X) = Counted(lock)
  <2>1. LET r == WakeCounted(k, lw, lock)
            Y == ToSet(k.event[lw]) \ ToSet(r.event[lw])
        IN  /\ Trims(r, k) /\ \A u \in Y : NotListed(r, u)
            /\ IsFiniteSet(Y)
            /\ r.event[lw] # <<>>
                 => Cardinality(Y) = IF lock <= queueLOCKED_UNMODIFIED THEN 0 ELSE lock
    <3> HIDE DEF lw, lock
    <3> QED BY <1>1, <1>7, UnlockingTrims
  <2>2. Counted(lock) = IF lock <= queueLOCKED_UNMODIFIED THEN 0 ELSE lock
    <3> HIDE DEF lock
    <3> QED BY <1>7 DEF Counted, queueUNLOCKED, queueLOCKED_UNMODIFIED
  <2> QED BY <1>0, <2>1, <2>2
<1>9. Eases
  BY <1>8, TrimsEases
<1>10. WaitersLook' /\ EndedLeave' /\ CallsScripted'
  BY <1>5, <1>9, GoingIs, OthersKept
<1>11. queue'[q] = R /\ \A p \in Queues : p # q => queue'[p] = queue[p]
  BY <1>0, <1>7, BlockSet
<1>12. ASSUME NEW p \in Queues, NEW side \in Sides PROVE Served(p, side)'
  <2> DEFINE l == ListOf(p, side)
             C == Coming(p, side)
             D == Coming(p, side)'
             B == IF p = q /\ side = w THEN X ELSE {}
  <2>1. /\ Served(p, side) /\ l \in EventLists
        /\ ToSet(k'.event[l]) \subseteq ToSet(k.event[l])
        /\ IsQueue(p, queue[p]) /\ IsQueue(p, queue'[p])
    BY <1>7, <1>9, SidesAre, GoingIs DEF WaitInv, AllServed, Eases, QueuesOK
  <2>2. C \subseteq D
    <3> SUFFICES ASSUME NEW u \in Coming(p, side) PROVE u \in Coming(p, side)'
      OBVIOUS
    <3>1. u \in Tasks
      BY DEF Coming
    <3> QED BY <1>5, <1>9, <3>1, StaysComing
  <2>3. B \in SUBSET D /\ B \cap C = {}
    <3>1. CASE p = q /\ side = w
      <4> SUFFICES ASSUME NEW u \in X PROVE u \in D /\ u \notin C
        BY <3>1
      <4>1. u \in Tasks
        <5>1. Placed(k, P, E)
          BY GoingIs, SettledNumbers
        <5> QED BY <1>7, <5>1 DEF Placed, Lists
      <4>2. u \in ToSet(k.event[ListOf(p, side)]) /\ NotListed(k', u)
        BY <1>8, <3>1
      <4>3. WaitersLook
        BY GoingIs DEF WaitInv
      <4> QED BY <1>5, <4>1, <4>2, <4>3, WokenComes
    <3>2. CASE ~(p = q /\ side = w)
      BY <3>2
    <3> QED BY <3>1, <3>2
  <2>4. ASSUME k'.event[l] # <<>>
        PROVE  Margin(queue'[p], side) <= Margin(queue[p], side) - Cardinality({}) + Cardinality(B)
    <3>1. Margin(queue'[p], side) \in Int /\ Margin(queue[p], side) \in Int
      BY <2>1, OffersAre
    <3>2. CASE p = q /\ side = w
      <4>1. Cardinality(B) = Counted(lock)
        BY <1>8, <2>4, <3>2
      <4>2. /\ Offer(queue'[p], side) = Offer(queue[p], side)
            /\ Counted(LockOf(queue'[p], side)) = 0 /\ LockOf(queue[p], side) = lock
        BY <1>0, <1>11, <3>2 DEF Offer, Counted
      <4>3. Offer(queue[p], side) \in Int /\ Counted(LockOf(queue[p], side)) \in Int
        BY <2>1, OffersAre
      <4> HIDE DEF B, lock
      <4> QED BY <4>1, <4>2, <4>3, FS_EmptySet DEF Margin
    <3>3. CASE p = q /\ side # w
      <4>1. Margin(queue'[p], side) = Margin(queue[p], side)
        BY <1>0, <1>11, <3>3 DEF Margin, Offer
      <4>2. B = {}
        BY <3>3
      <4> HIDE DEF B
      <4> QED BY <3>1, <4>1, <4>2, FS_EmptySet
    <3>4. CASE p # q
      <4>1. B = {}
        BY <3>4
      <4> QED BY <1>11, <3>1, <3>4, <4>1, FS_EmptySet
    <3> QED BY <3>2, <3>3, <3>4
  <2>5. {} \in SUBSET C /\ C \ {} \subseteq D
    BY <2>2
  <2> HIDE DEF B
  <2> QED BY <1>7, <2>1, <2>3, <2>4, <2>5, GoingIs, StaysServed
<1> QED BY <1>6, <1>10, <1>12 DEF WaitInv, AllServed

(* prvUnlockQueue, the one loop and then the other.                        *)
LEMMA UnlockWaits ==
  ASSUME NEW P, NEW E, Going(P, E), NEW t \in Tasks, UnlockQueueTx(t) \/ UnlockQueueRx(t)
  PROVE  WaitInv'
<1> DEFINE q == frame[t].call.on
           Q == queue[q]
<1>1. Runs(t) /\ frame[t].at \in {"unlockTx", "unlockRx"}
  BY DEF UnlockQueueTx, UnlockQueueRx, Reaches
<1>2. q \in Queues /\ IsQueue(q, Q)
  BY <1>1, InQueueCall DEF QueueStages
<1>3. /\ Q.xRxLock \in -1 .. MaxLock /\ Q.xTxLock \in -1 .. MaxLock
      /\ Q \in ControlBlocks(q) /\ -1 \in -1 .. MaxLock
  BY <1>2, BlockNumbers, BoundsAssumption
<1>4. CASE UnlockQueueTx(t)
  <2> DEFINE R == [Q EXCEPT !.xTxLock = queueUNLOCKED]
  <2>1. /\ k' = WakeCounted(k, ToReceive(q), Q.xTxLock)
        /\ queue' = [queue EXCEPT ![q] = R] /\ GoTo(t, "unlockRx")
    BY <1>4 DEF UnlockQueueTx, UnlockTx
  <2> HIDE DEF q
  <2>2. /\ IsQueue(q, R) /\ R.buf = Q.buf /\ R.xTxLock = queueUNLOCKED
        /\ R.xRxLock = Q.xRxLock
    BY <1>2, <1>3 DEF IsQueue, ControlBlocks, queueUNLOCKED
  <2> HIDE DEF R
  <2>3. /\ LockOf(R, "receive") = queueUNLOCKED /\ ListOf(q, "receive") = ToReceive(q)
        /\ LockOf(Q, "receive") = Q.xTxLock /\ "receive" \in Sides
        /\ \A side \in Sides : side # "receive" => LockOf(R, side) = LockOf(Q, side)
    BY <2>2, SidesAre DEF LockOf, ListOf
  <2>4. UnlocksSide(t, q, "receive", R)
    BY <1>1, <2>1, <2>2, <2>3 DEF UnlocksSide
  <2> QED BY <1>1, <1>2, <2>3, <2>4, UnlockStep
<1>5. CASE UnlockQueueRx(t)
  <2> DEFINE R == [Q EXCEPT !.xRxLock = queueUNLOCKED]
  <2>1. /\ k' = WakeCounted(k, ToSend(q), Q.xRxLock)
        /\ queue' = [queue EXCEPT ![q] = R] /\ GoTo(t, "resume")
    BY <1>5 DEF UnlockQueueRx, UnlockRx
  <2> HIDE DEF q
  <2>2. /\ IsQueue(q, R) /\ R.buf = Q.buf /\ R.xRxLock = queueUNLOCKED
        /\ R.xTxLock = Q.xTxLock
    BY <1>2, <1>3 DEF IsQueue, ControlBlocks, queueUNLOCKED
  <2> HIDE DEF R
  <2>3. /\ LockOf(R, "send") = queueUNLOCKED /\ ListOf(q, "send") = ToSend(q)
        /\ LockOf(Q, "send") = Q.xRxLock /\ "send" \in Sides
        /\ \A side \in Sides : side # "send" => LockOf(R, side) = LockOf(Q, side)
    BY <2>2, SidesAre DEF LockOf, ListOf
  <2>4. UnlocksSide(t, q, "send", R)
    BY <1>1, <2>1, <2>2, <2>3 DEF UnlocksSide
  <2> QED BY <1>1, <1>2, <2>3, <2>4, UnlockStep
<1> QED BY <1>4, <1>5

(* The running task in a call of tasks.c.                                  *)
LEMMA QuietOther ==
  ASSUME NEW P, NEW E, Going(P, E), NEW t \in Tasks, Runs(t), queue' = queue, Trims(k', k),
         NEW f, frame' = [frame EXCEPT ![t] = f], f.call.op \notin QueueOps,
         f.at \notin LockStages, frame[t].call.op \notin QueueOps \/ ~Looks(frame[t])
  PROVE  WaitInv'
<1>1. Still(frame[t], f)
  BY DEF Still
<1> QED BY <1>1, TrimsEases, QuietTask

(* A call of tasks.c begins in the frame Suspends gives it.                *)
LEMMA SuspendsWaits ==
  ASSUME NEW P, NEW E, Going(P, E), NEW t \in Tasks, Runs(t), queue' = queue, k' = k,
         NEW c, c.op \notin QueueOps, NEW then, Suspends(t, c, then), frame[t].at = "ready"
  PROVE  WaitInv'
<1> DEFINE f == [AtRest EXCEPT !.at = "suspend", !.call = c, !.then = then]
<1>1. frame' = [frame EXCEPT ![t] = f]
  BY DEF Suspends
<1>2. f.at = "suspend" /\ f.call = c
  BY DEF AtRest
<1> HIDE DEF f
<1>3. ~Looks(frame[t]) /\ f.at \notin LockStages
  BY <1>2 DEF Looks, LockStages
<1> QED BY <1>1, <1>2, <1>3, GoingIs, QuietOther

(* vTaskDelay.                                                             *)
LEMMA DelayWaits ==
  ASSUME NEW P, NEW E, Going(P, E), NEW t \in Tasks, vTaskDelay(t)
  PROVE  WaitInv'
<1>1. queue' = queue /\ Shaped(k)
  <2>1. queue' = queue
    BY Zenon DEF vTaskDelay
  <2> QED BY <2>1, GoingIs
<1>2. "delay" \notin QueueOps
  BY SMT DEF QueueOps, SendOps, ReceiveOps
<1>3. ASSUME NEW c, c.op = "delay", Enters(t, c), k' = taskYIELD(k), frame' = frame
      PROVE  WaitInv'
  <2>1. k' = YieldIf(TRUE, k)
    BY <1>3 DEF YieldIf
  <2>2. Trims(k', k)
    BY <1>1, <2>1, ReadyingTrims
  <2> QED BY <1>1, <1>3, <2>2, TrimsEases, QuietFrames
<1>4. ASSUME NEW c, c.op = "delay", Enters(t, c), k' = k,
             frame' = [frame EXCEPT ![t] = [AtRest EXCEPT
               !.at = "suspend", !.call = c, !.wait = c.wait, !.then = "block"]]
      PROVE  WaitInv'
  <2> DEFINE f == [AtRest EXCEPT !.at = "suspend", !.call = c, !.wait = c.wait, !.then = "block"]
  <2>1. f.at = "suspend" /\ f.call = c
    BY DEF AtRest
  <2>2. frame' = [frame EXCEPT ![t] = f]
    BY <1>4
  <2> HIDE DEF f
  <2>3. Runs(t) /\ frame[t].at = "ready"
    BY <1>2, <1>4, GoingIs, Begins
  <2>4. ~Looks(frame[t]) /\ f.at \notin LockStages
    BY <2>1, <2>3 DEF Looks, LockStages
  <2> QED BY <1>1, <1>2, <1>4, <2>1, <2>2, <2>3, <2>4, GoingIs, QuietOther
<1>5. ASSUME Reaches(t, "delay"), frame[t].call.op = "delay",
             k' = Delay(k, TimeToWake(k, frame[t].wait)), GoTo(t, "resume")
      PROVE  WaitInv'
  <2>1. Runs(t) /\ Trims(k', k) /\ "resume" \notin LockStages
    BY <1>1, <1>5, SleepingTrims DEF Reaches, LockStages
  <2> QED BY <1>1, <1>2, <1>5, <2>1, QuietGo
<1> QED BY <1>3, <1>4, <1>5, Zenon DEF vTaskDelay

(* vTaskDelayUntil.                                                        *)
LEMMA DelayUntilWaits ==
  ASSUME NEW P, NEW E, Going(P, E), NEW t \in Tasks, vTaskDelayUntil(t)
  PROVE  WaitInv'
<1>1. queue' = queue /\ Shaped(k) /\ Trims(k, k) /\ FramesOK
  BY GoingIs DEF vTaskDelayUntil
<1>2. "delayUntil" \notin QueueOps
  BY SMT DEF QueueOps, SendOps, ReceiveOps
<1>3. ASSUME NEW c, c.op = "delayUntil", Enters(t, c), k' = k, Suspends(t, c, "block")
      PROVE  WaitInv'
  <2>1. Runs(t) /\ frame[t].at = "ready"
    BY <1>2, <1>3, GoingIs, Begins
  <2> QED BY <1>1, <1>2, <1>3, <2>1, SuspendsWaits
<1>4. ASSUME Reaches(t, "delay"), frame[t].call.op = "delayUntil", NEW next, NEW n,
             k' = k \/ k' = Delay(k, next),
             frame' = [frame EXCEPT ![t].at = "resume", ![t].wait = n]
      PROVE  WaitInv'
  <2> DEFINE f == [frame[t] EXCEPT !.at = "resume", !.wait = n]
  <2>1. Runs(t) /\ Trims(k', k) /\ "resume" \notin LockStages
    BY <1>1, <1>4, SleepingTrims DEF Reaches, LockStages
  <2>2. frame' = [frame EXCEPT ![t] = f]
    BY <1>1, <1>4 DEF FramesOK
  <2>3. f.at = "resume" /\ f.call = frame[t].call
    <3>1. IsFrame(t, frame[t])
      BY <1>1 DEF FramesOK
    <3> QED BY <3>1 DEF IsFrame
  <2> HIDE DEF f
  <2>4. f.call.op \notin QueueOps /\ f.at \notin LockStages /\ frame[t].call.op \notin QueueOps
    BY <1>2, <1>4, <2>1, <2>3
  <2> QED BY <1>1, <2>1, <2>2, <2>4, QuietOther
<1> QED BY <1>3, <1>4 DEF vTaskDelayUntil

(* vTaskSuspend: who is suspended leaves its list and looks again.         *)
LEMMA SuspendCallWaits ==
  ASSUME NEW P, NEW E, Going(P, E), NEW t \in Tasks, vTaskSuspend(t)
  PROVE  WaitInv'
<1> DEFINE f(c) == [AtRest EXCEPT !.at = "yield", !.call = c]
<1>1. PICK c : /\ c.op = "suspend" /\ Enters(t, c) /\ k' = TaskSuspend(k, c.on) /\ queue' = queue
               /\ frame' = IF c.on = t THEN [frame EXCEPT ![t] = f(c)] ELSE frame
  BY Zenon DEF vTaskSuspend
<1>2. c.op \notin QueueOps
  BY <1>1, SMT DEF QueueOps, SendOps, ReceiveOps
<1>3. Runs(t) /\ frame[t].at = "ready"
  BY <1>1, <1>2, GoingIs, Begins
<1>4. Trims(k', k)
  BY <1>1, GoingIs, SleepingTrims
<1>5. f(c).at = "yield" /\ f(c).call = c
  BY DEF AtRest
<1> HIDE DEF f
<1>6. ~Looks(frame[t]) /\ f(c).at \notin LockStages
  BY <1>3, <1>5 DEF Looks, LockStages
<1>7. CASE c.on = t
  BY <1>1, <1>2, <1>3, <1>4, <1>5, <1>6, <1>7, QuietOther
<1>8. CASE c.on # t
  BY <1>1, <1>4, <1>8, TrimsEases, QuietFrames
<1> QED BY <1>7, <1>8

(* vTaskResume.                                                            *)
LEMMA ResumeCallWaits ==
  ASSUME NEW P, NEW E, Going(P, E), NEW t \in Tasks, vTaskResumeCall(t)
  PROVE  WaitInv'
<1>1. \E u : k' = vTaskResume(k, u)
  BY DEF vTaskResumeCall
<1>2. frame' = frame /\ queue' = queue
  BY DEF vTaskResumeCall
<1>3. Trims(k', k)
  BY <1>1, GoingIs, ResumingTrims
<1> QED BY <1>2, <1>3, TrimsEases, QuietFrames

(* xTaskCreate: the task that is created is in no call yet.                *)
LEMMA CreateWaits ==
  ASSUME NEW P, NEW E, Going(P, E), NEW t \in Tasks, xTaskCreateCall(t)
  PROVE  WaitInv'
<1>1. queue' = queue /\ Shaped(k) /\ Trims(k, k) /\ FramesOK
  BY GoingIs DEF xTaskCreateCall
<1>2. "create" \notin QueueOps
  BY SMT DEF QueueOps, SendOps, ReceiveOps
<1>3. ASSUME NEW c, c.op = "create", Enters(t, c), Suspends(t, c, "work"), k' = k
      PROVE  WaitInv'
  <2>1. Runs(t) /\ frame[t].at = "ready"
    BY <1>2, <1>3, GoingIs, Begins
  <2> QED BY <1>1, <1>2, <1>3, <2>1, SuspendsWaits
<1>4. ASSUME Reaches(t, "work"), frame[t].call.op = "create", NEW p,
             k' = xTaskCreate(k, frame[t].call.on, p),
             frame' = [frame EXCEPT ![t].at = "yield", ![t].then = "create"]
      PROVE  WaitInv'
  <2> DEFINE f == [frame[t] EXCEPT !.at = "yield", !.then = "create"]
  <2>1. Runs(t) /\ Trims(k', k) /\ "yield" \notin LockStages
    BY <1>1, <1>4, LivesTrim DEF Reaches, LockStages
  <2>2. frame' = [frame EXCEPT ![t] = f]
    BY <1>1, <1>4 DEF FramesOK
  <2>3. f.at = "yield" /\ f.call = frame[t].call
    <3>1. IsFrame(t, frame[t])
      BY <1>1 DEF FramesOK
    <3> QED BY <3>1 DEF IsFrame
  <2> HIDE DEF f
  <2>4. f.call.op \notin QueueOps /\ f.at \notin LockStages /\ frame[t].call.op \notin QueueOps
    BY <1>2, <1>4, <2>1, <2>3
  <2> QED BY <1>1, <2>1, <2>2, <2>4, QuietOther
<1>5. ASSUME Reaches(t, "work"), frame[t].call.op = "create", Return(t), k' = k
      PROVE  WaitInv'
  BY <1>1, <1>2, <1>5, QuietReturn DEF Reaches
<1> QED BY <1>3, <1>4, <1>5 DEF xTaskCreateCall

(* The idle task: whom it frees was in no call of queue.c.                 *)
LEMMA IdleWaits ==
  ASSUME NEW P, NEW E, Going(P, E), prvIdleTask
  PROVE  WaitInv'
<1>0. idle \in Tasks /\ queue' = queue /\ FramesOK
  BY Constants, GoingIs DEF prvIdleTask
<1>1. IdleCall.op \notin QueueOps
  BY SMT DEF IdleCall, QueueOps, SendOps, ReceiveOps
<1>2. ASSUME Runs(idle), frame[idle].at = "ready", Suspends(idle, IdleCall, "work"), k' = k
      PROVE  WaitInv'
  BY <1>0, <1>1, <1>2, SuspendsWaits
<1>3. ASSUME Reaches(idle, "work"), k.terminated # <<>>, k' = FreeTerminated(k),
             frame' = [frame EXCEPT
               ![Head(k.terminated)] = AtRest,
               ![idle] = [AtRest EXCEPT !.at = "suspend", !.call = IdleCall]]
      PROVE  WaitInv'
  <2> DEFINE f == [AtRest EXCEPT !.at = "suspend", !.call = IdleCall]
             h == Head(k.terminated)
  <2>1. Trims(k', k) /\ Eases
    <3>1. Trims(k', k)
      BY <1>3, GoingIs, LivesTrim
    <3> QED BY <3>1, TrimsEases
  <2>2. h \in ToSet(k.terminated) /\ h \in Tasks /\ frame[h].call.op \notin QueueOps
    <3>1. IsList(k.terminated)
      BY GoingIs DEF Shaped
    <3>2. h \in ToSet(k.terminated) /\ h \in Tasks
      BY <1>3, <3>1, HeadAndTail
    <3> QED BY <3>2, GoingIs DEF WaitInv, EndedLeave
  <2>3. f.at = "suspend" /\ f.call = IdleCall
    BY DEF AtRest
  <2> HIDE DEF f, h
  <2>4. /\ frame'[idle] = f /\ frame[idle].at = "work"
        /\ \A u \in Tasks \ {idle} :
             frame'[u] = frame[u] \/ (u = h /\ frame'[u] = AtRest)
    BY <1>0, <1>3 DEF FramesOK, Reaches, f, h
  <2>5. ~Looks(frame[idle]) /\ f.call.op \notin QueueOps /\ f.at \notin LockStages
    BY <1>1, <2>3, <2>4 DEF Looks, LockStages
  <2>6. \A u \in Tasks : Still(frame[u], frame'[u])
    BY <2>2, <2>4, <2>5 DEF Still
  <2>7. CallsKept
    BY <2>4, <2>5, RestIsQuiet DEF CallsKept, CallKept
  <2>8. QueuesLocked'
    <3>1. \A u \in Tasks : frame'[u].at \in LockStages => frame'[u] = frame[u]
      BY <2>4, <2>5, RestIsQuiet
    <3> QED BY <1>0, <3>1, GoingIs DEF WaitInv, QueuesLocked
  <2> QED BY <1>0, <2>1, <2>6, <2>7, <2>8, GoingIs, SameMargins, QuietStep
<1> QED BY <1>2, <1>3 DEF prvIdleTask

(* The start of the scheduler, the switch of tasks and the interrupts that *)
(* are no concern of a queue.                                              *)
LEMMA OutsideWaits ==
  ASSUME NEW P, NEW E, Going(P, E),
         \/ Boot \/ xPortPendSVHandler \/ xPortSysTickHandler
         \/ \E t \in Tasks : ResumeFromISR(t)
  PROVE  WaitInv'
<1>1. Settled(k, P, E) /\ Shaped(k)
  BY GoingIs
<1>2. frame' = frame /\ queue' = queue
  BY DEF Boot, xPortPendSVHandler, xPortSysTickHandler, ResumeFromISR
<1>3. CASE Boot
  <2>1. (\E t, p : k' = xTaskCreate(k, t, p)) \/ k' = vTaskStartScheduler(k)
    BY <1>3 DEF Boot
  <2>2. Trims(k', k)
    BY <1>1, <2>1, LivesTrim
  <2> QED BY <1>2, <2>2, TrimsEases, QuietFrames
<1>4. CASE xPortPendSVHandler
  <2>1. Trims(k', k)
    BY <1>1, <1>4, SwitchingTrims DEF xPortPendSVHandler, InterruptsEnabled
  <2> QED BY <1>2, <2>1, TrimsEases, QuietFrames
<1>5. CASE xPortSysTickHandler
  <2>1. Trims(k', k)
    BY <1>1, <1>5, TimeTrims DEF xPortSysTickHandler, InterruptsEnabled
  <2> QED BY <1>2, <2>1, TrimsEases, QuietFrames
<1>6. CASE \E t \in Tasks : ResumeFromISR(t)
  <2>1. \E t : k' = xTaskResumeFromISR(k, t)
    BY <1>6 DEF ResumeFromISR
  <2>2. Trims(k', k)
    BY <1>1, <2>1, ResumingTrims
  <2> QED BY <1>2, <2>2, TrimsEases, QuietFrames
<1> QED BY <1>3, <1>4, <1>5, <1>6

-----------------------------------------------------------------------------
(* Sending and receiving.                                                  *)

(* What is put in is one item more, what is taken out one less.            *)
LEMMA CountsUp ==
  ASSUME NEW q \in Queues, NEW Q, IsQueue(q, Q), NEW item, NEW k0
  PROVE  \A front : prvCopyDataToQueue(k0, Q, item, front).Q.buf.uxMessagesWaiting
                      = Q.buf.uxMessagesWaiting + 1
<1> SUFFICES ASSUME NEW front, NEW R, R = prvCopyDataToQueue(k0, Q, item, front).Q
             PROVE  R.buf.uxMessagesWaiting = Q.buf.uxMessagesWaiting + 1
  OBVIOUS
<1> DEFINE b == Q.buf
<1>1. /\ DOMAIN Q = {"type", "buf", "pxMutexHolder", "xRxLock", "xTxLock"}
      /\ DOMAIN b = {"uxLength", "store", "pcWriteTo", "pcReadFrom", "uxMessagesWaiting"}
  BY BlockNumbers DEF ControlBlocks, Buffers
<1>2. CASE Q.type = "mutex"
  BY <1>1, <1>2 DEF prvCopyDataToQueue, CountUp
<1>3. CASE Q.type = "semaphore"
  BY <1>1, <1>3 DEF prvCopyDataToQueue, CountUp
<1>4. CASE Q.type \notin {"mutex", "semaphore"}
  <2>1. \A st, at : LET a == [b EXCEPT !.store = st, !.pcWriteTo = at, !.uxMessagesWaiting = @ + 1]
                    IN  a.uxMessagesWaiting = b.uxMessagesWaiting + 1
    BY <1>1
  <2>2. \A st, at : LET a == [b EXCEPT !.store = st, !.pcReadFrom = at, !.uxMessagesWaiting = @ + 1]
                    IN  a.uxMessagesWaiting = b.uxMessagesWaiting + 1
    BY <1>1
  <2>3. CopyToBack(b, item).uxMessagesWaiting = b.uxMessagesWaiting + 1
    BY <2>1, <1>1 DEF CopyToBack
  <2>4. CopyToFront(b, item).uxMessagesWaiting = b.uxMessagesWaiting + 1
    BY <2>2, <1>1 DEF CopyToFront
  <2>5. R = [Q EXCEPT !.buf = IF front THEN CopyToFront(b, item) ELSE CopyToBack(b, item)]
    BY <1>4 DEF prvCopyDataToQueue
  <2> QED BY <1>1, <2>3, <2>4, <2>5
<1> QED BY <1>2, <1>3, <1>4

(* And what is taken out leaves one item less.                             *)
LEMMA CountsDown ==
  ASSUME NEW q \in Queues, NEW Q, IsQueue(q, Q), NEW h, NEW R, R = TakeFromQueue(Q, h)
  PROVE  R.buf.uxMessagesWaiting = Q.buf.uxMessagesWaiting - 1
<1>1. /\ DOMAIN Q = {"type", "buf", "pxMutexHolder", "xRxLock", "xTxLock"}
      /\ DOMAIN Q.buf = {"uxLength", "store", "pcWriteTo", "pcReadFrom", "uxMessagesWaiting"}
  BY BlockNumbers DEF ControlBlocks, Buffers
<1>2. CASE Q.type = "queue"
  BY <1>1, <1>2 DEF TakeFromQueue, CopyFrom
<1>3. CASE Q.type # "queue"
  BY <1>1, <1>3 DEF TakeFromQueue
<1> QED BY <1>2, <1>3

(* The side that is given something, and what it is given.                 *)
Gives(q, w, R) ==
  /\ IsQueue(q, R) /\ queue' = [queue EXCEPT ![q] = R]
  /\ \A side \in Sides :
       Offer(R, side) = Offer(queue[q], side) + (IF side = w THEN 1 ELSE -1)

(* An item put in is for a receiver.                                       *)
LEMMA PutGives ==
  ASSUME QueuesOK, NEW q \in Queues, NEW item, NEW R, PutIn(q, queue[q], R, item),
         R.buf.uxMessagesWaiting = queue[q].buf.uxMessagesWaiting + 1
  PROVE  /\ queue' = [queue EXCEPT ![q] = R] => Gives(q, "receive", R)
         /\ IsQueue(q, R) /\ R.xTxLock = queue[q].xTxLock /\ R.xRxLock = queue[q].xRxLock
<1>1. IsQueue(q, queue[q])
  BY DEF QueuesOK
<1>4. /\ IsQueue(q, R) /\ R.xTxLock = queue[q].xTxLock /\ R.xRxLock = queue[q].xRxLock
  BY DEF PutIn
<1>5. /\ R.buf.uxLength = QueueLength[q] /\ queue[q].buf.uxLength = QueueLength[q]
      /\ QueueLength[q] \in Int /\ queue[q].buf.uxMessagesWaiting \in Int
  BY <1>1, <1>4, BlockNumbers, Lengths
<1>6. queue' = [queue EXCEPT ![q] = R] => Gives(q, "receive", R)
  BY <1>4, <1>5, SidesAre DEF Gives, Offer
<1> QED BY <1>4, <1>6

(* A slot made free is for a sender.                                       *)
LEMMA TakingGives ==
  ASSUME QueuesOK, NEW q \in Queues, ~IsEmpty(queue[q]), NEW h \in Tasks \cup {NoHolder},
         NEW R, R = TakeFromQueue(queue[q], h)
  PROVE  /\ queue' = [queue EXCEPT ![q] = R] => Gives(q, "send", R)
         /\ IsQueue(q, R) /\ R.xTxLock = queue[q].xTxLock /\ R.xRxLock = queue[q].xRxLock
         /\ R.buf.uxMessagesWaiting = queue[q].buf.uxMessagesWaiting - 1
<1>1. IsQueue(q, queue[q])
  BY DEF QueuesOK
<1>2. TakenOut(q, queue[q], R, h)
  BY <1>1, CopiedOut
<1>3. R.buf.uxMessagesWaiting = queue[q].buf.uxMessagesWaiting - 1
  BY <1>1, CountsDown
<1>4. /\ IsQueue(q, R) /\ R.xTxLock = queue[q].xTxLock /\ R.xRxLock = queue[q].xRxLock
  BY <1>2 DEF TakenOut
<1>5. /\ R.buf.uxLength = QueueLength[q] /\ queue[q].buf.uxLength = QueueLength[q]
      /\ QueueLength[q] \in Int /\ queue[q].buf.uxMessagesWaiting \in Int
  BY <1>1, <1>4, BlockNumbers, Lengths
<1> QED BY <1>3, <1>4, <1>5, SidesAre DEF Gives, Offer

(* A call that begins or goes on at the queue it is on.                    *)
LEMMA CallEnters ==
  ASSUME NEW P, NEW E, Going(P, E), NEW t \in Tasks, NEW c, c.op \in QueueOps, Enters(t, c),
         NEW own \in Sides, c.op \in Ops(own)
  PROVE  /\ Runs(t) /\ P[t] >= 0 /\ c.on \in Queues /\ IsQueue(c.on, queue[c.on])
         /\ frame[t].at \in {"ready", "enter"} /\ k.pxCurrentTCB = t
         /\ frame[t].at = "enter" => c = frame[t].call
         /\ frame[t].at = "ready" => c \in script.calls
         /\ Looks(frame[t]) => InCall(frame[t], c.on, own)
<1>1. /\ Runs(t) /\ P[t] >= 0 /\ c.on \in Queues /\ frame[t].at \in {"ready", "enter"}
  BY GoingIs, EntersQueue
<1>2. /\ frame[t].at = "enter" => c = frame[t].call
      /\ frame[t].at = "ready" => c \in script.calls
  BY DEF Enters
<1>3. Looks(frame[t]) => InCall(frame[t], c.on, own)
  BY <1>1, <1>2 DEF Looks, InCall
<1> QED BY <1>1, <1>2, <1>3, GoingIs DEF QueuesOK, Runs

(* A call that finds nothing begins to wait, or fails: it was on its way   *)
(* for nothing.                                                            *)
LEMMA NothingThere ==
  ASSUME NEW P, NEW E, Going(P, E), NEW t \in Tasks, NEW c, c.op \in QueueOps, Enters(t, c),
         NEW own \in Sides, c.op \in Ops(own), Offer(queue[c.on], own) = 0, WaitOrFail(t, c)
  PROVE  WaitInv'
<1> DEFINE q == c.on
           f == IF frame[t].at = "ready" THEN [AtRest EXCEPT !.call = c, !.wait = c.wait]
                ELSE frame[t]
           f1 == IF f.timed THEN f ELSE [f EXCEPT !.timed = TRUE, !.entry = TimeOutState(k)]
           f2 == [f1 EXCEPT !.at = "suspend"]
<1>1. /\ Runs(t) /\ P[t] >= 0 /\ q \in Queues /\ IsQueue(q, queue[q])
      /\ frame[t].at \in {"ready", "enter"}
      /\ frame[t].at = "enter" => c = frame[t].call
      /\ frame[t].at = "ready" => c \in script.calls
      /\ Looks(frame[t]) => InCall(frame[t], q, own)
  BY CallEnters
<1>2. k' = k /\ queue' = queue
  BY DEF WaitOrFail
<1>3. PICK g \in {f2, AtRest} : frame' = [frame EXCEPT ![t] = g]
  BY DEF WaitOrFail, Return
<1>4. IsFrame(t, frame[t])
  BY GoingIs DEF FramesOK
<1>5. f2.at = "suspend" /\ f2.call = c
  BY <1>1, <1>4 DEF IsFrame, AtRest
<1> HIDE DEF f2
<1>6. /\ g.at \notin LockStages
      /\ g.call.op \in QueueOps => g.call = c
  BY <1>5, RestIsQuiet DEF LockStages
<1>7. /\ CallsKept /\ frame'[t] = g /\ \A u \in Tasks \ {t} : frame'[u] = frame[u]
      /\ \A u \in Tasks \ {t} : Still(frame[u], frame'[u])
  <2>1. g.call.op \in QueueOps =>
          g.call = frame[t].call \/ (Runs(t) /\ frame[t].at = "ready" /\ g.call \in script.calls)
    BY <1>1, <1>6
  <2> QED BY <1>3, <2>1, GoingIs, OneCall, OneFrame
<1>8. Eases
  BY <1>2, GoingIs, TrimsEases
<1>9. WaitersLook' /\ EndedLeave' /\ CallsScripted'
  BY <1>1, <1>7, <1>8, GoingIs, OthersKept
<1>10. QueuesLocked'
  <2>1. \A u \in Tasks : frame'[u].at \notin LockStages
    BY <1>1, <1>6, <1>7, GoingIs, OneLocks DEF Runs
  <2> QED BY <2>1 DEF QueuesLocked
<1>11. ASSUME NEW p \in Queues, NEW side \in Sides PROVE Served(p, side)'
  <2>1. CASE p = q /\ side = own
    <3>1. Offer(queue'[p], side) = 0
      BY <1>2, <2>1
    <3>2. Cardinality(Coming(p, side)') \in Nat
      BY ComingIsFinite, FS_CardinalityType
    <3>3. Counted(LockOf(queue'[p], side)) \in Nat
      BY <1>2, GoingIs, OffersAre DEF QueuesOK
    <3>4. Offer(queue'[p], side)
            <= Cardinality(Coming(p, side)') + Counted(LockOf(queue'[p], side))
      BY <3>1, <3>2, <3>3
    <3> QED BY <3>4 DEF Served
  <2>2. CASE ~(p = q /\ side = own)
    <3>1. \A u \in Coming(p, side) : u \in Coming(p, side)'
      <4> SUFFICES ASSUME NEW u \in Coming(p, side) PROVE u \in Coming(p, side)'
        OBVIOUS
      <4>1. u \in Tasks /\ InCall(frame[u], p, side) /\ Looks(frame[u])
        BY DEF Coming
      <4>2. u # t
        <5>1. ASSUME u = t PROVE FALSE
          <6>1. InCall(frame[t], q, own) /\ InCall(frame[t], p, side)
            BY <1>1, <4>1, <5>1
          <6>2. p = q /\ side = own
            BY <6>1, SidesAre DEF InCall
          <6> QED BY <2>2, <6>2
        <5> QED BY <5>1
      <4> QED BY <1>7, <1>8, <4>1, <4>2, StaysComing
    <3>2. Margin(queue'[p], side) <= Margin(queue[p], side) - Cardinality({}) + Cardinality({})
      <4>1. Margin(queue[p], side) \in Int
        BY GoingIs, OffersAre DEF QueuesOK
      <4> QED BY <1>2, <4>1, FS_EmptySet
    <3>3. /\ {} \in SUBSET Coming(p, side) /\ {} \in SUBSET Coming(p, side)'
          /\ {} \cap Coming(p, side) = {} /\ Coming(p, side) \ {} \subseteq Coming(p, side)'
      BY <3>1
    <3>4. Served(p, side) /\ QueuesOK /\ QueuesOK' /\ Shaped(k') /\ script' = script
      BY GoingIs DEF WaitInv, AllServed
    <3> QED BY <1>2, <3>2, <3>3, <3>4, StaysServed
  <2> QED BY <2>1, <2>2
<1> QED BY <1>9, <1>10, <1>11 DEF WaitInv, AllServed

(* A call that is done with its queue: one on its way has come, and one is *)
(* woken for what it leaves.                                               *)
LEMMA CallDone ==
  ASSUME NEW P, NEW E, Going(P, E), NEW t \in Tasks, NEW c, c.op \in QueueOps, Enters(t, c),
         NEW own \in Sides, c.op \in Ops(own), NEW w \in Sides, NEW s, Trims(s, k),
         s.event = k.event, k' = WakeWaiter(s, ListOf(c.on, w)), Return(t),
         \A p \in Queues \ {c.on} : queue'[p] = queue[p],
         \A side \in Sides : Margin(queue'[c.on], side)
           <= Margin(queue[c.on], side) - (IF side = own THEN 1 ELSE 0)
                + (IF side = w THEN 1 ELSE 0)
  PROVE  WaitInv'
<1> DEFINE q == c.on
           T == {t}
<1>1. /\ Runs(t) /\ P[t] >= 0 /\ q \in Queues
      /\ Looks(frame[t]) => InCall(frame[t], q, own)
  BY CallEnters
<1>2. /\ CallsKept /\ frame'[t] = AtRest /\ \A u \in Tasks \ {t} : frame'[u] = frame[u]
      /\ \A u \in Tasks \ T : Still(frame[u], frame'[u])
  BY GoingIs, RestIsQuiet, OneCall, OneFrame DEF Return
<1>3. QueuesLocked'
  <2>1. \A u \in Tasks : frame'[u].at \notin LockStages
    BY <1>1, <1>2, GoingIs, OneLocks, RestIsQuiet DEF Runs
  <2> QED BY <2>1 DEF QueuesLocked
<1>4. T \in SUBSET Tasks /\ IsFiniteSet(T) /\ Cardinality(T) = 1
  BY FS_Singleton
<1>5. \A u \in T : P[u] >= 0 /\ (frame[u].call.op \in QueueOps /\ Looks(frame[u])
                                  => InCall(frame[u], q, own))
  BY <1>1
<1>6. \A side \in Sides : Margin(queue'[q], side)
        <= Margin(queue[q], side) - (IF side = own THEN Cardinality(T) ELSE 0)
             + (IF side = w THEN 1 ELSE 0)
  BY <1>4
<1>7. Cardinality(T) \in {0, 1}
  BY <1>4
<1> HIDE DEF T, q
<1>8. k' = WakeWaiter(s, ListOf(q, w)) /\ \A p \in Queues \ {q} : queue'[p] = queue[p]
  BY DEF q
<1> QED BY <1>1, <1>2, <1>3, <1>4, <1>5, <1>6, <1>7, <1>8, GoingIs, TurnStep

(* prvCopyDataToQueue may change priorities, and nothing else of the       *)
(* scheduler.                                                              *)
LEMMA CopyingTrims ==
  ASSUME NEW s, Shaped(s), NEW Q, NEW item, NEW front
  PROVE  LET r == prvCopyDataToQueue(s, Q, item, front).k
         IN  Trims(r, s) /\ r.event = s.event
<1> DEFINE r == prvCopyDataToQueue(s, Q, item, front).k
<1>1. r = s \/ r = vTaskPriorityDisinherit(s, Q.pxMutexHolder)
  BY DEF prvCopyDataToQueue
<1>2. Trims(s, s)
  BY DEF Shaped, Trims
<1> HIDE DEF r
<1>3. Trims(r, s) /\ r.event = s.event
  BY <1>1, <1>2, PrioritiesTrim
<1> QED BY <1>3 DEF r

(* xQueueGenericSend.                                                      *)
LEMMA SendWaits ==
  ASSUME NEW P, NEW E, Going(P, E), NEW t \in Tasks, xQueueGenericSend(t)
  PROVE  WaitInv'
<1>1. PICK c : /\ c.op \in SendOps /\ Enters(t, c)
               /\ IF IsFull(queue[c.on]) THEN WaitOrFail(t, c)
                  ELSE \E item \in script.items :
                    LET r == SendNow(k, queue[c.on], c.on, item, c.op = "sendToFront")
                    IN  k' = r.k /\ queue' = [queue EXCEPT ![c.on] = r.Q] /\ Return(t)
  BY DEF xQueueGenericSend
<1> DEFINE q == c.on
           Q == queue[q]
<1>2. c.op \in QueueOps /\ "send" \in Sides /\ c.op \in Ops("send") /\ "receive" \in Sides
  BY <1>1, SidesAre DEF QueueOps, Ops
<1>3. q \in Queues /\ IsQueue(q, Q)
  BY <1>1, <1>2, CallEnters
<1>4. CASE IsFull(Q)
  <2>1. Offer(Q, "send") = 0
    BY <1>3, <1>4, BlockNumbers, Lengths DEF Offer, IsFull
  <2> QED BY <1>1, <1>2, <1>4, <2>1, NothingThere
<1>5. ASSUME ~IsFull(Q), NEW item \in script.items,
             k' = SendNow(k, Q, q, item, c.op = "sendToFront").k,
             queue' = [queue EXCEPT ![q] = SendNow(k, Q, q, item, c.op = "sendToFront").Q],
             Return(t)
      PROVE  WaitInv'
  <2> DEFINE front == c.op = "sendToFront"
             s == prvCopyDataToQueue(k, Q, item, front).k
             R == prvCopyDataToQueue(k, Q, item, front).Q
  <2>1. k' = WakeWaiter(s, ListOf(q, "receive")) /\ queue' = [queue EXCEPT ![q] = R]
    BY <1>5 DEF SendNow, ListOf
  <2>2. Trims(s, k) /\ s.event = k.event
    BY GoingIs, CopyingTrims
  <2>3. item \in Items
    BY GoingIs, ScriptsAssumption DEF FramesOK
  <2>4. /\ Gives(q, "receive", R) /\ R.xTxLock = Q.xTxLock /\ R.xRxLock = Q.xRxLock
    <3>1. QueuesOK
      BY GoingIs
    <3>2. PutIn(q, Q, R, item)
      BY <1>3, <1>5, <2>3, CopiedIn
    <3>3. R.buf.uxMessagesWaiting = Q.buf.uxMessagesWaiting + 1
      BY <1>3, CountsUp
    <3> HIDE DEF R
    <3> QED BY <1>3, <2>1, <3>1, <3>2, <3>3, PutGives
  <2> HIDE DEF s, R
  <2>5. queue'[q] = R /\ \A p \in Queues \ {q} : queue'[p] = queue[p]
    BY <1>3, <2>1, <2>4, GoingIs, BlockSet DEF Gives
  <2>6. \A side \in Sides : Margin(queue'[q], side)
          <= Margin(Q, side) - (IF side = "send" THEN 1 ELSE 0)
               + (IF side = "receive" THEN 1 ELSE 0)
    <3> SUFFICES ASSUME NEW side \in Sides
                 PROVE  Margin(R, side) <= Margin(Q, side) - (IF side = "send" THEN 1 ELSE 0)
                          + (IF side = "receive" THEN 1 ELSE 0)
      BY <2>5
    <3>1. /\ Offer(R, side) = Offer(Q, side) + (IF side = "receive" THEN 1 ELSE -1)
          /\ LockOf(R, side) = LockOf(Q, side)
      BY <2>4 DEF Gives, LockOf
    <3>2. Offer(Q, side) \in Int /\ Counted(LockOf(Q, side)) \in Int
      BY <1>3, OffersAre
    <3> QED BY <3>1, <3>2, SidesAre DEF Margin
  <2> QED BY <1>1, <1>2, <1>5, <2>1, <2>2, <2>5, <2>6, CallDone
<1> QED BY <1>1, <1>4, <1>5

(* xQueueGenericReceive.                                                   *)
LEMMA ReceiveWaits ==
  ASSUME NEW P, NEW E, Going(P, E), NEW t \in Tasks, xQueueGenericReceive(t)
  PROVE  WaitInv'
<1>1. PICK c : /\ c.op \in ReceiveOps /\ Enters(t, c)
               /\ IF IsEmpty(queue[c.on]) THEN WaitOrFail(t, c)
                  ELSE LET r == IF c.op = "peek" THEN PeekNow(k, queue[c.on], c.on)
                                ELSE ReceiveNow(k, queue[c.on], c.on)
                       IN  k' = r.k /\ queue' = [queue EXCEPT ![c.on] = r.Q] /\ Return(t)
  BY DEF xQueueGenericReceive
<1> DEFINE q == c.on
           Q == queue[q]
<1>2. /\ c.op \in QueueOps /\ "receive" \in Sides /\ c.op \in Ops("receive")
      /\ "send" \in Sides /\ "receive" # "send"
  BY <1>1, SidesAre DEF QueueOps, Ops
<1>3. q \in Queues /\ IsQueue(q, Q) /\ k.pxCurrentTCB = t
  BY <1>1, <1>2, CallEnters
<1>4. Trims(k, k) /\ \A side \in Sides : /\ Offer(Q, side) \in Int /\ Margin(Q, side) \in Int
                                         /\ Counted(LockOf(Q, side)) \in Int
  BY <1>3, GoingIs, OffersAre
<1>5. CASE IsEmpty(Q)
  <2>1. Offer(Q, "receive") = 0
    BY <1>5, <1>2 DEF Offer, IsEmpty
  <2> QED BY <1>1, <1>2, <1>5, <2>1, NothingThere
<1>6. CASE ~IsEmpty(Q) /\ c.op = "peek"
  <2>1. /\ k' = WakeWaiter(k, ListOf(q, "receive")) /\ queue' = [queue EXCEPT ![q] = Q]
        /\ Return(t)
    BY <1>1, <1>2, <1>6 DEF PeekNow, ListOf
  <2>2. queue'[q] = Q /\ \A p \in Queues \ {q} : queue'[p] = queue[p]
    BY <1>3, <2>1, GoingIs, BlockSet
  <2>3. \A side \in Sides : Margin(queue'[q], side)
          <= Margin(Q, side) - (IF side = "receive" THEN 1 ELSE 0)
               + (IF side = "receive" THEN 1 ELSE 0)
    BY <1>4, <2>2
  <2> QED BY <1>1, <1>2, <1>4, <2>1, <2>2, <2>3, CallDone
<1>7. CASE ~IsEmpty(Q) /\ c.op # "peek"
  <2> DEFINE R == TakeFromQueue(Q, t)
  <2>1. /\ k' = WakeWaiter(k, ListOf(q, "send")) /\ queue' = [queue EXCEPT ![q] = R]
        /\ Return(t)
    BY <1>1, <1>3, <1>7 DEF ReceiveNow, ListOf
  <2>2. /\ Gives(q, "send", R) /\ R.xTxLock = Q.xTxLock /\ R.xRxLock = Q.xRxLock
    <3> HIDE DEF q
    <3> QED BY <1>3, <1>7, <2>1, GoingIs, TakingGives
  <2> HIDE DEF R
  <2>3. queue'[q] = R /\ \A p \in Queues \ {q} : queue'[p] = queue[p]
    BY <1>3, <2>1, <2>2, GoingIs, BlockSet DEF Gives
  <2>4. \A side \in Sides : Margin(queue'[q], side)
          <= Margin(Q, side) - (IF side = "receive" THEN 1 ELSE 0)
               + (IF side = "send" THEN 1 ELSE 0)
    <3> SUFFICES ASSUME NEW side \in Sides
                 PROVE  Margin(R, side) <= Margin(Q, side) - (IF side = "receive" THEN 1 ELSE 0)
                          + (IF side = "send" THEN 1 ELSE 0)
      BY <2>3
    <3>1. /\ Offer(R, side) = Offer(Q, side) + (IF side = "send" THEN 1 ELSE -1)
          /\ LockOf(R, side) = LockOf(Q, side)
      BY <2>2 DEF Gives, LockOf
    <3> QED BY <1>4, <3>1, SidesAre DEF Margin
  <2> QED BY <1>1, <1>2, <1>4, <2>1, <2>3, <2>4, CallDone
<1> QED BY <1>5, <1>6, <1>7

(* An interrupt handler wakes a waiter for what it puts in or takes out,   *)
(* or counts it when the queue is locked.                                  *)
Handles(q, w, R, s) ==
  /\ Gives(q, w, R) /\ frame' = frame
  /\ Trims(s, k) /\ s.event = k.event
  /\ \A side \in Sides : side # w => LockOf(R, side) = LockOf(queue[q], side)
  /\ IF LockOf(queue[q], w) = queueUNLOCKED
     THEN LockOf(R, w) = queueUNLOCKED /\ k' = WakeWaiter(s, ListOf(q, w))
     ELSE LockOf(R, w) = LockOf(queue[q], w) + 1 /\ k' = s

LEMMA HandlerWaits ==
  ASSUME NEW P, NEW E, Going(P, E), NEW q \in Queues, NEW w \in Sides, NEW R, NEW s,
         Handles(q, w, R, s)
  PROVE  WaitInv'
<1> DEFINE Q == queue[q]
<1>1. /\ Gives(q, w, R) /\ frame' = frame /\ Trims(s, k) /\ s.event = k.event
      /\ \A side \in Sides : side # w => LockOf(R, side) = LockOf(Q, side)
      /\ IF LockOf(Q, w) = queueUNLOCKED
         THEN LockOf(R, w) = queueUNLOCKED /\ k' = WakeWaiter(s, ListOf(q, w))
         ELSE LockOf(R, w) = LockOf(Q, w) + 1 /\ k' = s
  BY DEF Handles
<1>2. /\ queue'[q] = R /\ \A p \in Queues \ {q} : queue'[p] = queue[p]
      /\ IsQueue(q, Q) /\ IsQueue(q, R)
      /\ \A side \in Sides :
           Offer(R, side) = Offer(Q, side) + (IF side = w THEN 1 ELSE -1)
  BY <1>1, GoingIs, BlockSet DEF Gives, QueuesOK
<1>3. \A side \in Sides : /\ Offer(Q, side) \in Int /\ LockOf(Q, side) \in Int
                          /\ LockOf(Q, side) >= -1 /\ Margin(Q, side) \in Int
  BY <1>2, OffersAre
<1>4. /\ CallsKept /\ \A u \in Tasks : Still(frame[u], frame'[u])
  BY <1>1 DEF CallsKept, CallKept, Still
<1>5. QueuesLocked'
  <2> SUFFICES ASSUME NEW u \in Tasks, frame[u].at \in LockStages
               PROVE  IsLocked(frame[u], queue'[frame[u].call.on])
    BY <1>1 DEF QueuesLocked
  <2>1. IsLocked(frame[u], queue[frame[u].call.on])
    BY GoingIs DEF WaitInv, QueuesLocked
  <2>2. frame[u].call.on \in Queues
    <3>1. IsFrame(u, frame[u])
      BY GoingIs DEF FramesOK
    <3>2. frame[u].call.op \in QueueOps /\ frame[u].at # "ready"
      BY <3>1, SMT DEF IsFrame, QueueStages, LockStages
    <3>3. frame[u].call \in Calls
      BY <3>1, <3>2, SMT DEF IsFrame, IdleCall, QueueOps, SendOps, ReceiveOps
    <3> QED BY <3>2, <3>3, OnQueues
  <2>3. CASE frame[u].call.on # q
    BY <1>2, <2>1, <2>2, <2>3
  <2>4. CASE frame[u].call.on = q
    <3>1. IsLocked(frame[u], Q)
      BY <2>1, <2>4
    <3>2. \A side \in Sides : LockOf(Q, side) >= 0
      BY <3>1 DEF IsLocked, LockOf
    <3>3. LockOf(R, w) = LockOf(Q, w) + 1
      BY <1>1, <1>3, <3>2 DEF queueUNLOCKED
    <3>4. \A side \in Sides : LockOf(R, side) >= LockOf(Q, side) /\ LockOf(R, side) >= 0
      BY <1>1, <1>3, <3>2, <3>3
    <3>5. R.xTxLock >= 0 /\ R.xRxLock >= 0
      BY <3>4, SidesAre DEF LockOf
    <3>6. \A side \in Sides : Offer(Q, side) <= LockOf(Q, side) => Offer(R, side) <= LockOf(R, side)
      <4> SUFFICES ASSUME NEW side \in Sides, Offer(Q, side) <= LockOf(Q, side)
                   PROVE  Offer(R, side) <= LockOf(R, side)
        OBVIOUS
      <4>1. CASE side = w
        BY <1>2, <1>3, <3>3, <4>1
      <4>2. CASE side # w
        BY <1>1, <1>2, <1>3, <4>2
      <4> QED BY <4>1, <4>2
    <3>7. IsLocked(frame[u], R)
      BY <3>1, <3>5, <3>6 DEF IsLocked
    <3> QED BY <1>2, <2>4, <3>7
  <2> QED BY <2>3, <2>4
<1>6. CASE LockOf(Q, w) = queueUNLOCKED
  <2> DEFINE T == {}
  <2>1. PICK own \in Sides : own # w
    BY SidesAre
  <2>2. T \in SUBSET Tasks /\ IsFiniteSet(T) /\ Cardinality(T) = 0 /\ \A u \in T : FALSE
    BY FS_EmptySet
  <2>3. \A side \in Sides : LockOf(R, side) = LockOf(Q, side)
    BY <1>1, <1>6
  <2>4. \A side \in Sides : Margin(queue'[q], side)
          <= Margin(Q, side) - (IF side = own THEN Cardinality(T) ELSE 0)
               + (IF side = w THEN 1 ELSE 0)
    <3> SUFFICES ASSUME NEW side \in Sides
                 PROVE  Margin(R, side) <= Margin(Q, side) + (IF side = w THEN 1 ELSE 0)
      BY <1>2, <1>3, <2>2
    <3>1. Counted(LockOf(Q, side)) \in Int
      BY <1>2, OffersAre
    <3> QED BY <1>2, <1>3, <2>3, <3>1 DEF Margin
  <2>5. Cardinality(T) \in {0, 1}
    BY <2>2
  <2>6. k' = WakeWaiter(s, ListOf(q, w))
    BY <1>1, <1>6
  <2>7. /\ \A u \in Tasks \ T : Still(frame[u], frame'[u])
        /\ \A u \in T : P[u] >= 0 /\ (frame[u].call.op \in QueueOps /\ Looks(frame[u])
                                       => InCall(frame[u], q, own))
    BY <1>4, <2>2
  <2> HIDE DEF T
  <2> QED BY <1>1, <1>2, <1>4, <1>5, <2>1, <2>2, <2>4, <2>5, <2>6, <2>7, GoingIs, TurnStep
<1>7. CASE LockOf(Q, w) # queueUNLOCKED
  <2>1. LockOf(R, w) = LockOf(Q, w) + 1 /\ k' = s
    BY <1>1, <1>7
  <2>2. Eases
    BY <1>1, <2>1, TrimsEases
  <2>3. ASSUME NEW p \in Queues, NEW side \in Sides
        PROVE  Margin(queue'[p], side) <= Margin(queue[p], side)
    <3>1. CASE p # q
      <4>1. Margin(queue[p], side) \in Int
        BY GoingIs, OffersAre DEF QueuesOK
      <4> QED BY <1>2, <3>1, <4>1
    <3>2. CASE p = q /\ side = w
      <4>1. /\ Counted(LockOf(Q, w)) = LockOf(Q, w)
            /\ Counted(LockOf(R, w)) = LockOf(Q, w) + 1
        BY <1>3, <1>7, <2>1 DEF Counted, queueUNLOCKED
      <4> QED BY <1>2, <1>3, <3>2, <4>1 DEF Margin
    <3>3. CASE p = q /\ side # w
      <4>1. Counted(LockOf(Q, side)) \in Int /\ LockOf(R, side) = LockOf(Q, side)
        BY <1>1, <1>2, <3>3, OffersAre
      <4> QED BY <1>2, <1>3, <3>3, <4>1 DEF Margin
    <3> QED BY <3>1, <3>2, <3>3
  <2> QED BY <1>4, <1>5, <2>2, <2>3, GoingIs, QuietStep
<1> QED BY <1>6, <1>7

(* The four handlers of queue.c.                                           *)
LEMMA HandlersWait ==
  ASSUME NEW P, NEW E, Going(P, E), NEW q \in Queues,
         xQueueGenericSendFromISR(q) \/ xQueueReceiveFromISR(q)
  PROVE  WaitInv'
<1> DEFINE Q == queue[q]
<1>1. /\ IsQueue(q, Q) /\ QueuesOK /\ Shaped(k) /\ Trims(k, k)
      /\ "send" \in Sides /\ "receive" \in Sides /\ "send" # "receive"
  BY GoingIs, SidesAre DEF QueuesOK
<1>2. /\ Q.xRxLock \in -1 .. MaxLock /\ Q.xTxLock \in -1 .. MaxLock
      /\ Q.pxMutexHolder \in Tasks \cup {NoHolder} /\ MaxLock \in Nat
  BY <1>1, BlockNumbers, BoundsAssumption
<1>3. CASE xQueueGenericSendFromISR(q)
  <2>1. PICK item \in script.items :
          /\ k' = SendFromISR(k, Q, q, item).k
          /\ queue' = [queue EXCEPT ![q] = SendFromISR(k, Q, q, item).Q]
    BY <1>3 DEF xQueueGenericSendFromISR
  <2>2. frame' = frame /\ ~IsFull(Q) /\ Q.xTxLock < MaxLock
    BY <1>3 DEF xQueueGenericSendFromISR
  <2> DEFINE c == prvCopyDataToQueue(k, Q, item, FALSE)
             s == c.k
             R1 == c.Q
             R == IF Q.xTxLock = queueUNLOCKED THEN R1 ELSE [R1 EXCEPT !.xTxLock = @ + 1]
  <2>3. item \in Items
    BY GoingIs, ScriptsAssumption DEF FramesOK
  <2>0. PICK back : back = FALSE
    OBVIOUS
  <2>4. /\ IsQueue(q, R1) /\ R1.xTxLock = Q.xTxLock /\ R1.xRxLock = Q.xRxLock
        /\ R1.buf.uxMessagesWaiting = Q.buf.uxMessagesWaiting + 1
    <3>1. PutIn(q, Q, R1, item)
      BY <1>1, <2>2, <2>3, CopiedIn
    <3>2. R1.buf.uxMessagesWaiting = Q.buf.uxMessagesWaiting + 1
      <4>1. R1 = prvCopyDataToQueue(k, Q, item, back).Q
        BY <2>0
      <4> HIDE DEF R1
      <4> QED BY <1>1, <4>1, CountsUp
    <3> HIDE DEF c
    <3> QED BY <3>1, <3>2 DEF PutIn
  <2>5. Trims(s, k) /\ s.event = k.event
    <3>1. s = prvCopyDataToQueue(k, Q, item, back).k
      BY <2>0
    <3> HIDE DEF s
    <3> QED BY <1>1, <3>1, CopyingTrims
  <2>6. /\ queue' = [queue EXCEPT ![q] = R]
        /\ k' = IF Q.xTxLock = queueUNLOCKED THEN WakeWaiter(s, ToReceive(q)) ELSE s
    <3>1. DOMAIN c = {"k", "Q"}
      BY DEF prvCopyDataToQueue
    <3> HIDE DEF c
    <3>2. SendFromISR(k, Q, q, item) =
            IF Q.xTxLock = queueUNLOCKED THEN [k |-> WakeWaiter(s, ToReceive(q)), Q |-> R1]
            ELSE [c EXCEPT !.Q.xTxLock = @ + 1]
      BY DEF SendFromISR, c
    <3> QED BY <2>1, <3>1, <3>2
  <2> HIDE DEF c
  <2>7. /\ IsQueue(q, R) /\ R.buf = R1.buf /\ R.xRxLock = Q.xRxLock
        /\ R.xTxLock = IF Q.xTxLock = queueUNLOCKED THEN queueUNLOCKED ELSE Q.xTxLock + 1
    <3>1. R1 \in ControlBlocks(q) /\ (QueueType[q] = "queue" => PointersAgree(R1.buf))
      BY <2>4 DEF IsQueue
    <3> QED BY <1>2, <2>2, <2>4, <3>1 DEF IsQueue, ControlBlocks, queueUNLOCKED
  <2> HIDE DEF R1, s, R
  <2>8. Gives(q, "receive", R)
    <3>1. /\ R.buf.uxLength = QueueLength[q] /\ Q.buf.uxLength = QueueLength[q]
          /\ QueueLength[q] \in Int /\ Q.buf.uxMessagesWaiting \in Int
      BY <1>1, <2>7, BlockNumbers, Lengths
    <3> QED BY <2>4, <2>6, <2>7, <3>1, SidesAre DEF Gives, Offer
  <2>9. Handles(q, "receive", R, s)
    BY <1>1, <2>2, <2>5, <2>6, <2>7, <2>8, SidesAre DEF Handles, LockOf, ListOf
  <2> QED BY <1>1, <2>9, HandlerWaits
<1>4. CASE xQueueReceiveFromISR(q)
  <2> DEFINE R1 == TakeFromQueue(Q, Q.pxMutexHolder)
             R == IF Q.xRxLock = queueUNLOCKED THEN R1 ELSE [R1 EXCEPT !.xRxLock = @ + 1]
  <2>1. frame' = frame /\ ~IsEmpty(Q) /\ Q.xRxLock < MaxLock
    BY <1>4 DEF xQueueReceiveFromISR
  <2>2. /\ queue' = [queue EXCEPT ![q] = R]
        /\ k' = IF Q.xRxLock = queueUNLOCKED THEN WakeWaiter(k, ToSend(q)) ELSE k
    BY <1>4 DEF xQueueReceiveFromISR, ReceiveFromISR
  <2>3. /\ IsQueue(q, R1) /\ R1.xTxLock = Q.xTxLock /\ R1.xRxLock = Q.xRxLock
        /\ R1.buf.uxMessagesWaiting = Q.buf.uxMessagesWaiting - 1
    BY <1>1, <1>2, <2>1, TakingGives
  <2> HIDE DEF R1
  <2>4. /\ IsQueue(q, R) /\ R.buf = R1.buf /\ R.xTxLock = Q.xTxLock
        /\ R.xRxLock = IF Q.xRxLock = queueUNLOCKED THEN queueUNLOCKED ELSE Q.xRxLock + 1
    <3>1. R1 \in ControlBlocks(q) /\ (QueueType[q] = "queue" => PointersAgree(R1.buf))
      BY <2>3 DEF IsQueue
    <3> QED BY <1>2, <2>1, <2>3, <3>1 DEF IsQueue, ControlBlocks, queueUNLOCKED
  <2> HIDE DEF R
  <2>5. Gives(q, "send", R)
    <3>1. /\ R.buf.uxLength = QueueLength[q] /\ Q.buf.uxLength = QueueLength[q]
          /\ QueueLength[q] \in Int /\ Q.buf.uxMessagesWaiting \in Int
      BY <1>1, <2>4, BlockNumbers, Lengths
    <3> QED BY <2>2, <2>3, <2>4, <3>1, SidesAre DEF Gives, Offer
  <2>6. Handles(q, "send", R, k)
    BY <1>1, <2>1, <2>2, <2>4, <2>5, SidesAre DEF Handles, LockOf, ListOf
  <2> QED BY <1>1, <2>6, HandlerWaits
<1> QED BY <1>3, <1>4

(* A call of queue.c that a task is in is its own.                         *)
LEMMA CallOfOwn ==
  ASSUME FramesOK, NEW t \in Tasks, frame[t].call.op \in QueueOps
  PROVE  frame[t].call.task = t /\ frame[t].call \in Calls /\ t # idle
<1>1. IsFrame(t, frame[t])
  BY DEF FramesOK
<1>2. NoCall.op \notin QueueOps /\ IdleCall.op \notin QueueOps
  BY SMT DEF NoCall, IdleCall, QueueOps, SendOps, ReceiveOps
<1>3. AtRest.call = NoCall
  BY DEF AtRest
<1> QED BY <1>1, <1>2, <1>3 DEF IsFrame

(* vTaskDelete of a task that is in no call of queue.c.                    *)
LEMMA DeleteWaits ==
  ASSUME NEW P, NEW E, Going(P, E), NEW t \in Tasks, vTaskDelete(t)
  PROVE  WaitInv'
<1> DEFINE f(c) == [AtRest EXCEPT !.at = "yield", !.call = c]
<1>1. PICK c : /\ c \in script.calls /\ c.op = "delete" /\ Enters(t, c) /\ c.on \in Existing
               /\ k' = TaskDelete(k, c.on) /\ queue' = queue
               /\ frame' = [frame EXCEPT ![c.on] = IF c.on = t THEN f(c) ELSE AtRest]
  BY Zenon DEF vTaskDelete
<1> DEFINE u == c.on
<1>2. c.op \notin QueueOps
  BY <1>1, SMT DEF QueueOps, SendOps, ReceiveOps
<1>3. Runs(t) /\ frame[t].at = "ready" /\ c.task = t
  BY <1>1, <1>2, GoingIs, Begins
<1>4. /\ \A l \in EventLists : ToSet(k'.event[l]) \subseteq ToSet(k.event[l])
      /\ ToSet(k'.terminated) \subseteq ToSet(k.terminated) \cup {u}
  BY <1>1, GoingIs, DeletingTrims, Zenon
<1>5. f(c).at = "yield" /\ f(c).call = c
  BY DEF AtRest
<1> HIDE DEF f
<1>6. u \in Tasks
  BY <1>1, GoingIs, ExistingPlaces
<1>7. /\ frame'[u] = (IF u = t THEN f(c) ELSE AtRest)
      /\ \A v \in Tasks \ {u} : frame'[v] = frame[v]
  <2> DEFINE g == IF u = t THEN f(c) ELSE AtRest
  <2>1. frame' = [frame EXCEPT ![u] = g] /\ FramesOK
    BY <1>1, GoingIs
  <2> HIDE DEF g
  <2>2. frame'[u] = g /\ \A v \in Tasks \ {u} : frame'[v] = frame[v]
    BY <1>6, <2>1, OneFrame
  <2> QED BY <2>2 DEF g
<1>8. frame'[u].call.op \notin QueueOps /\ frame'[u].at \notin LockStages
  BY <1>2, <1>5, <1>7, RestIsQuiet DEF LockStages
<1>9. Eases
  BY <1>4, <1>6, <1>7, <1>8 DEF Eases
<1>10. CallsKept /\ \A v \in Tasks \ {u} : Still(frame[v], frame'[v])
  BY <1>7, <1>8 DEF CallsKept, CallKept, Still
<1>11. QueuesLocked'
  <2>1. \A v \in Tasks \ {t} : frame[v].at \notin LockStages
    BY <1>3, GoingIs, OneLocks DEF Runs
  <2>2. \A v \in Tasks : frame'[v].at \notin LockStages
    BY <1>3, <1>7, <1>8, <2>1 DEF LockStages
  <2> QED BY <2>2 DEF QueuesLocked
<1>12. CASE SparesWaiters(script)
  <2>1. frame[u].call.op \notin QueueOps \/ ~Looks(frame[u])
    <3>1. CASE u = t
      BY <1>3, <3>1 DEF Looks
    <3>2. CASE u # t
      <4> SUFFICES ASSUME frame[u].call.op \in QueueOps
                   PROVE  FALSE
        OBVIOUS
      <4>1. frame[u].call \in script.calls /\ frame[u].call.task = u
        BY <1>6, GoingIs, CallOfOwn DEF WaitInv, CallsScripted
      <4> QED BY <1>1, <1>3, <1>12, <3>2, <4>1 DEF SparesWaiters
    <3> QED BY <3>1, <3>2
  <2>2. \A v \in Tasks : Still(frame[v], frame'[v])
    BY <1>10, <2>1 DEF Still
  <2> QED BY <1>1, <1>9, <1>10, <1>11, <2>2, GoingIs, SameMargins, QuietStep
<1>13. CASE ~SparesWaiters(script)
  <2>1. NotListed(k', u)
    BY <1>1, GoingIs, DeletingTrims, Zenon
  <2>2. WaitersLook' /\ EndedLeave' /\ CallsScripted'
    BY <1>9, <1>10, <2>1, GoingIs, OthersKept
  <2>3. ~SparesWaiters(script)'
    BY <1>13, GoingIs DEF SparesWaiters
  <2>4. AllServed'
    BY <2>3 DEF AllServed, Served
  <2> QED BY <1>11, <2>2, <2>4 DEF WaitInv
<1> QED BY <1>12, <1>13

(* The script is played as it is.                                          *)
LEMMA ScriptStays ==
  ASSUME Next
  PROVE  script' = script
<1>1. ASSUME NEW t \in Tasks, CallStep(t)
      PROVE  script' = script
  <2>1. CASE SuspendAll(t) \/ LockQueue(t) \/ CheckForTimeOut(t) \/ TestQueue(t)
    BY <2>1, Zenon DEF SuspendAll, LockQueue, CheckForTimeOut, TestQueue
  <2>2. CASE InheritPriority(t) \/ PlaceOnEventList(t) \/ ResumeAll(t) \/ Yield(t)
    BY <2>2, Zenon DEF InheritPriority, PlaceOnEventList, ResumeAll, Yield
  <2>3. CASE UnlockQueueTx(t) \/ UnlockQueueRx(t)
    BY <2>3, Zenon DEF UnlockQueueTx, UnlockQueueRx
  <2> QED BY <1>1, <2>1, <2>2, <2>3 DEF CallStep
<1>2. ASSUME NEW t \in Tasks, Call(t)
      PROVE  script' = script
  <2>1. CASE xQueueGenericSend(t)
    BY <2>1, Zenon DEF xQueueGenericSend, WaitOrFail
  <2>2. CASE xQueueGenericReceive(t)
    BY <2>2, Zenon DEF xQueueGenericReceive, WaitOrFail
  <2>3. CASE vTaskDelay(t) \/ vTaskDelayUntil(t)
    BY <2>3, Zenon DEF vTaskDelay, vTaskDelayUntil
  <2>4. CASE vTaskSuspend(t) \/ vTaskResumeCall(t)
    BY <2>4, Zenon DEF vTaskSuspend, vTaskResumeCall
  <2>5. CASE vTaskDelete(t) \/ xTaskCreateCall(t)
    BY <2>5, Zenon DEF vTaskDelete, xTaskCreateCall
  <2> QED BY <1>2, <2>1, <2>2, <2>3, <2>4, <2>5 DEF Call
<1>3. CASE Interrupt
  BY <1>3, Zenon DEF Interrupt, xPortSysTickHandler, xQueueGenericSendFromISR,
     xQueueReceiveFromISR, ResumeFromISR
<1>4. CASE Boot \/ prvIdleTask \/ xPortPendSVHandler
  BY <1>4, Zenon DEF Boot, prvIdleTask, xPortPendSVHandler
<1> QED BY <1>1, <1>2, <1>3, <1>4 DEF Next

(* At the start nobody waits.                                              *)
LEMMA WaitInit ==
  ASSUME Init
  PROVE  WaitInv
<1>1. /\ \A t \in Tasks : frame[t] = AtRest
      /\ \A l \in EventLists : k.event[l] = <<>>
      /\ k.terminated = <<>>
  BY DEF Init, NoTasks
<1>2. ToSet(<<>>) = {}
  <2>1. <<>> \in Seq(Tasks)
    OBVIOUS
  <2> QED BY <2>1, Members
<1>3. WaitersLook /\ AllServed
  BY <1>1, <1>2, SidesAre DEF WaitersLook, AllServed, Served
<1>4. QueuesLocked /\ EndedLeave /\ CallsScripted
  BY <1>1, <1>2, RestIsQuiet DEF QueuesLocked, EndedLeave, CallsScripted
<1> QED BY <1>3, <1>4 DEF WaitInv

(* Every step keeps the invariant.                                         *)
LEMMA WaitStep ==
  ASSUME KernelInv, KernelInv', WaitInv, [Next]_vars
  PROVE  WaitInv'
<1>1. CASE Next
  <2>1. PICK P, E : Sound(P, E)
    BY DEF KernelInv
  <2>2. PICK Q, F : Sound(Q, F)'
    BY DEF KernelInv
  <2>3. Shaped(k') /\ QueuesOK'
    BY <2>2, SettledIsShaped DEF Sound, MutexInv
  <2>4. Going(P, E)
    BY <1>1, <2>1, <2>3, ScriptStays DEF Going
  <2>5. ASSUME NEW t \in Tasks, CallStep(t)
        PROVE  WaitInv'
    BY <2>4, <2>5, SuspendWaits, LockWaits, CheckWaits, TestWaits, InheritWaits, PlaceWaits,
       UnlockWaits, ResumeWaits, YieldWaits DEF CallStep
  <2>6. ASSUME NEW t \in Tasks, Call(t)
        PROVE  WaitInv'
    BY <2>4, <2>6, SendWaits, ReceiveWaits, DelayWaits, DelayUntilWaits, SuspendCallWaits,
       ResumeCallWaits, DeleteWaits, CreateWaits DEF Call
  <2>7. CASE Boot \/ prvIdleTask \/ xPortPendSVHandler
    BY <2>4, <2>7, IdleWaits, OutsideWaits
  <2>8. CASE Interrupt
    BY <2>4, <2>8, HandlersWait, OutsideWaits DEF Interrupt
  <2> QED BY <1>1, <2>5, <2>6, <2>7, <2>8 DEF Next
<1>2. CASE UNCHANGED vars
  <2>1. script' = script /\ k' = k /\ queue' = queue /\ frame' = frame
    BY <1>2 DEF vars
  <2> QED BY <2>1 DEF WaitInv, WaitersLook, QueuesLocked, EndedLeave, CallsScripted, AllServed,
       Served, Coming, NotListed
<1> QED BY <1>1, <1>2

(* What is served has somebody on its way.                                 *)
LEMMA ServedComes ==
  ASSUME QueuesOK, SparesWaiters(script), NEW q \in Queues, NEW side \in Sides, Served(q, side),
         k.event[ListOf(q, side)] # <<>>, LockOf(queue[q], side) = queueUNLOCKED,
         Offer(queue[q], side) # 0
  PROVE  \E t \in Tasks : InCall(frame[t], q, side) /\ NotListed(k, t)
<1>1. Offer(queue[q], side) \in Nat /\ Counted(LockOf(queue[q], side)) = 0
  BY OffersAre DEF QueuesOK, Counted
<1>2. Cardinality(Coming(q, side)) \in Nat
  BY ComingIsFinite, FS_CardinalityType
<1>3. Cardinality(Coming(q, side)) # 0
  BY <1>1, <1>2 DEF Served
<1>4. Coming(q, side) # {}
  BY <1>3, FS_EmptySet
<1> QED BY <1>4 DEF Coming

(* The invariant implies the property.                                     *)
LEMMA NoneLost ==
  ASSUME QueuesOK, WaitInv, SparesWaiters(script)
  PROVE  NoLostWakeup
<1> SUFFICES ASSUME NEW q \in Queues
             PROVE  /\ /\ queue[q].xTxLock = queueUNLOCKED
                       /\ ~IsEmpty(queue[q]) /\ k.event[ToReceive(q)] # <<>>
                       => OnItsWay(q, ReceiveOps)
                    /\ /\ queue[q].xRxLock = queueUNLOCKED
                       /\ ~IsFull(queue[q]) /\ k.event[ToSend(q)] # <<>>
                       => OnItsWay(q, SendOps)
  BY DEF NoLostWakeup
<1> DEFINE Q == queue[q]
<1>1. /\ Q.buf.uxLength = QueueLength[q] /\ Q.buf.uxMessagesWaiting \in 0 .. QueueLength[q]
      /\ QueueLength[q] \in Nat
  BY BlockNumbers, Lengths, Constants DEF QueuesOK
<1>2. /\ \A side \in Sides : Served(q, side)
      /\ "send" \in Sides /\ "receive" \in Sides
  BY SidesAre DEF WaitInv, AllServed
<1>3. /\ ListOf(q, "send") = ToSend(q) /\ ListOf(q, "receive") = ToReceive(q)
      /\ LockOf(Q, "send") = Q.xRxLock /\ LockOf(Q, "receive") = Q.xTxLock
      /\ Ops("send") = SendOps /\ Ops("receive") = ReceiveOps
  BY DEF ListOf, LockOf, Ops
<1>4. ASSUME Q.xTxLock = queueUNLOCKED, ~IsEmpty(Q), k.event[ToReceive(q)] # <<>>
      PROVE  OnItsWay(q, ReceiveOps)
  <2>1. Offer(Q, "receive") # 0
    BY <1>4 DEF IsEmpty, Offer
  <2>2. PICK t \in Tasks : InCall(frame[t], q, "receive") /\ NotListed(k, t)
    BY <1>2, <1>3, <1>4, <2>1, ServedComes
  <2> QED BY <1>3, <2>2 DEF OnItsWay, InCall, NotListed
<1>5. ASSUME Q.xRxLock = queueUNLOCKED, ~IsFull(Q), k.event[ToSend(q)] # <<>>
      PROVE  OnItsWay(q, SendOps)
  <2>1. Offer(Q, "send") # 0
    BY <1>1, <1>5 DEF IsFull, Offer
  <2>2. PICK t \in Tasks : InCall(frame[t], q, "send") /\ NotListed(k, t)
    BY <1>2, <1>3, <1>5, <2>1, ServedComes
  <2> QED BY <1>3, <2>2 DEF OnItsWay, InCall, NotListed
<1> QED BY <1>4, <1>5

LEMMA WaitInvariant == Spec => []WaitInv
<1>1. Init => WaitInv
  BY WaitInit
<1>2. KernelInv /\ KernelInv' /\ WaitInv /\ [Next]_vars => WaitInv'
  BY WaitStep
<1> QED BY <1>1, <1>2, KernelInvariant, PTL DEF Spec

(* Where queue.c wakes a waiter there was something for it, and what comes *)
(* in while a call makes up its mind is counted by the lock: an item is    *)
(* never there, with tasks waiting for it and none of them on its way, nor *)
(* a slot (prvUnlockQueue, xTaskRemoveFromEventList, xQueueGenericSend).   *)
(* It is so as long as nobody deletes a task that may be in such a call:   *)
(* one that was woken and is deleted before it looks takes the wake-up     *)
(* with it.                                                                *)
THEOREM NoWakeupIsLost == Spec => [](SparesWaiters(script) => NoLostWakeup)
<1>1. MutexInv /\ WaitInv => (SparesWaiters(script) => NoLostWakeup)
  BY NoneLost DEF MutexInv
<1> QED BY <1>1, WaitInvariant, MutexInvariant, PTL

=============================================================================
