------------------------- MODULE RtosPriorityProofs -------------------------
(***************************************************************************)
(* The kernel again: the right task runs.  TopInv says that no ready task  *)
(* is more important than the running one unless a switch is to come, and  *)
(* PrioInv what holds of the priorities of those who hold mutexes, in      *)
(* scripts that use mutexes well.                                          *)
(***************************************************************************)
EXTENDS RtosKernelProofs

-----------------------------------------------------------------------------
(* Who runs.                                                               *)

(* The ready lists that have tasks, and the priority of the task that runs. *)
Busy(s) == {p \in Prios : s.ready[p] # <<>>}
Rank(s) == s.uxPriority[s.pxCurrentTCB]
Best(s) == \A p \in Busy(s) : p <= Rank(s)

(* A switch is to come: it is pending, or was missed while the scheduler   *)
(* was suspended and is made up for when it resumes.                       *)
Switches(s) == s.pendsv \/ (s.uxSchedulerSuspended # 0 /\ s.xMissedYield)
Topmost(s) == Best(s) \/ Switches(s)

Ranks(s) ==
  /\ DOMAIN s = SchedFields /\ s.pxCurrentTCB \in Tasks /\ s.uxPriority \in [Tasks -> Prios]
  /\ IsOver(s.ready, Prios)

(* Who runs, and how important it is, stays.                               *)
Alike(r, s) ==
  /\ Ranks(r) /\ r.pxCurrentTCB = s.pxCurrentTCB /\ r.uxPriority = s.uxPriority
  /\ r.pendsv = s.pendsv /\ r.xMissedYield = s.xMissedYield
  /\ r.uxSchedulerSuspended = s.uxSchedulerSuspended
Empties(r, s) == Alike(r, s) /\ Busy(r) \subseteq Busy(s)
Adds(r, s, p) == Alike(r, s) /\ Busy(r) \subseteq Busy(s) \cup {p}

KeepsTop(r, s) ==
  /\ Ranks(r) /\ r.pxCurrentTCB = s.pxCurrentTCB /\ Rank(r) = Rank(s)
  /\ r.uxSchedulerSuspended = s.uxSchedulerSuspended
  /\ Topmost(s) => Topmost(r)

LEMMA SettledRanks ==
  ASSUME NEW s, NEW P, NEW E, Settled(s, P, E)
  PROVE  Ranks(s) /\ KeepsTop(s, s)
BY SettledNumbers DEF Ranks, KeepsTop, Typed, Placed, Lists

LEMMA KeepsAgain ==
  ASSUME NEW s, NEW a, NEW r, KeepsTop(a, s), KeepsTop(r, a)
  PROVE  KeepsTop(r, s)
BY DEF KeepsTop

(* What only empties ready lists keeps the running task topmost, and so    *)
(* does what adds to a list if a yield follows where the list is above.    *)
LEMMA EmptiesKeeps ==
  ASSUME NEW s, NEW r, Empties(r, s)
  PROVE  KeepsTop(r, s)
BY DEF Empties, Alike, KeepsTop, Topmost, Switches, Best, Rank

LEMMA YieldKeeps ==
  ASSUME NEW s, Ranks(s), NEW b
  PROVE  KeepsTop(YieldIf(b, s), s) /\ KeepsTop(taskYIELD(s), s)
<1>1. KeepsTop(s, s)
  BY DEF KeepsTop
<1>2. KeepsTop(taskYIELD(s), s)
  <2> DEFINE r == taskYIELD(s)
  <2>1. /\ DOMAIN r = SchedFields /\ r.pxCurrentTCB = s.pxCurrentTCB
        /\ r.uxPriority = s.uxPriority /\ r.ready = s.ready /\ r.pendsv = TRUE
        /\ r.uxSchedulerSuspended = s.uxSchedulerSuspended
    BY DEF Ranks, taskYIELD, SchedFields
  <2> HIDE DEF r
  <2>2. KeepsTop(r, s)
    BY <2>1 DEF KeepsTop, Ranks, Rank, Topmost, Switches
  <2> QED BY <2>2 DEF r
<1> QED BY <1>1, <1>2 DEF YieldIf

LEMMA AddsKeeps ==
  ASSUME NEW s, NEW r, NEW p, Adds(r, s, p), Ranks(s), NEW b, b \/ p <= Rank(s)
  PROVE  KeepsTop(YieldIf(b, r), s)
<1>1. CASE b
  <2> DEFINE y == taskYIELD(r)
  <2>1. YieldIf(b, r) = y
    BY <1>1 DEF YieldIf
  <2>2. /\ DOMAIN y = SchedFields /\ y.pxCurrentTCB = r.pxCurrentTCB
        /\ y.uxPriority = r.uxPriority /\ y.ready = r.ready /\ y.pendsv = TRUE
        /\ y.uxSchedulerSuspended = r.uxSchedulerSuspended
    BY DEF Adds, Alike, Ranks, taskYIELD, SchedFields
  <2> HIDE DEF y
  <2>3. KeepsTop(y, s)
    BY <2>2 DEF Adds, Alike, KeepsTop, Ranks, Rank, Topmost, Switches
  <2> QED BY <2>1, <2>3
<1>2. CASE ~b
  <2>1. YieldIf(b, r) = r
    BY <1>2 DEF YieldIf
  <2>2. Best(s) => Best(r)
    BY <1>2 DEF Adds, Alike, Best, Rank
  <2>3. KeepsTop(r, s)
    BY <2>2 DEF Adds, Alike, KeepsTop, Topmost, Switches, Rank
  <2> QED BY <2>1, <2>3
<1> QED BY <1>1, <1>2

(* The operations on lists.                                                *)
LEMMA RemoveFromNone ==
  ASSUME NEW t
  PROVE  RemoveFirst(<<>>, t) = <<>>
<1>1. <<>> \in Seq(Tasks) /\ Len(<<>>) = 0
  OBVIOUS
<1>2. IsList(<<>>) /\ ToSet(<<>>) = {}
  BY <1>1, Members DEF IsList
<1> QED BY <1>2, RemovedFrom

LEMMA RemovalEmpties ==
  ASSUME NEW s, Ranks(s), NEW t
  PROVE  Empties(vListRemoveGeneric(s, t), s)
<1> DEFINE r == vListRemoveGeneric(s, t)
<1>1. /\ DOMAIN r = SchedFields /\ r.pxCurrentTCB = s.pxCurrentTCB
      /\ r.uxPriority = s.uxPriority /\ r.pendsv = s.pendsv
      /\ r.xMissedYield = s.xMissedYield
      /\ r.uxSchedulerSuspended = s.uxSchedulerSuspended
      /\ r.ready = [p \in Prios |-> RemoveFirst(s.ready[p], t)]
  BY DEF Ranks, vListRemoveGeneric, SchedFields
<1> HIDE DEF r
<1>2. \A p \in Prios : s.ready[p] = <<>> => r.ready[p] = <<>>
  BY <1>1, RemoveFromNone
<1>3. Ranks(r)
  BY <1>1 DEF Ranks, IsOver
<1>4. Empties(r, s)
  BY <1>1, <1>2, <1>3 DEF Empties, Alike, Busy
<1> QED BY <1>4 DEF r

LEMMA LeavingEmpties ==
  ASSUME NEW s, Ranks(s), NEW t
  PROVE  Empties(vListRemoveEvent(s, t), s)
<1> DEFINE r == vListRemoveEvent(s, t)
<1>1. /\ DOMAIN r = SchedFields /\ r.pxCurrentTCB = s.pxCurrentTCB
      /\ r.uxPriority = s.uxPriority /\ r.pendsv = s.pendsv
      /\ r.xMissedYield = s.xMissedYield
      /\ r.uxSchedulerSuspended = s.uxSchedulerSuspended
      /\ r.ready = s.ready
  BY DEF Ranks, vListRemoveEvent, SchedFields
<1> HIDE DEF r
<1>2. Empties(r, s)
  BY <1>1 DEF Ranks, Empties, Alike, Busy
<1> QED BY <1>2 DEF r

LEMMA ReadyAdds ==
  ASSUME NEW s, Ranks(s), NEW t \in Tasks
  PROVE  Adds(prvAddTaskToReadyQueue(s, t), s, s.uxPriority[t])
<1> DEFINE r == prvAddTaskToReadyQueue(s, t)
           u == s.uxPriority[t]
<1>1. /\ DOMAIN r = SchedFields /\ r.pxCurrentTCB = s.pxCurrentTCB
      /\ r.uxPriority = s.uxPriority /\ r.pendsv = s.pendsv
      /\ r.xMissedYield = s.xMissedYield
      /\ r.uxSchedulerSuspended = s.uxSchedulerSuspended
      /\ r.ready = [s.ready EXCEPT ![u] = Append(@, t)]
  BY DEF Ranks, prvAddTaskToReadyQueue, SchedFields
<1> HIDE DEF r
<1>2. u \in Prios
  BY DEF Ranks
<1> HIDE DEF u
<1>3. r.ready[u] = Append(s.ready[u], t) /\ \A p \in Prios \ {u} : r.ready[p] = s.ready[p]
  BY <1>1, <1>2 DEF Ranks, IsOver
<1>4. Busy(r) \subseteq Busy(s) \cup {u}
  BY <1>3 DEF Busy
<1>5. Ranks(r)
  BY <1>1 DEF Ranks, IsOver
<1>6. Adds(r, s, u)
  BY <1>1, <1>4, <1>5 DEF Adds, Alike
<1> QED BY <1>6 DEF r, u

(* A task made ready, or pending while the scheduler is suspended.         *)
LEMMA ReadyingAdds ==
  ASSUME NEW s, Ranks(s), NEW t \in Tasks
  PROVE  /\ Adds(prvAddTaskToReadyQueue(vListRemoveGeneric(s, t), t), s, s.uxPriority[t])
         /\ Adds(ReadyOrPend(s, t), s, s.uxPriority[t])
         /\ s.uxSchedulerSuspended # 0 => Empties(ReadyOrPend(s, t), s)
<1> DEFINE g == vListRemoveGeneric(s, t)
           r == prvAddTaskToReadyQueue(g, t)
           w == [s EXCEPT !.pending = Append(@, t)]
<1>1. Empties(g, s)
  BY RemovalEmpties
<1>2. ReadyOrPend(s, t) = IF s.uxSchedulerSuspended = 0 THEN r ELSE w
  BY DEF ReadyOrPend
<1>3. Empties(w, s)
  <2>1. /\ DOMAIN w = SchedFields /\ w.pxCurrentTCB = s.pxCurrentTCB
        /\ w.uxPriority = s.uxPriority /\ w.pendsv = s.pendsv
        /\ w.xMissedYield = s.xMissedYield /\ w.ready = s.ready
        /\ w.uxSchedulerSuspended = s.uxSchedulerSuspended
    BY DEF Ranks, SchedFields
  <2> HIDE DEF w
  <2> QED BY <2>1 DEF Ranks, Empties, Alike, Busy
<1> HIDE DEF g, w
<1>4. Adds(r, g, s.uxPriority[t])
  BY <1>1, ReadyAdds DEF Empties, Alike
<1> HIDE DEF r
<1>5. Adds(r, s, s.uxPriority[t])
  BY <1>1, <1>4 DEF Adds, Empties, Alike
<1>6. Adds(ReadyOrPend(s, t), s, s.uxPriority[t])
  BY <1>2, <1>3, <1>5 DEF Adds, Empties
<1>7. s.uxSchedulerSuspended # 0 => Empties(ReadyOrPend(s, t), s)
  BY <1>2, <1>3
<1> QED BY <1>5, <1>6, <1>7 DEF g, r

(* vTaskResume and xTaskResumeFromISR yield to a task that is no less      *)
(* important.                                                              *)
LEMMA ResumingKeeps ==
  ASSUME NEW s, Ranks(s), NEW t \in Tasks
  PROVE  KeepsTop(vTaskResume(s, t), s) /\ KeepsTop(xTaskResumeFromISR(s, t), s)
<1> DEFINE r == prvAddTaskToReadyQueue(vListRemoveGeneric(s, t), t)
           w == ReadyOrPend(s, t)
           b == s.uxPriority[t] >= s.uxPriority[s.pxCurrentTCB]
           c == s.uxSchedulerSuspended = 0 /\ b
<1>1. /\ Adds(r, s, s.uxPriority[t]) /\ Adds(w, s, s.uxPriority[t])
      /\ s.uxSchedulerSuspended # 0 => Empties(w, s)
  BY ReadyingAdds
<1>2. vTaskResume(s, t) = YieldIf(b, r) /\ xTaskResumeFromISR(s, t) = YieldIf(c, w)
  BY DEF vTaskResume, xTaskResumeFromISR
<1> HIDE DEF r, w
<1>3. b \/ s.uxPriority[t] <= Rank(s)
  BY Constants DEF Ranks, Rank
<1> HIDE DEF b
<1>4. KeepsTop(YieldIf(b, r), s)
  BY <1>1, <1>3, AddsKeeps
<1>5. CASE s.uxSchedulerSuspended = 0
  <2>1. c \/ s.uxPriority[t] <= Rank(s)
    BY <1>3, <1>5
  <2> HIDE DEF c
  <2>2. KeepsTop(YieldIf(c, w), s)
    BY <1>1, <2>1, AddsKeeps
  <2> QED BY <1>2, <1>4, <2>2
<1>6. CASE s.uxSchedulerSuspended # 0
  <2>1. YieldIf(c, w) = w
    BY <1>6 DEF YieldIf
  <2>2. KeepsTop(w, s)
    BY <1>1, <1>6, EmptiesKeeps
  <2> QED BY <1>2, <1>4, <2>1, <2>2
<1> QED BY <1>5, <1>6

(* A waiter is woken, and yielded to if it is no less important.           *)
LEMMA WakingKeeps ==
  ASSUME NEW s, Ranks(s), NEW l, s.event[l] # <<>> => Head(s.event[l]) \in Tasks
  PROVE  KeepsTop(WakeWaiter(s, l), s)
<1> DEFINE h == Head(s.event[l])
           e == vListRemoveEvent(s, h)
           p == ReadyOrPend(e, h)
           x == xTaskRemoveFromEventList(s, l)
           b == s.uxPriority[h] >= s.uxPriority[s.pxCurrentTCB]
<1>1. CASE s.event[l] = <<>>
  BY <1>1 DEF WakeWaiter, KeepsTop
<1>2. CASE s.event[l] # <<>>
  <2>1. h \in Tasks /\ Empties(e, s)
    BY <1>2, LeavingEmpties
  <2>2. x.k = p /\ x.woken = b
    BY DEF xTaskRemoveFromEventList
  <2>3. WakeWaiter(s, l) = YieldIf(x.woken, x.k)
    BY <1>2 DEF WakeWaiter
  <2>4. b \/ s.uxPriority[h] <= Rank(s)
    BY <2>1, Constants DEF Ranks, Rank
  <2> HIDE DEF e, x, h
  <2>5. Adds(p, e, e.uxPriority[h])
    BY <2>1, ReadyingAdds DEF Empties, Alike
  <2> HIDE DEF p
  <2>6. Adds(p, s, s.uxPriority[h])
    BY <2>1, <2>5 DEF Adds, Empties, Alike
  <2> HIDE DEF b
  <2>7. KeepsTop(YieldIf(b, p), s)
    BY <2>4, <2>6, AddsKeeps
  <2> QED BY <2>2, <2>3, <2>7
<1> QED BY <1>1, <1>2

(* Who stops running empties lists, and so do the end of a task and its    *)
(* removal.                                                                *)
LEMMA StoppingEmpties ==
  ASSUME NEW s, Ranks(s), NEW w, NEW l, NEW t
  PROVE  /\ Empties(Delay(s, w), s) /\ Empties(vTaskPlaceOnEventList(s, l, w), s)
         /\ Empties(TaskSuspend(s, t), s) /\ Empties(TaskDelete(s, t), s)
         /\ Empties(FreeTerminated(s), s)
<1>1. \A a, u : Ranks(a) => Empties([vListRemoveGeneric(a, u) EXCEPT !.suspended = @ \cup {u}], a)
  <2> SUFFICES ASSUME NEW a, NEW u, Ranks(a)
               PROVE  Empties([vListRemoveGeneric(a, u) EXCEPT !.suspended = @ \cup {u}], a)
    OBVIOUS
  <2> DEFINE g == vListRemoveGeneric(a, u)
             r == [g EXCEPT !.suspended = @ \cup {u}]
  <2>1. Empties(g, a)
    BY RemovalEmpties
  <2> HIDE DEF g
  <2>2. /\ DOMAIN r = SchedFields /\ r.pxCurrentTCB = g.pxCurrentTCB
        /\ r.uxPriority = g.uxPriority /\ r.pendsv = g.pendsv
        /\ r.xMissedYield = g.xMissedYield /\ r.ready = g.ready
        /\ r.uxSchedulerSuspended = g.uxSchedulerSuspended
    BY <2>1 DEF Empties, Alike, Ranks, SchedFields
  <2> HIDE DEF r
  <2>3. Empties(r, a)
    BY <2>1, <2>2 DEF Empties, Alike, Ranks, Busy
  <2> QED BY <2>3 DEF r, g
<1>2. \A a, x : Ranks(a) => Empties(Delay(a, x), a)
  <2> SUFFICES ASSUME NEW a, NEW x, Ranks(a) PROVE Empties(Delay(a, x), a)
    OBVIOUS
  <2> DEFINE u == a.pxCurrentTCB
             at == [a.wakeTime EXCEPT ![u] = x]
             g == vListRemoveGeneric(a, u)
             k1 == [g EXCEPT !.wakeTime = at]
             k2 == [k1 EXCEPT !.overflow = vListInsert(@, u, at)]
             k3 == [k1 EXCEPT !.delayed = vListInsert(@, u, at)]
             r == Delay(a, x)
  <2>1. Empties(g, a)
    BY RemovalEmpties
  <2>2. r = IF x < a.xTickCount THEN k2 ELSE k3
    BY DEF Delay
  <2> HIDE DEF g, at
  <2>3. /\ DOMAIN k2 = SchedFields /\ k2.pxCurrentTCB = g.pxCurrentTCB
        /\ k2.uxPriority = g.uxPriority /\ k2.pendsv = g.pendsv
        /\ k2.xMissedYield = g.xMissedYield /\ k2.ready = g.ready
        /\ k2.uxSchedulerSuspended = g.uxSchedulerSuspended
    BY <2>1 DEF Empties, Alike, Ranks, SchedFields
  <2>4. /\ DOMAIN k3 = SchedFields /\ k3.pxCurrentTCB = g.pxCurrentTCB
        /\ k3.uxPriority = g.uxPriority /\ k3.pendsv = g.pendsv
        /\ k3.xMissedYield = g.xMissedYield /\ k3.ready = g.ready
        /\ k3.uxSchedulerSuspended = g.uxSchedulerSuspended
    BY <2>1 DEF Empties, Alike, Ranks, SchedFields
  <2> HIDE DEF k1, k2, k3, r
  <2>5. Empties(k2, a) /\ Empties(k3, a)
    BY <2>1, <2>3, <2>4 DEF Empties, Alike, Ranks, Busy
  <2>6. Empties(r, a)
    BY <2>2, <2>5
  <2> QED BY <2>6 DEF r
<1>3. Empties(vTaskPlaceOnEventList(s, l, w), s)
  <2> DEFINE u == s.pxCurrentTCB
             a == [s EXCEPT !.event[l] = vListInsert(@, u, s.eventValue)]
             b == [vListRemoveGeneric(a, u) EXCEPT !.suspended = @ \cup {u}]
             c == Delay(a, TimeToWake(s, w))
             r == vTaskPlaceOnEventList(s, l, w)
  <2>1. r = IF w = portMAX_DELAY THEN b ELSE c
    BY DEF vTaskPlaceOnEventList
  <2>2. /\ DOMAIN a = SchedFields /\ a.pxCurrentTCB = s.pxCurrentTCB
        /\ a.uxPriority = s.uxPriority /\ a.pendsv = s.pendsv
        /\ a.xMissedYield = s.xMissedYield /\ a.ready = s.ready
        /\ a.uxSchedulerSuspended = s.uxSchedulerSuspended
    BY DEF Ranks, SchedFields
  <2> HIDE DEF a, r
  <2>3. Empties(a, s) /\ Ranks(a)
    BY <2>2 DEF Empties, Alike, Ranks, Busy
  <2>4. Empties(b, a) /\ Empties(c, a)
    BY <1>1, <1>2, <2>3
  <2> HIDE DEF b, c
  <2>5. Empties(r, s)
    BY <2>1, <2>3, <2>4 DEF Empties, Alike
  <2> QED BY <2>5 DEF r
<1>4. Empties(TaskSuspend(s, t), s) /\ Empties(TaskDelete(s, t), s)
  <2> DEFINE g == vListRemoveGeneric(s, t)
             e == vListRemoveEvent(g, t)
             a == [e EXCEPT !.suspended = @ \cup {t}]
             d == [e EXCEPT !.terminated = Append(@, t), !.uxTasksDeleted = @ + 1]
  <2>1. Empties(g, s)
    BY RemovalEmpties
  <2> HIDE DEF g
  <2>2. Empties(e, g)
    BY <2>1, LeavingEmpties DEF Empties, Alike
  <2> HIDE DEF e
  <2>3. Empties(e, s)
    BY <2>1, <2>2 DEF Empties, Alike
  <2>4. /\ DOMAIN a = SchedFields /\ a.pxCurrentTCB = e.pxCurrentTCB
        /\ a.uxPriority = e.uxPriority /\ a.pendsv = e.pendsv
        /\ a.xMissedYield = e.xMissedYield /\ a.ready = e.ready
        /\ a.uxSchedulerSuspended = e.uxSchedulerSuspended
    BY <2>3 DEF Empties, Alike, Ranks, SchedFields
  <2>5. /\ DOMAIN d = SchedFields /\ d.pxCurrentTCB = e.pxCurrentTCB
        /\ d.uxPriority = e.uxPriority /\ d.pendsv = e.pendsv
        /\ d.xMissedYield = e.xMissedYield /\ d.ready = e.ready
        /\ d.uxSchedulerSuspended = e.uxSchedulerSuspended
    BY <2>3 DEF Empties, Alike, Ranks, SchedFields
  <2>6. TaskSuspend(s, t) = a /\ TaskDelete(s, t) = d
    BY DEF TaskSuspend, TaskDelete, e, g
  <2> HIDE DEF a, d
  <2>7. Empties(a, s) /\ Empties(d, s)
    BY <2>3, <2>4, <2>5 DEF Empties, Alike, Ranks, Busy
  <2> QED BY <2>6, <2>7
<1>5. Empties(FreeTerminated(s), s)
  <2> DEFINE r == FreeTerminated(s)
  <2>1. /\ DOMAIN r = SchedFields /\ r.pxCurrentTCB = s.pxCurrentTCB
        /\ r.uxPriority = s.uxPriority /\ r.pendsv = s.pendsv
        /\ r.xMissedYield = s.xMissedYield /\ r.ready = s.ready
        /\ r.uxSchedulerSuspended = s.uxSchedulerSuspended
    BY DEF Ranks, FreeTerminated, SchedFields
  <2> HIDE DEF r
  <2>2. Empties(r, s)
    BY <2>1 DEF Empties, Alike, Ranks, Busy
  <2> QED BY <2>2 DEF r
<1> QED BY <1>2, <1>3, <1>4, <1>5

(* The priority of a task is set.                                          *)
SetTo(r, s, t, p) ==
  /\ Ranks(r) /\ r.pxCurrentTCB = s.pxCurrentTCB /\ Busy(r) = Busy(s)
  /\ r.pendsv = s.pendsv /\ r.xMissedYield = s.xMissedYield
  /\ r.uxSchedulerSuspended = s.uxSchedulerSuspended
  /\ r.uxPriority[t] = p /\ \A u \in Tasks \ {t} : r.uxPriority[u] = s.uxPriority[u]

LEMMA PriorityIsSet ==
  ASSUME NEW s, Ranks(s), NEW t \in Tasks, NEW p \in Prios
  PROVE  SetTo(SetPriority(s, t, p), s, t, p)
<1> DEFINE r == SetPriority(s, t, p)
<1>1. /\ DOMAIN r = SchedFields /\ r.pxCurrentTCB = s.pxCurrentTCB
      /\ r.uxPriority = [s.uxPriority EXCEPT ![t] = p] /\ r.ready = s.ready
      /\ r.pendsv = s.pendsv /\ r.xMissedYield = s.xMissedYield
      /\ r.uxSchedulerSuspended = s.uxSchedulerSuspended
  BY DEF Ranks, SetPriority, SchedFields
<1> HIDE DEF r
<1>2. Ranks(r) /\ Busy(r) = Busy(s)
  BY <1>1 DEF Ranks, Busy
<1>3. r.uxPriority[t] = p /\ \A u \in Tasks \ {t} : r.uxPriority[u] = s.uxPriority[u]
  BY <1>1 DEF Ranks
<1>4. SetTo(r, s, t, p)
  BY <1>1, <1>2, <1>3 DEF SetTo
<1> QED BY <1>4 DEF r

(* vTaskPriorityInherit raises another task to the priority of the one     *)
(* that runs.                                                              *)
LEMMA InheritingKeeps ==
  ASSUME NEW s, Ranks(s), NEW h \in Tasks
  PROVE  KeepsTop(vTaskPriorityInherit(s, h), s)
<1> DEFINE p == s.uxPriority[s.pxCurrentTCB]
           a == SetPriority(s, h, p)
           g == vListRemoveGeneric(a, h)
           b == prvAddTaskToReadyQueue(g, h)
           r == vTaskPriorityInherit(s, h)
<1>1. KeepsTop(s, s) /\ p \in Prios
  BY DEF KeepsTop, Ranks
<1>2. CASE s.uxPriority[h] >= p
  BY <1>1, <1>2 DEF vTaskPriorityInherit
<1>3. CASE ~(s.uxPriority[h] >= p)
  <2>1. h # s.pxCurrentTCB
    BY <1>3, Constants DEF Ranks
  <2>2. r \in {a, b}
    BY <1>3 DEF vTaskPriorityInherit
  <2> HIDE DEF p
  <2>0. SetTo(a, s, h, p)
    BY <1>1, PriorityIsSet
  <2> HIDE DEF a, r
  <2>3. /\ Ranks(a) /\ a.pxCurrentTCB = s.pxCurrentTCB /\ Busy(a) = Busy(s)
        /\ a.pendsv = s.pendsv /\ a.xMissedYield = s.xMissedYield
        /\ a.uxSchedulerSuspended = s.uxSchedulerSuspended
        /\ a.uxPriority[h] = p /\ \A u \in Tasks \ {h} : a.uxPriority[u] = s.uxPriority[u]
    BY <2>0 DEF SetTo
  <2>4. Rank(a) = Rank(s) /\ Rank(s) = p
    BY <2>1, <2>3 DEF Rank, Ranks, p
  <2>5. Empties(g, a)
    BY <2>3, RemovalEmpties
  <2> HIDE DEF g
  <2>6. Adds(b, g, g.uxPriority[h])
    BY <2>5, ReadyAdds DEF Empties, Alike
  <2> HIDE DEF b
  <2>7. Adds(b, a, p)
    BY <2>3, <2>5, <2>6 DEF Adds, Empties, Alike
  <2>8. Rank(b) = Rank(s) /\ Busy(b) \subseteq Busy(s) \cup {p}
    BY <2>3, <2>4, <2>7 DEF Adds, Alike, Rank
  <2>9. p <= Rank(s)
    BY <1>1, <2>4, Constants
  <2>10. Best(s) => Best(a) /\ Best(b)
    BY <2>3, <2>4, <2>8, <2>9 DEF Best
  <2>11. KeepsTop(a, s) /\ KeepsTop(b, s)
    BY <2>3, <2>4, <2>7, <2>8, <2>10 DEF KeepsTop, Adds, Alike, Topmost, Switches
  <2>12. KeepsTop(r, s)
    BY <2>2, <2>11
  <2> QED BY <2>12 DEF r
<1> QED BY <1>2, <1>3

(* vTaskPriorityDisinherit of the task that runs: it stays topmost unless  *)
(* it falls.                                                               *)
LEMMA DisinheritingKeeps ==
  ASSUME NEW s, Ranks(s), s.uxBasePriority \in [Tasks -> Prios]
  PROVE  LET r == vTaskPriorityDisinherit(s, s.pxCurrentTCB)
         IN  /\ Ranks(r) /\ r.pxCurrentTCB = s.pxCurrentTCB
             /\ r.uxSchedulerSuspended = s.uxSchedulerSuspended /\ r.pendsv = s.pendsv
             /\ Topmost(s) /\ Rank(s) <= Rank(r) => Topmost(r)
<1> DEFINE h == s.pxCurrentTCB
           p == s.uxBasePriority[h]
           g == vListRemoveGeneric(s, h)
           a == SetPriority(g, h, p)
           b == prvAddTaskToReadyQueue(a, h)
           r == vTaskPriorityDisinherit(s, h)
           Goal == /\ Ranks(r) /\ r.pxCurrentTCB = s.pxCurrentTCB
                   /\ r.uxSchedulerSuspended = s.uxSchedulerSuspended /\ r.pendsv = s.pendsv
                   /\ Topmost(s) /\ Rank(s) <= Rank(r) => Topmost(r)
<1>1. h \in Tasks /\ p \in Prios
  BY DEF Ranks
<1>2. CASE s.uxPriority[h] = p
  <2>1. r = s
    BY <1>2 DEF vTaskPriorityDisinherit
  <2> HIDE DEF r
  <2>2. Goal
    BY <2>1
  <2> QED BY <2>2 DEF r
<1>3. CASE s.uxPriority[h] # p
  <2>1. r = b
    BY <1>1, <1>3 DEF vTaskPriorityDisinherit
  <2>2. Empties(g, s) /\ Ranks(g)
    BY RemovalEmpties DEF Empties, Alike
  <2> HIDE DEF g, r
  <2> HIDE DEF p, h
  <2>0. SetTo(a, g, h, p)
    BY <1>1, <2>2, PriorityIsSet
  <2> HIDE DEF a
  <2>3. /\ Ranks(a) /\ a.pxCurrentTCB = g.pxCurrentTCB /\ Busy(a) = Busy(g)
        /\ a.pendsv = g.pendsv /\ a.xMissedYield = g.xMissedYield
        /\ a.uxSchedulerSuspended = g.uxSchedulerSuspended
        /\ a.uxPriority[h] = p
    BY <2>0 DEF SetTo
  <2>4. Adds(b, a, p)
    BY <1>1, <2>3, ReadyAdds
  <2> HIDE DEF b
  <2>5. /\ Ranks(b) /\ b.pxCurrentTCB = h /\ Rank(b) = p
        /\ Busy(b) \subseteq Busy(s) \cup {p}
        /\ b.pendsv = s.pendsv /\ b.xMissedYield = s.xMissedYield
        /\ b.uxSchedulerSuspended = s.uxSchedulerSuspended
    BY <2>2, <2>3, <2>4 DEF Adds, Empties, Alike, Rank, h
  <2>6. Rank(s) \in Int /\ p \in Int /\ \A x \in Busy(s) : x \in Int
    BY <1>1, Constants DEF Ranks, Rank, Busy
  <2>7. Best(s) /\ Rank(s) <= Rank(b) => Best(b)
    BY <2>5, <2>6 DEF Best
  <2>8. Goal
    BY <2>1, <2>5, <2>7 DEF Topmost, Switches, h
  <2> QED BY <2>8 DEF r, h
<1> QED BY <1>2, <1>3

(* xTaskCreate by a task: the task it creates is not the one that runs.    *)
LEMMA CreatingAdds ==
  ASSUME NEW s, Ranks(s), s.xSchedulerRunning, s.live # {}, NEW t \in Tasks, t # s.pxCurrentTCB,
         NEW p \in Nat
  PROVE  LET r == xTaskCreate(s, t, p)
         IN  /\ Ranks(r) /\ r.pxCurrentTCB = s.pxCurrentTCB /\ Rank(r) = Rank(s)
             /\ r.uxSchedulerSuspended = s.uxSchedulerSuspended
             /\ Topmost(s) /\ p <= Rank(s) => Topmost(r)
<1> DEFINE q == IF p >= configMAX_PRIORITIES THEN configMAX_PRIORITIES - 1 ELSE p
           k0 == [s EXCEPT !.uxBasePriority[t] = q]
           a == SetPriority(k0, t, q)
           k1 == [a EXCEPT !.live = @ \cup {t}]
           b == prvAddTaskToReadyQueue(k1, t)
           r == xTaskCreate(s, t, p)
<1>1. q \in Prios /\ q <= p
  BY Constants DEF Prios
<1>2. r = b
  BY DEF xTaskCreate, prvInitialiseTCBVariables
<1> HIDE DEF r, q
<1>3. /\ DOMAIN k0 = SchedFields /\ k0.pxCurrentTCB = s.pxCurrentTCB
      /\ k0.uxPriority = s.uxPriority /\ k0.ready = s.ready
      /\ k0.pendsv = s.pendsv /\ k0.xMissedYield = s.xMissedYield
      /\ k0.uxSchedulerSuspended = s.uxSchedulerSuspended
  BY DEF Ranks, SchedFields
<1> HIDE DEF k0
<1>4. Ranks(k0) /\ Busy(k0) = Busy(s)
  BY <1>3 DEF Ranks, Busy
<1>0. SetTo(a, k0, t, q)
  BY <1>1, <1>4, PriorityIsSet
<1> HIDE DEF a
<1>5. /\ Ranks(a) /\ a.pxCurrentTCB = s.pxCurrentTCB /\ Busy(a) = Busy(s)
      /\ a.pendsv = s.pendsv /\ a.xMissedYield = s.xMissedYield
      /\ a.uxSchedulerSuspended = s.uxSchedulerSuspended
      /\ a.uxPriority[t] = q /\ \A u \in Tasks \ {t} : a.uxPriority[u] = s.uxPriority[u]
  BY <1>0, <1>3, <1>4 DEF SetTo
<1>6. /\ DOMAIN k1 = SchedFields /\ k1.pxCurrentTCB = a.pxCurrentTCB
      /\ k1.uxPriority = a.uxPriority /\ k1.ready = a.ready
      /\ k1.pendsv = a.pendsv /\ k1.xMissedYield = a.xMissedYield
      /\ k1.uxSchedulerSuspended = a.uxSchedulerSuspended
  BY <1>5 DEF Ranks, SchedFields
<1> HIDE DEF k1
<1>7. Ranks(k1) /\ Busy(k1) = Busy(s)
  BY <1>5, <1>6 DEF Ranks, Busy
<1>8. Adds(b, k1, q)
  BY <1>5, <1>6, <1>7, ReadyAdds
<1> HIDE DEF b
<1>9. /\ Ranks(b) /\ b.pxCurrentTCB = s.pxCurrentTCB /\ Rank(b) = Rank(s)
      /\ Busy(b) \subseteq Busy(s) \cup {q}
      /\ b.pendsv = s.pendsv /\ b.xMissedYield = s.xMissedYield
      /\ b.uxSchedulerSuspended = s.uxSchedulerSuspended
  BY <1>5, <1>6, <1>7, <1>8 DEF Adds, Alike, Rank, Ranks
<1>10. Best(s) /\ p <= Rank(s) => Best(b)
  <2>1. Rank(s) \in Int /\ q \in Int
    BY <1>1, Constants DEF Ranks, Rank
  <2> QED BY <1>1, <1>9, <2>1 DEF Best
<1>11. Topmost(s) /\ p <= Rank(s) => Topmost(b)
  BY <1>9, <1>10 DEF Topmost, Switches
<1> QED BY <1>2, <1>9, <1>11 DEF r

(* The scheduler as a whole.                                               *)

(* Best, by the places of the tasks.                                       *)
LEMMA BestPlaces ==
  ASSUME NEW s, NEW P, NEW E, Placed(s, P, E), Ranks(s)
  PROVE  Best(s) <=> \A t \in Tasks : P[t] >= 0 => P[t] <= Rank(s)
<1>1. \A t \in Tasks : P[t] >= 0 => P[t] \in Busy(s)
  <2> SUFFICES ASSUME NEW t \in Tasks, P[t] >= 0 PROVE P[t] \in Busy(s)
    OBVIOUS
  <2>1. P[t] \in Prios
    BY PlacesDiffer DEF Placed, Somewhere
  <2>2. Lists(s.ready[P[t]], P, P[t]) /\ t \in ToSet(s.ready[P[t]])
    BY <2>1 DEF Placed, Lists
  <2>3. ToSet(<<>>) = {}
    BY DEF ToSet
  <2> QED BY <2>1, <2>2, <2>3 DEF Busy
<1>2. \A p \in Busy(s) : \E t \in Tasks : P[t] = p
  <2> SUFFICES ASSUME NEW p \in Busy(s) PROVE \E t \in Tasks : P[t] = p
    OBVIOUS
  <2>1. p \in Prios /\ s.ready[p] # <<>> /\ Lists(s.ready[p], P, p)
    BY DEF Busy, Placed
  <2>2. Head(s.ready[p]) \in ToSet(s.ready[p])
    BY <2>1, HeadAndTail DEF Lists
  <2> QED BY <2>1, <2>2 DEF Lists
<1>3. \A p \in Busy(s) : p >= 0
  BY Constants DEF Busy
<1> QED BY <1>1, <1>2, <1>3 DEF Best

(* vTaskSwitchContext lets the most important ready task run.              *)
LEMMA SwitchingTops ==
  ASSUME NEW s, NEW P, NEW E, Settled(s, P, E), s.xSchedulerRunning
  PROVE  Topmost(vTaskSwitchContext([s EXCEPT !.pendsv = FALSE]))
<1> DEFINE a == [s EXCEPT !.pendsv = FALSE]
           r == vTaskSwitchContext(a)
<1>1. /\ AllBut(a, s, {"pendsv", "xMissedYield"}) /\ a.pendsv = FALSE
      /\ a.xSchedulerRunning = s.xSchedulerRunning
  BY SettledNumbers DEF AllBut, SchedFields
<1> HIDE DEF a
<1>2. Settled(a, P, E)
  BY <1>1, Yielded DEF Steady
<1>3. CASE a.uxSchedulerSuspended # 0
  <2>1. r = [a EXCEPT !.xMissedYield = TRUE]
    BY <1>3 DEF vTaskSwitchContext
  <2>2. r.uxSchedulerSuspended # 0 /\ r.xMissedYield
    BY <1>2, <1>3, <2>1, SettledNumbers DEF SchedFields
  <2> QED BY <2>2 DEF Topmost, Switches, a
<1>4. CASE a.uxSchedulerSuspended = 0
  <2>1. /\ Settled(r, P, E) /\ P[r.pxCurrentTCB] = r.uxTopReadyPriority
        /\ P[r.pxCurrentTCB] >= 0 /\ r.pxCurrentTCB \in Tasks
    BY <1>1, <1>2, <1>4, Switched
  <2> HIDE DEF r
  <2>2. Ranked(r, P) /\ Placed(r, P, E) /\ Ranks(r)
    BY <2>1, SettledNumbers, SettledRanks
  <2>3. Rank(r) = r.uxTopReadyPriority
    BY <2>1, <2>2 DEF Ranked, Rank
  <2>4. \A t \in Tasks : P[t] >= 0 => P[t] <= Rank(r)
    BY <2>2, <2>3 DEF Ranked
  <2>5. Best(r)
    BY <2>2, <2>4, BestPlaces
  <2> QED BY <2>5 DEF Topmost, r, a
<1> QED BY <1>3, <1>4

(* prvUnlockQueue leaves the ready lists alone, and notes the yields due.  *)
LEMMA CountedKeeps ==
  ASSUME NEW s, NEW P, NEW E, Settled(s, P, E), s.xSchedulerRunning,
         s.uxSchedulerSuspended # 0, NEW l \in EventLists, NEW lock \in Int
  PROVE  KeepsTop(WakeCounted(s, l, lock), s)
<1> DEFINE r == WakeCounted(s, l, lock)
<1>1. PICK F : Unlocks(r, F, s, P, E, l, lock)
  BY CountedSteady
<1> HIDE DEF r
<1>2. /\ Settled(r, P, F) /\ AllBut(r, s, EventFields \cup {"xMissedYield"})
      /\ s.xMissedYield => r.xMissedYield
  BY <1>1 DEF Unlocks, Steady
<1>3. /\ r.pxCurrentTCB = s.pxCurrentTCB /\ r.uxPriority = s.uxPriority
      /\ r.pendsv = s.pendsv /\ r.ready = s.ready
      /\ r.uxSchedulerSuspended = s.uxSchedulerSuspended
  BY <1>2 DEF AllBut, SchedFields, EventFields
<1>4. KeepsTop(r, s)
  BY <1>2, <1>3, SettledRanks DEF KeepsTop, Rank, Topmost, Switches, Best, Busy
<1> QED BY <1>4 DEF r

(* A tick asks for a switch.                                               *)
LEMMA TickKeeps ==
  ASSUME NEW s, NEW P, NEW E, Settled(s, P, E), s.xSchedulerRunning,
         s.uxMissedTicks < MaxMissed
  PROVE  KeepsTop(vTaskIncrementTick(taskYIELD(s)), s)
<1> DEFINE r == vTaskIncrementTick(taskYIELD(s))
<1>1. CASE s.uxSchedulerSuspended # 0
  <2>1. Settled(r, P, E) /\ AllBut(r, s, {"pendsv", "uxMissedTicks"}) /\ r.pendsv
    BY <1>1, TickMissed
  <2> HIDE DEF r
  <2>2. /\ r.pxCurrentTCB = s.pxCurrentTCB /\ r.uxPriority = s.uxPriority
        /\ r.uxSchedulerSuspended = s.uxSchedulerSuspended
    BY <2>1 DEF AllBut, SchedFields
  <2>3. KeepsTop(r, s)
    BY <2>1, <2>2, SettledRanks DEF KeepsTop, Rank, Topmost, Switches
  <2> QED BY <2>3 DEF r
<1>2. CASE s.uxSchedulerSuspended = 0
  <2>1. PICK Q, F : TimePassed(r, Q, F, s, P, 1) /\ r.pendsv
    BY <1>2, TickProcessed
  <2> HIDE DEF r
  <2>2. Settled(r, Q, F) /\ AllBut(r, s, ResumedFields) /\ r.uxSchedulerSuspended = 0
    BY <2>1 DEF TimePassed
  <2>3. r.pxCurrentTCB = s.pxCurrentTCB /\ r.uxPriority = s.uxPriority
    BY <2>2 DEF AllBut, SchedFields, ResumedFields, TimeFields, ListFields, GenericFields,
                EventFields, ReadyFields
  <2>4. KeepsTop(r, s)
    BY <1>2, <2>1, <2>2, <2>3, SettledRanks DEF KeepsTop, Rank, Topmost, Switches
  <2> QED BY <2>4 DEF r
<1> QED BY <1>1, <1>2

(* xTaskResumeAll yields if it finds a task that is no less important than *)
(* the one that runs, and if a yield was missed.                           *)
LEMMA ResumingAllTops ==
  ASSUME NEW s, NEW P, NEW E, Settled(s, P, E), s.xSchedulerRunning,
         s.uxSchedulerSuspended = 1, ~s.pendsv, Topmost(s)
  PROVE  Topmost(xTaskResumeAll(s).k)
<1> DEFINE k1 == [s EXCEPT !.uxSchedulerSuspended = @ - 1]
           k2 == FoldLeft(MovePending, k1, k1.pending)
           k3 == ProcessMissedTicks(k2)
           k4 == taskYIELD([k3 EXCEPT !.xMissedYield = FALSE])
           r == xTaskResumeAll(s)
<1>1. /\ Sched(s, P, E) /\ DOMAIN s = SchedFields /\ s.uxMissedTicks \in Nat
      /\ Lists(s.pending, E, Pending) /\ P \in [Tasks -> Int] /\ E \in [Tasks -> Waits]
  BY SettledNumbers DEF Typed, Placed
<1>2. /\ k1.uxSchedulerSuspended = 0 /\ DOMAIN k1 = SchedFields
      /\ k1.pxCurrentTCB = s.pxCurrentTCB /\ k1.uxPriority = s.uxPriority
      /\ k1.pending = s.pending /\ k1.uxMissedTicks = s.uxMissedTicks
      /\ k1.xMissedYield = s.xMissedYield /\ AllBut(k1, s, OtherFields)
  BY <1>1 DEF AllBut, SchedFields, OtherFields
<1>0. AllBut(k1, s, {"uxSchedulerSuspended"}) /\ k1.uxSchedulerSuspended = 0
  BY <1>1 DEF AllBut, SchedFields
<1>3. r = IF YieldDue(k1) THEN [k |-> k4, yielded |-> TRUE] ELSE [k |-> k3, yielded |-> FALSE]
  BY <1>2 DEF xTaskResumeAll
<1>4. r.k.pendsv \/ ~r.yielded
  BY AllResumed
<1> HIDE DEF r, k1
<1>5. CASE YieldDue(k1)
  <2>1. r.yielded = TRUE
    BY <1>3, <1>5
  <2> QED BY <1>4, <2>1 DEF Topmost, Switches, r
<1>6. CASE ~YieldDue(k1)
  <2>1. r.k = k3
    BY <1>3, <1>6
  <2>2. /\ ~s.xMissedYield /\ s.uxMissedTicks = 0
        /\ \A t \in ToSet(s.pending) : ~(s.uxPriority[t] >= Rank(s))
    <3>1. ~(s.uxMissedTicks > 0)
      BY <1>2, <1>6 DEF YieldDue
    <3>2. ~s.xMissedYield /\ \A t \in ToSet(s.pending) : ~(s.uxPriority[t] >= Rank(s))
      BY <1>2, <1>6 DEF YieldDue, Rank
    <3> QED BY <1>1, <3>1, <3>2
  <2>3. Sched(k1, P, E)
    <3>1. Typed(k1)
      <4>1. AllBut(k1, s, {"uxSchedulerSuspended"}) /\ k1.uxSchedulerSuspended = 0
        BY <1>0
      <4>2. k1.uxSchedulerSuspended \in Nat /\ Typed(s)
        BY <1>1, <4>1 DEF Sched
      <4> QED BY <4>1, <4>2 DEF Typed, AllBut, SchedFields
    <3> QED BY <1>1, <1>2, <3>1, Elsewhere DEF Settled
  <2> DEFINE T == ToSet(k1.pending)
             P1 == AllReady(k1, P, T)
             E1 == NoneWaits(E, T)
  <2>4. T \subseteq Tasks /\ k1.pending \in Seq(Tasks) /\ \A t \in T : P[t] # Terminated
    <3>1. k1.pending \in Seq(Tasks) /\ \A t \in Tasks : t \in T <=> E[t] = Pending
      BY <1>1, <1>2 DEF Lists, IsList
    <3>2. T \subseteq Tasks
      BY <1>1, <1>2 DEF Lists
    <3>3. \A t \in T : P[t] \in Asleep \cup {Suspended}
      BY <3>1, <3>2, WaitsDiffer DEF Settled
    <3> QED BY <3>1, <3>2, <3>3, PlacesDiffer DEF Asleep
  <2> HIDE DEF k2, k3
  <2>5. Sched(k2, P1, E1) /\ AllBut(k2, k1, ListFields)
    <3>1. PICK run : /\ IsRun(run, "move", 0, k1, k1.pending, Len(k1.pending))
                     /\ FoldLeft(MovePending, k1, k1.pending) = run[Len(k1.pending)]
      BY <2>4, MoveRun
    <3>2. k2 = run[Len(k1.pending)]
      BY <3>1 DEF k2
    <3>3. /\ Sched(run[Len(k1.pending)], P1, E1)
          /\ AllBut(run[Len(k1.pending)], k1, ListFields)
      BY <2>3, <2>4, <3>1, LoopReadies
    <3> QED BY <3>2, <3>3
  <2>6. /\ k2.uxMissedTicks = 0 /\ k2.pxCurrentTCB = s.pxCurrentTCB
        /\ k2.uxPriority = s.uxPriority
    <3>1. /\ k2.uxMissedTicks = k1.uxMissedTicks /\ k2.pxCurrentTCB = k1.pxCurrentTCB
          /\ k2.uxPriority = k1.uxPriority
      BY <2>5 DEF AllBut, SchedFields, ListFields, GenericFields, EventFields, ReadyFields
    <3> QED BY <1>2, <2>2, <3>1
  <2>7. k3 = k2
    <3>1. k2.uxMissedTicks \in Nat
      BY <2>6
    <3>2. \E run : IsRun(run, "tick", 0, k2, <<>>, k2.uxMissedTicks)
                   /\ ProcessMissedTicks(k2) = run[k2.uxMissedTicks]
      BY <3>1, TickRun
    <3> QED BY <2>6, <3>2 DEF k3, IsRun
  <2>8. Best(s)
    BY <2>2 DEF Topmost, Switches
  <2>9. Placed(s, P, E) /\ Ranks(s)
    BY SettledNumbers, SettledRanks
  <2>10. \A t \in Tasks : P[t] >= 0 => P[t] <= Rank(s)
    BY <2>8, <2>9, BestPlaces
  <2>11. \A t \in Tasks : P1[t] = IF t \in ToSet(s.pending) THEN s.uxPriority[t] ELSE P[t]
    BY <1>2 DEF AllReady
  <2> HIDE DEF P1, E1
  <2>12. \A t \in Tasks : s.uxPriority[t] \in Int /\ Rank(s) \in Int
    BY <2>9, Constants DEF Ranks, Rank
  <2>13. \A t \in Tasks : P1[t] >= 0 => P1[t] <= Rank(s)
    BY <2>2, <2>10, <2>11, <2>12
  <2>14. Placed(k2, P1, E1) /\ Ranks(k2)
    BY <2>5 DEF Sched, Typed, Placed, Ranks
  <2>15. Best(k2)
    BY <2>6, <2>13, <2>14, BestPlaces DEF Rank
  <2> QED BY <2>1, <2>7, <2>15 DEF Topmost, r
<1> QED BY <1>5, <1>6

(* vTaskSuspendAll changes nothing else.                                   *)
LEMMA SuspendingKeeps ==
  ASSUME NEW s, Ranks(s), s.uxSchedulerSuspended = 0, Topmost(s)
  PROVE  Topmost(vTaskSuspendAll(s)) /\ vTaskSuspendAll(s).pxCurrentTCB = s.pxCurrentTCB
<1> DEFINE r == vTaskSuspendAll(s)
<1>1. /\ r.pxCurrentTCB = s.pxCurrentTCB /\ r.uxPriority = s.uxPriority
      /\ r.pendsv = s.pendsv /\ r.ready = s.ready
  BY DEF Ranks, vTaskSuspendAll, SchedFields
<1> HIDE DEF r
<1>2. Topmost(r)
  BY <1>1 DEF Topmost, Switches, Best, Busy, Rank
<1> QED BY <1>1, <1>2 DEF r

(* Before the scheduler runs, xTaskCreate makes the most important task    *)
(* the current one.                                                        *)
LEMMA BootingTops ==
  ASSUME NEW s, NEW P, NEW E, Settled(s, P, E), ~s.xSchedulerRunning, Topmost(s),
         NEW t \in Tasks, t \notin s.live, NEW p \in Nat
  PROVE  Best(xTaskCreate(s, t, p)) /\ DOMAIN xTaskCreate(s, t, p) = SchedFields
<1> DEFINE q == IF p >= configMAX_PRIORITIES THEN configMAX_PRIORITIES - 1 ELSE p
           k0 == [s EXCEPT !.uxBasePriority[t] = q]
           a == SetPriority(k0, t, q)
           k1 == [a EXCEPT !.live = @ \cup {t}]
           first == s.live = {}
           current == first \/ s.uxPriority[s.pxCurrentTCB] <= p
           k2 == IF current THEN [k1 EXCEPT !.pxCurrentTCB = t] ELSE k1
           b == prvAddTaskToReadyQueue(k2, t)
           r == xTaskCreate(s, t, p)
<1>0. /\ Ranks(s) /\ Booting(s, P) /\ Placed(s, P, E) /\ s.uxSchedulerSuspended = 0
      /\ P[t] = Absent /\ ~(Absent >= 0)
  BY SettledNumbers, SettledRanks, PlacesDiffer DEF Settled, Booting, PlacesOff
<1>1. q \in Prios /\ q <= p /\ \A x \in Prios : x <= p => x <= q
  BY Constants DEF Prios
<1>2. r = b
  BY DEF xTaskCreate, prvInitialiseTCBVariables
<1>3. Best(s)
  BY <1>0 DEF Topmost, Switches, Booting
<1>4. first => Busy(s) = {}
  <2> SUFFICES ASSUME first, NEW x \in Busy(s) PROVE FALSE
    OBVIOUS
  <2>1. Lists(s.ready[x], P, x) /\ s.ready[x] # <<>> /\ x \in Prios
    BY <1>0 DEF Placed, Busy
  <2>2. Head(s.ready[x]) \in ToSet(s.ready[x])
    BY <2>1, HeadAndTail DEF Lists
  <2>3. PICK u \in Tasks : P[u] = x
    BY <2>1, <2>2 DEF Lists
  <2>4. P[u] = Absent
    BY DEF Settled
  <2> QED BY <1>0, <2>1, <2>3, <2>4, Constants
<1>5. first \/ s.pxCurrentTCB # t
  BY <1>0 DEF Booting
<1> HIDE DEF r, q
<1>6. /\ DOMAIN k0 = SchedFields /\ k0.pxCurrentTCB = s.pxCurrentTCB
      /\ k0.uxPriority = s.uxPriority /\ k0.ready = s.ready
  BY <1>0 DEF Ranks, SchedFields
<1> HIDE DEF k0
<1>7. Ranks(k0) /\ Busy(k0) = Busy(s)
  BY <1>0, <1>6 DEF Ranks, Busy
<1>8. SetTo(a, k0, t, q)
  BY <1>1, <1>7, PriorityIsSet
<1> HIDE DEF a, first
<1>9. /\ Ranks(a) /\ a.pxCurrentTCB = s.pxCurrentTCB /\ Busy(a) = Busy(s)
      /\ a.uxPriority[t] = q /\ \A u \in Tasks \ {t} : a.uxPriority[u] = s.uxPriority[u]
  BY <1>6, <1>7, <1>8 DEF SetTo
<1>10. /\ DOMAIN k1 = SchedFields /\ k1.pxCurrentTCB = a.pxCurrentTCB
       /\ k1.uxPriority = a.uxPriority /\ k1.ready = a.ready
  BY <1>9 DEF Ranks, SchedFields
<1> HIDE DEF k1
<1>11. /\ DOMAIN k2 = SchedFields /\ k2.uxPriority = a.uxPriority /\ k2.ready = a.ready
       /\ k2.pxCurrentTCB = IF current THEN t ELSE s.pxCurrentTCB
  BY <1>9, <1>10 DEF SchedFields
<1> HIDE DEF k2, current
<1>12. Ranks(k2) /\ Busy(k2) = Busy(s)
  BY <1>9, <1>11 DEF Ranks, Busy
<1>13. Adds(b, k2, q)
  BY <1>9, <1>11, <1>12, ReadyAdds
<1> HIDE DEF b
<1>14. /\ DOMAIN b = SchedFields /\ Busy(b) \subseteq Busy(s) \cup {q}
       /\ Rank(b) = a.uxPriority[IF current THEN t ELSE s.pxCurrentTCB]
  BY <1>11, <1>12, <1>13 DEF Adds, Alike, Ranks, Rank
<1>15. Rank(s) \in Int /\ \A x \in Busy(s) : x \in Prios /\ x \in Int /\ x <= Rank(s)
  BY <1>0, <1>3, Constants DEF Ranks, Rank, Busy, Best
<1>16. q \in Int
  BY <1>1, Constants
<1>17. CASE current
  <2>1. Rank(b) = q
    BY <1>9, <1>14, <1>17
  <2>2. \A x \in Busy(s) : x <= q
    <3>1. CASE first
      BY <1>4, <3>1
    <3>2. CASE ~first
      <4>1. Rank(s) <= p
        BY <1>17, <3>2 DEF current, Rank
      <4> QED BY <1>1, <1>15, <4>1
    <3> QED BY <3>1, <3>2
  <2>3. Best(b)
    BY <1>14, <1>16, <2>1, <2>2 DEF Best
  <2> QED BY <1>2, <1>14, <2>3 DEF r
<1>18. CASE ~current
  <2>1. s.pxCurrentTCB # t /\ ~(Rank(s) <= p)
    BY <1>5, <1>18 DEF current, Rank
  <2>2. Rank(b) = Rank(s)
    BY <1>0, <1>9, <1>14, <1>18, <2>1 DEF Rank, Ranks
  <2>3. Best(b)
    BY <1>1, <1>14, <1>15, <1>16, <2>1, <2>2 DEF Best
  <2> QED BY <1>2, <1>14, <2>3 DEF r
<1> QED BY <1>17, <1>18

(* vTaskStartScheduler creates the idle task in the same way.              *)
LEMMA StartingTops ==
  ASSUME NEW s, NEW P, NEW E, Settled(s, P, E), ~s.xSchedulerRunning, Topmost(s)
  PROVE  Topmost(vTaskStartScheduler(s))
<1> DEFINE a == xTaskCreate(s, idle, tskIDLE_PRIORITY)
           r == [a EXCEPT !.xSchedulerRunning = TRUE, !.xTickCount = 0]
<1>1. idle \in Tasks /\ idle \notin s.live /\ tskIDLE_PRIORITY \in Nat
  BY Constants DEF Settled, Booting, tskIDLE_PRIORITY
<1>2. Best(a) /\ DOMAIN a = SchedFields
  BY <1>1, BootingTops
<1>3. vTaskStartScheduler(s) = r
  BY DEF vTaskStartScheduler
<1> HIDE DEF a
<1>4. /\ r.ready = a.ready /\ r.uxPriority = a.uxPriority
      /\ r.pxCurrentTCB = a.pxCurrentTCB
  BY <1>2 DEF SchedFields
<1> HIDE DEF r
<1>5. Best(r)
  BY <1>2, <1>4 DEF Best, Busy, Rank
<1> QED BY <1>3, <1>5 DEF Topmost

(* The task that runs is topmost, a switch is to come, or it is about to   *)
(* yield.                                                                  *)
WillYield ==
  LET f == frame[k.pxCurrentTCB]
  IN  f.at = "yield" /\ (f.then # "create" \/ Rank(k) < script.prio[f.call.on])
TopInv == Topmost(k) \/ WillYield

(* A running task that becomes less important is about to lose the         *)
(* processor.                                                              *)
FallYields == k'.uxPriority[k.pxCurrentTCB] < k.uxPriority[k.pxCurrentTCB] => k'.pendsv

(* What is known before a step.                                            *)
Upright(P, E) == Sound(P, E) /\ TopInv /\ script' = script

LEMMA UprightIs ==
  ASSUME NEW P, NEW E, Upright(P, E)
  PROVE  /\ Sound(P, E) /\ TopInv /\ script' = script /\ FramesOK
         /\ Settled(k, P, E) /\ Staged(P) /\ Ranks(k) /\ KeepsTop(k, k)
         /\ k.pxCurrentTCB \in Tasks /\ script \in Scripts
BY AtInterrupt, SettledRanks DEF Upright, FramesOK

LEMMA TopKept ==
  ASSUME TopInv, script' = script, KeepsTop(k', k),
         frame'[k.pxCurrentTCB] = frame[k.pxCurrentTCB] \/ frame[k.pxCurrentTCB].at # "yield"
  PROVE  TopInv'
<1>1. k'.pxCurrentTCB = k.pxCurrentTCB /\ Rank(k') = Rank(k) /\ (Topmost(k) => Topmost(k'))
  BY DEF KeepsTop
<1>2. CASE Topmost(k)
  BY <1>1, <1>2 DEF TopInv
<1>3. CASE ~Topmost(k)
  <2>1. WillYield
    BY <1>3 DEF TopInv
  <2>2. frame'[k'.pxCurrentTCB] = frame[k.pxCurrentTCB]
    BY <1>1, <2>1 DEF WillYield
  <2>3. WillYield'
    BY <1>1, <2>1, <2>2 DEF WillYield
  <2> QED BY <2>3 DEF TopInv
<1> QED BY <1>2, <1>3

(* A task that runs and is not about to yield is topmost.                  *)
LEMMA RunningTops ==
  ASSUME NEW P, NEW E, Upright(P, E), NEW t \in Tasks, Runs(t), frame[t].at # "yield"
  PROVE  /\ k.pxCurrentTCB = t /\ Topmost(k) /\ Ranks(k) /\ k.xSchedulerRunning /\ ~k.pendsv
         /\ KeepsTop(k', k) => TopInv'
         /\ k' = k => TopInv'
<1>1. /\ k.pxCurrentTCB = t /\ k.xSchedulerRunning /\ ~k.pendsv /\ TopInv /\ script' = script
      /\ Ranks(k) /\ KeepsTop(k, k)
  BY UprightIs DEF Runs
<1>2. Topmost(k)
  BY <1>1 DEF TopInv, WillYield
<1>3. KeepsTop(k', k) => TopInv'
  BY <1>1, TopKept
<1>4. k' = k => TopInv'
  BY <1>1, <1>3
<1> QED BY <1>1, <1>2, <1>3, <1>4

(* The steps of a call in progress.                                        *)
LEMMA LockTops ==
  ASSUME NEW P, NEW E, Upright(P, E), NEW t \in Tasks,
         LockQueue(t) \/ CheckForTimeOut(t) \/ TestQueue(t)
  PROVE  TopInv'
<1>1. Runs(t) /\ frame[t].at \in {"lock", "check", "test"} /\ k' = k
  BY Zenon DEF LockQueue, CheckForTimeOut, TestQueue, Reaches
<1> QED BY <1>1, RunningTops

LEMMA SuspendTops ==
  ASSUME NEW P, NEW E, Upright(P, E), NEW t \in Tasks, SuspendAll(t)
  PROVE  TopInv'
<1>1. Runs(t) /\ frame[t].at = "suspend" /\ k' = vTaskSuspendAll(k)
  BY DEF SuspendAll, Reaches
<1>2. Topmost(k) /\ Ranks(k) /\ k.uxSchedulerSuspended = 0
  BY <1>1, UprightIs, RunningTops, RunningTask, StagesSuspend
<1> QED BY <1>1, <1>2, SuspendingKeeps DEF TopInv

LEMMA InheritTops ==
  ASSUME NEW P, NEW E, Upright(P, E), NEW t \in Tasks, InheritPriority(t)
  PROVE  TopInv'
<1> DEFINE q == frame[t].call.on
           h == queue[q].pxMutexHolder
<1>1. Runs(t) /\ frame[t].at = "inherit" /\ k' = vTaskPriorityInherit(k, h)
  BY DEF InheritPriority, Reaches
<1>2. IsFrame(t, frame[t]) /\ IsCareful(frame[t]) /\ Sound(P, E)
  BY <1>1, UprightIs, RunningTask
<1>3. q \in Queues /\ QueueType[q] = "mutex" /\ IsEmpty(queue[q])
  <2>1. "inherit" \in QueueStages /\ "inherit" # "ready"
    BY SMT DEF QueueStages
  <2>2. frame[t].call.op \in QueueOps
    BY <1>1, <1>2, <2>1 DEF IsFrame
  <2>3. frame[t].call \in Calls
    BY <1>1, <1>2, <2>1, <2>2, SMT DEF IsFrame, IdleCall, QueueOps, SendOps, ReceiveOps
  <2> QED BY <1>1, <1>2, <2>2, <2>3, OnQueues DEF Sound, EmptyAtInherit, IsCareful
<1>4. h \in Tasks
  <2>1. h # NoHolder
    BY <1>2, <1>3 DEF Sound, MutexInv, MutexesHeld
  <2>2. IsQueue(q, queue[q])
    BY <1>2, <1>3 DEF Sound, MutexInv, QueuesOK
  <2> QED BY <2>1, <2>2 DEF IsQueue, ControlBlocks
<1> HIDE DEF h
<1>5. KeepsTop(k', k)
  BY <1>1, <1>4, UprightIs, InheritingKeeps
<1> QED BY <1>1, <1>5, RunningTops

LEMMA PlaceTops ==
  ASSUME NEW P, NEW E, Upright(P, E), NEW t \in Tasks, PlaceOnEventList(t)
  PROVE  TopInv'
<1>1. Runs(t) /\ frame[t].at = "place" /\ \E l, w : k' = vTaskPlaceOnEventList(k, l, w)
  BY DEF PlaceOnEventList, Reaches
<1>2. Empties(k', k)
  BY <1>1, UprightIs, StoppingEmpties
<1> QED BY <1>1, <1>2, EmptiesKeeps, RunningTops

LEMMA UnlockTops ==
  ASSUME NEW P, NEW E, Upright(P, E), NEW t \in Tasks, UnlockQueueTx(t) \/ UnlockQueueRx(t)
  PROVE  TopInv'
<1> DEFINE q == frame[t].call.on
<1>1. Runs(t) /\ frame[t].at \in {"unlockTx", "unlockRx"} /\ Sound(P, E)
  BY UprightIs DEF UnlockQueueTx, UnlockQueueRx, Reaches
<1>2. IsFrame(t, frame[t]) /\ k.uxSchedulerSuspended # 0 /\ k.xSchedulerRunning /\ Settled(k, P, E)
  BY <1>1, RunningTask, StagesSuspend
<1>3. frame[t].call.op \in QueueOps
  BY <1>1, <1>2, SMT DEF IsFrame, QueueStages
<1>4. frame[t].call \in Calls
  BY <1>1, <1>2, <1>3, SMT DEF IsFrame, IdleCall, QueueOps, SendOps, ReceiveOps
<1>5. q \in Queues
  BY <1>3, <1>4, OnQueues
<1>6. ToSend(q) \in EventLists /\ ToReceive(q) \in EventLists
  BY <1>5, WaitsDiffer
<1>7. queue[q].xTxLock \in Int /\ queue[q].xRxLock \in Int
  <2>1. IsQueue(q, queue[q])
    BY <1>1, <1>5 DEF Sound, MutexInv, QueuesOK
  <2> QED BY <2>1, Constants DEF IsQueue, ControlBlocks
<1>8. \/ k' = WakeCounted(k, ToReceive(q), queue[q].xTxLock)
      \/ k' = WakeCounted(k, ToSend(q), queue[q].xRxLock)
  BY DEF UnlockQueueTx, UnlockQueueRx, UnlockTx, UnlockRx
<1>9. KeepsTop(k', k)
  BY <1>2, <1>6, <1>7, <1>8, CountedKeeps
<1> QED BY <1>1, <1>9, RunningTops

LEMMA ResumeTops ==
  ASSUME NEW P, NEW E, Upright(P, E), NEW t \in Tasks, ResumeAll(t)
  PROVE  TopInv'
<1>1. Runs(t) /\ frame[t].at = "resume" /\ k' = xTaskResumeAll(k).k
  BY DEF ResumeAll, Reaches
<1>2. /\ Topmost(k) /\ k.uxSchedulerSuspended = 1 /\ k.xSchedulerRunning /\ ~k.pendsv
      /\ Settled(k, P, E)
  BY <1>1, UprightIs, RunningTops, RunningTask, StagesSuspend
<1> QED BY <1>1, <1>2, ResumingAllTops DEF TopInv

LEMMA YieldTops ==
  ASSUME NEW P, NEW E, Upright(P, E), NEW t \in Tasks, Yield(t)
  PROVE  TopInv'
<1> DEFINE b == frame[t].then # "create" \/ k.uxPriority[t] < script.prio[frame[t].call.on]
<1>1. Runs(t) /\ frame[t].at = "yield" /\ k' = YieldIf(b, k)
  BY DEF Yield, Reaches
<1>2. k.pxCurrentTCB = t /\ TopInv /\ DOMAIN k = SchedFields /\ KeepsTop(k, k)
  BY <1>1, UprightIs DEF Runs, Ranks
<1>3. CASE b
  <2>1. k'.pendsv
    BY <1>1, <1>2, <1>3 DEF YieldIf, taskYIELD, SchedFields
  <2> QED BY <2>1 DEF TopInv, Topmost, Switches
<1>4. CASE ~b
  <2>1. k' = k /\ ~WillYield
    BY <1>1, <1>2, <1>4 DEF YieldIf, WillYield, Rank
  <2> QED BY <1>2, <2>1 DEF TopInv
<1> QED BY <1>3, <1>4

(* The calls.  A waiter that is woken is a task.                           *)
LEMMA FirstWaiter ==
  ASSUME NEW s, NEW P, NEW E, Settled(s, P, E), NEW l \in EventLists, s.event[l] # <<>>
  PROVE  Head(s.event[l]) \in Tasks
<1>1. Lists(s.event[l], E, l)
  BY SettledNumbers DEF Placed
<1>2. Head(s.event[l]) \in ToSet(s.event[l])
  BY <1>1, HeadAndTail DEF Lists
<1> QED BY <1>1, <1>2 DEF Lists

LEMMA EnteringTops ==
  ASSUME NEW P, NEW E, Upright(P, E), NEW t \in Tasks, NEW c, Enters(t, c)
  PROVE  /\ Runs(t) /\ frame[t].at \in {"ready", "enter"}
         /\ k.pxCurrentTCB = t /\ Topmost(k) /\ Ranks(k) /\ k.xSchedulerRunning /\ ~k.pendsv
         /\ KeepsTop(k', k) => TopInv'
         /\ k' = k => TopInv'
<1>1. Runs(t) /\ frame[t].at \in {"ready", "enter"}
  BY DEF Enters
<1> QED BY <1>1, RunningTops

LEMMA SendTops ==
  ASSUME NEW P, NEW E, Upright(P, E), NEW t \in Tasks, xQueueGenericSend(t), FallYields
  PROVE  TopInv'
<1>1. PICK c : /\ c.op \in SendOps /\ Enters(t, c)
               /\ QueueType[c.on] = "mutex" => c.on \in holds[t]
               /\ \/ WaitOrFail(t, c)
                  \/ \E item : k' = SendNow(k, queue[c.on], c.on, item, c.op = "sendToFront").k
  BY DEF xQueueGenericSend
<1>2. /\ c.on \in Queues /\ ToReceive(c.on) \in EventLists /\ Runs(t)
  BY <1>1, UprightIs, EntersQueue DEF QueueOps
<1>3. Settled(k, P, E) /\ Ranks(k) /\ k.pxCurrentTCB = t /\ Topmost(k)
  BY <1>1, UprightIs, EnteringTops
<1>4. CASE WaitOrFail(t, c)
  <2>1. k' = k
    BY <1>4 DEF WaitOrFail
  <2> QED BY <1>1, <2>1, EnteringTops
<1>5. ASSUME NEW item, k' = SendNow(k, queue[c.on], c.on, item, c.op = "sendToFront").k
      PROVE  TopInv'
  <2> DEFINE s == prvCopyDataToQueue(k, queue[c.on], item, c.op = "sendToFront").k
             l == ToReceive(c.on)
  <2>1. k' = WakeWaiter(s, l)
    BY <1>5 DEF SendNow
  <2>2. s = k \/ (QueueType[c.on] = "mutex"
                    /\ s = vTaskPriorityDisinherit(k, queue[c.on].pxMutexHolder))
    <3>1. queue[c.on].type = QueueType[c.on]
      BY <1>2, UprightIs DEF Sound, MutexInv, QueuesOK, IsQueue, ControlBlocks
    <3> QED BY <3>1 DEF prvCopyDataToQueue
  <2>3. s.event[l] # <<>> => Head(s.event[l]) \in Tasks
    <3>1. s.event = k.event
      BY <1>3, CopyingTrims, SettledIsShaped
    <3> HIDE DEF s, l
    <3> QED BY <1>2, <1>3, <3>1, FirstWaiter DEF l
  <2> HIDE DEF s
  <2>4. s = k \/ s = vTaskPriorityDisinherit(k, t)
    BY <1>1, <1>2, <2>2, UprightIs DEF Sound, MutexInv, MutexesHeld
  <2>5. /\ Ranks(s) /\ s.pxCurrentTCB = t
        /\ Topmost(k) /\ Rank(k) <= Rank(s) => Topmost(s)
    <3>1. CASE s = k
      BY <1>3, <3>1
    <3>2. CASE s = vTaskPriorityDisinherit(k, t)
      <4>1. k.uxBasePriority \in [Tasks -> Prios]
        BY <1>3, SettledNumbers DEF Typed
      <4> QED BY <1>3, <3>2, <4>1, DisinheritingKeeps
    <3> QED BY <2>4, <3>1, <3>2
  <2> HIDE DEF l
  <2>6. KeepsTop(k', s)
    BY <2>1, <2>3, <2>5, WakingKeeps
  <2>7. /\ k'.uxPriority[t] = Rank(s) /\ k.uxPriority[t] = Rank(k)
        /\ Topmost(s) => Topmost(k')
    BY <1>3, <2>5, <2>6 DEF KeepsTop, Rank
  <2>8. CASE Rank(s) < Rank(k)
    <3>1. k'.pendsv
      BY <1>3, <2>7, <2>8 DEF FallYields
    <3> QED BY <3>1 DEF TopInv, Topmost, Switches
  <2>9. CASE ~(Rank(s) < Rank(k))
    <3>1. Rank(s) \in Int /\ Rank(k) \in Int
      BY <1>3, <2>5, Constants DEF Rank, Ranks
    <3> QED BY <1>3, <2>5, <2>7, <2>9, <3>1 DEF TopInv
  <2> QED BY <2>8, <2>9
<1> QED BY <1>1, <1>4, <1>5

LEMMA ReceiveTops ==
  ASSUME NEW P, NEW E, Upright(P, E), NEW t \in Tasks, xQueueGenericReceive(t)
  PROVE  TopInv'
<1>1. PICK c : /\ c.op \in ReceiveOps /\ Enters(t, c)
               /\ \/ WaitOrFail(t, c)
                  \/ k' = IF c.op = "peek" THEN PeekNow(k, queue[c.on], c.on).k
                          ELSE ReceiveNow(k, queue[c.on], c.on).k
  BY DEF xQueueGenericReceive
<1>2. ToReceive(c.on) \in EventLists /\ ToSend(c.on) \in EventLists
  BY <1>1, UprightIs, EntersQueue DEF QueueOps
<1>3. k' = k \/ \E l \in EventLists : k' = WakeWaiter(k, l)
  BY <1>1, <1>2 DEF WaitOrFail, PeekNow, ReceiveNow
<1>4. k' = k \/ KeepsTop(k', k)
  BY <1>3, UprightIs, FirstWaiter, WakingKeeps
<1> QED BY <1>1, <1>4, EnteringTops

LEMMA DelayTops ==
  ASSUME NEW P, NEW E, Upright(P, E), NEW t \in Tasks, vTaskDelay(t) \/ vTaskDelayUntil(t)
  PROVE  TopInv'
<1>1. /\ Runs(t) /\ frame[t].at # "yield"
      /\ k' = k \/ k' = taskYIELD(k) \/ \E w : k' = Delay(k, w)
  BY Zenon DEF vTaskDelay, vTaskDelayUntil, Enters, Reaches
<1>2. KeepsTop(taskYIELD(k), k) /\ \A w : KeepsTop(Delay(k, w), k)
  BY UprightIs, YieldKeeps, StoppingEmpties, EmptiesKeeps
<1> QED BY <1>1, <1>2, RunningTops

LEMMA EndTops ==
  ASSUME NEW P, NEW E, Upright(P, E), NEW t \in Tasks, vTaskSuspend(t) \/ vTaskDelete(t)
  PROVE  TopInv'
<1>1. PICK c \in script.calls :
        Enters(t, c) /\ (k' = TaskSuspend(k, c.on) \/ k' = TaskDelete(k, c.on))
  BY Zenon DEF vTaskSuspend, vTaskDelete
<1>2. Empties(k', k)
  BY <1>1, UprightIs, StoppingEmpties
<1> QED BY <1>1, <1>2, EmptiesKeeps, EnteringTops

LEMMA ResumeCallTops ==
  ASSUME NEW P, NEW E, Upright(P, E), NEW t \in Tasks, vTaskResumeCall(t)
  PROVE  TopInv'
<1>1. PICK c : Enters(t, c) /\ c.on \in Existing /\ k' = vTaskResume(k, c.on)
  BY DEF vTaskResumeCall
<1>2. c.on \in Tasks
  BY <1>1, UprightIs, ExistingPlaces
<1>3. KeepsTop(k', k)
  BY <1>1, <1>2, UprightIs, ResumingKeeps
<1> QED BY <1>1, <1>3, EnteringTops

LEMMA CreateTops ==
  ASSUME NEW P, NEW E, Upright(P, E), NEW t \in Tasks, xTaskCreateCall(t)
  PROVE  TopInv'
<1>1. \/ Runs(t) /\ frame[t].at # "yield" /\ k' = k
      \/ /\ Reaches(t, "work") /\ frame[t].call.op = "create"
         /\ k' = xTaskCreate(k, frame[t].call.on, script.prio[frame[t].call.on])
         /\ frame' = [frame EXCEPT ![t].at = "yield", ![t].then = "create"]
  BY Zenon DEF xTaskCreateCall, Enters, Reaches
<1>2. ASSUME Reaches(t, "work"), frame[t].call.op = "create",
             k' = xTaskCreate(k, frame[t].call.on, script.prio[frame[t].call.on]),
             frame' = [frame EXCEPT ![t].at = "yield", ![t].then = "create"]
      PROVE  TopInv'
  <2> DEFINE u == frame[t].call.on
             p == script.prio[u]
             f == [frame[t] EXCEPT !.at = "yield", !.then = "create"]
  <2>1. Runs(t) /\ frame[t].at = "work" /\ ~Halting(frame[t]) /\ Sound(P, E)
    BY <1>2, UprightIs DEF Reaches, Halting
  <2>2. /\ k.xSchedulerRunning /\ FramesOK /\ IsFrame(t, frame[t]) /\ Settled(k, P, E)
        /\ P[t] >= 0 /\ k.pxCurrentTCB = t
    BY <2>1, RunningTask
  <2>3. frame[t].call \in Calls
    BY <1>2, <2>1, <2>2 DEF IsFrame, IdleCall
  <2>4. u \in Tasks /\ u \notin k.live
    BY <1>2, <2>1, <2>3, SMT DEF Calls, SendOps, ReceiveOps, TaskOps, DelayOps, Sound, CreatesOK,
       Creating
  <2>5. p \in Nat
    BY <2>4, UprightIs, ScriptsAssumption
  <2>6. t \in k.live
    <3>1. P[t] # Absent
      BY <2>2, PlacesDiffer DEF PlacesOff
    <3> QED BY <2>2, <3>1 DEF Settled
  <2>7. f.at = "yield" /\ f.then = "create" /\ f.call = frame[t].call
    BY <2>2 DEF IsFrame
  <2>8. frame' = [frame EXCEPT ![t] = f]
    BY <1>2, <2>2 DEF FramesOK
  <2> HIDE DEF f
  <2>9. frame'[t] = f
    BY <2>2, <2>8, OneFrame
  <2>10. Topmost(k) /\ Ranks(k) /\ script' = script
    BY <2>1, UprightIs, RunningTops
  <2>11. k' = xTaskCreate(k, u, p)
    BY <1>2
  <2> DEFINE r == xTaskCreate(k, u, p)
  <2>12. /\ r.pxCurrentTCB = t /\ Rank(r) = Rank(k) /\ (p <= Rank(k) => Topmost(r))
    <3> HIDE DEF u, p
    <3> QED BY <2>2, <2>4, <2>5, <2>6, <2>10, CreatingAdds
  <2>13. Rank(k) \in Int
    BY <2>10, Constants DEF Ranks, Rank
  <2> HIDE DEF r
  <2>14. CASE p <= Rank(k)
    BY <2>11, <2>12, <2>14 DEF TopInv, r
  <2>15. CASE ~(p <= Rank(k))
    <3>1. k'.pxCurrentTCB = t /\ Rank(k') < p
      BY <2>5, <2>11, <2>12, <2>13, <2>15 DEF r
    <3>2. frame'[k'.pxCurrentTCB].at = "yield" /\ script'.prio[frame'[k'.pxCurrentTCB].call.on] = p
      BY <2>7, <2>9, <2>10, <3>1
    <3>3. WillYield'
      BY <3>1, <3>2 DEF WillYield
    <3> QED BY <3>3 DEF TopInv
  <2> QED BY <2>14, <2>15
<1> QED BY <1>1, <1>2, RunningTops

(* The idle task, the start, the switch and the interrupts.                *)
LEMMA IdleTops ==
  ASSUME NEW P, NEW E, Upright(P, E), prvIdleTask
  PROVE  TopInv'
<1>1. /\ Runs(idle) /\ frame[idle].at # "yield"
      /\ k' = k \/ k' = FreeTerminated(k)
  BY Zenon DEF prvIdleTask, Reaches
<1>2. KeepsTop(FreeTerminated(k), k) /\ idle \in Tasks
  BY UprightIs, StoppingEmpties, EmptiesKeeps, Constants
<1> QED BY <1>1, <1>2, RunningTops

LEMMA BootTops ==
  ASSUME NEW P, NEW E, Upright(P, E), Boot
  PROVE  TopInv'
<1>1. /\ ~k.xSchedulerRunning
      /\ \/ \E t \in script.start \ k.live : k' = xTaskCreate(k, t, script.prio[t])
         \/ k' = vTaskStartScheduler(k)
  BY DEF Boot
<1>2. Settled(k, P, E) /\ Staged(P) /\ TopInv /\ k.pxCurrentTCB \in Tasks
  BY UprightIs
<1>3. Topmost(k)
  <2>1. frame[k.pxCurrentTCB] = AtRest
    BY <1>1, <1>2 DEF Staged
  <2> QED BY <1>2, <2>1, RestRuns DEF TopInv, WillYield
<1>4. ASSUME NEW t \in script.start \ k.live, k' = xTaskCreate(k, t, script.prio[t])
      PROVE  TopInv'
  <2>1. t \in Tasks /\ script.prio[t] \in Nat
    BY UprightIs, ScriptsAssumption
  <2> DEFINE p == script.prio[t]
  <2>2. k' = xTaskCreate(k, t, p) /\ p \in Nat
    BY <1>4, <2>1
  <2> HIDE DEF p
  <2>3. Best(k')
    BY <1>1, <1>2, <1>3, <2>1, <2>2, BootingTops
  <2> QED BY <2>3 DEF TopInv, Topmost
<1>5. CASE k' = vTaskStartScheduler(k)
  BY <1>1, <1>2, <1>3, <1>5, StartingTops DEF TopInv
<1> QED BY <1>1, <1>4, <1>5

LEMMA SwitchTops ==
  ASSUME NEW P, NEW E, Upright(P, E), xPortPendSVHandler
  PROVE  TopInv'
<1>1. k.xSchedulerRunning /\ k' = vTaskSwitchContext([k EXCEPT !.pendsv = FALSE])
  BY DEF xPortPendSVHandler, InterruptsEnabled
<1> QED BY <1>1, UprightIs, SwitchingTops DEF TopInv

LEMMA InterruptTops ==
  ASSUME NEW P, NEW E, Upright(P, E), Interrupt
  PROVE  TopInv'
<1>1. frame' = frame /\ k.xSchedulerRunning
  BY Zenon DEF Interrupt, xPortSysTickHandler, xQueueGenericSendFromISR, xQueueReceiveFromISR,
     ResumeFromISR, InterruptsEnabled
<1>2. ASSUME KeepsTop(k', k) PROVE TopInv'
  BY <1>1, <1>2, UprightIs, TopKept
<1>3. ASSUME k' = k \/ \E l \in EventLists : k' = WakeWaiter(k, l)
      PROVE  TopInv'
  <2>1. KeepsTop(k', k)
    BY <1>3, UprightIs, FirstWaiter, WakingKeeps
  <2> QED BY <1>2, <2>1
<1>4. CASE xPortSysTickHandler
  <2>1. k.uxMissedTicks < MaxMissed /\ k' = vTaskIncrementTick(taskYIELD(k))
    BY <1>4 DEF xPortSysTickHandler
  <2>2. KeepsTop(k', k)
    BY <1>1, <2>1, UprightIs, TickKeeps
  <2> QED BY <1>2, <2>2
<1>5. ASSUME NEW q \in Queues, xQueueGenericSendFromISR(q)
      PROVE  TopInv'
  <2>1. PICK item : k' = SendFromISR(k, queue[q], q, item).k
    BY <1>5 DEF xQueueGenericSendFromISR
  <2>2. QueueType[q] # "mutex" /\ queue[q].type = QueueType[q]
    BY <1>5, UprightIs, ScriptsAssumption DEF xQueueGenericSendFromISR, Sound, MutexInv, QueuesOK,
       IsQueue, ControlBlocks
  <2> DEFINE c == prvCopyDataToQueue(k, queue[q], item, FALSE)
  <2>3. c.k = k
    BY <2>2 DEF prvCopyDataToQueue
  <2>4. [c EXCEPT !.Q.xTxLock = @ + 1].k = c.k
    BY DEF prvCopyDataToQueue
  <2>5. SendFromISR(k, queue[q], q, item).k \in {WakeWaiter(c.k, ToReceive(q)), c.k}
    BY <2>4 DEF SendFromISR
  <2> HIDE DEF c
  <2>6. k' = k \/ k' = WakeWaiter(k, ToReceive(q))
    BY <2>1, <2>3, <2>5
  <2> QED BY <1>3, <2>6, WaitsDiffer
<1>6. ASSUME NEW q \in Queues, xQueueReceiveFromISR(q)
      PROVE  TopInv'
  <2>1. k' = k \/ k' = WakeWaiter(k, ToSend(q))
    BY <1>6 DEF xQueueReceiveFromISR, ReceiveFromISR
  <2> QED BY <1>3, <2>1, WaitsDiffer
<1>7. ASSUME NEW t \in Tasks, ResumeFromISR(t)
      PROVE  TopInv'
  <2>1. k' = xTaskResumeFromISR(k, t)
    BY <1>7 DEF ResumeFromISR
  <2>2. KeepsTop(k', k)
    BY <2>1, UprightIs, ResumingKeeps
  <2> QED BY <1>2, <2>2
<1> QED BY <1>4, <1>5, <1>6, <1>7 DEF Interrupt

LEMMA TopInit ==
  ASSUME Init
  PROVE  TopInv
<1>1. \A p \in Prios : k.ready[p] = <<>>
  BY DEF Init, NoTasks
<1> QED BY <1>1 DEF TopInv, Topmost, Best, Busy

LEMMA TopNext ==
  ASSUME KernelInv, TopInv, Next, \A t \in Tasks : xQueueGenericSend(t) => FallYields
  PROVE  TopInv'
<1>1. PICK P, E : Sound(P, E)
  BY DEF KernelInv
<1>2. Upright(P, E)
  BY <1>1, ScriptStays DEF Upright
<1>3. ASSUME NEW t \in Tasks, CallStep(t)
      PROVE  TopInv'
  BY <1>2, <1>3, SuspendTops, LockTops, InheritTops, PlaceTops, UnlockTops, ResumeTops,
     YieldTops DEF CallStep
<1>4. ASSUME NEW t \in Tasks, Call(t)
      PROVE  TopInv'
  BY <1>2, <1>4, SendTops, ReceiveTops, DelayTops, EndTops, ResumeCallTops, CreateTops DEF Call
<1>5. CASE Boot \/ prvIdleTask \/ xPortPendSVHandler \/ Interrupt
  BY <1>2, <1>5, BootTops, IdleTops, SwitchTops, InterruptTops
<1> QED BY <1>3, <1>4, <1>5 DEF Next

LEMMA TopStill ==
  ASSUME TopInv, UNCHANGED vars
  PROVE  TopInv'
<1>1. script' = script /\ k' = k /\ frame' = frame
  BY DEF vars
<1> QED BY <1>1 DEF TopInv, WillYield

LEMMA TopStep ==
  ASSUME KernelInv, TopInv, [FallYields]_vars, [Next]_vars
  PROVE  TopInv'
BY TopNext, TopStill

(* The invariants imply the property.                                      *)
LEMMA TopRuns ==
  ASSUME NEW P, NEW E, Sound(P, E), TopInv
  PROVE  HighestRuns
<1> DEFINE t == k.pxCurrentTCB
<1>1. Settled(k, P, E) /\ Staged(P) /\ t \in Tasks
  BY AtInterrupt
<1>2. Placed(k, P, E) /\ Ranked(k, P) /\ Ranks(k)
  BY <1>1, SettledNumbers, SettledRanks
<1>3. ASSUME NEW p \in Prios, p > k.uxTopReadyPriority
      PROVE  k.ready[p] = <<>>
  <2> SUFFICES ASSUME k.ready[p] # <<>> PROVE FALSE
    OBVIOUS
  <2>1. Lists(k.ready[p], P, p)
    BY <1>2 DEF Placed
  <2>2. Head(k.ready[p]) \in ToSet(k.ready[p])
    BY <2>1, HeadAndTail DEF Lists
  <2>3. PICK u \in Tasks : P[u] = p
    BY <2>1, <2>2 DEF Lists
  <2>4. p \in Int /\ p >= 0 /\ k.uxTopReadyPriority \in Int
    BY <1>1, Constants, SettledNumbers DEF Typed
  <2> QED BY <1>2, <1>3, <2>3, <2>4 DEF Ranked
<1>4. ASSUME k.xSchedulerRunning, ~k.pendsv, k.uxSchedulerSuspended = 0, frame[t].at # "yield"
      PROVE  /\ t \in ToSet(k.ready[k.uxPriority[t]])
             /\ \A p \in Prios : p > k.uxPriority[t] => k.ready[p] = <<>>
  <2>1. frame[t].at \notin SuspStages
    BY <1>1, <1>4 DEF Staged
  <2>2. ~Halting(frame[t])
    BY <1>4, <2>1, StagesSuspend DEF Halting
  <2>3. P[t] >= 0
    BY <1>1, <1>4, <2>2 DEF Staged
  <2>4. P[t] = k.uxPriority[t] /\ P[t] \in Prios
    BY <1>1, <1>2, <2>3 DEF Ranked, Ranks
  <2>5. t \in ToSet(k.ready[P[t]])
    BY <1>1, <1>2, <2>4 DEF Placed, Lists
  <2>6. Best(k)
    BY <1>4 DEF TopInv, WillYield, Topmost, Switches
  <2>7. \A p \in Prios : p > k.uxPriority[t] => k.ready[p] = <<>>
    <3>1. \A p \in Prios : p \in Int
      BY Constants
    <3>2. k.uxPriority[t] \in Prios
      BY <1>1, <1>2 DEF Ranks
    <3> QED BY <2>6, <3>1, <3>2 DEF Best, Busy, Rank
  <2> QED BY <2>4, <2>5, <2>7
<1> QED BY <1>3, <1>4 DEF HighestRuns

(* xTaskSwitchContext, and who calls for it: whenever the scheduler and    *)
(* interrupts are on and no switch is pending, the task that runs is ready *)
(* and no ready task is more important.  This needs that a running task    *)
(* whose priority falls has a switch coming.  The code breaks that in one  *)
(* place: vTaskPriorityDisinherit, in xQueueGenericSend of a mutex that    *)
(* nobody waits for any more, lowers the giver and calls for no switch.    *)
THEOREM MostImportantRuns == Spec /\ [][FallYields]_vars => []HighestRuns
<1>1. Spec /\ [][FallYields]_vars => []TopInv
  BY TopInit, TopStep, KernelInvariant, PTL DEF Spec
<1>2. KernelInv /\ TopInv => HighestRuns
  BY TopRuns DEF KernelInv
<1> QED BY <1>1, <1>2, KernelInvariant, PTL

-----------------------------------------------------------------------------
(* Mutexes used with care, and what holds of them then.                    *)

Mutexes == {q \in Queues : QueueType[q] = "mutex"}

(* What a task holds it has taken; a task in a call on a queue holds       *)
(* nothing, and on a mutex it waits for ever to receive.                   *)
HoldsTaken ==
  \A t \in Tasks : \A q \in holds[t] :
    q \in Mutexes /\ \E c \in TakesOf(script) : c.task = t /\ c.on = q
FreeInCall == \A t \in Tasks : frame[t].call.op \in QueueOps => holds[t] = {}
WaitsForEver(f) ==
  f.call.op \in QueueOps /\ QueueType[f.call.on] = "mutex" =>
    f.call.op = "receive" /\ f.wait = portMAX_DELAY /\ f.then # "fail"
FramesTake == \A t \in Tasks : WaitsForEver(frame[t])
NoneCounted == \A q \in Mutexes : queue[q].xTxLock <= queueLOCKED_UNMODIFIED
TakersStay == \A t \in ToSet(k.terminated) : t \notin Takers(script)
UsersLive ==
  \A t \in Tasks : holds[t] # {} \/ frame[t].call.op \in QueueOps => t \in k.live

HoldInv ==
  HoldsTaken /\ FreeInCall /\ FramesTake /\ NoneCounted /\ TakersStay /\ UsersLive

(* A frame in a call on a queue.                                           *)
LEMMA FrameCalls ==
  ASSUME NEW t \in Tasks, NEW f, IsFrame(t, f), f.call.op \in QueueOps
  PROVE  /\ f.call \in Calls /\ f.call.task = t /\ f.call.on \in Queues /\ t # idle
         /\ f.at # "ready" /\ f.timed
<1>1. f.at # "ready"
  BY DEF IsFrame, AtRest, NoCall, QueueOps, SendOps, ReceiveOps
<1>2. t # idle
  BY <1>1 DEF IsFrame, IdleCall, QueueOps, SendOps, ReceiveOps
<1>3. f.call \in Calls /\ f.call.task = t /\ f.timed
  BY <1>1, <1>2 DEF IsFrame
<1> QED BY <1>1, <1>2, <1>3, OnQueues

(* A call of a script on a mutex that receives.                            *)
LEMMA MutexCall ==
  ASSUME NEW s, UsesMutexesWell(s), NEW c \in s.calls, c.op \in QueueOps, NEW q \in Mutexes,
         c.on = q
  PROVE  c.op \in ReceiveOps =>
           c \in TakesOf(s) /\ c.op = "receive" /\ c.wait \in {0, portMAX_DELAY}
             /\ c.task \in Takers(s)
BY DEF UsesMutexesWell, TakesOf, Takers, Mutexes

(* A task takes a mutex, and is done with the call then.                   *)
TakesOne(t) ==
  /\ Runs(t) /\ frame[t].at \in {"ready", "enter"} /\ frame'[t] = AtRest
  /\ \E c \in TakesOf(script) :
       c.task = t /\ c.on \in Mutexes /\ holds'[t] = holds[t] \cup {c.on}

LEMMA SendHolds ==
  ASSUME MutexInv, NEW t \in Tasks, xQueueGenericSend(t)
  PROVE  \A u \in Tasks : holds'[u] \subseteq holds[u]
<1>1. \/ holds' = holds
      \/ \E c : holds' = [holds EXCEPT ![t] = @ \ {c.on}]
  BY Zenon DEF xQueueGenericSend, WaitOrFail
<1> QED BY <1>1 DEF MutexInv

LEMMA ReceiveHolds ==
  ASSUME MutexInv, CallsScripted, NEW t \in Tasks, xQueueGenericReceive(t)
  PROVE  /\ \A u \in Tasks \ {t} : holds'[u] \subseteq holds[u]
         /\ holds'[t] \subseteq holds[t] \/ TakesOne(t)
<1>1. PICK c \in {frame[t].call} \cup script.calls :
        /\ c.op \in ReceiveOps /\ Enters(t, c)
        /\ \/ holds' = holds
           \/ /\ Return(t) /\ QueueType[c.on] = "mutex"
              /\ holds' = [holds EXCEPT ![t] = @ \cup {c.on}]
  BY Zenon DEF xQueueGenericReceive, WaitOrFail
<1>2. CASE holds' = holds
  BY <1>2
<1>3. CASE Return(t) /\ QueueType[c.on] = "mutex" /\ holds' = [holds EXCEPT ![t] = @ \cup {c.on}]
  <2>1. FramesOK /\ c.op \in QueueOps
    BY <1>1 DEF MutexInv, QueueOps
  <2>2. c \in Calls /\ c.task = t
    BY <1>1, <2>1, Entered
  <2>3. c \in script.calls
    BY <1>1, <2>1, <2>2, Entered DEF CallsScripted
  <2>4. c.on \in Mutexes
    BY <1>3, <2>1, <2>2, OnQueues DEF Mutexes
  <2>5. c \in TakesOf(script)
    BY <1>1, <1>3, <2>3 DEF TakesOf
  <2>6. frame'[t] = AtRest
    BY <1>3, <2>1 DEF Return, FramesOK
  <2>7. /\ holds'[t] = holds[t] \cup {c.on}
        /\ \A u \in Tasks \ {t} : holds'[u] = holds[u]
    BY <1>3 DEF MutexInv
  <2>8. Runs(t) /\ frame[t].at \in {"ready", "enter"}
    BY <1>1 DEF Enters
  <2> QED BY <2>2, <2>4, <2>5, <2>6, <2>7, <2>8 DEF TakesOne
<1> QED BY <1>1, <1>2, <1>3

(* Every step.                                                             *)
LEMMA HoldsChange ==
  ASSUME MutexInv, CallsScripted, Next
  PROVE  \A u \in Tasks : holds'[u] \subseteq holds[u] \/ TakesOne(u)
<1>1. CASE Boot \/ prvIdleTask \/ xPortPendSVHandler \/ Interrupt
  <2>1. holds' = holds
    BY <1>1 DEF Boot, prvIdleTask, xPortPendSVHandler, Interrupt, xPortSysTickHandler,
       xQueueGenericSendFromISR, xQueueReceiveFromISR, ResumeFromISR
  <2> QED BY <2>1
<1>2. ASSUME NEW t \in Tasks, CallStep(t)
      PROVE  \A u \in Tasks : holds'[u] \subseteq holds[u]
  <2>1. holds' = holds
    BY Zenon, <1>2 DEF CallStep, SuspendAll, LockQueue, CheckForTimeOut, TestQueue, InheritPriority,
       PlaceOnEventList, UnlockQueueTx, UnlockQueueRx, ResumeAll, Yield
  <2> QED BY <2>1
<1>3. ASSUME NEW t \in Tasks, Call(t)
      PROVE  \A u \in Tasks : holds'[u] \subseteq holds[u] \/ TakesOne(u)
  <2>1. CASE xQueueGenericSend(t)
    BY <2>1, SendHolds
  <2>2. CASE xQueueGenericReceive(t)
    BY <2>2, ReceiveHolds
  <2>3. CASE vTaskDelay(t) \/ vTaskDelayUntil(t) \/ vTaskSuspend(t) \/ vTaskResumeCall(t)
             \/ vTaskDelete(t) \/ xTaskCreateCall(t)
    <3>1. holds' = holds
      BY Zenon, <2>3 DEF vTaskDelay, vTaskDelayUntil, vTaskSuspend, vTaskResumeCall, vTaskDelete,
         xTaskCreateCall
    <3> QED BY <3>1
  <2> QED BY <1>3, <2>1, <2>2, <2>3 DEF Call
<1> QED BY <1>1, <1>2, <1>3 DEF Next

(* One that begins to wait holds nothing.                                  *)
LEMMA BeginsFree ==
  ASSUME MutexInv, HoldsTaken, UsesMutexesWell(script), NEW t \in Tasks, NEW g, IsFrame(t, g),
         g.call.op \in QueueOps, g.call \in script.calls, NEW f, StartsToWait(f, g)
  PROVE  holds[t] = {} /\ WaitsForEver(g)
<1> DEFINE c == g.call
<1>1. c \in Calls /\ c.task = t /\ c.on \in Queues
  BY FrameCalls
<1>2. c.wait # 0 /\ g.wait = c.wait /\ g.then # "fail" /\ MayWait(c)
  BY DEF StartsToWait
<1>3. CASE c.on \notin Mutexes
  <2>1. QueueType[c.on] # "mutex"
    BY <1>1, <1>3 DEF Mutexes
  <2>2. t \notin Takers(script)
    BY <1>1, <1>2, <2>1 DEF UsesMutexesWell
  <2> QED BY <2>1, <2>2 DEF HoldsTaken, Takers, WaitsForEver
<1>4. CASE c.on \in Mutexes /\ c.op \in SendOps
  <2>1. IsFull(queue[c.on]) /\ c.on \in holds[t]
    BY <1>1, <1>2, <1>4 DEF MayWait, Mutexes
  <2>2. IsEmpty(queue[c.on])
    BY <1>1, <1>4, <2>1, Constants, QueuesAssumption DEF MutexInv, MutexesHeld, Mutexes
  <2>3. queue[c.on].buf.uxLength # 0
    <3>1. queue[c.on].buf.uxLength = QueueLength[c.on] /\ QueueLength[c.on] > 0
      BY <1>1, Lengths, BlockNumbers DEF MutexInv, QueuesOK
    <3> QED BY <3>1
  <2> QED BY <2>1, <2>2, <2>3 DEF IsFull, IsEmpty
<1>5. CASE c.on \in Mutexes /\ c.op \in ReceiveOps
  <2>1. c \in TakesOf(script) /\ c.op = "receive" /\ c.wait \in {0, portMAX_DELAY}
    BY <1>5, MutexCall
  <2>2. c.on \notin holds[t]
    BY <1>1, <1>2, <1>5 DEF MayWait, SendOps, ReceiveOps
  <2>3. \A q \in holds[t] : q = c.on
    BY <1>1, <2>1 DEF HoldsTaken, UsesMutexesWell
  <2> QED BY <1>2, <2>1, <2>2, <2>3 DEF WaitsForEver
<1> QED BY <1>3, <1>4, <1>5 DEF QueueOps

LEMMA TakesStep ==
  ASSUME NEW P, NEW E, Sound(P, E), CallsScripted, CallsScripted', FramesOK',
         HoldsTaken, FreeInCall, FramesTake, UsesMutexesWell(script), script' = script, Next
  PROVE  HoldsTaken' /\ FreeInCall' /\ FramesTake'
<1>1. MutexInv /\ FramesOK
  BY DEF Sound, MutexInv
<1>2. \A u \in Tasks : holds'[u] \subseteq holds[u] \/ TakesOne(u)
  BY <1>1, HoldsChange
<1>3. HoldsTaken'
  BY <1>2 DEF HoldsTaken, TakesOne
<1>4. ASSUME NEW t \in Tasks, frame'[t].call.op \in QueueOps
      PROVE  holds'[t] = {} /\ WaitsForEver(frame'[t])
  <2> DEFINE f == frame[t]
             g == frame'[t]
  <2>1. IsFrame(t, f) /\ IsFrame(t, g) /\ g.timed /\ TimedStep(f, g)
    BY <1>1, <1>4, FrameCalls, TimedNext DEF FramesOK, TimedSteps
  <2>2. holds'[t] \subseteq holds[t]
    BY <1>2, <1>4, RestIsQuiet DEF TakesOne
  <2>3. f.timed => f.call.op \in QueueOps
    BY <2>1 DEF IsFrame
  <2>4. f.timed => holds[t] = {} /\ WaitsForEver(f)
    BY <2>3 DEF FreeInCall, FramesTake
  <2>5. g.call \in script.calls
    BY <1>4 DEF CallsScripted
  <2> HIDE DEF f, g
  <2>6. CASE Keeps(f, g)
    <3>1. f.timed /\ g.call = f.call /\ g.wait = f.wait /\ (g.then = "fail" => f.then = "fail")
      BY <2>1, <2>6 DEF Keeps
    <3> QED BY <2>2, <2>4, <3>1 DEF WaitsForEver, g
  <2>7. CASE StartsToWait(f, g)
    <3>1. holds[t] = {} /\ WaitsForEver(g)
      BY <1>1, <1>4, <2>1, <2>5, <2>7, BeginsFree DEF g
    <3> QED BY <2>2, <3>1 DEF g
  <2>8. CASE Checks(f, g)
    <3>1. f.timed /\ g.call = f.call
      BY <2>8 DEF Checks
    <3>2. f.wait = portMAX_DELAY /\ f.then # "fail" => g.wait = portMAX_DELAY /\ g.then # "fail"
      BY <2>8 DEF Checks, xTaskCheckForTimeOut
    <3> QED BY <2>2, <2>4, <3>1, <3>2 DEF WaitsForEver, g
  <2> QED BY <2>1, <2>6, <2>7, <2>8 DEF TimedStep
<1> QED BY <1>3, <1>4 DEF FreeInCall, FramesTake, WaitsForEver

(* Nothing is counted on a mutex while it is locked: no handler gives one. *)
LEMMA CountsKept ==
  ASSUME NoneCounted, QueuesOK, NEW q \in Queues, NEW Q, queue' = [queue EXCEPT ![q] = Q],
         q \in Mutexes =>
           Q.xTxLock = queue[q].xTxLock \/ Q.xTxLock \in {queueUNLOCKED, queueLOCKED_UNMODIFIED}
  PROVE  NoneCounted'
<1>1. queue'[q] = Q /\ \A p \in Queues \ {q} : queue'[p] = queue[p]
  BY DEF QueuesOK
<1> QED BY <1>1 DEF NoneCounted, Mutexes, queueUNLOCKED, queueLOCKED_UNMODIFIED

LEMMA CountsStep ==
  ASSUME MutexInv, NoneCounted, Next
  PROVE  NoneCounted'
<1>1. /\ QueuesOK /\ FramesOK /\ script \in Scripts
      /\ \A q \in Queues : IsQueue(q, queue[q])
  BY DEF MutexInv, FramesOK, QueuesOK
<1>2. queue' = queue => NoneCounted'
  BY DEF NoneCounted
<1>3. ASSUME NEW t \in Tasks, CallStep(t)
      PROVE  NoneCounted'
  <2>1. CASE SuspendAll(t) \/ CheckForTimeOut(t) \/ TestQueue(t) \/ InheritPriority(t)
             \/ PlaceOnEventList(t) \/ ResumeAll(t) \/ Yield(t)
    BY Zenon, <1>2, <2>1 DEF SuspendAll, CheckForTimeOut, TestQueue, InheritPriority,
       PlaceOnEventList, ResumeAll, Yield
  <2> DEFINE q == frame[t].call.on
  <2>2. ASSUME NEW stage \in QueueStages, Reaches(t, stage)
        PROVE  q \in Queues /\ IsQueue(q, queue[q])
    <3>1. IsFrame(t, frame[t]) /\ frame[t].call.op \in QueueOps
      BY <1>1, <2>2 DEF FramesOK, IsFrame, Reaches
    <3> QED BY <1>1, <3>1, FrameCalls
  <2> HIDE DEF q
  <2>3. CASE LockQueue(t)
    <3> DEFINE Q == prvLockQueue(queue[q])
    <3>1. queue' = [queue EXCEPT ![q] = Q] /\ q \in Queues /\ IsQueue(q, queue[q])
      BY <2>2, <2>3 DEF LockQueue, q, QueueStages
    <3>2. Q.xTxLock = queue[q].xTxLock \/ Q.xTxLock = queueLOCKED_UNMODIFIED
      BY <3>1 DEF prvLockQueue, IsQueue, ControlBlocks
    <3> QED BY <1>1, <3>1, <3>2, CountsKept
  <2>4. CASE UnlockQueueTx(t)
    <3> DEFINE Q == [queue[q] EXCEPT !.xTxLock = queueUNLOCKED]
    <3>1. queue' = [queue EXCEPT ![q] = Q] /\ q \in Queues /\ IsQueue(q, queue[q])
      BY <2>2, <2>4 DEF UnlockQueueTx, UnlockTx, q, QueueStages
    <3>2. Q.xTxLock = queueUNLOCKED
      BY <3>1 DEF IsQueue, ControlBlocks
    <3> QED BY <1>1, <3>1, <3>2, CountsKept
  <2>5. CASE UnlockQueueRx(t)
    <3> DEFINE Q == [queue[q] EXCEPT !.xRxLock = queueUNLOCKED]
    <3>1. queue' = [queue EXCEPT ![q] = Q] /\ q \in Queues /\ IsQueue(q, queue[q])
      BY <2>2, <2>5 DEF UnlockQueueRx, UnlockRx, q, QueueStages
    <3>2. Q.xTxLock = queue[q].xTxLock
      BY <3>1 DEF IsQueue, ControlBlocks
    <3> QED BY <1>1, <3>1, <3>2, CountsKept
  <2> QED BY <1>3, <2>1, <2>3, <2>4, <2>5 DEF CallStep
<1>4. ASSUME NEW t \in Tasks, NEW c, Enters(t, c), c.op \in QueueOps
      PROVE  c.on \in Queues /\ IsQueue(c.on, queue[c.on])
  BY <1>1, <1>4, Entered, OnQueues
<1>5. ASSUME NEW t \in Tasks, xQueueGenericSend(t)
      PROVE  NoneCounted'
  <2>1. PICK c : /\ c.op \in SendOps /\ Enters(t, c)
                 /\ \/ queue' = queue
                    \/ ~IsFull(queue[c.on]) /\ \E item \in script.items : queue' = [queue EXCEPT ![c.on] =
                           SendNow(k, queue[c.on], c.on, item, c.op = "sendToFront").Q]
    BY Zenon, <1>5 DEF xQueueGenericSend, WaitOrFail
  <2>2. c.on \in Queues /\ IsQueue(c.on, queue[c.on])
    BY <1>4, <2>1 DEF QueueOps
  <2>3. ASSUME NEW item \in script.items, ~IsFull(queue[c.on]), queue' = [queue EXCEPT ![c.on] =
                           SendNow(k, queue[c.on], c.on, item, c.op = "sendToFront").Q]
        PROVE  NoneCounted'
    <3> DEFINE front == c.op = "sendToFront"
               Q == prvCopyDataToQueue(k, queue[c.on], item, front).Q
    <3>1. item \in Items /\ front \in BOOLEAN
      BY <1>1, ScriptsAssumption
    <3> HIDE DEF front
    <3>2. Q = prvCopyDataToQueue(k, queue[c.on], item, front).Q
      OBVIOUS
    <3>3. queue' = [queue EXCEPT ![c.on] = Q]
      BY <2>3 DEF SendNow, front
    <3> HIDE DEF Q
    <3>4. PutIn(c.on, queue[c.on], Q, item)
      BY <2>2, <2>3, <3>1, <3>2, CopiedIn
    <3>5. Q.xTxLock = queue[c.on].xTxLock
      BY <3>4 DEF PutIn
    <3> QED BY <1>1, <2>2, <3>3, <3>5, CountsKept
  <2> QED BY <1>2, <2>1, <2>3
<1>6. ASSUME NEW t \in Tasks, xQueueGenericReceive(t)
      PROVE  NoneCounted'
  <2>1. PICK c : /\ c.op \in ReceiveOps /\ Enters(t, c)
                 /\ \/ queue' = queue
                    \/ ~IsEmpty(queue[c.on]) /\ queue' = [queue EXCEPT ![c.on] =
                          IF c.op = "peek" THEN queue[c.on]
                          ELSE TakeFromQueue(queue[c.on], k.pxCurrentTCB)]
    BY <1>6 DEF xQueueGenericReceive, WaitOrFail, PeekNow, ReceiveNow
  <2>2. c.on \in Queues /\ IsQueue(c.on, queue[c.on])
    BY <1>4, <2>1 DEF QueueOps
  <2>3. CASE ~IsEmpty(queue[c.on]) /\ queue' = [queue EXCEPT ![c.on] =
                          IF c.op = "peek" THEN queue[c.on]
                          ELSE TakeFromQueue(queue[c.on], k.pxCurrentTCB)]
    <3> DEFINE Q == TakeFromQueue(queue[c.on], k.pxCurrentTCB)
    <3>1. k.pxCurrentTCB \in Tasks
      BY <2>1 DEF Enters, Runs
    <3>2. Q.xTxLock = queue[c.on].xTxLock
      BY <2>2, <2>3, <3>1, CopiedOut DEF TakenOut
    <3> HIDE DEF Q
    <3> QED BY <1>1, <2>2, <2>3, <3>2, CountsKept DEF Q
  <2> QED BY <1>2, <2>1, <2>3
<1>7. ASSUME NEW t \in Tasks, Call(t)
      PROVE  NoneCounted'
  <2>1. CASE vTaskDelay(t) \/ vTaskDelayUntil(t) \/ vTaskSuspend(t) \/ vTaskResumeCall(t)
             \/ vTaskDelete(t) \/ xTaskCreateCall(t)
    BY Zenon, <1>2, <2>1 DEF vTaskDelay, vTaskDelayUntil, vTaskSuspend, vTaskResumeCall,
       vTaskDelete, xTaskCreateCall
  <2> QED BY <1>5, <1>6, <1>7, <2>1 DEF Call
<1>8. ASSUME NEW q \in Queues, xQueueGenericSendFromISR(q) \/ xQueueReceiveFromISR(q)
      PROVE  NoneCounted'
  <2>1. q \notin Mutexes
    BY <1>1, <1>8, ScriptsAssumption DEF xQueueGenericSendFromISR, xQueueReceiveFromISR, Mutexes
  <2>2. \E Q : queue' = [queue EXCEPT ![q] = Q]
    BY Zenon, <1>8 DEF xQueueGenericSendFromISR, xQueueReceiveFromISR
  <2> QED BY <1>1, <2>1, <2>2, CountsKept
<1>9. CASE Boot \/ prvIdleTask \/ xPortPendSVHandler \/ Interrupt
  <2>1. queue' = queue \/ \E q \in Queues : xQueueGenericSendFromISR(q) \/ xQueueReceiveFromISR(q)
    BY <1>9 DEF Boot, prvIdleTask, xPortPendSVHandler, Interrupt, xPortSysTickHandler,
       ResumeFromISR
  <2> QED BY <1>2, <1>8, <2>1
<1> QED BY <1>3, <1>7, <1>9 DEF Next

(* Only vTaskDelete brings a task to the tasks that wait for termination.  *)
LEMMA NotListedReady ==
  ASSUME NEW P, NEW E, Settled(k, P, E), NEW t \in Tasks, P[t] >= 0
  PROVE  E[t] = Nothing /\ t \notin Out(k) /\ \A l \in EventLists : t \notin ToSet(k.event[l])
<1>1. E[t] = Nothing /\ P[t] \notin {Delayed, Overflowed, Suspended, Terminated}
  BY DEF Settled, Asleep, Delayed, Overflowed, Suspended, Terminated
<1>2. Placed(k, P, E)
  BY SettledNumbers
<1>3. t \notin Out(k)
  BY <1>1, <1>2 DEF Placed, Lists, Out, Sleeping
<1>4. \A l \in EventLists : t \notin ToSet(k.event[l])
  <2>1. \A l \in EventLists : l # Nothing
    BY WaitsDiffer
  <2> QED BY <1>1, <1>2, <2>1 DEF Placed, Lists
<1> QED BY <1>1, <1>3, <1>4

LEMMA FewerEnd ==
  ASSUME NEW r, NEW s, Trims(r, s)
  PROVE  ToSet(r.terminated) \subseteq ToSet(s.terminated)
BY DEF Trims

LEMMA CallStepEnds ==
  ASSUME NEW P, NEW E, Sound(P, E), NEW t \in Tasks, CallStep(t)
  PROVE  ToSet(k'.terminated) \subseteq ToSet(k.terminated)
<1>1. /\ Settled(k, P, E) /\ Staged(P) /\ MutexInv /\ Shaped(k) /\ FramesOK
      /\ \A q \in Queues : ToSend(q) \in EventLists /\ ToReceive(q) \in EventLists
  BY SettledIsShaped, SidesAre, QueuesAssumption DEF Sound, MutexInv, EventListsOf
<1>2. \A stage : Reaches(t, stage) => Runs(t) /\ frame[t].at = stage
  BY DEF Reaches
<1>3. Runs(t) => k.xSchedulerRunning /\ k.pxCurrentTCB = t
  BY DEF Runs
<1>4. CASE SuspendAll(t)
  BY <1>1, <1>2, <1>3, <1>4, SwitchingTrims, FewerEnd DEF SuspendAll
<1>5. CASE LockQueue(t) \/ CheckForTimeOut(t) \/ TestQueue(t)
  BY Zenon, <1>5 DEF LockQueue, CheckForTimeOut, TestQueue
<1>6. CASE InheritPriority(t)
  BY <1>1, <1>6, PrioritiesTrim, FewerEnd DEF InheritPriority
<1>7. ASSUME NEW stage \in QueueStages, Reaches(t, stage)
      PROVE  /\ frame[t].call.on \in Queues /\ k.uxSchedulerSuspended = 1
             /\ IsQueue(frame[t].call.on, queue[frame[t].call.on])
             /\ stage = "place" => P[t] >= 0
  <2>1. frame[t].call.op \in QueueOps /\ IsFrame(t, frame[t]) /\ frame[t].at = stage
    BY <1>1, <1>2, <1>7 DEF FramesOK, IsFrame
  <2>2. stage \in SuspStages
    BY <1>7 DEF SuspStages
  <2>3. k.uxSchedulerSuspended = 1 /\ (~Halting(frame[t]) => P[t] >= 0)
    BY <1>2, <1>7, <2>1, <2>2, RunningTask
  <2>4. stage = "place" => ~Halting(frame[t])
    BY <2>1 DEF Halting
  <2> QED BY <1>1, <2>1, <2>3, <2>4, FrameCalls DEF MutexInv, QueuesOK
<1>8. CASE PlaceOnEventList(t)
  <2> DEFINE c == frame[t].call
             l == IF c.op \in SendOps THEN ToSend(c.on) ELSE ToReceive(c.on)
  <2>1. Reaches(t, "place") /\ k' = vTaskPlaceOnEventList(k, l, frame[t].wait)
    BY <1>8 DEF PlaceOnEventList
  <2>2. l \in EventLists /\ P[t] >= 0 /\ k.pxCurrentTCB = t
    BY <1>1, <1>2, <1>3, <1>7, <2>1 DEF QueueStages
  <2> HIDE DEF l
  <2>3. t \notin ToSet(k.event[l])
    BY <1>1, <2>2, NotListedReady
  <2> QED BY <1>1, <2>1, <2>2, <2>3, PlacingTrims
<1>9. CASE UnlockQueueTx(t) \/ UnlockQueueRx(t)
  <2> DEFINE q == frame[t].call.on
  <2>1. \/ Reaches(t, "unlockTx") /\ k' = WakeCounted(k, ToReceive(q), queue[q].xTxLock)
        \/ Reaches(t, "unlockRx") /\ k' = WakeCounted(k, ToSend(q), queue[q].xRxLock)
    BY <1>9 DEF UnlockQueueTx, UnlockQueueRx, UnlockTx, UnlockRx
  <2>2. q \in Queues /\ IsQueue(q, queue[q]) /\ k.uxSchedulerSuspended # 0 /\ k.xSchedulerRunning
    BY <1>2, <1>3, <1>7, <2>1 DEF QueueStages
  <2>3. queue[q].xTxLock \in Int /\ queue[q].xRxLock \in Int
    BY <2>2, Constants DEF IsQueue, ControlBlocks
  <2>4. PICK l \in EventLists, lock \in Int : k' = WakeCounted(k, l, lock)
    BY <1>1, <2>1, <2>2, <2>3
  <2>5. Trims(WakeCounted(k, l, lock), k)
    BY <1>1, <2>2, UnlockingTrims
  <2> QED BY <2>4, <2>5, FewerEnd
<1>10. CASE ResumeAll(t)
  <2>1. Reaches(t, "resume") /\ k' = xTaskResumeAll(k).k
    BY Zenon, <1>10 DEF ResumeAll
  <2>2. k.uxSchedulerSuspended = 1 /\ k.xSchedulerRunning
    BY <1>2, <1>3, <2>1, RunningTask, StagesSuspend
  <2> QED BY <1>1, <2>1, <2>2, TimeTrims, FewerEnd
<1>11. CASE Yield(t)
  <2>1. \E b : k' = YieldIf(b, k)
    BY Zenon, <1>11 DEF Yield
  <2> QED BY <1>1, <2>1, ReadyingTrims, FewerEnd
<1> QED BY <1>4, <1>5, <1>6, <1>8, <1>9, <1>10, <1>11 DEF CallStep

LEMMA CallEnds ==
  ASSUME NEW P, NEW E, Sound(P, E), NEW t \in Tasks, Call(t)
  PROVE  ToSet(k'.terminated) \subseteq ToSet(k.terminated) \/ vTaskDelete(t)
<1>1. /\ Settled(k, P, E) /\ MutexInv /\ Shaped(k) /\ FramesOK
      /\ \A q \in Queues : ToSend(q) \in EventLists /\ ToReceive(q) \in EventLists
  BY SettledIsShaped, SidesAre, QueuesAssumption DEF Sound, MutexInv, EventListsOf
<1>2. ASSUME NEW c, c.op \in QueueOps, Enters(t, c)
      PROVE  ToSend(c.on) \in EventLists /\ ToReceive(c.on) \in EventLists
  BY <1>1, <1>2, Entered, OnQueues
<1>3. ASSUME NEW s, Trims(s, k), NEW l \in EventLists
      PROVE  ToSet(WakeWaiter(s, l).terminated) \subseteq ToSet(k.terminated)
  <2>1. Trims(WakeWaiter(s, l), s)
    BY <1>3, WakingTrims DEF Trims
  <2> QED BY <1>3, <2>1, FewerEnd
<1>4. Trims(k, k)
  BY <1>1, SettledIsShaped
<1>5. CASE xQueueGenericSend(t)
  <2>1. PICK c : /\ c.op \in SendOps /\ Enters(t, c)
                 /\ \/ k' = k
                    \/ \E item : k' = SendNow(k, queue[c.on], c.on, item, c.op = "sendToFront").k
    BY Zenon, <1>5 DEF xQueueGenericSend, WaitOrFail
  <2>2. ASSUME NEW item, k' = SendNow(k, queue[c.on], c.on, item, c.op = "sendToFront").k
        PROVE  ToSet(k'.terminated) \subseteq ToSet(k.terminated)
    <3> DEFINE s == prvCopyDataToQueue(k, queue[c.on], item, c.op = "sendToFront").k
    <3>1. k' = WakeWaiter(s, ToReceive(c.on))
      BY <2>2 DEF SendNow
    <3>2. Trims(s, k)
      BY <1>1, CopyingTrims
    <3> HIDE DEF s
    <3> QED BY <1>2, <1>3, <2>1, <3>1, <3>2 DEF QueueOps
  <2> QED BY <2>1, <2>2
<1>6. CASE xQueueGenericReceive(t)
  <2>1. PICK c : /\ c.op \in ReceiveOps /\ Enters(t, c)
                 /\ \/ k' = k
                    \/ k' = WakeWaiter(k, ToReceive(c.on))
                    \/ k' = WakeWaiter(k, ToSend(c.on))
    BY <1>6 DEF xQueueGenericReceive, WaitOrFail, PeekNow, ReceiveNow
  <2> QED BY <1>2, <1>3, <1>4, <2>1 DEF QueueOps
<1>7. CASE vTaskDelay(t) \/ vTaskDelayUntil(t)
  <2>1. k' = k \/ k' = taskYIELD(k) \/ \E w : k' = Delay(k, w)
    BY Zenon, <1>7 DEF vTaskDelay, vTaskDelayUntil
  <2>2. Trims(taskYIELD(k), k) /\ \A w : Trims(Delay(k, w), k)
    BY <1>1, ListsTrim, SleepingTrims
  <2> QED BY <2>1, <2>2, FewerEnd
<1>8. CASE vTaskSuspend(t) \/ vTaskResumeCall(t)
  <2>1. \E u : k' = TaskSuspend(k, u) \/ k' = vTaskResume(k, u)
    BY Zenon, <1>8 DEF vTaskSuspend, vTaskResumeCall
  <2>2. \A u : Trims(TaskSuspend(k, u), k) /\ Trims(vTaskResume(k, u), k)
    BY <1>1, SleepingTrims, ResumingTrims
  <2> QED BY <2>1, <2>2, FewerEnd
<1>9. CASE xTaskCreateCall(t)
  <2>1. k' = k \/ \E u, p : k' = xTaskCreate(k, u, p)
    BY Zenon, <1>9 DEF xTaskCreateCall
  <2>2. \A u, p : Trims(xTaskCreate(k, u, p), k)
    BY <1>1, LivesTrim
  <2> QED BY <2>1, <2>2, FewerEnd
<1> QED BY <1>5, <1>6, <1>7, <1>8, <1>9 DEF Call

LEMMA OthersEnd ==
  ASSUME NEW P, NEW E, Sound(P, E),
         Boot \/ prvIdleTask \/ xPortPendSVHandler \/ Interrupt
  PROVE  ToSet(k'.terminated) \subseteq ToSet(k.terminated)
<1>1. /\ Settled(k, P, E) /\ Shaped(k) /\ Trims(k, k)
      /\ \A q \in Queues : ToSend(q) \in EventLists /\ ToReceive(q) \in EventLists
  BY SettledIsShaped, SidesAre, QueuesAssumption DEF Sound, EventListsOf
<1>2. CASE Boot \/ prvIdleTask
  <2>1. \/ k' = k \/ \E u, p : k' = xTaskCreate(k, u, p)
        \/ k' = vTaskStartScheduler(k)
        \/ k.terminated # <<>> /\ k' = FreeTerminated(k)
    BY Zenon, <1>2 DEF Boot, prvIdleTask
  <2>2. /\ \A u, p : Trims(xTaskCreate(k, u, p), k)
        /\ Trims(vTaskStartScheduler(k), k)
        /\ k.terminated # <<>> => Trims(FreeTerminated(k), k)
    BY <1>1, LivesTrim
  <2> QED BY <1>1, <2>1, <2>2, FewerEnd
<1>3. CASE xPortPendSVHandler
  <2>1. k.xSchedulerRunning /\ k' = vTaskSwitchContext([k EXCEPT !.pendsv = FALSE])
    BY <1>3 DEF xPortPendSVHandler, InterruptsEnabled
  <2> QED BY <1>1, <2>1, SwitchingTrims, FewerEnd
<1>4. CASE xPortSysTickHandler
  <2>1. k.xSchedulerRunning /\ k.uxMissedTicks < MaxMissed /\ k' = vTaskIncrementTick(taskYIELD(k))
    BY <1>4 DEF xPortSysTickHandler, InterruptsEnabled
  <2> QED BY <1>1, <2>1, TimeTrims, FewerEnd
<1>5. ASSUME NEW q \in Queues, xQueueGenericSendFromISR(q) \/ xQueueReceiveFromISR(q)
      PROVE  ToSet(k'.terminated) \subseteq ToSet(k.terminated)
  <2>1. \E s : Trims(s, k) /\ (k' = s \/ \E l \in EventLists : k' = WakeWaiter(s, l))
    <3>1. \A item : Trims(prvCopyDataToQueue(k, queue[q], item, FALSE).k, k)
      BY <1>1, CopyingTrims
    <3>2. xQueueGenericSendFromISR(q) => \E item :
            LET s == prvCopyDataToQueue(k, queue[q], item, FALSE).k
            IN  k' = s \/ k' = WakeWaiter(s, ToReceive(q))
      <4>1. \A item : LET s == prvCopyDataToQueue(k, queue[q], item, FALSE).k
                          r == SendFromISR(k, queue[q], q, item).k
                      IN  r = s \/ r = WakeWaiter(s, ToReceive(q))
        BY DEF SendFromISR, prvCopyDataToQueue
      <4> QED BY Zenon, <4>1 DEF xQueueGenericSendFromISR
    <3>3. xQueueReceiveFromISR(q) => k' = k \/ k' = WakeWaiter(k, ToSend(q))
      BY DEF xQueueReceiveFromISR, ReceiveFromISR
    <3> QED BY <1>1, <1>5, <3>1, <3>2, <3>3
  <2>2. PICK s : Trims(s, k) /\ (k' = s \/ \E l \in EventLists : k' = WakeWaiter(s, l))
    BY <2>1
  <2>3. \A l \in EventLists : Trims(WakeWaiter(s, l), s)
    BY <2>2, WakingTrims DEF Trims
  <2>4. \A l \in EventLists : Trims(WakeWaiter(s, l), k)
    BY <2>2, <2>3, TrimsAgain
  <2> QED BY <2>2, <2>4, FewerEnd
<1>6. ASSUME NEW t \in Tasks, ResumeFromISR(t)
      PROVE  ToSet(k'.terminated) \subseteq ToSet(k.terminated)
  <2>1. k' = xTaskResumeFromISR(k, t)
    BY <1>6 DEF ResumeFromISR
  <2> QED BY <1>1, <2>1, ResumingTrims, FewerEnd
<1> QED BY <1>2, <1>3, <1>4, <1>5, <1>6 DEF Interrupt

(* The tasks that take mutexes are not deleted.                            *)
LEMMA StayStep ==
  ASSUME NEW P, NEW E, Sound(P, E), UsesMutexesWell(script), script' = script, TakersStay, Next
  PROVE  TakersStay'
<1>1. ASSUME NEW t \in Tasks, vTaskDelete(t)
      PROVE  TakersStay'
  <2>1. PICK c \in script.calls : c.op = "delete" /\ k' = TaskDelete(k, c.on)
    BY Zenon, <1>1 DEF vTaskDelete
  <2>2. ToSet(k'.terminated) \subseteq ToSet(k.terminated) \cup {c.on}
    BY <2>1, SettledIsShaped, DeletingTrims DEF Sound
  <2>3. c.on \notin Takers(script)
    BY <2>1 DEF UsesMutexesWell
  <2> QED BY <2>2, <2>3 DEF TakersStay
<1>2. ToSet(k'.terminated) \subseteq ToSet(k.terminated) => TakersStay'
  BY DEF TakersStay
<1> QED BY <1>1, <1>2, CallStepEnds, CallEnds, OthersEnd DEF Next

(* Whoever is freed was waiting for it; nobody else ceases to live.        *)
LEMMA LivesKept ==
  ASSUME NEW P, NEW E, Sound(P, E), Next
  PROVE  \/ k.live \subseteq k'.live
         \/ /\ k.terminated # <<>> /\ k'.live = k.live \ {Head(k.terminated)}
            /\ frame'[Head(k.terminated)] = AtRest
<1>1. /\ Settled(k, P, E) /\ DOMAIN k = SchedFields /\ FramesOK /\ MutexInv
  BY SettledNumbers DEF Sound, MutexInv
<1>2. ASSUME NEW s, DOMAIN s = SchedFields, NEW u, NEW p
      PROVE  xTaskCreate(s, u, p).live = s.live \cup {u}
  <2> DEFINE k1 == [prvInitialiseTCBVariables(s, u, p) EXCEPT !.live = @ \cup {u}]
  <2>1. \A q : LET a == SetPriority([s EXCEPT !.uxBasePriority[u] = q], u, q)
               IN  DOMAIN a = SchedFields /\ a.live = s.live
    BY <1>2, ListsKeepLive DEF SchedFields
  <2>2. k1.live = s.live \cup {u} /\ DOMAIN k1 = SchedFields
    BY <2>1 DEF prvInitialiseTCBVariables, SchedFields
  <2> HIDE DEF k1
  <2> DEFINE k2 == [k1 EXCEPT !.pxCurrentTCB = u]
  <2>3. k2.live = s.live \cup {u} /\ DOMAIN k2 = SchedFields
    BY <2>2 DEF SchedFields
  <2>4. \/ xTaskCreate(s, u, p) = prvAddTaskToReadyQueue(k1, u)
        \/ xTaskCreate(s, u, p) = prvAddTaskToReadyQueue(k2, u)
    BY DEF xTaskCreate, k1
  <2> HIDE DEF k2
  <2> QED BY <2>2, <2>3, <2>4, ListsKeepLive
<1>3. CASE Boot
  <2>1. \/ \E u, p : k' = xTaskCreate(k, u, p)
        \/ k' = vTaskStartScheduler(k)
    BY Zenon, <1>3 DEF Boot
  <2>2. DOMAIN xTaskCreate(k, idle, tskIDLE_PRIORITY) = SchedFields
    BY <1>1, LivesTrim, SettledIsShaped DEF Trims, Shaped
  <2>3. vTaskStartScheduler(k).live = xTaskCreate(k, idle, tskIDLE_PRIORITY).live
    BY <2>2 DEF vTaskStartScheduler, SchedFields
  <2> QED BY <1>1, <1>2, <2>1, <2>3
<1>4. CASE prvIdleTask
  <2>1. CASE k' = k
    BY <2>1
  <2>2. CASE /\ k.terminated # <<>> /\ k' = FreeTerminated(k)
             /\ frame' = [frame EXCEPT
                  ![Head(k.terminated)] = AtRest,
                  ![idle] = [AtRest EXCEPT !.at = "suspend", !.call = IdleCall]]
    <3> DEFINE u == Head(k.terminated)
    <3>1. k'.live = k.live \ {u}
      BY <1>1, <2>2 DEF FreeTerminated, SchedFields
    <3>2. u \in ToSet(k.terminated) /\ u \in Tasks /\ P[u] = Terminated
      <4>1. Lists(k.terminated, P, Terminated)
        BY <1>1, SettledNumbers DEF Placed
      <4>2. u \in ToSet(k.terminated)
        BY <2>2, <4>1, HeadAndTail DEF Lists
      <4> QED BY <4>1, <4>2 DEF Lists
    <3>3. k.xSchedulerRunning \/ ~k.xSchedulerRunning
      OBVIOUS
    <3>4. u # idle
      <4>1. k.xSchedulerRunning
        BY <1>4, <2>2 DEF prvIdleTask, Runs, Reaches
      <4>2. P[idle] >= 0
        BY <1>1, <4>1 DEF Settled
      <4> QED BY <3>2, <4>2 DEF Terminated
    <3>5. frame'[u] = AtRest
      BY <1>1, <2>2, <3>2, <3>4 DEF FramesOK
    <3> QED BY <2>2, <3>1, <3>5
  <2> QED BY Zenon, <1>4, <2>1, <2>2 DEF prvIdleTask
<1>5. ASSUME NEW t \in Tasks, Call(t) PROVE k.live \subseteq k'.live
  <2>1. xTaskCreateCall(t) => k' = k \/ \E u, p : k' = xTaskCreate(k, u, p)
    BY Zenon DEF xTaskCreateCall
  <2> QED BY <1>1, <1>2, <1>5, <2>1, CallLive
<1>6. (\E t \in Tasks : CallStep(t)) => k'.live = k.live
  BY CallStepLive
<1>7. Interrupt \/ xPortPendSVHandler => k'.live = k.live
  BY InterruptLive
<1> QED BY <1>3, <1>4, <1>5, <1>6, <1>7 DEF Next

LEMMA ReadyLive ==
  ASSUME NEW P, NEW E, Sound(P, E), NEW t \in Tasks, Runs(t), frame[t].at \in {"ready", "enter"}
  PROVE  t \in k.live /\ t \notin Out(k) /\ P[t] >= 0 /\ NotListed(k, t)
<1>1. P[t] >= 0 /\ Settled(k, P, E)
  BY RunningTask DEF Halting
<1>2. P[t] # Absent
  BY <1>1 DEF Absent
<1> QED BY <1>1, <1>2, NotListedReady DEF Settled, NotListed

(* Whoever holds a mutex or is in a call on a queue lives.                 *)
LEMMA UsersStep ==
  ASSUME NEW P, NEW E, Sound(P, E), CallsScripted, FramesOK', HoldsTaken, TakersStay, UsersLive,
         Next
  PROVE  UsersLive'
<1>1. MutexInv /\ FramesOK /\ Settled(k, P, E)
  BY DEF Sound, MutexInv
<1> SUFFICES ASSUME NEW t \in Tasks, holds'[t] # {} \/ frame'[t].call.op \in QueueOps
             PROVE  t \in k'.live
  BY DEF UsersLive
<1>2. CASE frame'[t].call.op \in QueueOps
  <2> DEFINE f == frame[t]
             g == frame'[t]
  <2>1. IsFrame(t, f) /\ IsFrame(t, g) /\ g.timed /\ TimedStep(f, g) /\ g.call.task = t
    BY <1>1, <1>2, FrameCalls, TimedNext DEF FramesOK, TimedSteps
  <2> HIDE DEF f, g
  <2>2. CASE f.timed
    <3>1. frame[t].call.op \in QueueOps
      BY <2>1, <2>2 DEF IsFrame, f
    <3> QED BY <3>1, <1>2, LivesKept, RestIsQuiet DEF UsersLive
  <2>3. CASE ~f.timed
    <3>1. Enters(t, g.call)
      BY <2>1, <2>3 DEF TimedStep, Keeps, Checks, StartsToWait, MayWait
    <3>2. t \in k.live
      BY <3>1, ReadyLive DEF Enters
    <3> QED BY <3>2, <1>2, LivesKept, RestIsQuiet
  <2> QED BY <2>2, <2>3
<1>3. CASE holds'[t] # {}
  <2>1. holds[t] # {} \/ TakesOne(t)
    BY <1>1, <1>3, HoldsChange
  <2>2. t \in k.live
    BY <2>1, ReadyLive DEF UsersLive, TakesOne
  <2>3. k.terminated # <<>> => t # Head(k.terminated)
    <3> SUFFICES ASSUME k.terminated # <<>>, t = Head(k.terminated) PROVE FALSE
      OBVIOUS
    <3>1. t \in ToSet(k.terminated)
      <4>1. IsList(k.terminated)
        BY <1>1, SettledNumbers DEF Placed, Lists
      <4> QED BY <4>1, HeadAndTail
    <3>2. TakesOne(t) => t \notin Out(k)
      BY ReadyLive DEF TakesOne
    <3>3. holds[t] # {} => t \in Takers(script)
      BY DEF HoldsTaken, Takers
    <3> QED BY <2>1, <3>1, <3>2, <3>3 DEF TakersStay, Out
  <2> QED BY <2>2, <2>3, LivesKept
<1> QED BY <1>2, <1>3

LEMMA HoldInit ==
  ASSUME Init
  PROVE  HoldInv
<1>1. /\ \A t \in Tasks : holds[t] = {} /\ frame[t] = AtRest
      /\ ToSet(k.terminated) = {}
  BY DEF Init, NoTasks, ToSet
<1>2. \A q \in Mutexes : queue[q].xTxLock = queueUNLOCKED
  BY DEF Init, CreateQueue, xQueueCreateMutex, CountUp, xQueueCreate, Mutexes
<1> QED BY <1>1, <1>2, RestIsQuiet DEF HoldInv, HoldsTaken, FreeInCall, FramesTake, WaitsForEver,
      NoneCounted, TakersStay, UsersLive, queueUNLOCKED, queueLOCKED_UNMODIFIED

LEMMA HoldStep ==
  ASSUME NEW P, NEW E, Sound(P, E), WaitInv, WaitInv', FramesOK', HoldInv,
         UsesMutexesWell(script), Next
  PROVE  HoldInv'
<1>1. script' = script /\ CallsScripted /\ CallsScripted' /\ MutexInv
  BY ScriptStays DEF WaitInv, Sound
<1>2. /\ HoldsTaken /\ FreeInCall /\ FramesTake /\ NoneCounted /\ TakersStay /\ UsersLive
  BY DEF HoldInv
<1>3. HoldsTaken' /\ FreeInCall' /\ FramesTake'
  BY <1>1, <1>2, TakesStep
<1>4. NoneCounted'
  BY <1>1, <1>2, CountsStep
<1>5. TakersStay'
  BY <1>1, <1>2, StayStep
<1>6. UsersLive'
  BY <1>1, <1>2, UsersStep
<1> QED BY <1>3, <1>4, <1>5, <1>6 DEF HoldInv

-----------------------------------------------------------------------------
(* Priorities: who waits for a mutex, who is about to, and who is on its   *)
(* way to it.                                                              *)
Queued(q) == ToSet(k.event[ToReceive(q)])
Placing(w, q) == frame[w].at = "place" /\ InCall(frame[w], q, "receive")
Hopes(u, q) == InCall(frame[u], q, "receive") /\ Looks(frame[u])
Comes(u, q) == Hopes(u, q) /\ u \notin Out(k)
Holder(q) == queue[q].pxMutexHolder

(* The value of an event item follows the priority, and event lists are in *)
(* its order; who waits for a mutex does not sleep.                        *)
EventsInOrder ==
  /\ \A t \in Tasks : k.eventValue[t] = configMAX_PRIORITIES - k.uxPriority[t]
  /\ \A l \in EventLists : InOrder(k.event[l], k.eventValue)
NoSleepers == \A q \in Mutexes : Queued(q) \cap Sleeping(k) = {}

(* A priority that is not the task's own comes from one who waits, or is   *)
(* about to, for a mutex that the task holds; and the holder is as         *)
(* important as all of those.                                              *)
Lends(w, q, t) ==
  k.uxPriority[w] >= k.uxPriority[t] /\ (w \in Queued(q) \/ Placing(w, q))
OnlyOwed ==
  \A t \in Tasks : k.uxPriority[t] # k.uxBasePriority[t] =>
    \E q \in holds[t], w \in Tasks : Lends(w, q, t)
HoldersLead ==
  \A q \in Mutexes, w \in Tasks :
    /\ IsEmpty(queue[q]) /\ w \in Queued(q) => k.uxPriority[Holder(q)] >= k.uxPriority[w]
    /\ Placing(w, q) => IsEmpty(queue[q]) /\ k.uxPriority[Holder(q)] >= k.uxPriority[w]

(* When a mutex is there to be taken, the most important of those who wait *)
(* has been woken for it, or somebody else as important is on its way.     *)
FirstComes ==
  \A q \in Mutexes : ~IsEmpty(queue[q]) =>
    \A w \in Queued(q) : \E u \in Tasks : Comes(u, q) /\ k.uxPriority[u] >= k.uxPriority[w]

PrioInv == EventsInOrder /\ NoSleepers /\ OnlyOwed /\ HoldersLead /\ FirstComes

(* One who neither waits for a mutex nor is on its way to one.             *)
Spare(t) == \A q \in Mutexes : t \notin Queued(q) /\ ~Comes(t, q)

LEMMA PrioInit ==
  ASSUME Init
  PROVE  PrioInv
<1>1. \A t \in Tasks : frame[t] = AtRest
  BY DEF Init
<1>2. /\ \A l \in EventLists : k.event[l] = <<>> /\ ToSet(k.event[l]) = {}
      /\ \A t \in Tasks : /\ k.uxPriority[t] = 0 /\ k.uxBasePriority[t] = 0
                          /\ k.eventValue[t] = configMAX_PRIORITIES
  BY DEF Init, NoTasks, ToSet, tskIDLE_PRIORITY
<1>3. \A q \in Mutexes : ToReceive(q) \in EventLists
  BY QueuesAssumption DEF EventListsOf, Mutexes
<1>4. EventsInOrder
  BY <1>2, Constants DEF EventsInOrder, InOrder
<1>5. \A q \in Mutexes : Queued(q) = {}
  BY <1>2, <1>3 DEF Queued
<1>6. \A w \in Tasks : \A q : ~Placing(w, q)
  BY <1>1, RestIsQuiet DEF Placing
<1> QED BY <1>2, <1>4, <1>5, <1>6 DEF PrioInv, NoSleepers, OnlyOwed, HoldersLead, FirstComes

(* Who was about to wait still is, or it has just been seen to; who was on *)
(* its way to a mutex that is there still is.                              *)
Onward ==
  \A u \in Tasks, q \in Mutexes :
    /\ Placing(u, q) => Placing(u, q)'
    /\ Placing(u, q)' =>
         \/ Placing(u, q)
         \/ IsEmpty(queue[q]) /\ k'.uxPriority[Holder(q)] >= k'.uxPriority[u]
    /\ ~IsEmpty(queue[q]) /\ Hopes(u, q) => Hopes(u, q)'

(* The mutexes are with whom they were.                                    *)
MutexesStay ==
  /\ holds' = holds
  /\ \A q \in Mutexes : (IsEmpty(queue[q])' <=> IsEmpty(queue[q])) /\ Holder(q)' = Holder(q)

SameRank(u) ==
  /\ k'.uxPriority[u] = k.uxPriority[u] /\ k'.uxBasePriority[u] = k.uxBasePriority[u]
  /\ k'.eventValue[u] = k.eventValue[u]

(* The rank of a task in no call on a queue changes for a reason.          *)
Reranked(t, T) ==
  /\ frame[t].call.op \notin QueueOps
  /\ k'.eventValue[t] = configMAX_PRIORITIES - k'.uxPriority[t]
  /\ holds[t] = {} \/ k'.uxPriority[t] >= k.uxPriority[t]
  /\ \/ k'.uxPriority[t] = k'.uxBasePriority[t]
     \/ \E q \in holds[t], w \in Tasks \ T : Lends(w, q, t)'

(* Before and after a step.                                                *)
Tended(P, E) ==
  /\ Sound(P, E) /\ WaitInv /\ HoldInv /\ PrioInv /\ UsesMutexesWell(script)
  /\ script' = script /\ k'.uxPriority \in [Tasks -> Prios]

LEMMA TendedIs ==
  ASSUME NEW P, NEW E, Tended(P, E)
  PROVE  /\ Sound(P, E) /\ WaitInv /\ HoldInv /\ PrioInv /\ UsesMutexesWell(script)
         /\ script' = script /\ Settled(k, P, E) /\ Staged(P) /\ MutexInv /\ MutexesHeld
         /\ FramesOK /\ FramesCareful /\ QueuesOK /\ Whole(k) /\ Shaped(k) /\ WithRanks(k)
         /\ WaitersLook /\ CallsScripted /\ Rests(k, k, {})
         /\ k.pxCurrentTCB \in Tasks
         /\ \A t \in Tasks : k.uxPriority[t] \in Int /\ k'.uxPriority[t] \in Int
                              /\ k.eventValue[t] \in Int /\ k.uxBasePriority[t] \in Int
<1>1. /\ Sound(P, E) /\ WaitInv /\ HoldInv /\ PrioInv /\ UsesMutexesWell(script)
      /\ script' = script /\ Settled(k, P, E) /\ Staged(P) /\ MutexInv /\ MutexesHeld
      /\ FramesOK /\ FramesCareful /\ QueuesOK /\ WaitersLook /\ CallsScripted
      /\ k'.uxPriority \in [Tasks -> Prios]
  BY DEF Tended, Sound, MutexInv, WaitInv
<1>2. Typed(k) /\ Shaped(k) /\ Whole(k)
  BY <1>1, SettledNumbers, SettledIsShaped, SettledIsWhole
<1>3. Rests(k, k, {})
  BY <1>2, StillIsCalm DEF Rests
<1>4. /\ k.uxPriority \in [Tasks -> Prios] /\ k.uxBasePriority \in [Tasks -> Prios]
      /\ k.eventValue \in [Tasks -> 1 .. configMAX_PRIORITIES] /\ k.pxCurrentTCB \in Tasks
  BY <1>2 DEF Typed
<1>5. \A t \in Tasks : k.uxPriority[t] \in Int /\ k'.uxPriority[t] \in Int
                        /\ k.eventValue[t] \in Int /\ k.uxBasePriority[t] \in Int
  BY <1>1, <1>4, Constants
<1>6. WithRanks(k)
  BY <1>4 DEF WithRanks
<1> QED BY <1>1, <1>2, <1>3, <1>4, <1>5, <1>6

(* Who is in no call on a queue waits for nothing.                         *)
LEMMA WaitersCall ==
  ASSUME WaitersLook, NEW t, NEW l \in EventLists, t \in ToSet(k.event[l])
  PROVE  \E q \in Queues, side \in Sides :
           /\ l = ListOf(q, side) /\ InCall(frame[t], q, side) /\ Looks(frame[t])
           /\ frame[t].call.op \in QueueOps
<1>1. \E q \in Queues : l \in {ToSend(q), ToReceive(q)}
  BY QueuesAssumption DEF EventListsOf
<1>2. PICK q \in Queues, side \in Sides : l = ListOf(q, side)
  BY <1>1 DEF Sides, ListOf
<1>3. InCall(frame[t], q, side) /\ Looks(frame[t])
  BY <1>2 DEF WaitersLook
<1>4. frame[t].call.op \in QueueOps
  BY <1>3, SidesAre DEF InCall
<1> QED BY <1>2, <1>3, <1>4

LEMMA QueuedHope ==
  ASSUME WaitersLook, NEW q \in Mutexes
  PROVE  /\ ToReceive(q) \in EventLists /\ ToSend(q) \in EventLists /\ q \in Queues
         /\ ToReceive(q) = ListOf(q, "receive")
         /\ \A t \in Queued(q) : Hopes(t, q)
<1>1. q \in Queues /\ ToReceive(q) \in EventLists /\ ToSend(q) \in EventLists
  BY QueuesAssumption DEF EventListsOf, Mutexes
<1>2. ToReceive(q) = ListOf(q, "receive") /\ "receive" \in Sides
  BY DEF ListOf, Sides
<1> QED BY <1>1, <1>2 DEF WaitersLook, Queued, Hopes

LEMMA NotQueueing ==
  ASSUME WaitersLook, NEW t \in Tasks, frame[t].call.op \notin QueueOps
  PROVE  /\ \A l \in EventLists : t \notin ToSet(k.event[l])
         /\ \A q \in Mutexes : t \notin Queued(q) /\ ~Hopes(t, q) /\ ~Placing(t, q)
         /\ Spare(t)
<1>1. \A l \in EventLists : t \notin ToSet(k.event[l])
  BY WaitersCall
<1>2. \A q : ~InCall(frame[t], q, "receive")
  BY SidesAre DEF InCall
<1>3. \A q \in Mutexes : t \notin Queued(q) /\ ~Hopes(t, q) /\ ~Placing(t, q)
  BY <1>1, <1>2, QueuedHope DEF Queued, Hopes, Placing
<1> QED BY <1>1, <1>3 DEF Spare, Comes

(* What a step leaves of all this when it only shortens lists.             *)
LEMMA RanksKept ==
  ASSUME NEW P, NEW E, Tended(P, E), NEW X, Calm(k', k, X), \A x \in X : Spare(x),
         NEW T \in SUBSET Tasks, \A u \in Tasks \ T : SameRank(u),
         \A t \in T : Reranked(t, T), MutexesStay, Onward
  PROVE  PrioInv'
<1>1. /\ WaitersLook /\ HoldInv /\ PrioInv /\ MutexesHeld /\ MutexInv /\ QueuesOK
      /\ \A t \in Tasks : k.uxPriority[t] \in Int /\ k'.uxPriority[t] \in Int
  BY TendedIs
<1>2. \A l \in EventLists : PartOf(k'.event[l], k.event[l])
  BY DEF Calm, Orderly
<1>3. /\ Sleeping(k') \subseteq Sleeping(k) \cup X /\ Out(k') \subseteq Out(k) \cup X
      /\ \A l \in EventLists : IsList(k'.event[l])
  BY DEF Calm, Orderly, Whole, Shaped
<1>4. \A q \in Mutexes :
        /\ ToReceive(q) \in EventLists /\ q \in Queues
        /\ Queued(q) \cap X = {} /\ Queued(q) \cap Sleeping(k) = {}
  BY <1>1, QueuedHope DEF Spare, PrioInv, NoSleepers
<1>5. \A q \in Mutexes : Queued(q)' = Queued(q) /\ Queued(q) \subseteq Tasks
  <2> SUFFICES ASSUME NEW q \in Mutexes
               PROVE  Queued(q)' = Queued(q) /\ Queued(q) \subseteq Tasks
    OBVIOUS
  <2>1. ToSet(k'.event[ToReceive(q)]) \subseteq ToSet(k.event[ToReceive(q)])
    BY <1>2, <1>4 DEF PartOf
  <2>2. ToSet(k.event[ToReceive(q)]) \ (Sleeping(k) \cup X) \subseteq ToSet(k'.event[ToReceive(q)])
    BY <1>4 DEF Calm, Stay
  <2>3. Shaped(k)
    BY TendedIs
  <2>4. k.event[ToReceive(q)] \in Seq(Tasks)
    BY <2>3, <1>4 DEF Shaped, IsList
  <2>5. ToSet(k.event[ToReceive(q)]) \subseteq Tasks
    BY <2>4 DEF ToSet
  <2> QED BY <2>1, <2>2, <2>5, <1>4 DEF Queued
<1>6. \A t \in T : /\ \A l \in EventLists : t \notin ToSet(k.event[l])
                   /\ \A q \in Mutexes : t \notin Queued(q) /\ ~Hopes(t, q) /\ ~Placing(t, q)
  BY <1>1, NotQueueing DEF Reranked
<1>7. EventsInOrder'
  <2>1. \A t \in Tasks : k'.eventValue[t] = configMAX_PRIORITIES - k'.uxPriority[t]
    BY <1>1 DEF PrioInv, EventsInOrder, Reranked, SameRank
  <2>2. ASSUME NEW l \in EventLists PROVE InOrder(k'.event[l], k'.eventValue)
    <3>1. InOrder(k'.event[l], k.eventValue)
      BY <1>1, <1>2 DEF PrioInv, EventsInOrder, PartOf
    <3>2. \A i \in 1 .. Len(k'.event[l]) :
            k'.event[l][i] \in Tasks /\ k'.event[l][i] \in ToSet(k'.event[l])
      BY <1>3 DEF IsList, ToSet
    <3>3. \A i \in 1 .. Len(k'.event[l]) : k'.eventValue[k'.event[l][i]] = k.eventValue[k'.event[l][i]]
      BY <3>2, <1>2, <1>6 DEF PartOf, SameRank
    <3> QED BY <3>1, <3>3 DEF InOrder
  <2> QED BY <2>1, <2>2 DEF EventsInOrder
<1>8. NoSleepers'
  BY <1>3, <1>4, <1>5 DEF NoSleepers
<1>9. OnlyOwed'
  <2> SUFFICES ASSUME NEW t \in Tasks, k'.uxPriority[t] # k'.uxBasePriority[t]
               PROVE  \E q \in holds'[t], w \in Tasks : Lends(w, q, t)'
    BY DEF OnlyOwed
  <2>1. CASE t \in T
    BY <2>1 DEF Reranked, MutexesStay
  <2>2. CASE t \notin T
    <3>1. k.uxPriority[t] # k.uxBasePriority[t] /\ k'.uxPriority[t] = k.uxPriority[t]
      BY <2>2 DEF SameRank
    <3>2. PICK q \in holds[t], w \in Tasks : Lends(w, q, t)
      BY <3>1, <1>1 DEF PrioInv, OnlyOwed
    <3>3. q \in Mutexes
      BY <1>1 DEF HoldInv, HoldsTaken
    <3>4. w \in Tasks \ T
      BY <3>2, <3>3, <1>6 DEF Lends
    <3>5. k'.uxPriority[w] = k.uxPriority[w]
      BY <3>4 DEF SameRank
    <3>6. Placing(w, q) => Placing(w, q)'
      BY <3>3 DEF Onward
    <3>7. Lends(w, q, t)'
      BY <3>1, <3>2, <3>3, <3>5, <3>6, <1>5 DEF Lends
    <3> QED BY <3>7 DEF MutexesStay
  <2> QED BY <2>1, <2>2
<1>10. \A q \in Mutexes : IsEmpty(queue[q]) =>
         Holder(q) \in Tasks /\ k'.uxPriority[Holder(q)] >= k.uxPriority[Holder(q)]
  <2> SUFFICES ASSUME NEW q \in Mutexes, IsEmpty(queue[q])
               PROVE  Holder(q) \in Tasks /\ k'.uxPriority[Holder(q)] >= k.uxPriority[Holder(q)]
    OBVIOUS
  <2>1. IsQueue(q, queue[q]) /\ q \in Queues /\ QueueType[q] = "mutex"
    BY <1>1 DEF QueuesOK, Mutexes
  <2>2. Holder(q) \in Tasks
    BY <1>1, <2>1, BlockNumbers DEF MutexesHeld, Holder
  <2>3. holds[Holder(q)] # {}
    BY <1>1, <2>1, <2>2 DEF MutexesHeld, Holder
  <2> QED BY <1>1, <2>2, <2>3 DEF Reranked, SameRank
<1>11. HoldersLead'
  <2> SUFFICES ASSUME NEW q \in Mutexes, NEW w \in Tasks
               PROVE  /\ IsEmpty(queue[q])' /\ w \in Queued(q)'
                           => k'.uxPriority[Holder(q)'] >= k'.uxPriority[w]
                      /\ Placing(w, q)'
                           => IsEmpty(queue[q])' /\ k'.uxPriority[Holder(q)'] >= k'.uxPriority[w]
    BY DEF HoldersLead, Holder
  <2>1. (IsEmpty(queue[q])' <=> IsEmpty(queue[q])) /\ Holder(q)' = Holder(q)
    BY DEF MutexesStay
  <2>2. w \in Queued(q) \/ Placing(w, q) => k'.uxPriority[w] = k.uxPriority[w]
    BY <1>6 DEF SameRank
  <2>3. ASSUME IsEmpty(queue[q]), w \in Queued(q)
        PROVE  k'.uxPriority[Holder(q)] >= k'.uxPriority[w]
    <3>1. k.uxPriority[Holder(q)] >= k.uxPriority[w]
      BY <2>3, <1>1 DEF PrioInv, HoldersLead
    <3> QED BY <3>1, <2>2, <2>3, <1>1, <1>10
  <2>4. ASSUME Placing(w, q)
        PROVE  IsEmpty(queue[q]) /\ k'.uxPriority[Holder(q)] >= k'.uxPriority[w]
    <3>1. IsEmpty(queue[q]) /\ k.uxPriority[Holder(q)] >= k.uxPriority[w]
      BY <2>4, <1>1 DEF PrioInv, HoldersLead
    <3> QED BY <3>1, <2>2, <2>4, <1>1, <1>10
  <2>5. Placing(w, q)' => \/ Placing(w, q)
                          \/ IsEmpty(queue[q]) /\ k'.uxPriority[Holder(q)] >= k'.uxPriority[w]
    BY DEF Onward
  <2> QED BY <2>1, <2>3, <2>4, <2>5, <1>5
<1>12. FirstComes'
  <2> SUFFICES ASSUME NEW q \in Mutexes, ~IsEmpty(queue[q])', NEW w \in Queued(q)'
               PROVE  \E u \in Tasks : Comes(u, q)' /\ k'.uxPriority[u] >= k'.uxPriority[w]
    BY DEF FirstComes
  <2>1. ~IsEmpty(queue[q]) /\ w \in Queued(q) /\ w \in Tasks
    BY <1>5 DEF MutexesStay
  <2>2. PICK u \in Tasks : Comes(u, q) /\ k.uxPriority[u] >= k.uxPriority[w]
    BY <2>1, <1>1 DEF PrioInv, FirstComes
  <2>3. u \notin X /\ u \notin T /\ w \notin T
    BY <2>1, <2>2, <1>6 DEF Spare, Comes
  <2>4. k'.uxPriority[u] = k.uxPriority[u] /\ k'.uxPriority[w] = k.uxPriority[w]
    BY <2>1, <2>2, <2>3 DEF SameRank
  <2>5. Hopes(u, q)'
    BY <2>1, <2>2 DEF Onward, Comes
  <2>6. u \notin Out(k')
    BY <2>2, <2>3, <1>3 DEF Comes
  <2> QED BY <2>2, <2>4, <2>5, <2>6 DEF Comes
<1> QED BY <1>7, <1>8, <1>9, <1>11, <1>12 DEF PrioInv

(* A task that was not about to wait for a mutex and is not now, and that  *)
(* still is on its way to a mutex that is there.                           *)
Passes(u) ==
  \A q \in Mutexes :
    /\ ~Placing(u, q) /\ ~Placing(u, q)'
    /\ ~IsEmpty(queue[q]) /\ Hopes(u, q) => Hopes(u, q)'

LEMMA PrioQuiet ==
  ASSUME NEW P, NEW E, Tended(P, E), NEW X, Rests(k', k, X), \A x \in X : Spare(x), MutexesStay,
         \A u \in Tasks : frame'[u] = frame[u] \/ Passes(u)
  PROVE  PrioInv'
<1>1. Onward
  BY DEF Passes, Onward, Placing, Hopes
<1>2. \A u \in Tasks : SameRank(u)
  BY DEF Rests, SameRanks, SameRank
<1>3. Calm(k', k, X)
  BY DEF Rests
<1>4. {} \in SUBSET Tasks /\ Tasks \ {} = Tasks
  OBVIOUS
<1> QED BY <1>1, <1>2, <1>3, <1>4, RanksKept

LEMMA PassesIf ==
  ASSUME NEW t, frame[t].at # "place", frame'[t].at # "place", Still(frame[t], frame'[t])
  PROVE  Passes(t)
<1>1. \A q \in Mutexes : Hopes(t, q) => frame[t].call.op \in QueueOps /\ Looks(frame[t])
  BY SidesAre DEF Hopes, InCall
<1> QED BY <1>1 DEF Passes, Placing, Hopes, InCall, Still

LEMMA NothingMoves ==
  ASSUME queue' = queue, holds' = holds
  PROVE  MutexesStay
BY DEF MutexesStay, IsEmpty, Holder

LEMMA OthersMove ==
  ASSUME QueuesOK, NEW q \in Queues, NEW Q, queue' = [queue EXCEPT ![q] = Q], holds' = holds,
         q \in Mutexes => Q.buf = queue[q].buf /\ Q.pxMutexHolder = queue[q].pxMutexHolder
  PROVE  MutexesStay
<1>1. queue'[q] = Q /\ \A p \in Queues : p # q => queue'[p] = queue[p]
  BY DEF QueuesOK
<1> QED BY <1>1 DEF MutexesStay, IsEmpty, Holder, Mutexes

(* The step of one task.                                                   *)
LEMMA PrioOne ==
  ASSUME NEW P, NEW E, Tended(P, E), NEW X, Rests(k', k, X), \A x \in X : Spare(x), MutexesStay,
         NEW t \in Tasks, NEW f, frame' = [frame EXCEPT ![t] = f],
         frame[t].at # "place", f.at # "place", Still(frame[t], f)
  PROVE  PrioInv'
<1>1. frame'[t] = f /\ \A u \in Tasks \ {t} : frame'[u] = frame[u]
  BY TendedIs, OneFrame
<1>2. Passes(t)
  BY <1>1, PassesIf
<1> QED BY <1>1, <1>2, PrioQuiet

LEMMA PrioGo ==
  ASSUME NEW P, NEW E, Tended(P, E), NEW X, Rests(k', k, X), \A x \in X : Spare(x), MutexesStay,
         NEW t \in Tasks, NEW at, GoTo(t, at), frame[t].at # "place", at # "place",
         \/ ~Looks(frame[t]) \/ at \in {"yield", "enter"}
         \/ frame[t].call.op \notin QueueOps
         \/ at \in {"unlockRx", "resume"} /\ frame[t].at \in {"unlockTx", "unlockRx"}
  PROVE  PrioInv'
<1>1. FramesOK
  BY TendedIs
<1>2. /\ frame'[t].at = at /\ frame'[t].then = frame[t].then
      /\ frame'[t].call = frame[t].call /\ frame'[t].wait = frame[t].wait
      /\ \A u \in Tasks \ {t} : frame'[u] = frame[u]
  BY <1>1, StageGone
<1>3. Still(frame[t], frame'[t])
  BY <1>2 DEF Still, Looks
<1>4. Passes(t)
  BY <1>2, <1>3, PassesIf
<1> QED BY <1>2, <1>4, PrioQuiet

LEMMA Strangers ==
  ASSUME FramesOK, CallsScripted, WaitersLook, NEW t \in Tasks, t \notin Takers(script)
  PROVE  /\ \A q \in Mutexes : t \notin Queued(q) /\ ~Hopes(t, q) /\ ~Placing(t, q)
         /\ Spare(t)
<1>1. ASSUME NEW q \in Mutexes PROVE ~InCall(frame[t], q, "receive")
  <2> SUFFICES ASSUME InCall(frame[t], q, "receive") PROVE FALSE
    OBVIOUS
  <2>1. frame[t].call.op \in ReceiveOps /\ frame[t].call.on = q /\ frame[t].call.op \in QueueOps
    BY SidesAre DEF InCall, Ops
  <2>2. frame[t].call \in script.calls /\ frame[t].call.task = t
    BY <2>1, CallOfOwn DEF CallsScripted
  <2>3. frame[t].call \in TakesOf(script)
    BY <2>1, <2>2 DEF TakesOf, Mutexes
  <2> QED BY <2>2, <2>3 DEF Takers
<1>2. \A q \in Mutexes : ~Hopes(t, q) /\ ~Placing(t, q)
  BY <1>1 DEF Hopes, Placing
<1>3. \A q \in Mutexes : t \notin Queued(q)
  BY <1>2, QueuedHope
<1> QED BY <1>2, <1>3 DEF Spare, Comes

LEMMA ListSpare ==
  ASSUME WaitersLook, NEW l \in EventLists, \A q \in Mutexes : l # ToReceive(q)
  PROVE  \A x \in ToSet(k.event[l]) : Spare(x)
<1> SUFFICES ASSUME NEW x \in ToSet(k.event[l]), NEW q \in Mutexes PROVE ~Hopes(x, q)
  BY QueuedHope DEF Spare, Comes
<1>1. PICK p \in Queues, side \in Sides : l = ListOf(p, side) /\ InCall(frame[x], p, side)
  BY WaitersCall
<1>2. SUFFICES ASSUME InCall(frame[x], q, "receive") PROVE FALSE
  BY DEF Hopes
<1>3. p = q /\ side = "receive"
  BY <1>1, <1>2, SidesAre DEF InCall
<1> QED BY <1>1, <1>3, QueuedHope

LEMMA PendingSpare ==
  ASSUME NEW P, NEW E, Tended(P, E)
  PROVE  \A x \in ToSet(k.pending) : Spare(x)
<1>1. Settled(k, P, E)
  BY TendedIs
<1>2. Placed(k, P, E) /\ \A t \in Tasks : E[t] # Nothing => P[t] \in Asleep \cup {Suspended}
  BY <1>1, SettledNumbers DEF Settled
<1> SUFFICES ASSUME NEW x \in ToSet(k.pending) PROVE Spare(x)
  OBVIOUS
<1>3. x \in Tasks /\ E[x] = Pending
  BY <1>2 DEF Placed, Lists
<1>4. \A l \in EventLists : E[x] # l
  BY <1>3, WaitsDiffer
<1>5. \A l \in EventLists : x \notin ToSet(k.event[l])
  BY <1>2, <1>4 DEF Placed, Lists
<1>6. P[x] \in Asleep \cup {Suspended}
  BY <1>2, <1>3, WaitsDiffer
<1>7. x \in Out(k)
  BY <1>1, <1>2, <1>3, <1>6, SleepersAre DEF Out, Placed, Lists
<1>8. \A q \in Mutexes : ToReceive(q) \in EventLists
  BY TendedIs, QueuedHope
<1> QED BY <1>5, <1>7, <1>8 DEF Spare, Queued, Comes

LEMMA PrioSuspend ==
  ASSUME NEW P, NEW E, Tended(P, E), NEW t \in Tasks, SuspendAll(t)
  PROVE  PrioInv'
<1>1. Whole(k)
  BY TendedIs
<1>2. Rests(k', k, {})
  BY <1>1, SwitchingRests DEF SuspendAll
<1>3. MutexesStay /\ frame[t].at = "suspend" /\ ~Looks(frame[t])
  BY NothingMoves DEF SuspendAll, Reaches, Looks
<1>4. PICK at \in {"lock", "delay", "resume"} : GoTo(t, at)
  BY DEF SuspendAll
<1> QED BY <1>2, <1>3, <1>4, PrioGo

LEMMA PrioLock ==
  ASSUME NEW P, NEW E, Tended(P, E), NEW t \in Tasks, LockQueue(t)
  PROVE  PrioInv'
<1>1. Rests(k, k, {}) /\ QueuesOK /\ FramesOK
  BY TendedIs
<1>2. Rests(k', k, {}) /\ holds' = holds
  BY <1>1 DEF LockQueue
<1>3. /\ frame[t].at = "lock" /\ ~Looks(frame[t]) /\ GoTo(t, "check")
      /\ queue' = [queue EXCEPT ![frame[t].call.on] = prvLockQueue(@)]
  BY DEF LockQueue, Reaches, Looks
<1>4. frame[t].call.on \in Queues
  BY <1>1, <1>3, FrameCalls DEF FramesOK, IsFrame, QueueStages
<1> DEFINE q == frame[t].call.on
           Q == prvLockQueue(queue[q])
<1>5. queue' = [queue EXCEPT ![q] = Q]
  BY <1>3
<1>6. IsQueue(q, queue[q])
  BY <1>1, <1>4 DEF QueuesOK
<1>7. Q.buf = queue[q].buf /\ Q.pxMutexHolder = queue[q].pxMutexHolder
  BY <1>6 DEF prvLockQueue, IsQueue, ControlBlocks
<1> HIDE DEF Q
<1>8. MutexesStay
  BY <1>1, <1>2, <1>4, <1>5, <1>7, OthersMove
<1> QED BY <1>2, <1>3, <1>8, PrioGo

LEMMA PrioCheck ==
  ASSUME NEW P, NEW E, Tended(P, E), NEW t \in Tasks, CheckForTimeOut(t) \/ TestQueue(t)
  PROVE  PrioInv'
<1>1. Rests(k, k, {}) /\ FramesOK
  BY TendedIs
<1>2. Rests(k', k, {}) /\ MutexesStay
  BY <1>1, NothingMoves DEF CheckForTimeOut, TestQueue
<1>3. DOMAIN frame[t] = {"at", "call", "wait", "timed", "entry", "then"}
  BY <1>1 DEF FramesOK, IsFrame
<1>4. frame = [u \in Tasks |-> frame[u]]
  BY <1>1 DEF FramesOK
<1>5. /\ \A u \in Tasks \ {t} : frame'[u] = frame[u]
      /\ frame'[t].call = frame[t].call
      /\ CheckForTimeOut(t) => frame'[t].at # "place"
      /\ TestQueue(t) /\ frame'[t].at = "place" =>
           ~(QueueType[frame[t].call.on] = "mutex" /\ frame[t].call.op \in ReceiveOps)
  BY <1>3, <1>4 DEF CheckForTimeOut, TestQueue
<1>6. frame[t].at \in {"check", "test"}
  BY DEF CheckForTimeOut, TestQueue, Reaches
<1>7. Passes(t)
  BY <1>5, <1>6 DEF Passes, Placing, Hopes, Looks, InCall, Ops, Mutexes
<1> QED BY <1>2, <1>5, <1>7, PrioQuiet

LEMMA PrioUnlock ==
  ASSUME NEW P, NEW E, Tended(P, E), NEW t \in Tasks, UnlockQueueTx(t) \/ UnlockQueueRx(t)
  PROVE  PrioInv'
<1>1. /\ Sound(P, E) /\ QueuesOK /\ FramesOK /\ Settled(k, P, E) /\ WaitersLook /\ NoneCounted
      /\ Rests(k, k, {})
  BY TendedIs DEF HoldInv
<1>2. Runs(t) /\ frame[t].at \in {"unlockTx", "unlockRx"} /\ frame[t].at # "place"
  BY DEF UnlockQueueTx, UnlockQueueRx, Reaches
<1>3. k.xSchedulerRunning /\ k.uxSchedulerSuspended # 0
  BY <1>1, <1>2, RunningTask DEF SuspStages, QueueStages
<1>4. frame[t].call.on \in Queues
  BY <1>1, <1>2, FrameCalls DEF FramesOK, IsFrame, QueueStages
<1> DEFINE q == frame[t].call.on
<1>5. PICK at \in {"unlockRx", "resume"} : GoTo(t, at)
  BY DEF UnlockQueueTx, UnlockQueueRx
<1>6. /\ ToReceive(q) \in EventLists /\ ToSend(q) \in EventLists
      /\ IsQueue(q, queue[q]) /\ \A p \in Mutexes : ToSend(q) # ToReceive(p)
  BY <1>1, <1>4, QueuesAssumption DEF EventListsOf, QueuesOK, ToSend, ToReceive
<1>7. queue[q].xTxLock \in Int /\ queue[q].xRxLock \in Int
  BY <1>6, BlockNumbers, <1>4, BoundsAssumption
<1>8. \E X : Rests(k', k, X) /\ \A x \in X : Spare(x)
  <2>1. CASE UnlockQueueRx(t)
    <3>1. k' = WakeCounted(k, ToSend(q), queue[q].xRxLock)
      BY <2>1 DEF UnlockQueueRx, UnlockRx
    <3>2. Rests(k', k, ToSet(k.event[ToSend(q)]))
      BY <3>1, <1>1, <1>3, <1>6, <1>7, CountedRests
    <3>3. \A x \in ToSet(k.event[ToSend(q)]) : Spare(x)
      BY <1>1, <1>6, ListSpare
    <3> QED BY <3>2, <3>3
  <2>2. CASE UnlockQueueTx(t)
    <3>1. k' = WakeCounted(k, ToReceive(q), queue[q].xTxLock)
      BY <2>2 DEF UnlockQueueTx, UnlockTx
    <3>2. CASE q \in Mutexes
      <4>1. k' = k
        BY <3>1, <3>2, <1>1, <1>3, <1>6, <1>7, CountedRests DEF NoneCounted
      <4> QED BY <4>1, <1>1
    <3>3. CASE q \notin Mutexes
      <4>1. Rests(k', k, ToSet(k.event[ToReceive(q)]))
        BY <3>1, <1>1, <1>3, <1>6, <1>7, CountedRests
      <4>2. \A p \in Mutexes : ToReceive(q) # ToReceive(p)
        BY <3>3 DEF ToReceive
      <4>3. \A x \in ToSet(k.event[ToReceive(q)]) : Spare(x)
        BY <4>2, <1>1, <1>6, ListSpare
      <4> QED BY <4>1, <4>3
    <3> QED BY <3>2, <3>3
  <2> QED BY <2>1, <2>2
<1>9. MutexesStay
  <2>1. holds' = holds /\ \E Q : queue' = [queue EXCEPT ![q] = Q]
          /\ Q.buf = queue[q].buf /\ Q.pxMutexHolder = queue[q].pxMutexHolder
    <3> DEFINE Tx == [queue[q] EXCEPT !.xTxLock = queueUNLOCKED]
               Rx == [queue[q] EXCEPT !.xRxLock = queueUNLOCKED]
    <3>1. /\ Tx.buf = queue[q].buf /\ Tx.pxMutexHolder = queue[q].pxMutexHolder
          /\ Rx.buf = queue[q].buf /\ Rx.pxMutexHolder = queue[q].pxMutexHolder
      BY <1>6 DEF IsQueue, ControlBlocks
    <3>2. \/ holds' = holds /\ queue' = [queue EXCEPT ![q] = Tx]
          \/ holds' = holds /\ queue' = [queue EXCEPT ![q] = Rx]
      BY DEF UnlockQueueTx, UnlockQueueRx, UnlockTx, UnlockRx
    <3> HIDE DEF Tx, Rx
    <3> QED BY <3>1, <3>2
  <2> QED BY <2>1, <1>1, <1>4, OthersMove
<1>10. PICK X : Rests(k', k, X) /\ \A x \in X : Spare(x)
  BY <1>8
<1> QED BY <1>2, <1>5, <1>9, <1>10, PrioGo

LEMMA PrioResume ==
  ASSUME NEW P, NEW E, Tended(P, E), NEW t \in Tasks, ResumeAll(t)
  PROVE  PrioInv'
<1>1. Sound(P, E) /\ Settled(k, P, E) /\ FramesOK
  BY TendedIs
<1>2. frame[t].at = "resume" /\ Runs(t)
  BY DEF ResumeAll, Reaches
<1>3. k.uxSchedulerSuspended = 1
  BY <1>1, <1>2, RunningTask DEF SuspStages
<1>4. Rests(k', k, ToSet(k.pending))
  BY <1>1, <1>3, ResumingAllRests DEF ResumeAll
<1>5. MutexesStay
  BY NothingMoves DEF ResumeAll
<1>6. \A x \in ToSet(k.pending) : Spare(x)
  BY PendingSpare
<1>7. CASE \E at \in {"yield", "enter"} : GoTo(t, at)
  BY <1>2, <1>4, <1>5, <1>6, <1>7, PrioGo
<1>8. CASE GoTo(t, "work") /\ frame[t].then = "work"
  <2>1. frame[t].call.op \notin QueueOps
    BY <1>1, <1>8 DEF FramesOK, IsFrame, QueueOps, SendOps, ReceiveOps
  <2> QED BY <2>1, <1>2, <1>4, <1>5, <1>6, <1>8, PrioGo
<1>9. CASE Return(t) /\ (frame[t].call.op \notin QueueOps \/ frame[t].then = "fail")
  <2>1. frame[t].call.op \notin QueueOps \/ ~Looks(frame[t])
    BY <1>2, <1>9 DEF Looks
  <2>2. Still(frame[t], AtRest)
    BY <2>1 DEF Still
  <2> QED BY <2>2, <1>2, <1>4, <1>5, <1>6, <1>9, RestIsQuiet, PrioOne DEF Return
<1>10. \/ \E at \in {"yield", "enter"} : GoTo(t, at)
       \/ GoTo(t, "work") /\ frame[t].then = "work"
       \/ Return(t) /\ (frame[t].call.op \notin QueueOps \/ frame[t].then = "fail")
  BY DEF ResumeAll, QueueOps
<1> QED BY <1>7, <1>8, <1>9, <1>10

LEMMA PrioYield ==
  ASSUME NEW P, NEW E, Tended(P, E), NEW t \in Tasks, Yield(t)
  PROVE  PrioInv'
<1>1. Whole(k)
  BY TendedIs
<1>2. Rests(k', k, {})
  BY <1>1, YieldingIsCalm DEF Yield, Rests
<1>3. MutexesStay /\ frame[t].at = "yield"
  BY NothingMoves DEF Yield, Reaches
<1>4. CASE GoTo(t, "enter")
  BY <1>2, <1>3, <1>4, PrioGo
<1>5. CASE Return(t) /\ frame[t].call.op \notin QueueOps
  <2>1. Still(frame[t], AtRest)
    BY <1>5 DEF Still
  <2>2. AtRest.at # "place" /\ frame[t].at # "place" /\ MutexesStay
    BY <1>3, RestIsQuiet
  <2>3. frame' = [frame EXCEPT ![t] = AtRest]
    BY <1>5 DEF Return
  <2>4. PICK X : X = {}
    OBVIOUS
  <2>5. Rests(k', k, X) /\ \A x \in X : Spare(x)
    BY <1>2, <2>4
  <2> QED BY <2>1, <2>2, <2>3, <2>5, PrioOne
<1> QED BY <1>4, <1>5 DEF Yield, QueueOps

(* A call of a task that is in none.                                       *)
LEMMA FromRest ==
  ASSUME NEW P, NEW E, Tended(P, E), NEW t \in Tasks, frame[t].call.op \notin QueueOps,
         frame[t].at # "place", NEW X, Rests(k', k, X), X \subseteq {t}, MutexesStay,
         NEW f, frame' = [frame EXCEPT ![t] = f], f.at # "place"
  PROVE  PrioInv'
<1>1. Spare(t)
  BY TendedIs, NotQueueing
<1>2. Still(frame[t], f)
  BY DEF Still
<1> QED BY <1>1, <1>2, PrioOne

(* A task that begins a call on no queue.                                   *)
LEMMA Beginner ==
  ASSUME NEW P, NEW E, Tended(P, E), NEW t \in Tasks, NEW c, c.op \notin QueueOps, Enters(t, c)
  PROVE  /\ Runs(t) /\ k.pxCurrentTCB = t /\ frame[t] = AtRest
         /\ frame[t].at # "place" /\ frame[t].call.op \notin QueueOps
         /\ c \in script.calls /\ c \in Calls /\ c.task = t
<1>1. Sound(P, E) /\ FramesOK
  BY TendedIs
<1>2. frame[t].at = "ready" /\ Runs(t) /\ c \in Calls /\ c.task = t
  BY <1>1, Begins
<1>3. frame[t] = AtRest
  BY <1>1, <1>2 DEF FramesOK, IsFrame
<1> QED BY <1>2, <1>3, RestIsQuiet DEF Runs, Enters

LEMMA PrioBegins ==
  ASSUME NEW P, NEW E, Tended(P, E), NEW t \in Tasks, NEW c, c.op \notin QueueOps, Enters(t, c),
         k' = k, queue' = queue, holds' = holds, NEW f, frame' = [frame EXCEPT ![t] = f],
         f.at = "suspend"
  PROVE  PrioInv'
<1>1. MutexesStay
  BY NothingMoves
<1>2. PICK X : X = {}
  OBVIOUS
<1>3. Rests(k', k, X) /\ X \subseteq {t}
  BY <1>2, TendedIs
<1>4. frame[t].at # "place" /\ frame[t].call.op \notin QueueOps /\ f.at # "place"
  BY Beginner
<1> QED BY <1>1, <1>3, <1>4, FromRest

LEMMA PrioDelay ==
  ASSUME NEW P, NEW E, Tended(P, E), NEW t \in Tasks, vTaskDelay(t)
  PROVE  PrioInv'
<1>1. Whole(k) /\ k.pxCurrentTCB \in Tasks /\ queue' = queue /\ holds' = holds
  <2>1. queue' = queue /\ holds' = holds
    BY Zenon DEF vTaskDelay
  <2> QED BY <2>1, TendedIs
<1>2. "delay" \notin QueueOps
  BY SMT DEF QueueOps, SendOps, ReceiveOps
<1>3. ASSUME k' = taskYIELD(k), frame' = frame
      PROVE  PrioInv'
  <2>1. Rests(k', k, {})
    BY <1>1, <1>3, YieldingIsCalm DEF YieldIf, Rests
  <2> QED BY <1>1, <1>3, <2>1, NothingMoves, PrioQuiet
<1>4. ASSUME NEW c, c.op = "delay", Enters(t, c), k' = k,
             frame' = [frame EXCEPT ![t] = [AtRest EXCEPT
               !.at = "suspend", !.call = c, !.wait = c.wait, !.then = "block"]]
      PROVE  PrioInv'
  <2> DEFINE f == [AtRest EXCEPT !.at = "suspend", !.call = c, !.wait = c.wait, !.then = "block"]
  <2>1. f.at = "suspend"
    BY DEF AtRest
  <2>2. frame' = [frame EXCEPT ![t] = f]
    BY <1>4
  <2> HIDE DEF f
  <2> QED BY <1>1, <1>2, <1>4, <2>1, <2>2, PrioBegins
<1>5. ASSUME Reaches(t, "delay"), frame[t].call.op = "delay",
             k' = Delay(k, TimeToWake(k, frame[t].wait)), GoTo(t, "resume")
      PROVE  PrioInv'
  <2>1. k.pxCurrentTCB = t /\ frame[t].call.op \notin QueueOps /\ frame[t].at # "place"
    BY <1>2, <1>5 DEF Reaches, Runs
  <2>2. Rests(k', k, {t})
    BY <1>1, <1>5, <2>1, SleepingRests
  <2>3. \A x \in {t} : Spare(x)
    BY <2>1, TendedIs, NotQueueing
  <2> QED BY <1>1, <1>5, <2>1, <2>2, <2>3, NothingMoves, PrioGo
<1> QED BY <1>3, <1>4, <1>5, Zenon DEF vTaskDelay

LEMMA PrioDelayUntil ==
  ASSUME NEW P, NEW E, Tended(P, E), NEW t \in Tasks, vTaskDelayUntil(t)
  PROVE  PrioInv'
<1>1. /\ Whole(k) /\ k.pxCurrentTCB \in Tasks /\ queue' = queue /\ holds' = holds
      /\ FramesOK /\ Rests(k, k, {})
  <2>1. queue' = queue /\ holds' = holds
    BY Zenon DEF vTaskDelayUntil
  <2> QED BY <2>1, TendedIs
<1>2. "delayUntil" \notin QueueOps
  BY SMT DEF QueueOps, SendOps, ReceiveOps
<1>3. ASSUME NEW c, c.op = "delayUntil", Enters(t, c), k' = k, Suspends(t, c, "block")
      PROVE  PrioInv'
  <2> DEFINE f == [AtRest EXCEPT !.at = "suspend", !.call = c, !.then = "block"]
  <2>1. f.at = "suspend"
    BY DEF AtRest
  <2>2. frame' = [frame EXCEPT ![t] = f]
    BY <1>3 DEF Suspends
  <2> HIDE DEF f
  <2> QED BY <1>1, <1>2, <1>3, <2>1, <2>2, PrioBegins
<1>4. ASSUME Reaches(t, "delay"), frame[t].call.op = "delayUntil", NEW next, NEW n,
             k' = k \/ k' = Delay(k, next),
             frame' = [frame EXCEPT ![t].at = "resume", ![t].wait = n]
      PROVE  PrioInv'
  <2> DEFINE f == [frame[t] EXCEPT !.at = "resume", !.wait = n]
  <2>1. frame' = [frame EXCEPT ![t] = f]
    BY <1>1, <1>4 DEF FramesOK
  <2>2. f.at # "place"
    <3>1. IsFrame(t, frame[t])
      BY <1>1 DEF FramesOK
    <3> QED BY <3>1 DEF IsFrame
  <2> HIDE DEF f
  <2>3. k.pxCurrentTCB = t /\ frame[t].call.op \notin QueueOps /\ frame[t].at # "place"
    BY <1>2, <1>4 DEF Reaches, Runs
  <2>4. Rests(k', k, {}) \/ Rests(k', k, {t})
    BY <1>1, <1>4, <2>3, SleepingRests
  <2>5. {} \subseteq {t} /\ {t} \subseteq {t} /\ MutexesStay
    BY <1>1, NothingMoves
  <2> QED BY <2>1, <2>2, <2>3, <2>4, <2>5, FromRest
<1> QED BY <1>3, <1>4 DEF vTaskDelayUntil

(* A step of which only the scheduler tells.                               *)
LEMMA PrioStill ==
  ASSUME NEW P, NEW E, Tended(P, E), NEW X, Rests(k', k, X), \A x \in X : Spare(x),
         frame' = frame, MutexesStay
  PROVE  PrioInv'
BY PrioQuiet

(* Who is suspended by another task takes no mutexes.                      *)
LEMMA PrioSuspendCall ==
  ASSUME NEW P, NEW E, Tended(P, E), NEW t \in Tasks, vTaskSuspend(t)
  PROVE  PrioInv'
<1>1. /\ Whole(k) /\ FramesOK /\ CallsScripted /\ WaitersLook /\ UsesMutexesWell(script)
      /\ Settled(k, P, E)
  BY TendedIs
<1>2. PICK c \in script.calls :
        /\ c.op = "suspend" /\ Enters(t, c) /\ c.on \in Existing
        /\ k' = TaskSuspend(k, c.on)
        /\ frame' = IF c.on = t
                    THEN [frame EXCEPT ![t] = [AtRest EXCEPT !.at = "yield", !.call = c]]
                    ELSE frame
        /\ UNCHANGED <<script, queue, last, handed, holds>>
  BY Zenon DEF vTaskSuspend
<1>3. c.op \notin QueueOps
  BY <1>2 DEF QueueOps, SendOps, ReceiveOps
<1>4. /\ frame[t] = AtRest /\ frame[t].at # "place" /\ frame[t].call.op \notin QueueOps
      /\ c.task = t
  BY <1>2, <1>3, Beginner
<1>5. c.on \in Tasks
  BY <1>1, <1>2, ExistingPlaces
<1>6. Rests(k', k, {c.on})
  BY <1>1, <1>2, <1>5, EndingRests
<1>7. MutexesStay
  BY <1>2, NothingMoves
<1>8. CASE c.on = t
  <2> DEFINE f == [AtRest EXCEPT !.at = "yield", !.call = c]
  <2>1. f.at # "place"
    BY DEF AtRest
  <2>2. frame' = [frame EXCEPT ![t] = f]
    BY <1>2, <1>8
  <2> HIDE DEF f
  <2>3. {c.on} \subseteq {t}
    BY <1>8
  <2> QED BY <1>4, <1>6, <1>7, <2>1, <2>2, <2>3, FromRest
<1>9. CASE c.on # t
  <2>1. c.on \notin Takers(script)
    BY <1>1, <1>2, <1>4, <1>9 DEF UsesMutexesWell
  <2>2. \A x \in {c.on} : Spare(x)
    BY <1>1, <1>5, <2>1, Strangers
  <2>3. frame' = frame
    BY <1>2, <1>9
  <2> QED BY <1>6, <1>7, <2>2, <2>3, PrioStill
<1> QED BY <1>8, <1>9

LEMMA PrioDelete ==
  ASSUME NEW P, NEW E, Tended(P, E), NEW t \in Tasks, vTaskDelete(t)
  PROVE  PrioInv'
<1>1. /\ Whole(k) /\ FramesOK /\ CallsScripted /\ WaitersLook /\ UsesMutexesWell(script)
      /\ Settled(k, P, E)
  BY TendedIs
<1>2. PICK c \in script.calls :
        /\ c.op = "delete" /\ Enters(t, c) /\ c.on \in Existing
        /\ k' = TaskDelete(k, c.on)
        /\ frame' = [frame EXCEPT ![c.on] =
                       IF c.on = t THEN [AtRest EXCEPT !.at = "yield", !.call = c] ELSE AtRest]
        /\ UNCHANGED <<script, queue, last, handed, holds>>
  BY Zenon DEF vTaskDelete
<1> DEFINE f == IF c.on = t THEN [AtRest EXCEPT !.at = "yield", !.call = c] ELSE AtRest
<1>3. f.at # "place"
  BY DEF AtRest
<1>4. frame' = [frame EXCEPT ![c.on] = f]
  BY <1>2
<1> HIDE DEF f
<1>5. c.on \in Tasks
  BY <1>1, <1>2, ExistingPlaces
<1>6. Rests(k', k, {c.on}) /\ MutexesStay
  BY <1>1, <1>2, <1>5, EndingRests, NothingMoves
<1>7. c.on \notin Takers(script)
  BY <1>1, <1>2 DEF UsesMutexesWell
<1>8. /\ \A q \in Mutexes : ~Hopes(c.on, q) /\ ~Placing(c.on, q)
      /\ \A x \in {c.on} : Spare(x)
  BY <1>1, <1>5, <1>7, Strangers
<1>9. frame'[c.on] = f /\ \A u \in Tasks \ {c.on} : frame'[u] = frame[u]
  BY <1>1, <1>4, <1>5, OneFrame
<1>10. Passes(c.on)
  BY <1>3, <1>8, <1>9 DEF Passes, Placing
<1> QED BY <1>6, <1>8, <1>9, <1>10, PrioQuiet

LEMMA PrioResumeCall ==
  ASSUME NEW P, NEW E, Tended(P, E),
         \/ \E t \in Tasks : vTaskResumeCall(t) \/ ResumeFromISR(t)
         \/ xPortPendSVHandler \/ xPortSysTickHandler
  PROVE  PrioInv'
<1>1. Whole(k)
  BY TendedIs
<1>2. Rests(k', k, {})
  <2>1. ASSUME NEW t, vTaskResumeCall(t) PROVE Rests(k', k, {})
    BY <1>1, <2>1, ResumingRests DEF vTaskResumeCall
  <2>2. ASSUME NEW t, ResumeFromISR(t) PROVE Rests(k', k, {})
    BY <1>1, <2>2, ResumingRests DEF ResumeFromISR
  <2>3. CASE xPortPendSVHandler
    BY <1>1, <2>3, SwitchingRests DEF xPortPendSVHandler
  <2>4. CASE xPortSysTickHandler
    <3>1. Rests(taskYIELD(k), k, {})
      BY <1>1, YieldingIsCalm DEF YieldIf, Rests
    <3>2. Whole(taskYIELD(k))
      BY <3>1, RestsMore
    <3>3. Rests(vTaskIncrementTick(taskYIELD(k)), taskYIELD(k), {})
      BY <3>2, TickRests
    <3>4. Rests(vTaskIncrementTick(taskYIELD(k)), k, {} \cup {})
      BY <3>1, <3>3, RestsAgain
    <3> QED BY <2>4, <3>4 DEF xPortSysTickHandler
  <2> QED BY <2>1, <2>2, <2>3, <2>4
<1>3. frame' = frame /\ MutexesStay
  <2>1. frame' = frame /\ queue' = queue /\ holds' = holds
    BY DEF vTaskResumeCall, ResumeFromISR, xPortPendSVHandler, xPortSysTickHandler
  <2> QED BY <2>1, NothingMoves
<1>4. PICK X : X = {}
  OBVIOUS
<1>5. Rests(k', k, X) /\ \A x \in X : Spare(x)
  BY <1>2, <1>4
<1> QED BY <1>3, <1>5, PrioStill

(* The idle task.                                                          *)
LEMMA PrioIdle ==
  ASSUME NEW P, NEW E, Tended(P, E), prvIdleTask
  PROVE  PrioInv'
<1>1. /\ Whole(k) /\ Shaped(k) /\ FramesOK /\ CallsScripted /\ WaitersLook /\ Rests(k, k, {})
      /\ TakersStay /\ idle \in Tasks
  BY TendedIs, Constants DEF HoldInv
<1>2. MutexesStay
  BY NothingMoves DEF prvIdleTask
<1>3. PICK X : X = {}
  OBVIOUS
<1>4. \A x \in X : Spare(x)
  BY <1>3
<1>5. frame[idle].call.op \notin QueueOps
  BY <1>1, CallOfOwn
<1>6. \A q \in Mutexes : ~Hopes(idle, q) /\ ~Placing(idle, q)
  BY <1>1, <1>5, NotQueueing
<1>7. CASE Suspends(idle, IdleCall, "work") /\ k' = k
  <2> DEFINE f == [AtRest EXCEPT !.at = "suspend", !.call = IdleCall, !.then = "work"]
  <2>1. f.at # "place"
    BY DEF AtRest
  <2>2. frame' = [frame EXCEPT ![idle] = f]
    BY <1>7 DEF Suspends
  <2> HIDE DEF f
  <2>3. frame'[idle] = f /\ \A u \in Tasks \ {idle} : frame'[u] = frame[u]
    BY <1>1, <2>2, OneFrame
  <2>4. Passes(idle) /\ Rests(k', k, X)
    BY <1>1, <1>3, <1>6, <1>7, <2>1, <2>3 DEF Passes, Placing
  <2> QED BY <1>2, <1>4, <2>3, <2>4, PrioQuiet
<1>8. CASE /\ k.terminated # <<>> /\ k' = FreeTerminated(k)
           /\ frame' = [frame EXCEPT
                ![Head(k.terminated)] = AtRest,
                ![idle] = [AtRest EXCEPT !.at = "suspend", !.call = IdleCall]]
  <2> DEFINE f == [AtRest EXCEPT !.at = "suspend", !.call = IdleCall]
  <2>1. f.at # "place" /\ AtRest.at # "place"
    BY DEF AtRest
  <2> PICK h : h = Head(k.terminated)
    OBVIOUS
  <2>2. h \in Tasks /\ h \in ToSet(k.terminated)
    BY <1>1, <1>8 DEF Shaped, IsList, ToSet
  <2>3. frame' = [frame EXCEPT ![h] = AtRest, ![idle] = f]
    BY <1>8
  <2> HIDE DEF f
  <2>4. /\ frame'[idle] = f /\ (h # idle => frame'[h] = AtRest)
        /\ \A u \in Tasks \ {idle, h} : frame'[u] = frame[u]
    BY <1>1, <2>2, <2>3 DEF FramesOK
  <2>5. h \notin Takers(script)
    BY <1>1, <2>2 DEF TakersStay
  <2>6. \A q \in Mutexes : ~Hopes(h, q) /\ ~Placing(h, q)
    BY <1>1, <2>2, <2>5, Strangers
  <2>7. Passes(idle) /\ (h # idle => Passes(h))
    BY <1>6, <2>1, <2>4, <2>6 DEF Passes, Placing
  <2>8. Rests(k', k, X)
    BY <1>1, <1>3, <1>8, FreeingRests
  <2> QED BY <1>2, <1>4, <2>4, <2>7, <2>8, PrioQuiet
<1> QED BY <1>7, <1>8 DEF prvIdleTask

(* Calls on queues.                                                        *)
LEMMA EntersQuiet ==
  ASSUME NEW P, NEW E, Tended(P, E), NEW t \in Tasks, NEW c, c.op \in QueueOps, Enters(t, c)
  PROVE  /\ Runs(t) /\ k.pxCurrentTCB = t /\ P[t] >= 0
         /\ frame[t].at \in {"ready", "enter"} /\ frame[t].at # "place"
         /\ c \in script.calls /\ c.task = t /\ c.on \in Queues /\ IsQueue(c.on, queue[c.on])
         /\ frame[t].at = "enter" => frame[t].call = c
         /\ \A q \in Mutexes : ~Placing(t, q)
              /\ (Hopes(t, q) => frame[t].at = "enter" /\ c.on = q /\ c.op \in ReceiveOps)
         /\ ToSend(c.on) \in EventLists /\ ToReceive(c.on) \in EventLists
<1>1. Sound(P, E) /\ FramesOK /\ QueuesOK /\ CallsScripted
  BY TendedIs
<1>2. /\ Runs(t) /\ frame[t].at \in {"ready", "enter"} /\ c.on \in Queues /\ P[t] >= 0
      /\ ToSend(c.on) \in EventLists /\ ToReceive(c.on) \in EventLists
  BY <1>1, EntersQueue
<1>3. frame[t].at = "enter" => frame[t].call = c
  BY DEF Enters
<1>4. c \in script.calls /\ c.task = t
  BY <1>1, <1>2, <1>3, Entered DEF CallsScripted, Enters
<1>5. frame[t].at = "ready" => ~Looks(frame[t])
  BY DEF Looks
<1>6. \A q \in Mutexes : ~Placing(t, q)
         /\ (Hopes(t, q) => frame[t].at = "enter" /\ c.on = q /\ c.op \in ReceiveOps)
  BY <1>2, <1>3, <1>5 DEF Placing, Hopes, InCall, Ops
<1>7. IsQueue(c.on, queue[c.on])
  BY <1>1, <1>2 DEF QueuesOK
<1> QED BY <1>2, <1>3, <1>4, <1>6, <1>7 DEF Runs

LEMMA PrioWait ==
  ASSUME NEW P, NEW E, Tended(P, E), NEW t \in Tasks, NEW c, c.op \in QueueOps, Enters(t, c),
         WaitOrFail(t, c), c.op \in ReceiveOps => IsEmpty(queue[c.on])
  PROVE  PrioInv'
<1>1. FramesOK /\ Rests(k, k, {})
  BY TendedIs
<1>2. k' = k /\ queue' = queue /\ holds' = holds
  BY Zenon DEF WaitOrFail
<1>3. PICK X : X = {}
  OBVIOUS
<1>4. Rests(k', k, X) /\ \A x \in X : Spare(x)
  BY <1>1, <1>2, <1>3
<1>5. MutexesStay
  BY <1>2, NothingMoves
<1>6. \E f : frame' = [frame EXCEPT ![t] = f] /\ f.at # "place"
  <2> DEFINE g == IF frame[t].at = "ready" THEN [AtRest EXCEPT !.call = c, !.wait = c.wait]
                  ELSE frame[t]
             g1 == IF g.timed THEN g ELSE [g EXCEPT !.timed = TRUE, !.entry = TimeOutState(k)]
             f == [g1 EXCEPT !.at = "suspend"]
  <2>1. "at" \in DOMAIN frame[t] /\ "at" \in DOMAIN AtRest
    BY <1>1 DEF FramesOK, IsFrame, AtRest
  <2>2. "at" \in DOMAIN g
    BY <2>1
  <2>3. "at" \in DOMAIN g1
    BY <2>2
  <2> HIDE DEF g1
  <2>4. f.at = "suspend"
    BY <2>3
  <2> USE DEF g1
  <2>5. Return(t) \/ frame' = [frame EXCEPT ![t] = f]
    BY Zenon DEF WaitOrFail
  <2> HIDE DEF f
  <2>6. AtRest.at # "place"
    BY DEF AtRest
  <2> QED BY <2>4, <2>5, <2>6 DEF Return
<1>7. PICK f : frame' = [frame EXCEPT ![t] = f] /\ f.at # "place"
  BY <1>6
<1>8. frame'[t] = f /\ \A u \in Tasks \ {t} : frame'[u] = frame[u]
  BY <1>1, <1>7, OneFrame
<1>9. \A q \in Mutexes : ~Placing(t, q) /\ (Hopes(t, q) => IsEmpty(queue[q]))
  BY EntersQuiet
<1>10. Passes(t)
  BY <1>7, <1>8, <1>9 DEF Passes, Placing
<1> QED BY <1>4, <1>5, <1>8, <1>10, PrioQuiet

LEMMA WakesSpare ==
  ASSUME NEW P, NEW E, Tended(P, E), NEW l \in EventLists, \A q \in Mutexes : l # ToReceive(q)
  PROVE  \E X : Rests(WakeWaiter(k, l), k, X) /\ \A x \in X : Spare(x)
<1>1. Whole(k) /\ Shaped(k) /\ WaitersLook /\ Rests(k, k, {})
  BY TendedIs
<1>2. CASE k.event[l] = <<>>
  <2>1. WakeWaiter(k, l) = k
    BY <1>2 DEF WakeWaiter
  <2> QED BY <1>1, <2>1
<1>3. CASE k.event[l] # <<>>
  <2>1. Rests(WakeWaiter(k, l), k, {Head(k.event[l])})
    BY <1>1, WakingRests
  <2>2. Head(k.event[l]) \in ToSet(k.event[l])
    BY <1>1, <1>3 DEF Shaped, IsList, ToSet
  <2>3. \A x \in {Head(k.event[l])} : Spare(x)
    BY <1>1, <2>2, ListSpare
  <2> QED BY <2>1, <2>3
<1> QED BY <1>2, <1>3

LEMMA PrioOther ==
  ASSUME NEW P, NEW E, Tended(P, E), NEW t \in Tasks, NEW c, c.op \in QueueOps, Enters(t, c),
         c.on \notin Mutexes, Return(t), NEW l \in {ToSend(c.on), ToReceive(c.on)},
         k' = WakeWaiter(k, l), MutexesStay
  PROVE  PrioInv'
<1>1. /\ c.on \in Queues /\ l \in EventLists
      /\ \A q \in Mutexes : ~Placing(t, q) /\ ~Hopes(t, q)
  BY EntersQuiet
<1>2. \A q \in Mutexes : l # ToReceive(q)
  BY DEF ToSend, ToReceive
<1>3. PICK X : Rests(k', k, X) /\ \A x \in X : Spare(x)
  BY <1>1, <1>2, WakesSpare
<1>4. FramesOK /\ frame' = [frame EXCEPT ![t] = AtRest]
  BY TendedIs DEF Return
<1>5. frame'[t] = AtRest /\ \A u \in Tasks \ {t} : frame'[u] = frame[u]
  BY <1>4, OneFrame
<1>6. AtRest.at # "place"
  BY DEF AtRest
<1>7. Passes(t)
  BY <1>1, <1>5, <1>6 DEF Passes, Placing
<1> QED BY <1>3, <1>5, <1>7, PrioQuiet

LEMMA CopiesQuiet ==
  ASSUME NEW q \in Queues \ Mutexes, NEW Q, IsQueue(q, Q), NEW item, NEW front
  PROVE  prvCopyDataToQueue(k, Q, item, front).k = k
<1>1. Q.type # "mutex"
  BY BlockNumbers DEF Mutexes
<1> QED BY <1>1 DEF prvCopyDataToQueue

(* The interrupt handlers of queues.                                       *)
LEMMA PrioHandlers ==
  ASSUME NEW P, NEW E, Tended(P, E), NEW q \in Queues,
         xQueueGenericSendFromISR(q) \/ xQueueReceiveFromISR(q)
  PROVE  PrioInv'
<1>1. QueuesOK /\ FramesOK /\ IsQueue(q, queue[q]) /\ Rests(k, k, {})
  BY TendedIs DEF QueuesOK
<1>2. q \notin Mutexes
  BY <1>1, ScriptsAssumption DEF xQueueGenericSendFromISR, xQueueReceiveFromISR, Mutexes, FramesOK
<1>3. ToSend(q) \in EventLists /\ ToReceive(q) \in EventLists
  BY QueuesAssumption DEF EventListsOf
<1>4. frame' = frame /\ holds' = holds /\ \E Q : queue' = [queue EXCEPT ![q] = Q]
  BY DEF xQueueGenericSendFromISR, xQueueReceiveFromISR
<1>5. MutexesStay
  BY <1>1, <1>2, <1>4, OthersMove
<1>6. k' = k \/ k' = WakeWaiter(k, ToReceive(q)) \/ k' = WakeWaiter(k, ToSend(q))
  <2>1. CASE xQueueGenericSendFromISR(q)
    <3>1. PICK item \in script.items : k' = SendFromISR(k, queue[q], q, item).k
      BY <2>1 DEF xQueueGenericSendFromISR
    <3> DEFINE a == prvCopyDataToQueue(k, queue[q], item, FALSE)
    <3>2. a.k = k
      BY <1>1, <1>2, CopiesQuiet
    <3>3. \A n : [a EXCEPT !.Q.xTxLock = n].k = a.k
      BY DEF prvCopyDataToQueue
    <3>4. SendFromISR(k, queue[q], q, item) =
            IF queue[q].xTxLock = queueUNLOCKED THEN [k |-> WakeWaiter(a.k, ToReceive(q)), Q |-> a.Q]
            ELSE [a EXCEPT !.Q.xTxLock = @ + 1]
      BY DEF SendFromISR
    <3> HIDE DEF a
    <3>5. SendFromISR(k, queue[q], q, item).k \in {WakeWaiter(a.k, ToReceive(q)), a.k}
      BY <3>3, <3>4
    <3> QED BY <3>1, <3>2, <3>5
  <2>2. CASE xQueueReceiveFromISR(q)
    BY <2>2 DEF xQueueReceiveFromISR, ReceiveFromISR
  <2> QED BY <2>1, <2>2
<1>7. \A p \in Mutexes : ToReceive(q) # ToReceive(p) /\ ToSend(q) # ToReceive(p)
  BY <1>2 DEF ToSend, ToReceive
<1>8. PICK X : X = {}
  OBVIOUS
<1>9. Rests(k, k, X) /\ \A x \in X : Spare(x)
  BY <1>1, <1>8
<1>10. \E Y : Rests(k', k, Y) /\ \A x \in Y : Spare(x)
  BY <1>3, <1>6, <1>7, <1>9, WakesSpare
<1> QED BY <1>4, <1>5, <1>10, PrioStill

(* A call on a queue that is no mutex.                                     *)
LEMMA PrioSendOther ==
  ASSUME NEW P, NEW E, Tended(P, E), NEW t \in Tasks, NEW c, c.op \in QueueOps, Enters(t, c),
         c.on \notin Mutexes, NEW item, NEW front,
         k' = SendNow(k, queue[c.on], c.on, item, front).k, NEW Q,
         queue' = [queue EXCEPT ![c.on] = Q], Return(t),
         holds' = [holds EXCEPT ![t] = @ \ {c.on}]
  PROVE  PrioInv'
<1>1. /\ c.on \in Queues /\ IsQueue(c.on, queue[c.on])
      /\ QueuesOK /\ holds \in [Tasks -> SUBSET Queues] /\ HoldsTaken
  BY EntersQuiet, TendedIs DEF MutexInv, HoldInv
<1>2. c.on \notin holds[t]
  BY <1>1 DEF HoldsTaken
<1>3. holds[t] \ {c.on} = holds[t]
  BY <1>2
<1>4. holds' = holds
  BY <1>1, <1>3
<1>5. MutexesStay
  BY <1>1, <1>4, OthersMove
<1>6. prvCopyDataToQueue(k, queue[c.on], item, front).k = k
  BY <1>1, CopiesQuiet
<1>7. k' = WakeWaiter(k, ToReceive(c.on))
  BY <1>6 DEF SendNow
<1> QED BY <1>5, <1>7, PrioOther

LEMMA PrioReceiveOther ==
  ASSUME NEW P, NEW E, Tended(P, E), NEW t \in Tasks, NEW c, c.op \in QueueOps, Enters(t, c),
         c.on \notin Mutexes, Return(t), holds' = holds, NEW Q,
         queue' = [queue EXCEPT ![c.on] = Q],
         \/ k' = ReceiveNow(k, queue[c.on], c.on).k
         \/ k' = PeekNow(k, queue[c.on], c.on).k
  PROVE  PrioInv'
<1>1. c.on \in Queues /\ QueuesOK
  BY EntersQuiet, TendedIs
<1>2. MutexesStay
  BY <1>1, OthersMove
<1>3. \/ k' = WakeWaiter(k, ToSend(c.on))
      \/ k' = WakeWaiter(k, ToReceive(c.on))
  BY DEF ReceiveNow, PeekNow
<1> QED BY <1>2, <1>3, PrioOther

(* A task is created, before the scheduler starts or by another task: it   *)
(* waits for nothing and holds nothing.                                    *)
LEMMA PrioCreates ==
  ASSUME NEW P, NEW E, Tended(P, E), NEW u \in Tasks, holds[u] = {},
         frame[u].call.op \notin QueueOps, MutexesStay,
         \A v \in Tasks : frame'[v] = frame[v] \/ Passes(v),
         \/ \E p : k' = xTaskCreate(k, u, p)
         \/ u = idle /\ k' = vTaskStartScheduler(k)
  PROVE  PrioInv'
<1>1. Whole(k) /\ WithRanks(k)
  BY TendedIs
<1>2. Shifts(k', k, u) /\ k'.uxPriority[u] = k'.uxBasePriority[u]
  BY <1>1, CreatingShifts, StartingShifts
<1>3. Onward
  BY DEF Passes, Onward, Placing, Hopes
<1>4. PICK X : X = {}
  OBVIOUS
<1>5. Calm(k', k, X) /\ \A x \in X : Spare(x)
  BY <1>2, <1>4 DEF Shifts
<1>6. \A v \in Tasks \ {u} : SameRank(v)
  BY <1>2 DEF Shifts, SameRank
<1>7. Reranked(u, {u})
  BY <1>2 DEF Reranked, Shifts
<1> QED BY <1>3, <1>5, <1>6, <1>7, RanksKept

LEMMA PrioCreate ==
  ASSUME NEW P, NEW E, Tended(P, E), NEW t \in Tasks, xTaskCreateCall(t)
  PROVE  PrioInv'
<1>1. FramesOK /\ Sound(P, E) /\ HoldInv /\ WaitersLook /\ queue' = queue /\ holds' = holds
      /\ Rests(k, k, {})
  BY TendedIs DEF xTaskCreateCall
<1>2. MutexesStay
  BY <1>1, NothingMoves
<1>3. CASE \E c \in script.calls : c.op = "create" /\ Enters(t, c) /\ Suspends(t, c, "work")
             /\ UNCHANGED k
  <2>1. PICK c \in script.calls : c.op = "create" /\ Enters(t, c) /\ Suspends(t, c, "work")
             /\ k' = k
    BY <1>3
  <2>2. PICK f : f = [AtRest EXCEPT !.at = "suspend", !.call = c, !.then = "work"]
    OBVIOUS
  <2>3. frame' = [frame EXCEPT ![t] = f] /\ f.at = "suspend"
    BY <2>1, <2>2 DEF Suspends, AtRest
  <2>4. c.op \notin QueueOps
    BY <2>1 DEF QueueOps, SendOps, ReceiveOps
  <2> QED BY <1>1, <2>1, <2>3, <2>4, PrioBegins
<1>4. CASE Reaches(t, "work") /\ frame[t].call.op = "create"
  <2>1. frame[t].at = "work" /\ frame[t].call.op \notin QueueOps /\ frame[t].at # "place"
    BY <1>4 DEF Reaches, QueueOps, SendOps, ReceiveOps
  <2>2. CASE k' = k /\ Return(t)
    <3>1. PICK X : X = {}
      OBVIOUS
    <3>2. Rests(k', k, X) /\ X \subseteq {t}
      BY <1>1, <2>2, <3>1
    <3>3. frame' = [frame EXCEPT ![t] = AtRest] /\ AtRest.at # "place"
      BY <2>2 DEF Return, AtRest
    <3> QED BY <1>2, <2>1, <3>2, <3>3, FromRest
  <2>3. CASE /\ k' = xTaskCreate(k, frame[t].call.on, script.prio[frame[t].call.on])
             /\ frame' = [frame EXCEPT ![t].at = "yield", ![t].then = "create"]
    <3>1. PICK u : u = frame[t].call.on
      OBVIOUS
    <3>2. IsFrame(t, frame[t])
      BY <1>1 DEF FramesOK
    <3>3. u \in Tasks \ {idle} /\ u \notin k.live
      <4>1. Creating(frame[t])
        BY <1>4, <2>1 DEF Creating
      <4>2. frame[t].call \in Calls
        BY <1>4, <2>1, <3>2 DEF IsFrame, IdleCall
      <4>3. u \notin k.live
        BY <1>1, <3>1, <4>1 DEF Sound, CreatesOK
      <4>4. u \in Tasks \ {idle}
        BY <1>4, <3>1, <4>2 DEF Calls, TaskOps, DelayOps, SendOps, ReceiveOps
      <4> QED BY <4>3, <4>4
    <3>4. holds[u] = {} /\ frame[u].call.op \notin QueueOps
      BY <1>1, <3>3 DEF HoldInv, UsersLive
    <3>5. PICK f : f = [frame[t] EXCEPT !.at = "yield", !.then = "create"]
      OBVIOUS
    <3>6. frame' = [frame EXCEPT ![t] = f] /\ f.at = "yield"
      BY <1>1, <2>3, <3>2, <3>5 DEF FramesOK, IsFrame
    <3>7. frame'[t] = f /\ \A v \in Tasks \ {t} : frame'[v] = frame[v]
      BY <1>1, <3>6, OneFrame
    <3>8. Still(frame[t], f)
      BY <2>1 DEF Still
    <3>9. Passes(t)
      BY <2>1, <3>6, <3>7, <3>8, PassesIf
    <3>10. \E p : k' = xTaskCreate(k, u, p)
      BY <2>3, <3>1
    <3> QED BY <1>2, <3>3, <3>4, <3>7, <3>9, <3>10, PrioCreates
  <2>4. \/ k' = k /\ Return(t)
        \/ /\ k' = xTaskCreate(k, frame[t].call.on, script.prio[frame[t].call.on])
           /\ frame' = [frame EXCEPT ![t].at = "yield", ![t].then = "create"]
    <3>1. \A c \in script.calls : c.op = "create" => ~Enters(t, c)
      <4> SUFFICES ASSUME NEW c \in script.calls, c.op = "create", Enters(t, c)
                   PROVE FALSE
        OBVIOUS
      <4> QED BY <2>1 DEF Enters
    <3> QED BY <3>1, Zenon DEF xTaskCreateCall
  <2> QED BY <2>2, <2>3, <2>4
<1> QED BY <1>3, <1>4, Zenon DEF xTaskCreateCall

LEMMA PrioBoot ==
  ASSUME NEW P, NEW E, Tended(P, E), Boot
  PROVE  PrioInv'
<1>1. FramesOK /\ Staged(P) /\ HoldInv /\ Sound(P, E) /\ CallsScripted
  BY TendedIs
<1>2. frame' = frame /\ queue' = queue /\ holds' = holds /\ ~k.xSchedulerRunning
  BY DEF Boot
<1>3. MutexesStay
  BY <1>2, NothingMoves
<1>4. \A u \in Tasks : frame[u].call.op \notin QueueOps
  BY <1>1, <1>2, RestIsQuiet DEF Staged
<1>5. CASE \E u \in script.start \ k.live : k' = xTaskCreate(k, u, script.prio[u])
  <2>1. PICK u \in script.start \ k.live : k' = xTaskCreate(k, u, script.prio[u])
    BY <1>5
  <2>2. u \in Tasks /\ holds[u] = {}
    BY <1>1, ScriptsAssumption DEF FramesOK, HoldInv, UsersLive
  <2> QED BY <1>2, <1>3, <1>4, <2>1, <2>2, PrioCreates
<1>6. CASE k' = vTaskStartScheduler(k)
  <2>1. \A c \in script.calls : c.task # idle
    BY <1>1, ScriptsAssumption DEF FramesOK, Calls
  <2>2. idle \in Tasks
    BY Constants
  <2>3. holds[idle] = {}
    BY <1>1, <2>1, <2>2 DEF HoldInv, HoldsTaken, TakesOf
  <2> QED BY <1>2, <1>3, <1>4, <1>6, <2>2, <2>3, PrioCreates
<1> QED BY <1>5, <1>6 DEF Boot

(* A task about to block lends its priority to the holder of the mutex,    *)
(* who is in no call on a queue.                                           *)
LEMMA Inheriting ==
  ASSUME NEW P, NEW E, Tended(P, E), NEW t \in Tasks, InheritPriority(t)
  PROVE  \E q \in Mutexes, h \in Tasks \ {t} :
           /\ InCall(frame[t], q, "receive") /\ IsEmpty(queue[q]) /\ Holder(q) = h
           /\ q \in holds[h] /\ frame[h].call.op \notin QueueOps
           /\ k' = vTaskPriorityInherit(k, h) /\ k.pxCurrentTCB = t
           /\ frame[t].at = "inherit" /\ GoTo(t, "place") /\ MutexesStay
           /\ \A p \in Mutexes : InCall(frame[t], p, "receive") => p = q
<1>1. Sound(P, E) /\ FramesOK /\ FramesCareful /\ MutexesHeld /\ HoldInv
  BY TendedIs
<1>2. IsFrame(t, frame[t]) /\ IsCareful(frame[t]) /\ frame[t].at = "inherit" /\ Runs(t)
  BY <1>1 DEF FramesOK, FramesCareful, InheritPriority, Reaches
<1>3. PICK q : q = frame[t].call.on
  OBVIOUS
<1>4. "inherit" \in QueueStages
  BY DEF QueueStages
<1>5. frame[t].call.op \in QueueOps /\ QueueType[q] = "mutex"
  BY <1>2, <1>3, <1>4 DEF IsFrame, IsCareful
<1>6. q \in Mutexes
  BY <1>2, <1>3, <1>5, FrameCalls DEF Mutexes
<1>7. frame[t].call.op = "receive" /\ InCall(frame[t], q, "receive")
  BY <1>1, <1>3, <1>5 DEF HoldInv, FramesTake, WaitsForEver, InCall, Ops, ReceiveOps
<1>8. IsEmpty(queue[q])
  BY <1>1, <1>2, <1>3 DEF Sound, EmptyAtInherit
<1>9. PICK h : h = Holder(q)
  OBVIOUS
<1>10. h \in Tasks /\ q \in holds[h]
  <2>1. h # NoHolder /\ q \in Queues
    BY <1>1, <1>5, <1>6, <1>8, <1>9 DEF MutexesHeld, Holder, Mutexes
  <2>2. IsQueue(q, queue[q])
    BY <2>1, TendedIs DEF QueuesOK
  <2>3. h \in Tasks
    BY <1>9, <2>1, <2>2 DEF IsQueue, ControlBlocks, Holder
  <2> QED BY <1>1, <1>5, <1>9, <2>1, <2>3 DEF MutexesHeld, Holder
<1>11. holds[t] = {}
  BY <1>1, <1>5 DEF HoldInv, FreeInCall
<1>12. frame[h].call.op \notin QueueOps
  BY <1>1, <1>10 DEF HoldInv, FreeInCall
<1>13. k' = vTaskPriorityInherit(k, h) /\ GoTo(t, "place") /\ queue' = queue /\ holds' = holds
  BY <1>3, <1>9 DEF InheritPriority, Holder
<1>14. MutexesStay
  BY <1>13, NothingMoves
<1>15. k.pxCurrentTCB = t
  BY <1>2 DEF Runs
<1>16. \A p \in Mutexes : InCall(frame[t], p, "receive") => p = q
  BY <1>3 DEF InCall
<1> QED BY <1>2, <1>6, <1>7, <1>8, <1>9, <1>10, <1>11, <1>12, <1>13, <1>14, <1>15, <1>16

LEMMA PrioInherit ==
  ASSUME NEW P, NEW E, Tended(P, E), NEW t \in Tasks, InheritPriority(t)
  PROVE  PrioInv'
<1>1. PICK q \in Mutexes, h \in Tasks \ {t} :
           /\ InCall(frame[t], q, "receive") /\ IsEmpty(queue[q]) /\ Holder(q) = h
           /\ q \in holds[h] /\ frame[h].call.op \notin QueueOps
           /\ k' = vTaskPriorityInherit(k, h) /\ k.pxCurrentTCB = t
           /\ frame[t].at = "inherit" /\ GoTo(t, "place") /\ MutexesStay
           /\ \A p \in Mutexes : InCall(frame[t], p, "receive") => p = q
  BY Inheriting
<1>2. /\ Whole(k) /\ WithRanks(k) /\ FramesOK /\ IsFrame(t, frame[t]) /\ Rests(k, k, {})
      /\ \A u \in Tasks : k.uxPriority[u] \in Int /\ k'.uxPriority[u] \in Int
  BY TendedIs DEF FramesOK
<1>3. PICK f : f = [frame[t] EXCEPT !.at = "place"]
  OBVIOUS
<1>4. f.at = "place" /\ f.call = frame[t].call /\ frame' = [frame EXCEPT ![t] = f]
  BY <1>1, <1>2, <1>3 DEF IsFrame, GoTo, FramesOK
<1>5. frame'[t] = f /\ \A u \in Tasks \ {t} : frame'[u] = frame[u]
  BY <1>2, <1>4, OneFrame
<1>6. /\ \A u \in Tasks \ {t}, p \in Mutexes :
            (Placing(u, p)' <=> Placing(u, p)) /\ (Hopes(u, p)' <=> Hopes(u, p))
      /\ Placing(t, q)'
      /\ \A p \in Mutexes : ~Placing(t, p) /\ ~Hopes(t, p) /\ (Placing(t, p)' => p = q)
  BY <1>1, <1>4, <1>5 DEF Placing, Hopes, Looks, InCall
<1>7. k'.uxPriority[h] >= k'.uxPriority[t] => Onward
  BY <1>1, <1>6 DEF Onward
<1>8. PICK X : X = {}
  OBVIOUS
<1>9. \A x \in X : Spare(x)
  BY <1>8
<1>10. CASE k' = k /\ k.uxPriority[h] >= k.uxPriority[t]
  <2>1. Rests(k', k, X)
    BY <1>2, <1>8, <1>10
  <2>2. Calm(k', k, X) /\ \A u \in Tasks : SameRank(u)
    BY <2>1 DEF Rests, SameRanks, SameRank
  <2>3. {} \in SUBSET Tasks /\ Tasks \ {} = Tasks
    OBVIOUS
  <2>4. Onward
    BY <1>7, <1>10
  <2> QED BY <1>1, <1>9, <2>2, <2>3, <2>4, RanksKept
<1>11. CASE /\ Shifts(k', k, h) /\ ~(k.uxPriority[h] >= k.uxPriority[t])
            /\ k'.uxPriority[h] = k.uxPriority[t]
  <2>1. Calm(k', k, X)
    BY <1>8, <1>11 DEF Shifts
  <2>2. \A u \in Tasks \ {h} : SameRank(u)
    BY <1>11 DEF Shifts, SameRank
  <2>3. k'.uxPriority[t] = k.uxPriority[t]
    BY <1>1, <2>2 DEF SameRank
  <2>4. k'.uxPriority[h] >= k'.uxPriority[t] /\ k'.uxPriority[t] >= k'.uxPriority[h]
        /\ k'.uxPriority[h] >= k.uxPriority[h]
    BY <1>1, <1>2, <1>11, <2>3
  <2>5. Lends(t, q, h)'
    BY <1>6, <2>4 DEF Lends
  <2>6. Reranked(h, {h})
    BY <1>1, <1>11, <2>4, <2>5 DEF Reranked, Shifts
  <2>7. Onward
    BY <1>7, <2>4
  <2> QED BY <1>1, <1>9, <2>1, <2>2, <2>6, <2>7, RanksKept
<1>12. \/ k' = k /\ k.uxPriority[h] >= k.uxPriority[t]
       \/ /\ Shifts(k', k, h) /\ ~(k.uxPriority[h] >= k.uxPriority[t])
          /\ k'.uxPriority[h] = k.uxPriority[t]
  BY <1>1, <1>2, InheritingShifts
<1> QED BY <1>10, <1>11, <1>12

(* A task about to join an event list is on none yet.                      *)
LEMMA Joining ==
  ASSUME NEW P, NEW E, Tended(P, E), NEW t \in Tasks, PlaceOnEventList(t)
  PROVE  \E l \in EventLists, X \in SUBSET {t} :
           /\ Joined(k', k, l, X) /\ k.pxCurrentTCB = t /\ t \notin Out(k)
           /\ \A q \in Mutexes : /\ t \notin Queued(q) /\ ~Hopes(t, q)
                                 /\ l = ToReceive(q) <=> Placing(t, q)
                                 /\ l = ToReceive(q) => X = {}
<1>1. Sound(P, E) /\ FramesOK /\ WaitersLook /\ Settled(k, P, E) /\ HoldInv /\ Whole(k)
      /\ FramesCareful
  BY TendedIs
<1>2. IsFrame(t, frame[t]) /\ frame[t].at = "place" /\ Runs(t) /\ ~Looks(frame[t])
  BY <1>1 DEF FramesOK, PlaceOnEventList, Reaches, Looks
<1>3. PICK c : c = frame[t].call
  OBVIOUS
<1>4. "place" \in QueueStages
  BY DEF QueueStages
<1>5. c.op \in QueueOps /\ c.on \in Queues
  BY <1>2, <1>3, <1>4, FrameCalls DEF IsFrame
<1>6. PICK l : l = IF c.op \in SendOps THEN ToSend(c.on) ELSE ToReceive(c.on)
  OBVIOUS
<1>7. l \in EventLists
  BY <1>5, <1>6, QueuesAssumption DEF EventListsOf
<1>8. PICK X : X = IF frame[t].wait = portMAX_DELAY THEN {} ELSE {t}
  OBVIOUS
<1>9. P[t] >= 0
  <2>1. ~Halting(frame[t])
    BY <1>2 DEF Halting
  <2> QED BY <1>1, <1>2, <2>1, RunningTask
<1>10. t \notin Out(k) /\ \A m \in EventLists : t \notin ToSet(k.event[m])
  BY <1>1, <1>9, NotListedReady
<1>11. k.pxCurrentTCB = t /\ k.eventValue \in [Tasks -> Int]
  <2>1. k.eventValue \in [Tasks -> 1 .. configMAX_PRIORITIES]
    BY <1>1, SettledNumbers DEF Typed
  <2>2. k.eventValue \in [Tasks -> Int]
    BY <2>1
  <2> QED BY <1>2, <2>2 DEF Runs
<1>12. Joined(k', k, l, X)
  <2>1. k' = vTaskPlaceOnEventList(k, l, frame[t].wait)
    BY <1>3, <1>6 DEF PlaceOnEventList
  <2> QED BY <1>1, <1>7, <1>8, <1>10, <1>11, <2>1, PlacingJoins
<1>13. ASSUME NEW q \in Mutexes
       PROVE  /\ t \notin Queued(q) /\ ~Hopes(t, q)
              /\ l = ToReceive(q) <=> Placing(t, q)
              /\ l = ToReceive(q) => X = {}
  <2>1. t \notin Queued(q) /\ ~Hopes(t, q)
    BY <1>1, <1>2, <1>10, QueuedHope DEF Queued, Hopes
  <2>2. l = ToReceive(q) <=> Placing(t, q)
    BY <1>2, <1>3, <1>5, <1>6 DEF Placing, InCall, Ops, ToSend, ToReceive, QueueOps, SendOps,
       ReceiveOps
  <2>3. ASSUME l = ToReceive(q) PROVE X = {}
    <3>1. c.on = q /\ QueueType[q] = "mutex"
      BY <1>3, <2>2, <2>3 DEF Placing, InCall, Mutexes
    <3>2. frame[t].wait = portMAX_DELAY
      BY <1>1, <1>3, <1>5, <3>1 DEF HoldInv, FramesTake, WaitsForEver
    <3> QED BY <1>8, <3>2
  <2> QED BY <2>1, <2>2, <2>3
<1> QED BY <1>7, <1>8, <1>10, <1>11, <1>12, <1>13

LEMMA PrioPlace ==
  ASSUME NEW P, NEW E, Tended(P, E), NEW t \in Tasks, PlaceOnEventList(t)
  PROVE  PrioInv'
<1>1. PICK l \in EventLists, X \in SUBSET {t} :
           /\ Joined(k', k, l, X) /\ k.pxCurrentTCB = t /\ t \notin Out(k)
           /\ \A q \in Mutexes : /\ t \notin Queued(q) /\ ~Hopes(t, q)
                                 /\ l = ToReceive(q) <=> Placing(t, q)
                                 /\ l = ToReceive(q) => X = {}
  BY Joining
<1>2. FramesOK /\ PrioInv /\ IsFrame(t, frame[t]) /\ Whole(k) /\ WaitersLook
  BY TendedIs DEF FramesOK
<1>3. PICK f : f = [frame[t] EXCEPT !.at = "unlockTx"]
  OBVIOUS
<1>4. frame' = [frame EXCEPT ![t] = f] /\ f.at # "place" /\ queue' = queue /\ holds' = holds
  BY <1>2, <1>3 DEF PlaceOnEventList, GoTo, IsFrame, FramesOK
<1>5. frame'[t] = f /\ \A u \in Tasks \ {t} : frame'[u] = frame[u]
  BY <1>2, <1>4, OneFrame
<1>6. /\ \A u \in Tasks \ {t}, q \in Mutexes :
            (Placing(u, q)' <=> Placing(u, q)) /\ (Hopes(u, q) => Hopes(u, q)')
      /\ \A q \in Mutexes : ~Placing(t, q)'
  BY <1>4, <1>5 DEF Placing, Hopes, InCall
<1>7. /\ \A u \in Tasks : /\ k'.uxPriority[u] = k.uxPriority[u]
                          /\ k'.uxBasePriority[u] = k.uxBasePriority[u]
                          /\ k'.eventValue[u] = k.eventValue[u]
      /\ k'.eventValue = k.eventValue
  BY <1>1 DEF Joined, SameRanks
<1>8. \A q \in Mutexes : /\ ToReceive(q) \in EventLists
        /\ Queued(q)' = IF Placing(t, q) THEN Queued(q) \cup {t} ELSE Queued(q)
  <2> SUFFICES ASSUME NEW q \in Mutexes
               PROVE  /\ ToReceive(q) \in EventLists
                      /\ Queued(q)' = IF Placing(t, q) THEN Queued(q) \cup {t} ELSE Queued(q)
    OBVIOUS
  <2>1. ToReceive(q) \in EventLists
    BY <1>2, QueuedHope
  <2>2. CASE l = ToReceive(q)
    BY <1>1, <2>1, <2>2 DEF Joined, Queued
  <2>3. CASE l # ToReceive(q)
    BY <1>1, <2>1, <2>3 DEF Joined, Queued
  <2> QED BY <2>1, <2>2, <2>3
<1>9. \A q \in Mutexes : (IsEmpty(queue[q])' <=> IsEmpty(queue[q])) /\ Holder(q)' = Holder(q)
  BY <1>4 DEF Holder
<1>10. EventsInOrder'
  <2>1. \A u \in Tasks : k'.eventValue[u] = configMAX_PRIORITIES - k'.uxPriority[u]
    BY <1>2, <1>7 DEF PrioInv, EventsInOrder
  <2>2. \A m \in EventLists : InOrder(k'.event[m], k'.eventValue)
    BY <1>1, <1>2, <1>7 DEF PrioInv, EventsInOrder, Joined
  <2> QED BY <2>1, <2>2 DEF EventsInOrder
<1>11. NoSleepers'
  <2> SUFFICES ASSUME NEW q \in Mutexes, NEW w \in Queued(q)', w \in Sleeping(k')
               PROVE FALSE
    BY DEF NoSleepers
  <2>1. w \in Sleeping(k) \/ w \in X
    BY <1>1 DEF Joined
  <2>2. CASE w \in Queued(q)
    BY <1>1, <1>2, <2>1, <2>2 DEF PrioInv, NoSleepers
  <2>3. CASE w = t /\ Placing(t, q)
    BY <1>1, <2>1, <2>3 DEF Out
  <2> QED BY <1>8, <2>2, <2>3
<1>12. OnlyOwed'
  <2> SUFFICES ASSUME NEW u \in Tasks, k'.uxPriority[u] # k'.uxBasePriority[u]
               PROVE  \E q \in holds'[u], w \in Tasks : Lends(w, q, u)'
    BY DEF OnlyOwed
  <2>1. PICK q \in holds[u], w \in Tasks : Lends(w, q, u)
    BY <1>2, <1>7 DEF PrioInv, OnlyOwed
  <2>2. q \in Mutexes
    BY TendedIs DEF HoldInv, HoldsTaken
  <2>3. w \in Queued(q)' \/ Placing(w, q)'
    BY <1>6, <1>8, <2>1, <2>2 DEF Lends
  <2>4. k'.uxPriority[w] >= k'.uxPriority[u]
    BY <1>7, <2>1 DEF Lends
  <2>5. Lends(w, q, u)'
    BY <2>3, <2>4 DEF Lends
  <2> QED BY <1>4, <2>1, <2>5
<1>13. HoldersLead'
  <2> SUFFICES ASSUME NEW q \in Mutexes, NEW w \in Tasks
               PROVE  /\ IsEmpty(queue[q])' /\ w \in Queued(q)'
                           => k'.uxPriority[Holder(q)'] >= k'.uxPriority[w]
                      /\ Placing(w, q)' => /\ IsEmpty(queue[q])'
                                           /\ k'.uxPriority[Holder(q)'] >= k'.uxPriority[w]
    BY DEF HoldersLead
  <2>1. k'.uxPriority = k.uxPriority
    BY <1>1 DEF Joined, SameRanks
  <2>2. Placing(w, q)' => Placing(w, q)
    BY <1>6
  <2>3. w \in Queued(q)' => w \in Queued(q) \/ Placing(w, q)
    BY <1>8
  <2>4. /\ IsEmpty(queue[q]) /\ w \in Queued(q) => k.uxPriority[Holder(q)] >= k.uxPriority[w]
        /\ Placing(w, q) => IsEmpty(queue[q]) /\ k.uxPriority[Holder(q)] >= k.uxPriority[w]
    BY <1>2 DEF PrioInv, HoldersLead
  <2> QED BY <1>9, <2>1, <2>2, <2>3, <2>4
<1>14. FirstComes'
  <2> SUFFICES ASSUME NEW q \in Mutexes, ~IsEmpty(queue[q])', NEW w \in Queued(q)'
               PROVE  \E u \in Tasks : Comes(u, q)' /\ k'.uxPriority[u] >= k'.uxPriority[w]
    BY DEF FirstComes
  <2>1. ~Placing(t, q) /\ ~IsEmpty(queue[q])
    BY <1>2, <1>9 DEF PrioInv, HoldersLead
  <2>2. w \in Queued(q)
    BY <1>8, <2>1
  <2>3. PICK u \in Tasks : Comes(u, q) /\ k.uxPriority[u] >= k.uxPriority[w]
    BY <1>2, <2>1, <2>2 DEF PrioInv, FirstComes
  <2>4. u # t
    BY <1>1, <2>3 DEF Comes
  <2>5. Hopes(u, q)'
    BY <1>6, <2>3, <2>4 DEF Comes
  <2>6. u \notin Out(k')
    BY <1>1, <2>3, <2>4 DEF Comes, Joined
  <2>7. Comes(u, q)'
    BY <2>5, <2>6 DEF Comes
  <2>8. k'.uxPriority = k.uxPriority
    BY <1>1 DEF Joined, SameRanks
  <2> QED BY <2>3, <2>7, <2>8
<1> QED BY <1>10, <1>11, <1>12, <1>13, <1>14 DEF PrioInv

(* Nobody waits to give a mutex back.                                      *)
LEMMA NobodySends ==
  ASSUME NEW P, NEW E, Tended(P, E), NEW q \in Mutexes
  PROVE  k.event[ToSend(q)] = <<>>
<1>1. WaitersLook /\ HoldInv /\ Shaped(k) /\ ToSend(q) \in EventLists /\ q \in Queues
  BY TendedIs, QueuedHope DEF Mutexes
<1>2. ASSUME NEW x \in ToSet(k.event[ToSend(q)])
      PROVE  FALSE
  <2>1. "send" \in Sides /\ ToSend(q) = ListOf(q, "send")
    BY DEF Sides, ListOf
  <2>2. InCall(frame[x], q, "send")
    BY <1>1, <1>2, <2>1 DEF WaitersLook
  <2>3. frame[x].call.op \in QueueOps /\ frame[x].call.op # "receive" /\ frame[x].call.on = q
    BY <2>2 DEF InCall, Ops, SendOps, QueueOps
  <2>4. x \in Tasks
    BY <1>1, <1>2 DEF Shaped, IsList, ToSet
  <2>5. QueueType[q] = "mutex"
    BY DEF Mutexes
  <2> QED BY <1>1, <2>3, <2>4, <2>5 DEF HoldInv, FramesTake, WaitsForEver
<1>3. IsList(k.event[ToSend(q)])
  BY <1>1 DEF Shaped
<1>4. k.event[ToSend(q)] # <<>> => Head(k.event[ToSend(q)]) \in ToSet(k.event[ToSend(q)])
  BY <1>3 DEF IsList, ToSet
<1> QED BY <1>2, <1>4

(* No task that could run outranks one that begins or goes on with a call. *)
LEMMA EntersFirst ==
  ASSUME NEW P, NEW E, Tended(P, E), TopInv, NEW t \in Tasks, NEW c, Enters(t, c),
         NEW u \in Tasks, u \in k.live, u \notin Out(k)
  PROVE  k.uxPriority[u] <= k.uxPriority[t]
<1>1. Sound(P, E) /\ Settled(k, P, E) /\ Upright(P, E)
  BY TendedIs DEF Upright
<1>2. /\ Runs(t) /\ frame[t].at \in {"ready", "enter"} /\ k.pxCurrentTCB = t
      /\ Topmost(k) /\ Ranks(k) /\ ~k.pendsv
  BY <1>1, EnteringTops
<1>3. k.uxSchedulerSuspended = 0
  BY <1>1, <1>2, RunningTask, StagesSuspend
<1>4. Best(k)
  BY <1>2, <1>3 DEF Topmost, Switches
<1>5. Placed(k, P, E) /\ Ranked(k, P) /\ P[u] # Limbo /\ P[u] # Absent
  BY <1>1 DEF Settled, Sched
<1>6. P[u] \in Prios
  <2>1. P[u] \notin {Delayed, Overflowed, Suspended, Terminated}
    BY <1>5 DEF Placed, Lists, Out, Sleeping
  <2> QED BY <1>5, <2>1 DEF Placed, Somewhere, PlacesOff
<1>7. P[u] >= 0
  BY <1>6, Constants
<1>8. P[u] <= Rank(k)
  BY <1>2, <1>4, <1>5, <1>7, BestPlaces
<1>9. P[u] = k.uxPriority[u]
  BY <1>5, <1>6, <1>7 DEF Ranked
<1> QED BY <1>2, <1>8, <1>9 DEF Rank

LEMMA PrioTake ==
  ASSUME NEW P, NEW E, Tended(P, E), TopInv, NEW t \in Tasks, NEW c, c.op \in QueueOps,
         Enters(t, c), NEW q \in Mutexes, q = c.on, ~IsEmpty(queue[q]),
         k' = WakeWaiter(k, ToSend(q)),
         queue' = [queue EXCEPT ![q] = TakeFromQueue(queue[q], k.pxCurrentTCB)], Return(t),
         holds' = [holds EXCEPT ![t] = @ \cup {q}]
  PROVE  PrioInv'
<1>1. /\ FramesOK /\ PrioInv /\ QueuesOK /\ HoldInv /\ WaitersLook
      /\ holds \in [Tasks -> SUBSET Queues]
      /\ \A u \in Tasks : k.uxPriority[u] \in Int
  BY TendedIs DEF MutexInv
<1>2. /\ k.pxCurrentTCB = t
      /\ \A p \in Mutexes : ~Placing(t, p) /\ (Hopes(t, p) => p = q)
  BY EntersQuiet
<1>3. k' = k
  BY NobodySends DEF WakeWaiter
<1>4. frame' = [frame EXCEPT ![t] = AtRest] /\ AtRest.at # "place"
  BY DEF Return, AtRest
<1>5. frame'[t] = AtRest /\ \A u \in Tasks \ {t} : frame'[u] = frame[u]
  BY <1>1, <1>4, OneFrame
<1>6. /\ \A u \in Tasks \ {t}, p \in Mutexes :
            (Placing(u, p)' <=> Placing(u, p)) /\ (Hopes(u, p) => Hopes(u, p)')
      /\ \A p \in Mutexes : ~Placing(t, p)'
      /\ \A p \in Mutexes : Queued(p)' = Queued(p)
  BY <1>3, <1>4, <1>5 DEF Placing, Hopes, InCall, Queued
<1>7. \A u \in Tasks : holds[u] \subseteq holds'[u]
  BY <1>1
<1>8. \A p \in Mutexes \ {q} : queue'[p] = queue[p]
  BY <1>1 DEF QueuesOK, Mutexes
<1>9. IsEmpty(queue'[q]) /\ Holder(q)' = t
  <2>1. q \in Queues /\ QueueType[q] = "mutex" /\ IsQueue(q, queue[q])
    BY <1>1 DEF Mutexes, QueuesOK
  <2>2. PICK R : R = TakeFromQueue(queue[q], t)
    OBVIOUS
  <2>3. TakenOut(q, queue[q], R, t)
    BY <2>1, <2>2, CopiedOut
  <2>4. queue[q].buf.uxMessagesWaiting \in 0 .. 1
    BY <2>1, BlockNumbers, Lengths
  <2>5. R.pxMutexHolder = t /\ R.buf.uxMessagesWaiting = 0
    BY <2>1, <2>3, <2>4 DEF TakenOut, IsEmpty
  <2>6. queue'[q] = R
    BY <1>1, <1>2, <2>1, <2>2 DEF QueuesOK
  <2> QED BY <2>5, <2>6 DEF IsEmpty, Holder
<1>10. EventsInOrder' /\ NoSleepers'
  BY <1>1, <1>3, <1>6 DEF PrioInv, EventsInOrder, NoSleepers
<1>11. OnlyOwed'
  <2> SUFFICES ASSUME NEW u \in Tasks, k'.uxPriority[u] # k'.uxBasePriority[u]
               PROVE  \E p \in holds'[u], w \in Tasks : Lends(w, p, u)'
    BY DEF OnlyOwed
  <2>1. PICK p \in holds[u], w \in Tasks : Lends(w, p, u)
    BY <1>1, <1>3 DEF PrioInv, OnlyOwed
  <2>2. p \in Mutexes
    BY <1>1 DEF HoldInv, HoldsTaken
  <2>3. w \in Queued(p)' \/ Placing(w, p)'
    BY <1>2, <1>6, <2>1, <2>2 DEF Lends
  <2>4. k'.uxPriority[w] >= k'.uxPriority[u]
    BY <1>3, <2>1 DEF Lends
  <2>5. Lends(w, p, u)'
    BY <2>3, <2>4 DEF Lends
  <2> QED BY <1>7, <2>1, <2>5
<1>12. HoldersLead'
  <2> SUFFICES ASSUME NEW p \in Mutexes, NEW w \in Tasks
               PROVE  /\ IsEmpty(queue[p])' /\ w \in Queued(p)'
                           => k'.uxPriority[Holder(p)'] >= k'.uxPriority[w]
                      /\ Placing(w, p)' => /\ IsEmpty(queue[p])'
                                           /\ k'.uxPriority[Holder(p)'] >= k'.uxPriority[w]
    BY DEF HoldersLead
  <2>1. Placing(w, p)' => Placing(w, p)
    BY <1>6
  <2>2. /\ IsEmpty(queue[p]) /\ w \in Queued(p) => k.uxPriority[Holder(p)] >= k.uxPriority[w]
        /\ Placing(w, p) => IsEmpty(queue[p]) /\ k.uxPriority[Holder(p)] >= k.uxPriority[w]
    BY <1>1 DEF PrioInv, HoldersLead
  <2>3. CASE p # q
    <3>1. queue'[p] = queue[p] /\ Holder(p)' = Holder(p)
      BY <1>8, <2>3 DEF Holder
    <3> QED BY <1>3, <1>6, <2>1, <2>2, <3>1
  <2>4. CASE p = q
    <3>1. ~Placing(w, p)'
      BY <2>1, <2>2, <2>4
    <3>2. ASSUME w \in Queued(q)
          PROVE  k'.uxPriority[t] >= k'.uxPriority[w]
      <4>1. PICK u \in Tasks : Comes(u, q) /\ k.uxPriority[u] >= k.uxPriority[w]
        BY <1>1, <3>2 DEF PrioInv, FirstComes
      <4>2. frame[u].call.op \in QueueOps /\ u \notin Out(k)
        BY <4>1 DEF Comes, Hopes, InCall, Ops, QueueOps
      <4>3. u \in k.live
        BY <1>1, <4>2 DEF HoldInv, UsersLive
      <4>4. k.uxPriority[u] <= k.uxPriority[t]
        BY <4>2, <4>3, EntersFirst
      <4> QED BY <1>1, <1>3, <4>1, <4>4
    <3> QED BY <1>6, <1>9, <2>4, <3>1, <3>2
  <2> QED BY <2>3, <2>4
<1>13. FirstComes'
  <2> SUFFICES ASSUME NEW p \in Mutexes, ~IsEmpty(queue[p])', NEW w \in Queued(p)'
               PROVE  \E u \in Tasks : Comes(u, p)' /\ k'.uxPriority[u] >= k'.uxPriority[w]
    BY DEF FirstComes
  <2>1. p # q
    BY <1>9
  <2>2. ~IsEmpty(queue[p]) /\ w \in Queued(p)
    BY <1>6, <1>8, <2>1
  <2>3. PICK u \in Tasks : Comes(u, p) /\ k.uxPriority[u] >= k.uxPriority[w]
    BY <1>1, <2>2 DEF PrioInv, FirstComes
  <2>4. u # t
    BY <1>2, <2>1, <2>3 DEF Comes
  <2>5. Comes(u, p)'
    BY <1>3, <1>6, <2>3, <2>4 DEF Comes
  <2> QED BY <1>3, <2>3, <2>5
<1> QED BY <1>10, <1>11, <1>12, <1>13 DEF PrioInv

LEMMA PrioReceive ==
  ASSUME NEW P, NEW E, Tended(P, E), TopInv, NEW t \in Tasks, xQueueGenericReceive(t)
  PROVE  PrioInv'
<1>1. PICK c \in {frame[t].call} \cup script.calls :
        /\ c.op \in ReceiveOps /\ Enters(t, c)
        /\ IF IsEmpty(queue[c.on]) THEN WaitOrFail(t, c)
           ELSE LET r == IF c.op = "peek" THEN PeekNow(k, queue[c.on], c.on)
                         ELSE ReceiveNow(k, queue[c.on], c.on)
                IN  /\ k' = r.k
                    /\ queue' = [queue EXCEPT ![c.on] = r.Q]
                    /\ Return(t)
                    /\ holds' = IF QueueType[c.on] = "mutex" /\ c.op = "receive"
                                THEN [holds EXCEPT ![t] = @ \cup {c.on}] ELSE holds
  BY Zenon DEF xQueueGenericReceive
<1>2. c.op \in QueueOps /\ Enters(t, c)
  BY <1>1 DEF QueueOps
<1>3. CASE IsEmpty(queue[c.on])
  BY <1>1, <1>2, <1>3, PrioWait
<1>4. CASE ~IsEmpty(queue[c.on])
  <2>1. PICK r : r = IF c.op = "peek" THEN PeekNow(k, queue[c.on], c.on)
                     ELSE ReceiveNow(k, queue[c.on], c.on)
    OBVIOUS
  <2>2. k' = r.k /\ queue' = [queue EXCEPT ![c.on] = r.Q] /\ Return(t)
    BY <1>1, <1>4, <2>1
  <2>3. holds' = IF QueueType[c.on] = "mutex" /\ c.op = "receive"
                 THEN [holds EXCEPT ![t] = @ \cup {c.on}] ELSE holds
    BY <1>1, <1>4
  <2>4. c.on \in Queues /\ c \in script.calls
    BY <1>1, <1>2, EntersQuiet
  <2>5. CASE c.on \notin Mutexes
    <3>1. holds' = holds
      BY <2>3, <2>4, <2>5 DEF Mutexes
    <3>2. PICK Q : Q = r.Q
      OBVIOUS
    <3>3. queue' = [queue EXCEPT ![c.on] = Q]
      BY <2>2, <3>2
    <3>4. k' = ReceiveNow(k, queue[c.on], c.on).k \/ k' = PeekNow(k, queue[c.on], c.on).k
      BY <2>1, <2>2
    <3> QED BY <1>2, <2>2, <2>5, <3>1, <3>3, <3>4, PrioReceiveOther
  <2>6. CASE c.on \in Mutexes
    <3>1. c.op = "receive"
      BY <1>1, <1>2, <2>4, <2>6, TendedIs, MutexCall
    <3>2. QueueType[c.on] = "mutex"
      BY <2>6 DEF Mutexes
    <3>3. /\ k' = WakeWaiter(k, ToSend(c.on))
          /\ queue' = [queue EXCEPT ![c.on] = TakeFromQueue(queue[c.on], k.pxCurrentTCB)]
      BY <2>1, <2>2, <3>1 DEF ReceiveNow
    <3>4. holds' = [holds EXCEPT ![t] = @ \cup {c.on}]
      BY <2>3, <3>1, <3>2
    <3>5. PICK q \in Mutexes : q = c.on
      BY <2>6
    <3>6. /\ ~IsEmpty(queue[q]) /\ k' = WakeWaiter(k, ToSend(q))
          /\ queue' = [queue EXCEPT ![q] = TakeFromQueue(queue[q], k.pxCurrentTCB)]
          /\ holds' = [holds EXCEPT ![t] = @ \cup {q}]
      BY <1>4, <3>3, <3>4, <3>5
    <3> QED BY <1>2, <2>2, <3>5, <3>6, PrioTake
  <2> QED BY <2>5, <2>6
<1> QED BY <1>3, <1>4

-----------------------------------------------------------------------------
(* A mutex is given back.                                                  *)
HandsBack(t, c, q, item, front) ==
  /\ c.op \in QueueOps /\ Enters(t, c) /\ q = c.on /\ q \in holds[t] /\ ~IsFull(queue[q])
  /\ k' = SendNow(k, queue[q], q, item, front).k
  /\ queue' = [queue EXCEPT ![q] = SendNow(k, queue[q], q, item, front).Q]
  /\ Return(t) /\ holds' = [holds EXCEPT ![t] = @ \ {q}]

(* Who gives a mutex back has no other, and is in no call; nobody is about *)
(* to wait for one.                                                        *)
LEMMA GiverFree ==
  ASSUME NEW P, NEW E, Tended(P, E), NEW t \in Tasks, NEW q \in Mutexes, NEW c, NEW item,
         NEW front, HandsBack(t, c, q, item, front)
  PROVE  /\ frame' = frame /\ frame[t].call.op \notin QueueOps /\ frame[t].at = "ready"
         /\ k.pxCurrentTCB = t /\ k.uxSchedulerSuspended = 0
         /\ holds[t] = {q} /\ holds'[t] = {} /\ \A u \in Tasks \ {t} : holds'[u] = holds[u]
         /\ \A u \in Tasks, p \in Mutexes : ~Placing(u, p)
<1>1. /\ Sound(P, E) /\ FramesOK /\ HoldInv /\ UsesMutexesWell(script) /\ Staged(P)
      /\ holds \in [Tasks -> SUBSET Queues]
  BY TendedIs DEF MutexInv
<1>2. /\ Runs(t) /\ frame[t].at \in {"ready", "enter"} /\ k.pxCurrentTCB = t
      /\ frame[t].at = "enter" => frame[t].call = c
  BY EntersQuiet DEF HandsBack
<1>3. holds[t] # {}
  BY DEF HandsBack
<1>4. frame[t].call.op \notin QueueOps
  BY <1>1, <1>3 DEF HoldInv, FreeInCall
<1>5. frame[t].at = "ready" /\ frame[t] = AtRest
  BY <1>1, <1>2, <1>4 DEF HandsBack, FramesOK, IsFrame
<1>6. frame' = frame
  BY <1>1, <1>5 DEF HandsBack, Return, FramesOK
<1>7. holds[t] = {q}
  <2> SUFFICES ASSUME NEW p \in holds[t] PROVE p = q
    BY DEF HandsBack
  <2>1. PICK d \in TakesOf(script) : d.task = t /\ d.on = p
    BY <1>1 DEF HoldInv, HoldsTaken
  <2>2. PICK e \in TakesOf(script) : e.task = t /\ e.on = q
    BY <1>1 DEF HoldInv, HoldsTaken, HandsBack
  <2> QED BY <1>1, <2>1, <2>2 DEF UsesMutexesWell
<1>8. holds'[t] = {} /\ \A u \in Tasks \ {t} : holds'[u] = holds[u]
  BY <1>1, <1>7 DEF HandsBack
<1>9. k.uxSchedulerSuspended = 0
  BY <1>1, <1>2, RunningTask, StagesSuspend
<1>10. ASSUME NEW u \in Tasks, NEW p \in Mutexes, Placing(u, p)
       PROVE  FALSE
  <2>1. frame[u].at \in SuspStages
    BY <1>10, StagesSuspend DEF Placing
  <2>2. u = t
    BY <1>1, <1>2, <2>1 DEF Staged
  <2> QED BY <1>5, <1>10, <2>2 DEF Placing
<1> QED BY <1>2, <1>4, <1>5, <1>6, <1>7, <1>8, <1>9, <1>10

(* The mutex is free then, and the others are as they were.                *)
LEMMA GivenBack ==
  ASSUME NEW P, NEW E, Tended(P, E), NEW t \in Tasks, NEW q \in Mutexes, NEW c,
         NEW item \in Items, NEW front \in BOOLEAN, HandsBack(t, c, q, item, front)
  PROVE  /\ ~IsEmpty(queue'[q]) /\ IsEmpty(queue[q]) /\ Holder(q) = t
         /\ \A p \in Mutexes \ {q} : queue'[p] = queue[p]
         /\ \A p \in Mutexes \ {q} : IsEmpty(queue[p]) => Holder(p) \in Tasks \ {t}
         /\ k' = WakeWaiter(vTaskPriorityDisinherit(k, t), ToReceive(q))
<1>1. QueuesOK /\ MutexesHeld /\ FramesOK /\ q \in Queues /\ QueueType[q] = "mutex"
  BY TendedIs DEF Mutexes
<1>2. IsQueue(q, queue[q]) /\ queue[q].type = "mutex"
  BY <1>1, BlockNumbers DEF QueuesOK
<1>3. Holder(q) = t /\ IsEmpty(queue[q])
  <2>1. t # NoHolder
    BY QueuesAssumption
  <2> QED BY <1>1, <2>1 DEF MutexesHeld, HandsBack, Holder
<1>4. PICK R : R = prvCopyDataToQueue(k, queue[q], item, front).Q
  OBVIOUS
<1>5. queue' = [queue EXCEPT ![q] = R]
  BY <1>4 DEF HandsBack, SendNow
<1>6. PutIn(q, queue[q], R, item)
  BY <1>1, <1>2, <1>4, CopiedIn DEF HandsBack
<1>7. ~IsEmpty(R)
  <2>1. R.buf.uxMessagesWaiting = queue[q].buf.uxMessagesWaiting + 1
    BY <1>1, <1>6 DEF PutIn
  <2> QED BY <1>3, <2>1 DEF IsEmpty
<1>8. ~IsEmpty(queue'[q]) /\ \A p \in Mutexes \ {q} : queue'[p] = queue[p]
  BY <1>1, <1>5, <1>7 DEF QueuesOK, Mutexes
<1>9. ASSUME NEW p \in Mutexes \ {q}, IsEmpty(queue[p])
      PROVE  Holder(p) \in Tasks \ {t}
  <2>1. p \in Queues /\ QueueType[p] = "mutex" /\ IsQueue(p, queue[p])
    BY <1>1 DEF Mutexes, QueuesOK
  <2>2. Holder(p) \in Tasks
    BY <1>1, <1>9, <2>1, BlockNumbers DEF MutexesHeld, Holder
  <2>3. p \notin holds[t]
    BY GiverFree
  <2> QED BY <1>1, <2>1, <2>2, <2>3 DEF MutexesHeld, Holder
<1>10. prvCopyDataToQueue(k, queue[q], item, front).k = vTaskPriorityDisinherit(k, t)
  BY <1>2, <1>3 DEF prvCopyDataToQueue, Holder
<1>11. k' = WakeWaiter(vTaskPriorityDisinherit(k, t), ToReceive(q))
  BY <1>10 DEF HandsBack, SendNow
<1> QED BY <1>3, <1>8, <1>9, <1>11

(* The giver has its own priority back, and the first waiter is ready.     *)
Dropped(a, t) ==
  /\ Calm(a, k, {}) /\ a.event = k.event /\ a.uxSchedulerSuspended = 0 /\ a.pxCurrentTCB = t
  /\ a.uxPriority[t] = a.uxBasePriority[t] /\ a.uxBasePriority[t] = k.uxBasePriority[t]
  /\ a.eventValue[t] = configMAX_PRIORITIES - a.uxPriority[t]
  /\ \A u \in Tasks \ {t} : /\ a.uxPriority[u] = k.uxPriority[u]
                            /\ a.uxBasePriority[u] = k.uxBasePriority[u]
                            /\ a.eventValue[u] = k.eventValue[u]

LEMMA Dropping ==
  ASSUME NEW P, NEW E, Tended(P, E), NEW t \in Tasks, k.pxCurrentTCB = t,
         k.uxSchedulerSuspended = 0
  PROVE  Dropped(vTaskPriorityDisinherit(k, t), t)
<1>1. /\ Whole(k) /\ WithRanks(k) /\ Shaped(k) /\ PrioInv /\ Settled(k, P, E)
      /\ Rests(k, k, {})
  BY TendedIs
<1>2. Ranks(k) /\ k.uxBasePriority \in [Tasks -> Prios]
  BY <1>1, SettledRanks, SettledNumbers DEF Typed
<1>3. PICK a : a = vTaskPriorityDisinherit(k, t)
  OBVIOUS
<1>4. a.pxCurrentTCB = t /\ a.uxSchedulerSuspended = 0
  BY <1>2, <1>3, DisinheritingKeeps
<1>5. a.event = k.event
  <2>1. PICK Q : Q.type = "mutex" /\ Q.pxMutexHolder = t
    <3>1. [type |-> "mutex", pxMutexHolder |-> t].type = "mutex"
          /\ [type |-> "mutex", pxMutexHolder |-> t].pxMutexHolder = t
      OBVIOUS
    <3> QED BY <3>1
  <2>2. \A item, front : prvCopyDataToQueue(k, Q, item, front).k = a
    BY <1>3, <2>1 DEF prvCopyDataToQueue
  <2> QED BY <1>1, <2>2, CopyingTrims
<1>6. CASE a = k /\ k.uxPriority[t] = k.uxBasePriority[t]
  <2>1. Calm(a, k, {})
    BY <1>1, <1>6 DEF Rests
  <2>2. k.eventValue[t] = configMAX_PRIORITIES - k.uxPriority[t]
    BY <1>1 DEF PrioInv, EventsInOrder
  <2>3. Dropped(a, t)
    BY <1>4, <1>5, <1>6, <2>1, <2>2 DEF Dropped
  <2> QED BY <1>3, <2>3
<1>7. CASE /\ Shifts(a, k, t) /\ a.uxPriority[t] = k.uxBasePriority[t]
           /\ a.uxBasePriority = k.uxBasePriority
  <2>1. Dropped(a, t)
    BY <1>4, <1>5, <1>7 DEF Dropped, Shifts
  <2> QED BY <1>3, <2>1
<1>8. \/ a = k /\ k.uxPriority[t] = k.uxBasePriority[t]
      \/ /\ Shifts(a, k, t) /\ a.uxPriority[t] = k.uxBasePriority[t]
         /\ a.uxBasePriority = k.uxBasePriority
  BY <1>1, <1>3, DisinheritingShifts
<1> QED BY <1>6, <1>7, <1>8

(* What the give makes of the lists.                                       *)
LEMMA GiveLists ==
  ASSUME NEW P, NEW E, Tended(P, E), NEW t \in Tasks, NEW q \in Mutexes, NEW a, Dropped(a, t),
         k' = WakeWaiter(a, ToReceive(q))
  PROVE  /\ SameRanks(k', a)
         /\ \A l \in EventLists : PartOf(k'.event[l], k.event[l])
         /\ k.event[ToReceive(q)] = <<>> => k' = a
         /\ \E X : /\ Calm(k', k, X)
                   /\ X = IF k.event[ToReceive(q)] = <<>> THEN {}
                          ELSE {Head(k.event[ToReceive(q)])}
                   /\ X \cap Out(k') = {}
<1>1. Whole(a) /\ ToReceive(q) \in EventLists /\ a.event = k.event /\ Calm(a, k, {})
      /\ a.uxSchedulerSuspended = 0
  BY TendedIs, QueuedHope DEF Dropped, Calm, Orderly
<1>2. CASE k.event[ToReceive(q)] = <<>>
  <2>1. k' = a
    BY <1>1, <1>2 DEF WakeWaiter
  <2>2. PICK X : X = {}
    OBVIOUS
  <2>3. Calm(k', k, X) /\ X \cap Out(k') = {} /\ SameRanks(k', a)
    BY <1>1, <2>1, <2>2 DEF SameRanks
  <2> QED BY <1>2, <2>1, <2>2, <2>3 DEF Calm, Orderly
<1>3. CASE k.event[ToReceive(q)] # <<>>
  <2>1. PICK X : X = {Head(k.event[ToReceive(q)])}
    OBVIOUS
  <2>2. Rests(k', a, X) /\ Head(a.event[ToReceive(q)]) \notin Out(k')
    BY <1>1, <1>3, <2>1, WakingRests
  <2>3. {} \cup X = X
    OBVIOUS
  <2>4. Calm(k', k, X)
    BY <1>1, <2>2, <2>3, CalmAgain DEF Rests
  <2> QED BY <1>1, <1>3, <2>1, <2>2, <2>4 DEF Rests, Calm, Orderly
<1> QED BY <1>2, <1>3

(* The first on an event list is at least as important as the others.      *)
LEMMA FirstLeads ==
  ASSUME NEW P, NEW E, Tended(P, E), NEW l \in EventLists, NEW w \in ToSet(k.event[l])
  PROVE  \E h \in Tasks : /\ h = Head(k.event[l]) /\ h \in ToSet(k.event[l])
                           /\ k.event[l] # <<>> /\ k.uxPriority[h] >= k.uxPriority[w]
<1>1. /\ PrioInv /\ Shaped(k)
      /\ \A u \in Tasks : k.uxPriority[u] \in Int /\ k.eventValue[u] \in Int
  BY TendedIs
<1>2. PICK e : e = k.event[l]
  OBVIOUS
<1>3. IsList(e) /\ w \in ToSet(e) /\ InOrder(e, k.eventValue) /\ e \in Seq(Tasks)
  BY <1>1, <1>2 DEF Shaped, IsList, PrioInv, EventsInOrder
<1>4. w \in Tasks /\ \E i \in 1 .. Len(e) : e[i] = w
  BY <1>3, Members
<1>5. PICK i \in 1 .. Len(e) : e[i] = w
  BY <1>4
<1>6. e # <<>> /\ Head(e) = e[1] /\ 1 \in 1 .. Len(e) /\ e[1] \in Tasks /\ Head(e) \in ToSet(e)
  BY <1>3, <1>5 DEF ToSet
<1>7. PICK h \in Tasks : h = Head(e)
  BY <1>6
<1>8. k.eventValue[h] <= k.eventValue[w]
  BY <1>1, <1>3, <1>4, <1>5, <1>6, <1>7 DEF InOrder
<1>9. /\ k.eventValue[h] = configMAX_PRIORITIES - k.uxPriority[h]
      /\ k.eventValue[w] = configMAX_PRIORITIES - k.uxPriority[w]
  BY <1>1, <1>4 DEF PrioInv, EventsInOrder
<1>10. /\ k.uxPriority[h] \in Int /\ k.uxPriority[w] \in Int
       /\ configMAX_PRIORITIES \in Int
  BY <1>1, <1>4, Constants
<1>11. k.uxPriority[h] >= k.uxPriority[w]
  BY <1>8, <1>9, <1>10
<1> QED BY <1>2, <1>6, <1>7, <1>11

LEMMA PrioGive ==
  ASSUME NEW P, NEW E, Tended(P, E), NEW t \in Tasks, NEW q \in Mutexes, NEW c,
         NEW item \in Items, NEW front \in BOOLEAN, HandsBack(t, c, q, item, front)
  PROVE  PrioInv'
<1>1. /\ WaitersLook /\ HoldInv /\ PrioInv /\ MutexesHeld /\ QueuesOK /\ Shaped(k)
      /\ \A u \in Tasks : k.uxPriority[u] \in Int /\ k'.uxPriority[u] \in Int
                          /\ k.eventValue[u] \in Int
  BY TendedIs
<1>2. /\ frame' = frame /\ frame[t].call.op \notin QueueOps
      /\ k.pxCurrentTCB = t /\ k.uxSchedulerSuspended = 0
      /\ holds[t] = {q} /\ holds'[t] = {} /\ \A u \in Tasks \ {t} : holds'[u] = holds[u]
      /\ \A u \in Tasks, p \in Mutexes : ~Placing(u, p)
  BY GiverFree
<1>3. /\ ~IsEmpty(queue'[q]) /\ IsEmpty(queue[q]) /\ Holder(q) = t
      /\ \A p \in Mutexes \ {q} : queue'[p] = queue[p]
      /\ \A p \in Mutexes \ {q} : IsEmpty(queue[p]) => Holder(p) \in Tasks \ {t}
      /\ k' = WakeWaiter(vTaskPriorityDisinherit(k, t), ToReceive(q))
  BY GivenBack
<1>4. PICK a : a = vTaskPriorityDisinherit(k, t)
  OBVIOUS
<1>5. Dropped(a, t)
  BY <1>2, <1>4, Dropping
<1>6. PICK X : /\ SameRanks(k', a)
               /\ \A l \in EventLists : PartOf(k'.event[l], k.event[l])
               /\ Calm(k', k, X) /\ X \cap Out(k') = {}
               /\ X = IF k.event[ToReceive(q)] = <<>> THEN {} ELSE {Head(k.event[ToReceive(q)])}
  BY <1>3, <1>4, <1>5, GiveLists
<1>7. /\ \A u \in Tasks \ {t} : SameRank(u)
      /\ k'.uxPriority[t] = k'.uxBasePriority[t]
      /\ k'.eventValue[t] = configMAX_PRIORITIES - k'.uxPriority[t]
  BY <1>5, <1>6 DEF SameRanks, SameRank, Dropped
<1>8. /\ \A l \in EventLists : t \notin ToSet(k.event[l])
      /\ \A p \in Mutexes : t \notin Queued(p) /\ ~Hopes(t, p)
  BY <1>1, <1>2, NotQueueing
<1>9. /\ \A u \in Tasks, p \in Mutexes : ~Placing(u, p)' /\ (Hopes(u, p)' <=> Hopes(u, p))
      /\ \A p \in Mutexes : ToReceive(p) \in EventLists /\ \A u \in Queued(p) : Hopes(u, p)
      /\ \A p \in Mutexes : Queued(p)' \subseteq Queued(p) /\ Queued(p) \subseteq Tasks
  <2>1. \A u \in Tasks, p \in Mutexes : ~Placing(u, p)' /\ (Hopes(u, p)' <=> Hopes(u, p))
    BY <1>2 DEF Placing, Hopes, InCall
  <2>2. \A p \in Mutexes : ToReceive(p) \in EventLists /\ \A u \in Queued(p) : Hopes(u, p)
    BY <1>1, QueuedHope
  <2>3. \A p \in Mutexes : Queued(p)' \subseteq Queued(p)
    BY <1>6, <2>2 DEF PartOf, Queued
  <2>4. \A p \in Mutexes : Queued(p) \subseteq Tasks
    BY <1>1, <2>2 DEF Shaped, IsList, ToSet, Queued
  <2> QED BY <2>1, <2>2, <2>3, <2>4
<1>10. /\ Sleeping(k') \subseteq Sleeping(k) \cup X /\ Out(k') \subseteq Out(k) \cup X
       /\ Sleeping(k') \subseteq Out(k') /\ \A l \in EventLists : IsList(k'.event[l])
  BY <1>6 DEF Calm, Orderly, Whole, Shaped, Out
<1>11. EventsInOrder'
  <2>1. \A u \in Tasks : k'.eventValue[u] = configMAX_PRIORITIES - k'.uxPriority[u]
    BY <1>1, <1>7 DEF PrioInv, EventsInOrder, SameRank
  <2>2. ASSUME NEW l \in EventLists PROVE InOrder(k'.event[l], k'.eventValue)
    <3>1. InOrder(k'.event[l], k.eventValue)
      BY <1>1, <1>6 DEF PrioInv, EventsInOrder, PartOf
    <3>2. \A i \in 1 .. Len(k'.event[l]) :
            k'.event[l][i] \in Tasks /\ k'.event[l][i] \in ToSet(k'.event[l])
      BY <1>10 DEF IsList, ToSet
    <3>3. \A i \in 1 .. Len(k'.event[l]) : k'.eventValue[k'.event[l][i]] = k.eventValue[k'.event[l][i]]
      BY <3>2, <1>6, <1>7, <1>8 DEF PartOf, SameRank
    <3> QED BY <3>1, <3>3 DEF InOrder
  <2> QED BY <2>1, <2>2 DEF EventsInOrder
<1>12. NoSleepers'
  BY <1>1, <1>6, <1>9, <1>10 DEF PrioInv, NoSleepers
<1>13. OnlyOwed'
  <2> SUFFICES ASSUME NEW u \in Tasks, k'.uxPriority[u] # k'.uxBasePriority[u]
               PROVE  \E p \in holds'[u], w \in Tasks : Lends(w, p, u)'
    BY DEF OnlyOwed
  <2>1. u # t
    BY <1>7
  <2>2. PICK p \in holds[u], w \in Tasks : Lends(w, p, u)
    BY <1>1, <1>7, <2>1 DEF PrioInv, OnlyOwed, SameRank
  <2>3. p \in Mutexes /\ p # q
    <3>1. p \in Mutexes
      BY <1>1 DEF HoldInv, HoldsTaken
    <3>2. Holder(p) = u
      BY <1>1, <3>1 DEF MutexesHeld, Holder, Mutexes
    <3> QED BY <1>3, <2>1, <3>1, <3>2
  <2>4. w \in Queued(p)
    BY <1>2, <2>2, <2>3 DEF Lends
  <2>5. w \notin X
    <3>1. ~Hopes(w, q)
      BY <1>9, <2>3, <2>4 DEF Hopes, InCall
    <3>2. CASE k.event[ToReceive(q)] = <<>>
      BY <1>6, <3>2
    <3>3. CASE k.event[ToReceive(q)] # <<>>
      <4>1. IsList(k.event[ToReceive(q)])
        BY <1>1, <1>9 DEF Shaped
      <4>2. Head(k.event[ToReceive(q)]) \in Queued(q)
        BY <3>3, <4>1 DEF IsList, ToSet, Queued
      <4> QED BY <1>6, <1>9, <3>1, <3>3, <4>2
    <3> QED BY <3>2, <3>3
  <2>6. w \in Queued(p)'
    <3>1. w \notin Sleeping(k)
      BY <1>1, <2>3, <2>4 DEF PrioInv, NoSleepers
    <3> QED BY <1>6, <1>9, <2>3, <2>4, <2>5, <3>1 DEF Calm, Stay, Queued
  <2>7. w # t
    BY <1>8, <2>3, <2>4
  <2>8. k'.uxPriority[w] >= k'.uxPriority[u]
    BY <1>7, <2>1, <2>2, <2>7 DEF SameRank, Lends
  <2>9. Lends(w, p, u)'
    BY <2>6, <2>8 DEF Lends
  <2> QED BY <1>2, <2>1, <2>2, <2>9
<1>14. HoldersLead'
  <2> SUFFICES ASSUME NEW p \in Mutexes, NEW w \in Tasks, IsEmpty(queue[p])', w \in Queued(p)'
               PROVE  k'.uxPriority[Holder(p)'] >= k'.uxPriority[w]
    BY <1>9 DEF HoldersLead
  <2>1. p # q
    BY <1>3
  <2>2. queue'[p] = queue[p] /\ Holder(p)' = Holder(p) /\ Holder(p) \in Tasks \ {t}
    BY <1>3, <2>1 DEF Holder
  <2>3. w \in Queued(p) /\ w # t
    BY <1>8, <1>9
  <2>4. k.uxPriority[Holder(p)] >= k.uxPriority[w]
    BY <1>1, <2>2, <2>3 DEF PrioInv, HoldersLead
  <2> QED BY <1>7, <2>2, <2>3, <2>4 DEF SameRank
<1>15. FirstComes'
  <2> SUFFICES ASSUME NEW p \in Mutexes, ~IsEmpty(queue[p])', NEW w \in Queued(p)'
               PROVE  \E u \in Tasks : Comes(u, p)' /\ k'.uxPriority[u] >= k'.uxPriority[w]
    BY DEF FirstComes
  <2>1. w \in Queued(p) /\ w \in Tasks /\ w # t
    BY <1>8, <1>9
  <2>2. CASE p = q
    <3>1. PICK h \in Tasks : /\ h = Head(k.event[ToReceive(q)]) /\ h \in ToSet(k.event[ToReceive(q)])
                             /\ k.event[ToReceive(q)] # <<>>
                             /\ k.uxPriority[h] >= k.uxPriority[w]
      BY <1>9, <2>1, <2>2, FirstLeads DEF Queued
    <3>8. h \in Queued(q) /\ h # t /\ X = {h}
      BY <1>6, <1>8, <3>1 DEF Queued
    <3>9. Hopes(h, q)' /\ h \notin Out(k')
      BY <1>6, <1>9, <3>8
    <3>10. k'.uxPriority[h] >= k'.uxPriority[w]
      BY <1>7, <2>1, <3>1, <3>8 DEF SameRank
    <3>11. Comes(h, q)'
      BY <3>9 DEF Comes
    <3> QED BY <2>2, <3>10, <3>11
  <2>3. CASE p # q
    <3>1. ~IsEmpty(queue[p])
      BY <1>3, <2>3
    <3>2. PICK u \in Tasks : Comes(u, p) /\ k.uxPriority[u] >= k.uxPriority[w]
      BY <1>1, <2>1, <3>1 DEF PrioInv, FirstComes
    <3>3. u # t
      BY <1>8, <3>2 DEF Comes
    <3>4. Hopes(u, p)'
      BY <1>9, <3>2 DEF Comes
    <3>5. u \notin Out(k')
      BY <1>6, <1>10, <3>2 DEF Comes
    <3>6. Comes(u, p)'
      BY <3>4, <3>5 DEF Comes
    <3>7. k'.uxPriority[u] >= k'.uxPriority[w]
      BY <1>7, <2>1, <3>2, <3>3 DEF SameRank
    <3> QED BY <3>6, <3>7
  <2> QED BY <2>2, <2>3
<1> QED BY <1>11, <1>12, <1>13, <1>14, <1>15 DEF PrioInv

(* The cases of a send.                                                    *)
LEMMA Sending ==
  ASSUME NEW P, NEW E, Tended(P, E), NEW t \in Tasks, xQueueGenericSend(t)
  PROVE  \E c : /\ c.op \in QueueOps /\ Enters(t, c)
                /\ \/ WaitOrFail(t, c) /\ c.op \notin ReceiveOps
                   \/ \E item \in Items, front \in BOOLEAN :
                        /\ k' = SendNow(k, queue[c.on], c.on, item, front).k
                        /\ \E Q : queue' = [queue EXCEPT ![c.on] = Q]
                        /\ Return(t) /\ holds' = [holds EXCEPT ![t] = @ \ {c.on}]
                        /\ c.on \notin Mutexes
                   \/ \E item \in Items, front \in BOOLEAN, q \in Mutexes :
                        HandsBack(t, c, q, item, front)
<1>1. PICK c \in {frame[t].call} \cup script.calls :
        /\ c.op \in SendOps /\ Enters(t, c)
        /\ QueueType[c.on] = "mutex" => c.on \in holds[t]
        /\ IF IsFull(queue[c.on]) THEN WaitOrFail(t, c)
           ELSE \E item \in script.items :
             LET r == SendNow(k, queue[c.on], c.on, item, c.op = "sendToFront")
             IN  /\ k' = r.k
                 /\ queue' = [queue EXCEPT ![c.on] = r.Q]
                 /\ Return(t)
                 /\ holds' = [holds EXCEPT ![t] = @ \ {c.on}]
  BY Zenon DEF xQueueGenericSend
<1>2. c.op \in QueueOps /\ Enters(t, c) /\ c.op \notin ReceiveOps
  BY <1>1 DEF QueueOps, SendOps, ReceiveOps
<1>3. CASE IsFull(queue[c.on])
  BY <1>1, <1>2, <1>3
<1>4. CASE ~IsFull(queue[c.on])
  <2>1. PICK front : front = (c.op = "sendToFront")
    OBVIOUS
  <2>2. front \in BOOLEAN
    BY <2>1
  <2>3. PICK item \in script.items :
          /\ k' = SendNow(k, queue[c.on], c.on, item, front).k
          /\ queue' = [queue EXCEPT ![c.on] = SendNow(k, queue[c.on], c.on, item, front).Q]
          /\ Return(t) /\ holds' = [holds EXCEPT ![t] = @ \ {c.on}]
    BY <1>1, <1>4, <2>1
  <2>4. item \in Items
    BY TendedIs, ScriptsAssumption DEF FramesOK
  <2>5. CASE c.on \notin Mutexes
    <3>1. PICK Q : Q = SendNow(k, queue[c.on], c.on, item, front).Q
      OBVIOUS
    <3>2. queue' = [queue EXCEPT ![c.on] = Q]
      BY <2>3, <3>1
    <3> QED BY <1>2, <2>2, <2>3, <2>4, <2>5, <3>2
  <2>6. CASE c.on \in Mutexes
    <3>1. PICK q \in Mutexes : q = c.on
      BY <2>6
    <3>2. HandsBack(t, c, q, item, front)
      BY <1>1, <1>2, <1>4, <2>3, <3>1 DEF HandsBack, Mutexes
    <3> QED BY <1>2, <2>2, <2>4, <3>2
  <2> QED BY <2>5, <2>6
<1> QED BY <1>3, <1>4

LEMMA PrioSend ==
  ASSUME NEW P, NEW E, Tended(P, E), NEW t \in Tasks, xQueueGenericSend(t)
  PROVE  PrioInv'
<1>1. PICK c : /\ c.op \in QueueOps /\ Enters(t, c)
               /\ \/ WaitOrFail(t, c) /\ c.op \notin ReceiveOps
                  \/ \E item \in Items, front \in BOOLEAN :
                       /\ k' = SendNow(k, queue[c.on], c.on, item, front).k
                       /\ \E Q : queue' = [queue EXCEPT ![c.on] = Q]
                       /\ Return(t) /\ holds' = [holds EXCEPT ![t] = @ \ {c.on}]
                       /\ c.on \notin Mutexes
                  \/ \E item \in Items, front \in BOOLEAN, q \in Mutexes :
                       HandsBack(t, c, q, item, front)
  BY Sending
<1>2. CASE WaitOrFail(t, c) /\ c.op \notin ReceiveOps
  BY <1>1, <1>2, PrioWait
<1>3. CASE \E item \in Items, front \in BOOLEAN :
             /\ k' = SendNow(k, queue[c.on], c.on, item, front).k
             /\ \E Q : queue' = [queue EXCEPT ![c.on] = Q]
             /\ Return(t) /\ holds' = [holds EXCEPT ![t] = @ \ {c.on}]
             /\ c.on \notin Mutexes
  <2>1. PICK item \in Items, front \in BOOLEAN :
          /\ k' = SendNow(k, queue[c.on], c.on, item, front).k
          /\ \E Q : queue' = [queue EXCEPT ![c.on] = Q]
          /\ Return(t) /\ holds' = [holds EXCEPT ![t] = @ \ {c.on}]
          /\ c.on \notin Mutexes
    BY <1>3
  <2>2. PICK Q : queue' = [queue EXCEPT ![c.on] = Q]
    BY <2>1
  <2> QED BY <1>1, <2>1, <2>2, PrioSendOther
<1>4. CASE \E item \in Items, front \in BOOLEAN, q \in Mutexes : HandsBack(t, c, q, item, front)
  BY <1>4, PrioGive
<1> QED BY <1>1, <1>2, <1>3, <1>4

(* A task that gives a mutex back and becomes less important by it yields: *)
(* what it had inherited, the first of those that wait has.                *)
LEMMA GiveFalls ==
  ASSUME NEW P, NEW E, Tended(P, E), NEW t \in Tasks, NEW q \in Mutexes, NEW c,
         NEW item \in Items, NEW front \in BOOLEAN, HandsBack(t, c, q, item, front),
         k'.uxPriority[t] < k.uxPriority[t]
  PROVE  k'.pendsv
<1>1. /\ PrioInv /\ Whole(k)
      /\ \A u \in Tasks : k.uxPriority[u] \in Int /\ k'.uxPriority[u] \in Int
  BY TendedIs
<1>2. /\ k.pxCurrentTCB = t /\ k.uxSchedulerSuspended = 0 /\ holds[t] = {q}
      /\ frame[t].call.op \notin QueueOps
      /\ \A u \in Tasks, p \in Mutexes : ~Placing(u, p)
  BY GiverFree
<1>3. k' = WakeWaiter(vTaskPriorityDisinherit(k, t), ToReceive(q))
  BY GivenBack
<1>4. PICK a : a = vTaskPriorityDisinherit(k, t)
  OBVIOUS
<1>5. Dropped(a, t) /\ k' = WakeWaiter(a, ToReceive(q))
  BY <1>2, <1>3, <1>4, Dropping
<1>6. SameRanks(k', a) /\ \E X : Calm(k', k, X)
  BY <1>5, GiveLists
<1>7. k'.uxPriority = a.uxPriority /\ k.uxPriority[t] # k.uxBasePriority[t]
  BY <1>1, <1>5, <1>6 DEF SameRanks, Dropped
<1>8. PICK w \in Tasks : w \in Queued(q) /\ k.uxPriority[w] >= k.uxPriority[t]
  BY <1>1, <1>2, <1>7 DEF PrioInv, OnlyOwed, Lends
<1>9. ToReceive(q) \in EventLists /\ WaitersLook
  BY TendedIs, QueuedHope
<1>10. PICK h \in Tasks : /\ h = Head(k.event[ToReceive(q)]) /\ h \in ToSet(k.event[ToReceive(q)])
                          /\ k.event[ToReceive(q)] # <<>>
                          /\ k.uxPriority[h] >= k.uxPriority[w]
  BY <1>8, <1>9, FirstLeads DEF Queued
<1>11. h # t
  BY <1>2, <1>9, <1>10, NotQueueing
<1>12. a.uxPriority[h] >= a.uxPriority[a.pxCurrentTCB]
  <2>1. a.uxPriority[h] = k.uxPriority[h] /\ a.pxCurrentTCB = t
    BY <1>5, <1>11 DEF Dropped
  <2> QED BY <1>1, <1>7, <1>8, <1>10, <2>1
<1>13. \E r : k' = taskYIELD(r)
  <2>1. a.event = k.event
    BY <1>5 DEF Dropped
  <2> QED BY <1>5, <1>10, <1>12, <2>1 DEF WakeWaiter, xTaskRemoveFromEventList, YieldIf
<1>14. "pendsv" \in DOMAIN k'
  BY <1>6 DEF Calm, Orderly, Whole, Shaped, SchedFields
<1> QED BY <1>13, <1>14 DEF taskYIELD

LEMMA SendFalls ==
  ASSUME NEW P, NEW E, Tended(P, E), NEW t \in Tasks, xQueueGenericSend(t)
  PROVE  FallYields
<1>1. PICK c : /\ c.op \in QueueOps /\ Enters(t, c)
               /\ \/ WaitOrFail(t, c) /\ c.op \notin ReceiveOps
                  \/ \E item \in Items, front \in BOOLEAN :
                       /\ k' = SendNow(k, queue[c.on], c.on, item, front).k
                       /\ \E Q : queue' = [queue EXCEPT ![c.on] = Q]
                       /\ Return(t) /\ holds' = [holds EXCEPT ![t] = @ \ {c.on}]
                       /\ c.on \notin Mutexes
                  \/ \E item \in Items, front \in BOOLEAN, q \in Mutexes :
                       HandsBack(t, c, q, item, front)
  BY Sending
<1>2. k.pxCurrentTCB = t /\ c.on \in Queues /\ IsQueue(c.on, queue[c.on])
      /\ ToReceive(c.on) \in EventLists /\ k.uxPriority[t] \in Int
  BY <1>1, EntersQuiet, TendedIs
<1>3. CASE WaitOrFail(t, c)
  <2>1. k' = k
    BY <1>3 DEF WaitOrFail
  <2> QED BY <1>2, <2>1 DEF FallYields
<1>4. CASE \E item \in Items, front \in BOOLEAN :
             /\ k' = SendNow(k, queue[c.on], c.on, item, front).k
             /\ c.on \notin Mutexes
  <2>1. PICK item \in Items, front \in BOOLEAN :
          k' = SendNow(k, queue[c.on], c.on, item, front).k
    BY <1>4
  <2>2. prvCopyDataToQueue(k, queue[c.on], item, front).k = k
    BY <1>2, <1>4, CopiesQuiet
  <2>3. k' = WakeWaiter(k, ToReceive(c.on))
    BY <2>1, <2>2 DEF SendNow
  <2>4. Whole(k)
    BY TendedIs
  <2>5. \E X : Rests(k', k, X)
    BY <1>2, <2>3, <2>4, WakingRests
  <2>6. k'.uxPriority = k.uxPriority
    BY <2>5 DEF Rests, SameRanks
  <2> QED BY <1>2, <2>6 DEF FallYields
<1>5. CASE \E item \in Items, front \in BOOLEAN, q \in Mutexes : HandsBack(t, c, q, item, front)
  BY <1>2, <1>5, GiveFalls DEF FallYields
<1> QED BY <1>1, <1>3, <1>4, <1>5

-----------------------------------------------------------------------------
(* Every step.                                                             *)
LEMMA PrioStep ==
  ASSUME NEW P, NEW E, Tended(P, E), TopInv, Next
  PROVE  PrioInv'
<1>1. ASSUME NEW t \in Tasks, CallStep(t)
      PROVE  PrioInv'
  BY <1>1, PrioSuspend, PrioLock, PrioCheck, PrioInherit, PrioPlace, PrioUnlock, PrioResume,
     PrioYield DEF CallStep
<1>2. ASSUME NEW t \in Tasks, Call(t)
      PROVE  PrioInv'
  BY <1>2, PrioSend, PrioReceive, PrioDelay, PrioDelayUntil, PrioSuspendCall, PrioResumeCall,
     PrioDelete, PrioCreate DEF Call
<1>3. CASE Interrupt
  BY <1>3, PrioResumeCall, PrioHandlers DEF Interrupt
<1>4. CASE Boot \/ prvIdleTask \/ xPortPendSVHandler
  BY <1>4, PrioBoot, PrioIdle, PrioResumeCall
<1> QED BY <1>1, <1>2, <1>3, <1>4 DEF Next

(* What the invariants of the kernel say of a step of a script whose tasks *)
(* use mutexes well.                                                       *)
LEMMA StepIsTended ==
  ASSUME KernelInv, KernelInv', WaitInv, HoldInv, PrioInv, UsesMutexesWell(script), Next
  PROVE  \E P, E : Tended(P, E) /\ Sound(P, E) /\ FramesOK'
<1>1. PICK P, E : Sound(P, E)
  BY DEF KernelInv
<1>2. k'.uxPriority \in [Tasks -> Prios] /\ FramesOK'
  <2>1. \E Q, F : Sound(Q, F)'
    BY DEF KernelInv
  <2>2. PICK Q, F : Sound(Q, F)'
    BY <2>1
  <2>3. Settled(k', Q, F) /\ FramesOK'
    BY <2>2 DEF Sound, MutexInv
  <2> QED BY <2>3, SettledNumbers DEF Typed
<1>3. Tended(P, E)
  BY <1>1, <1>2, ScriptStays DEF Tended
<1> QED BY <1>1, <1>2, <1>3

-----------------------------------------------------------------------------
(* The invariant of a script whose tasks use mutexes well, and what it     *)
(* says.                                                                   *)
OrderInv == UsesMutexesWell(script) => HoldInv /\ PrioInv /\ TopInv

LEMMA OrderInit ==
  ASSUME Init
  PROVE  OrderInv
BY HoldInit, PrioInit, TopInit DEF OrderInv

LEMMA OrderStill ==
  ASSUME HoldInv, PrioInv, UNCHANGED vars
  PROVE  HoldInv' /\ PrioInv'
<1>1. script' = script /\ k' = k /\ queue' = queue /\ frame' = frame /\ holds' = holds
  BY DEF vars
<1>2. HoldInv'
  BY <1>1 DEF HoldInv, HoldsTaken, FreeInCall, FramesTake, NoneCounted, TakersStay, UsersLive
<1>3. /\ \A q : Queued(q)' = Queued(q) /\ Holder(q)' = Holder(q)
      /\ \A u, q : (Placing(u, q)' <=> Placing(u, q)) /\ (Comes(u, q)' <=> Comes(u, q))
  BY <1>1 DEF Queued, Holder, Placing, Comes, Hopes, InCall
<1>4. \A w, q, t : Lends(w, q, t)' <=> Lends(w, q, t)
  BY <1>1, <1>3 DEF Lends
<1>5. EventsInOrder' /\ NoSleepers'
  BY <1>1, <1>3 DEF PrioInv, EventsInOrder, NoSleepers
<1>6. OnlyOwed'
  BY <1>1, <1>4 DEF PrioInv, OnlyOwed
<1>7. HoldersLead' /\ FirstComes'
  BY <1>1, <1>3 DEF PrioInv, HoldersLead, FirstComes
<1> QED BY <1>2, <1>5, <1>6, <1>7 DEF PrioInv

LEMMA OrderStep ==
  ASSUME KernelInv, KernelInv', WaitInv, WaitInv', OrderInv, [Next]_vars
  PROVE  OrderInv'
<1>1. CASE Next
  <2> SUFFICES ASSUME UsesMutexesWell(script')
               PROVE  (HoldInv /\ PrioInv /\ TopInv)'
    BY DEF OrderInv, UsesMutexesWell, TakesOf, Takers
  <2>1. UsesMutexesWell(script) /\ HoldInv /\ PrioInv /\ TopInv
    BY <1>1, ScriptStays DEF OrderInv
  <2>2. PICK P, E : Tended(P, E) /\ Sound(P, E) /\ FramesOK'
    BY <1>1, <2>1, StepIsTended
  <2>3. HoldInv'
    BY <1>1, <2>1, <2>2, HoldStep
  <2>4. PrioInv'
    BY <1>1, <2>1, <2>2, PrioStep
  <2>5. TopInv'
    BY <1>1, <2>1, <2>2, SendFalls, TopNext
  <2> QED BY <2>3, <2>4, <2>5
<1>2. CASE UNCHANGED vars
  <2>1. script' = script
    BY <1>2 DEF vars
  <2> QED BY <1>2, <2>1, OrderStill, TopStill DEF OrderInv
<1> QED BY <1>1, <1>2

LEMMA OrderInvariant == Spec => []OrderInv
BY OrderInit, OrderStep, KernelInvariant, WaitInvariant, PTL DEF Spec

(* vTaskPriorityInherit and vTaskPriorityDisinherit: if the tasks of the   *)
(* script take one mutex each, wait for it for ever or not at all, and     *)
(* wait for nothing else, then the holder of a mutex is at least as        *)
(* important as all that wait for it, a task without one has its own       *)
(* priority, and the event lists stay in order though priorities change.   *)
THEOREM HoldersInherit == Spec => [](UsesMutexesWell(script) => PriorityInheritance)
<1>1. ASSUME MutexInv, KernelInv, OrderInv, UsesMutexesWell(script)
      PROVE  PriorityInheritance
  <2>1. PrioInv /\ MutexesHeld
    BY <1>1 DEF OrderInv, MutexInv
  <2>2. PICK P, E : Settled(k, P, E)
    BY <1>1 DEF KernelInv, Sound
  <2>3. Shaped(k) /\ k.uxPriority \in [Tasks -> Prios]
    BY <2>2, SettledIsShaped, SettledNumbers DEF Typed
  <2>4. \A u \in Tasks : k.uxPriority[u] \in Int
    BY <2>3, Constants
  <2>5. ASSUME NEW q \in Queues, QueueType[q] = "mutex", IsEmpty(queue[q]),
               NEW t \in ToSet(k.event[ToReceive(q)])
        PROVE  k.uxPriority[queue[q].pxMutexHolder] >= k.uxPriority[t]
    <3>1. ToReceive(q) \in EventLists
      BY QueuesAssumption DEF EventListsOf
    <3>2. t \in Tasks
      BY <2>3, <2>5, <3>1 DEF Shaped, IsList, ToSet
    <3> QED BY <2>1, <2>5, <3>2 DEF PrioInv, HoldersLead, Queued, Holder, Mutexes
  <2>6. ASSUME NEW t \in Tasks, holds[t] = {}
        PROVE  k.uxPriority[t] = k.uxBasePriority[t]
    BY <2>1, <2>6 DEF PrioInv, OnlyOwed
  <2>7. EventListsSorted
    <3> SUFFICES ASSUME NEW l \in EventLists, NEW i \in DOMAIN k.event[l],
                        NEW j \in DOMAIN k.event[l], i < j
                 PROVE  k.uxPriority[k.event[l][i]] >= k.uxPriority[k.event[l][j]]
      BY DEF EventListsSorted
    <3>1. PICK e : e = k.event[l]
      OBVIOUS
    <3>2. e \in Seq(Tasks) /\ InOrder(e, k.eventValue)
      BY <2>1, <2>3, <3>1 DEF Shaped, IsList, PrioInv, EventsInOrder
    <3>3. i \in 1 .. Len(e) /\ j \in 1 .. Len(e) /\ e[i] \in Tasks /\ e[j] \in Tasks
      BY <3>1, <3>2
    <3>4. PICK a \in Tasks, b \in Tasks : a = e[i] /\ b = e[j]
      BY <3>3
    <3>5. k.eventValue[a] <= k.eventValue[b]
      BY <3>2, <3>3, <3>4 DEF InOrder
    <3>6. /\ k.eventValue[a] = configMAX_PRIORITIES - k.uxPriority[a]
          /\ k.eventValue[b] = configMAX_PRIORITIES - k.uxPriority[b]
      BY <2>1 DEF PrioInv, EventsInOrder
    <3>7. k.uxPriority[a] \in Int /\ k.uxPriority[b] \in Int /\ configMAX_PRIORITIES \in Int
      BY <2>4, Constants
    <3>8. k.uxPriority[a] >= k.uxPriority[b]
      BY <3>5, <3>6, <3>7
    <3> QED BY <3>1, <3>4, <3>8
  <2> QED BY <2>1, <2>5, <2>6, <2>7 DEF PriorityInheritance
<1> QED BY <1>1, MutexInvariant, KernelInvariant, OrderInvariant, PTL

(* The task that runs is the most important one there is, with no          *)
(* assumption left for such scripts: a task that loses what it inherited   *)
(* gives the mutex to a waiter at least as important, who takes over.      *)
THEOREM HighestRunsAlways == Spec => [](UsesMutexesWell(script) => HighestRuns)
<1>1. ASSUME KernelInv, OrderInv, UsesMutexesWell(script)
      PROVE  HighestRuns
  BY <1>1, TopRuns DEF KernelInv, OrderInv
<1> QED BY <1>1, KernelInvariant, OrderInvariant, PTL

=============================================================================
