---------------------------- MODULE MCRtosKernel ----------------------------
(***************************************************************************)
(* Small instances of RtosKernel for TLC.                                  *)
(***************************************************************************)
EXTENDS RtosKernel

MCTasks == {"idle", "low", "mid", "high"}
MCQueues == {"q", "m"}
MCEventLists == EventListsOf(MCQueues)
MCQueueType == [q \in MCQueues |-> IF q = "q" THEN "queue" ELSE "mutex"]
MCQueueLength == [q \in MCQueues |-> IF q = "q" THEN 2 ELSE 1]
(* The most important task asks for more than the last priority.           *)
Distinct == [t \in MCTasks |-> CASE t = "low" -> 1 [] t = "mid" -> 2 [] t = "high" -> 4 [] OTHER -> 0]
Equal == [t \in MCTasks |-> CASE t = "idle" -> 0 [] OTHER -> 1]

C(t, op, on, wait) == [task |-> t, op |-> op, on |-> on, wait |-> wait]

Tick == <<"tick", "idle">>

(* A consumer and a producer with the interrupts of the board on a queue.  *)
QueueScript ==
  [prio |-> Distinct, start |-> {"low", "high"}, items |-> {"x"},
   calls |-> {C("high", "receive", "q", w) : w \in {2, portMAX_DELAY}}
        \cup {C("low", "send", "q", w) : w \in {0, 1}},
   interrupts |-> {Tick, <<"send", "q">>, <<"receive", "q">>}]

(* Two consumers of one priority race for what an interrupt sends.         *)
RaceScript ==
  [prio |-> Equal, start |-> {"low", "high"}, items |-> {"x"},
   calls |-> {C("high", "receive", "q", 1), C("low", "receive", "q", portMAX_DELAY)},
   interrupts |-> {Tick, <<"send", "q">>}]

(* A task peeks at what another reads and a third puts at either end.      *)
PeekScript ==
  [prio |-> Distinct, start |-> {"low", "mid", "high"}, items |-> {"x", "y"},
   calls |-> {C("mid", "receive", "q", portMAX_DELAY), C("high", "peek", "q", portMAX_DELAY),
              C("low", "send", "q", portMAX_DELAY), C("low", "sendToFront", "q", 0),
              C("mid", "suspend", "mid", 0), C("high", "suspend", "high", 0)},
   interrupts |-> {<<"resume", "mid">>, <<"resume", "high">>}]

(* Three tasks and a mutex; two of them sleep until an interrupt.          *)
MutexScript ==
  [prio |-> Distinct, start |-> {"low", "mid", "high"}, items |-> {"x"},
   calls |-> {C(t, "receive", "m", portMAX_DELAY) : t \in {"low", "mid", "high"}}
        \cup {C(t, "send", "m", 0) : t \in {"low", "mid", "high"}}
        \cup {C(t, "suspend", t, 0) : t \in {"mid", "high"}},
   interrupts |-> {<<"resume", t>> : t \in {"mid", "high"}}]

(* Sleeping, suspending and resuming.                                      *)
SleepScript ==
  [prio |-> Distinct, start |-> {"low", "high"}, items |-> {"x"},
   calls |-> {C("high", "delay", NoHolder, n) : n \in {0, 2, 3}}
        \cup {C("high", "delayUntil", NoHolder, n) : n \in {1, 3}}
        \cup {C("low", "delay", NoHolder, 2), C("high", "suspend", "high", 0),
              C("low", "suspend", "high", 0), C("low", "resume", "high", 0)},
   interrupts |-> {Tick, <<"resume", "high">>}]

(* Creating and deleting.                                                  *)
DeleteScript ==
  [prio |-> Equal, start |-> {"low", "high"}, items |-> {"x"},
   calls |-> {C("high", "delete", t, 0) : t \in {"low", "high"}}
        \cup {C("low", "delete", "mid", 0), C("low", "delay", NoHolder, 1)}
        \cup {C("low", "create", t, 0) : t \in {"high", "mid"}}
        \cup {C("mid", "receive", "q", portMAX_DELAY)},
   interrupts |-> {Tick}]

AllScripts == {QueueScript, RaceScript, PeekScript, MutexScript, SleepScript, DeleteScript}

(* For liveness: a task between the holder of a mutex and the one that     *)
(* waits for it, which an interrupt wakes and which may then never stop;   *)
(* two tasks that only compute next to one that sleeps; a task that waits  *)
(* with a time-out; tasks that delete each other.                          *)
InversionScript ==
  [prio |-> Distinct, start |-> {"low", "mid", "high"}, items |-> {"x"},
   calls |-> {C(t, "receive", "m", portMAX_DELAY) : t \in {"low", "high"}}
        \cup {C(t, "send", "m", 0) : t \in {"low", "high"}}
        \cup {C(t, "suspend", t, 0) : t \in {"mid", "high"}},
   interrupts |-> {<<"resume", t>> : t \in {"mid", "high"}}]

ShareScript ==
  [prio |-> Equal, start |-> {"low", "mid", "high"}, items |-> {"x"},
   calls |-> {C("high", "delay", NoHolder, 2)},
   interrupts |-> {Tick}]

TimeOutScript ==
  [prio |-> Distinct, start |-> {"high"}, items |-> {"x"},
   calls |-> {C("high", "receive", "q", 2)},
   interrupts |-> {Tick}]

BuryScript ==
  [prio |-> Distinct, start |-> {"low", "mid", "high"}, items |-> {"x"},
   calls |-> {C("low", "delete", t, 0) : t \in {"low", "mid"}}
        \cup {C("mid", "suspend", "mid", 0), C("high", "suspend", "high", 0)},
   interrupts |-> {<<"resume", "high">>}]

LiveScripts == {InversionScript, ShareScript, TimeOutScript, BuryScript}

(* A holder of the mutex that waits for an item when it inherits.          *)
NestedScript ==
  [prio |-> Distinct, start |-> {"low", "mid", "high"}, items |-> {"x"},
   calls |-> {C(t, "receive", "m", portMAX_DELAY) : t \in {"low", "high"}}
        \cup {C(t, "receive", "q", portMAX_DELAY) : t \in {"low", "mid"}}
        \cup {C("high", "suspend", "high", 0), C("mid", "suspend", "mid", 0)},
   interrupts |-> {<<"resume", "high">>, <<"resume", "mid">>}]

OnlyNested == {NestedScript}

(* What RtosWaitProofs asks of a script holds of these, but for the two    *)
(* that are there to show what happens without it.                         *)
ASSUME ScriptsAreCareful ==
  /\ \A s \in AllScripts \cup LiveScripts : UsesMutexesWell(s)
  /\ \A s \in (AllScripts \ {DeleteScript}) \cup LiveScripts : SparesWaiters(s)
  /\ ~UsesMutexesWell(NestedScript) /\ ~SparesWaiters(DeleteScript)

(* Fingerprints leave out what no step reads again: the wake time of a task *)
(* that is awake, the slots of a ring that hold nothing, and the times of  *)
(* a call that waits for ever.                                             *)
ForEver(t) == frame[t].wait = portMAX_DELAY
Relevant ==
  <<script, [k EXCEPT !.wakeTime = [t \in Sleeping(k) |-> @[t]]],
    [q \in Queues |-> [queue[q] EXCEPT !.buf = Contents(@)]],
    [t \in Tasks |-> IF ForEver(t) THEN [frame[t] EXCEPT !.entry = {}] ELSE frame[t]],
    [t \in Tasks |-> IF ForEver(t) THEN 0 ELSE age[t]],
    last, handed, holds, clock, left>>
=============================================================================
