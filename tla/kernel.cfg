SPECIFICATION Spec
CONSTANTS
  Tasks <- MCTasks
  idle = "idle"
  configMAX_PRIORITIES = 4
  TickMod = 4
  OverflowMod = 2
  EventLists <- MCEventLists
  Items = {"x", "y"}
  NoItem = "none"
  Queues <- MCQueues
  NoHolder = "nobody"
  Scripts <- AllScripts
  QueueType <- MCQueueType
  QueueLength <- MCQueueLength
  MaxMissed = 1
  MaxLock = 1
VIEW Relevant
INVARIANTS
  KernelSound
  HighestRuns
  NoLostWakeup
  PriorityInheritance
PROPERTIES
  ListsChangeInTime
  TimedOutFully
  QueuesAreFifos
