SPECIFICATION FairSpec
CONSTANTS
  Tasks <- MCTasks
  idle = "idle"
  configMAX_PRIORITIES = 4
  TickMod = 4
  OverflowMod = 2
  EventLists <- MCEventLists
  Items = {"x"}
  NoItem = "none"
  Queues <- MCQueues
  NoHolder = "nobody"
  Scripts <- LiveScripts
  QueueType <- MCQueueType
  QueueLength <- MCQueueLength
  MaxMissed = 1
  MaxLock = 1
PROPERTIES
  ListsEmpty
  EqualsShare
  InversionEnds
