SPECIFICATION MCSpec
CONSTANTS
  p1 = p1
  p2 = p2
  v1 = v1
  v2 = v2
  v3 = v3
  j1 = j1
  j2 = j2
  j3 = j3
  Width = 3
  Pushes = 1
  QueueType <- EveryType
  Jobs = {j1, j2, j3}
  Prio <- HighAnyLast
  Shutdown = 9
  Workers = {worker}
  Thieves = {thief}
  Capacity = 0
  NoJob = None
  Kinds = {"list", "counters", "container"}
  Producers = {p1, p2}
  Consumers = {c1, c2}
  Values = {v1, v2, v3}
  ToPush <- PushThree
  Blocking = {c1}
  MaxNodes = 3
  None = None
INVARIANTS
  CountersFollow
  QueuesKeepOrder
PROPERTIES
  ImplementsFifo
  TryPopReturns
  PriorityRespected
