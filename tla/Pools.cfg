SPECIFICATION MCSpec
CONSTANTS
  fib = fib
  left = left
  right = right
  plain = plain
  parent = parent
  child = child
  j1 = j1
  j2 = j2
  Families = {"io", "shared"}
  NumberOfPools = 2
  Subtasks <- ForkOnce
  Prio <- AnyQueue
  Kind <- MultiqueueAndStealing
  NumberOfWorkers <- TwoAndOne
  SharedJobs = {fib, left, right}
  MinWorkers = 1
  MaxWorkers = 3
  Jobs = {parent, child, j1, j2}
  Subtask <- OneSubtask
  Clients = {c1}
  None = None
INVARIANT ThreadsAccountedFor
PROPERTIES
  RefinesJobPool
  SharedRefinesJobPool
  PoolsFinish
