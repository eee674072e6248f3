SPECIFICATION MCSpec
CONSTANTS
  fib = fib
  left = left
  right = right
  plain = plain
  parent = parent
  child = child
  j1 = j1
  j2 = j2
  Families = {"io", "shared"}
  NumberOfPools = 1
  Subtasks <- ForkOnce
  Prio <- AnyQueue
  Kind <- StealingMultiqueue
  NumberOfWorkers <- OneWorker
  SharedJobs = {fib, left, plain}
  MinWorkers = 1
  MaxWorkers = 3
  Jobs = {parent, child, j1, j2}
  Subtask <- OneSubtask
  Clients = {c1}
  None = None
INVARIANTS
  QueuesProcessedFirst
  JobGetsWorker
PROPERTY ContinuationCalled
