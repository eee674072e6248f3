SPECIFICATION MCSpec
CONSTANTS
  NumberOfWorkers = 2
  fib = fib
  left = left
  right = right
  patient = patient
  late = late
  guarded = guarded
  first = first
  last = last
  Clients = {c1, c2}
  Jobs = {fib, left, right, patient, late, guarded, first, last}
  Scenarios <- OneForks
  Subtasks <- ForkOnce
  Interruptible = {guarded}
  Timed = {patient}
  MaxPrivateTasks = 1
  FunctorThrows = FALSE
  None = None
INVARIANTS
  TerminationAfterLastReference
  NothingLeftBehind
  ForkJoinCorrect
  JobsAccountedFor
PROPERTIES
  RefinesJobPool
  PostedWorkEnds
  ShutdownCompletes
