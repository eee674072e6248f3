------------------------------- MODULE MCPools -------------------------------
(***************************************************************************)
(* Instances of IoThreadpool, where one job waits for a subtask, and of    *)
(* StealingPool, a multiqueue pool of two workers beside a stealing pool   *)
(* of one or a stealing_multiqueue pool alone.  They share no state: a     *)
(* behaviour is one of the module that "kind" names.                       *)
(***************************************************************************)
EXTENDS IoThreadpool

CONSTANTS
  Families,  \* the modules of which there are behaviours
  parent, child, j1, j2,
  NumberOfPools, Kind, NumberOfWorkers, SharedJobs, Subtasks, Prio,
  fib, left, right, plain

OneSubtask == [j \in Jobs |-> IF j = parent THEN child ELSE None]

\* Stealing and multiqueue pools.
ForkOnce == [j \in SharedJobs |->
               IF j = fib THEN SelectSeq(<<left, right>>, LAMBDA s : s \in SharedJobs) ELSE <<>>]
AnyQueue == [j \in SharedJobs |-> 0]

MultiqueueAndStealing == <<"multiqueue", "stealing">>
TwoAndOne == <<2, 1>>
StealingMultiqueue == <<"stealing_multiqueue">>
OneWorker == <<1>>

VARIABLES
  kind,
  queues, jobStatus, toldWorkers, loop, try, current, toPost, conts, drains, called, owners,
  owned, joined

sharedVars ==
  <<queues, jobStatus, toldWorkers, loop, try, current, toPost, conts, drains, called, owners,
    owned, joined>>

Shared == INSTANCE StealingPool WITH
  Jobs <- SharedJobs,
  queue <- queues, status <- jobStatus, told <- toldWorkers, pc <- loop, job <- current,
  waiting <- conts, draining <- drains, continued <- called, held <- owners

ASSUME PoolsAssumption == Shared!PoolsAssumption

-----------------------------------------------------------------------------
MCInit == kind \in Families /\ Init /\ Shared!Init

MCNext ==
  \/ kind = "io" /\ Next /\ UNCHANGED sharedVars
  \/ kind = "shared" /\ Shared!Next /\ UNCHANGED vars

\* The fairness of both modules.
MCFairness ==
  /\ \A t \in Threads : WF_vars(kind = "io" /\ (Thread(t) \/ TryCreateThread(t)))
  /\ \A c \in Clients : /\ WF_vars(kind = "io" /\ TryCreateThread(c))
                        /\ WF_vars(kind = "io" /\ ClientUnlock(c))
  /\ WF_vars(kind = "io" /\ GetWorker)
  /\ WF_vars(kind = "io" /\ ResetScheduler)
  /\ WF_vars(kind = "io" /\ JoinAll)
  /\ \A w \in Shared!Workers : WF_sharedVars(kind = "shared" /\ Shared!Worker(w))
  /\ \A p \in Shared!Pools :
       WF_sharedVars(kind = "shared" /\ (Shared!ResetSubpool(p) \/ Shared!JoinSubpool(p)))

MCSpec ==
  /\ MCInit
  /\ [][MCNext /\ UNCHANGED kind]_<<kind, vars, sharedVars>>
  /\ MCFairness

\* Together, the pools that steal from each other promise what JobPool says: see
\* StealingPool.
SharedRefinesJobPool == Shared!RefinesJobPool

\* The destructor of an io pool returns (see IoThreadpool), and a job posted to
\* pools that steal from each other ends (see StealingPool).
PoolsFinish == ShutdownCompletes /\ Shared!PostedJobEnds

\* What the documentation says of stealing_multiqueue_threadpool_scheduler: see
\* StealingPool.
QueuesProcessedFirst == Shared!QueuesProcessedFirst
=============================================================================
