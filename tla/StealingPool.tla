---------------------------- MODULE StealingPool ----------------------------
(***************************************************************************)
(* composite_threadpool_scheduler over the pools that share their queues:  *)
(* multiqueue_threadpool_scheduler (a queue per worker, stealing inside    *)
(* the pool), stealing_threadpool_scheduler (one queue, stealing from the  *)
(* other pools) and stealing_multiqueue_threadpool_scheduler (both).       *)
(*                                                                         *)
(* The queues are lockfree_queue, whose try_steal is try_pop.  The         *)
(* composite owns its subpools; when its last copy is destroyed they are   *)
(* released and joined one after the other, in an order the standard       *)
(* leaves open.  What these pools have in common with threadpool_scheduler *)
(* (private tasks, interruption, diagnostics) is modelled there.           *)
(***************************************************************************)
EXTENDS Naturals, Sequences, SequencesExt

CONSTANTS
  NumberOfPools,
  Kind,            \* [Pools -> Kinds]
  NumberOfWorkers, \* [Pools -> Nat]: m_number_of_workers
  Jobs,
  Subtasks,        \* [Jobs -> Seq(Jobs)]: what create_continuation posts
  Prio,            \* [Jobs -> Nat]: the priority given to post, 0: "any queue"
  Clients,         \* threads that own copies of the composite
  None

Pools == 1 .. NumberOfPools
Kinds == {"multiqueue", "stealing", "stealing_multiqueue"}

PoolsAssumption ==
  /\ NumberOfPools \in Nat \ {0}
  /\ Kind \in [Pools -> Kinds]
  /\ NumberOfWorkers \in [Pools -> Nat \ {0}]
  /\ Subtasks \in [Jobs -> Seq(Jobs)]
  /\ Prio \in [Jobs -> Nat]
  /\ None \notin Jobs

WorkersOf(p) == {p} \X (1 .. NumberOfWorkers[p])
Workers == UNION {WorkersOf(p) : p \in Pools}

\* The queues a pool lends for stealing (get_queues).
NumberOfQueues(p) == IF Kind[p] = "stealing" THEN 1 ELSE NumberOfWorkers[p]
GetQueues(p) == [i \in 1 .. NumberOfQueues(p) |-> <<p, i>>]
Queues == UNION {ToSet(GetQueues(p)) : p \in Pools}

Own(w) == IF Kind[w[1]] = "stealing" THEN <<w[1], 1>> ELSE w

\* The other queues of the pool, from the left neighbour round.
Siblings(w) ==
  LET n == NumberOfQueues(w[1]) IN
    IF Kind[w[1]] = "stealing" THEN <<>>
    ELSE [k \in 1 .. n - 1 |-> <<w[1], ((w[2] - 1 + n - k) % n) + 1>>]

\* set_steal_from_queues: multiqueue_threadpool_scheduler ignores it.
Others(p) ==
  IF Kind[p] = "multiqueue" THEN <<>>
  ELSE FlattenSeq([q \in Pools |-> IF q = p THEN <<>> ELSE GetQueues(q)])

\* The queues in the order in which execute_one_job tries them.
Tries(w) == <<Own(w)>> \o Siblings(w) \o Others(w[1])

\* default_find_position: the desired position, limited at the lowest
\* priority; any one when the user does not care.
FindPosition(prio, n) ==
  IF prio = 0 THEN 1 .. n ELSE {IF prio < n THEN prio ELSE n}

Roots == {j \in Jobs : \A p \in Jobs : j \notin ToSet(Subtasks[p])}

VARIABLES
  queue,     \* [Queues -> Seq(Jobs)]
  status,    \* what has become of each job
  told,      \* workers whose private queue holds the termination task
  pc,        \* where in run() the worker is
  try,       \* index into Tries of the queue to be tried
  job,       \* the job the worker executes
  toPost,    \* subtasks it still has to post
  waiting,   \* its continuations (their parents)
  draining,  \* it is in the loop of its shutdown_exception handler
  continued, \* parents whose continuation has been called
  held,      \* clients that own a copy of the composite
  owned,     \* subpools whose scheduler the composite still owns
  joined     \* subpools that were joined

workerVars == <<pc, try, job, toPost, waiting, draining, continued>>
vars == <<queue, status, told, workerVars, held, owned, joined>>

Ended == {"ok", "failed"}

TypeOK ==
  /\ queue \in [Queues -> Seq(Jobs)]
  /\ status \in [Jobs -> {"new", "queued", "running", "refused"} \cup Ended]
  /\ told \subseteq Workers
  /\ pc \in [Workers -> {"try", "job", "fork", "forked", "scan", "private", "done"}]
  /\ \A w \in Workers : try[w] \in DOMAIN Tries(w)
  /\ job \in [Workers -> Jobs \cup {None}]
  /\ toPost \in [Workers -> Seq(Jobs)]
  /\ waiting \in [Workers -> SUBSET Jobs]
  /\ draining \in [Workers -> BOOLEAN]
  /\ continued \subseteq Jobs
  /\ held \subseteq Clients
  /\ owned \subseteq Pools /\ joined \subseteq Pools \ owned

Init ==
  /\ queue = [q \in Queues |-> <<>>]
  /\ status = [j \in Jobs |-> "new"]
  /\ told = {}
  /\ pc = [w \in Workers |-> "try"]
  /\ try = [w \in Workers |-> 1]
  /\ job = [w \in Workers |-> None]
  /\ toPost = [w \in Workers |-> <<>>]
  /\ waiting = [w \in Workers |-> {}]
  /\ draining = [w \in Workers |-> FALSE]
  /\ continued = {}
  /\ held = Clients
  /\ owned = Pools
  /\ joined = {}

-----------------------------------------------------------------------------
(* The composite                                                           *)

\* composite_threadpool_scheduler::post, then the post of the subpool with
\* the same priority.
Post(c, j) ==
  /\ c \in held
  /\ j \in Roots
  /\ status[j] = "new"
  /\ \E p \in FindPosition(Prio[j], NumberOfPools) :
       \E i \in FindPosition(Prio[j], NumberOfQueues(p)) :
         queue' = [queue EXCEPT ![<<p, i>>] = Append(@, j)]
  /\ status' = [status EXCEPT ![j] = "queued"]
  /\ UNCHANGED <<told, workerVars, held, owned, joined>>

DropComposite(c) ==
  /\ c \in held
  /\ held' = held \ {c}
  /\ UNCHANGED <<queue, status, told, workerVars, owned, joined>>

\* Who owns the scheduler of pool p: the composite, or workers of p that
\* locked it to post subtasks.
Lockers(p) == {w \in WorkersOf(p) : pc[w] = "fork"}
Alive(p) == p \in owned \/ Lockers(p) # {}

\* Mutant of Release: the first worker gets no termination task.
ReleaseAllButOne(p, own, lockers) ==
  told' = IF p \in own \/ lockers # {} THEN told ELSE told \cup (WorkersOf(p) \ {<<p, 1>>})

\* The last reference gone, the destructor gives every worker its
\* termination task.
Release(p, own, lockers) ==
  told' = IF p \in own \/ lockers # {} THEN told ELSE told \cup WorkersOf(p)

\* ~any_shared_scheduler_proxy of subpool p: m_scheduler.reset().
ResetSubpool(p) ==
  /\ held = {}
  /\ Pools \ owned = joined
  /\ p \in owned
  /\ owned' = owned \ {p}
  /\ Release(p, owned', Lockers(p))
  /\ UNCHANGED <<queue, status, workerVars, held, joined>>

JoinSubpool(p) ==
  /\ p \in Pools \ (owned \cup joined)
  /\ \A w \in WorkersOf(p) : pc[w] = "done"
  /\ joined' = joined \cup {p}
  /\ UNCHANGED <<queue, status, told, workerVars, held, owned>>

-----------------------------------------------------------------------------
(* execute_one_job                                                         *)

Goto(w, where) ==
  /\ pc' = [pc EXCEPT ![w] = where]
  /\ try' = [try EXCEPT ![w] = 1]

\* execute_one_job has executed a job and returns popped; in
\* stealing_multiqueue_threadpool_scheduler the try block declares a popped of
\* its own, and the one that is returned is still false.
\* Mutant of AfterHit: the handler executes one job instead of draining.
AfterHitReturnsFalse(w) == IF draining[w] THEN "done" ELSE "private"

AfterHit(w) ==
  IF draining[w] /\ Kind[w[1]] # "stealing_multiqueue" THEN "try" ELSE
  IF draining[w] THEN "done" ELSE "private"

AfterMiss(w) == IF draining[w] THEN "done" ELSE "private"

Tried(w) == Tries(w)[try[w]]

\* Mutant of TakeJob: a stolen job stays in the queue it was stolen from.
TakeJobKeepsStolen(w) ==
  /\ pc[w] = "try"
  /\ queue[Tried(w)] # <<>>
  /\ LET j == Head(queue[Tried(w)]) IN
       /\ job' = [job EXCEPT ![w] = j]
       /\ status' = [status EXCEPT ![j] = "running"]
  /\ queue' = IF try[w] = 1 THEN [queue EXCEPT ![Own(w)] = Tail(@)] ELSE queue
  /\ Goto(w, "job")
  /\ UNCHANGED <<told, toPost, waiting, draining, continued, held, owned, joined>>

\* try_pop of the own queue, or try_steal of another one, gives a job.
TakeJob(w) ==
  /\ pc[w] = "try"
  /\ queue[Tried(w)] # <<>>
  /\ LET j == Head(queue[Tried(w)]) IN
       /\ job' = [job EXCEPT ![w] = j]
       /\ status' = [status EXCEPT ![j] = "running"]
  /\ queue' = [queue EXCEPT ![Tried(w)] = Tail(@)]
  /\ Goto(w, "job")
  /\ UNCHANGED <<told, toPost, waiting, draining, continued, held, owned, joined>>

\* Nothing there: the next queue, and after the last one the continuations.
NextQueue(w) ==
  /\ pc[w] = "try"
  /\ queue[Tried(w)] = <<>>
  /\ IF try[w] < Len(Tries(w))
     THEN try' = [try EXCEPT ![w] = @ + 1] /\ UNCHANGED pc
     ELSE Goto(w, "scan")
  /\ UNCHANGED <<queue, status, told, job, toPost, waiting, draining, continued,
                 held, owned, joined>>

Resolved(j) ==
  \/ status[j] \in {"failed", "refused"}
  \/ status[j] = "ok" /\ (Subtasks[j] = <<>> \/ j \in continued)
  \/ \E w \in Workers : pc[w] = "done" /\ j \in waiting[w]

\* The pass over the waiting continuations; the ready ones are called.
Scan(w) ==
  /\ pc[w] = "scan"
  /\ LET ready == {p \in waiting[w] : \A s \in ToSet(Subtasks[p]) : Resolved(s)} IN
       /\ waiting' = [waiting EXCEPT ![w] = @ \ ready]
       /\ continued' = continued \cup ready
  /\ Goto(w, AfterMiss(w))
  /\ UNCHANGED <<queue, status, told, job, toPost, draining, held, owned, joined>>

\* create_continuation locks the scheduler of the worker's own pool, which
\* need not be the one the job was posted to.
ForkLock(w) ==
  /\ pc[w] = "job"
  /\ Subtasks[job[w]] # <<>>
  /\ Alive(w[1])
  /\ toPost' = [toPost EXCEPT ![w] = Subtasks[job[w]]]
  /\ Goto(w, "fork")
  /\ UNCHANGED <<queue, status, told, job, waiting, draining, continued,
                 held, owned, joined>>

ForkRefused(w) ==
  /\ pc[w] = "job"
  /\ Subtasks[job[w]] # <<>>
  /\ ~Alive(w[1])
  /\ status' = [j \in Jobs |-> IF j \in ToSet(Subtasks[job[w]]) THEN "refused" ELSE status[j]]
  /\ waiting' = [waiting EXCEPT ![w] = @ \cup {job[w]}]
  /\ Goto(w, "forked")
  /\ UNCHANGED <<queue, told, job, toPost, draining, continued, held, owned, joined>>

\* A subtask is posted with get_own_queue_index as its priority.
ForkPost(w) ==
  /\ pc[w] = "fork"
  /\ toPost[w] # <<>>
  /\ queue' = [queue EXCEPT ![Own(w)] = Append(@, Head(toPost[w]))]
  /\ status' = [status EXCEPT ![Head(toPost[w])] = "queued"]
  /\ toPost' = [toPost EXCEPT ![w] = Tail(@)]
  /\ UNCHANGED <<told, pc, try, job, waiting, draining, continued, held, owned, joined>>

ForkUnlock(w) ==
  /\ pc[w] = "fork"
  /\ toPost[w] = <<>>
  /\ waiting' = [waiting EXCEPT ![w] = @ \cup {job[w]}]
  /\ Release(w[1], owned, Lockers(w[1]) \ {w})
  /\ Goto(w, "forked")
  /\ UNCHANGED <<queue, status, job, toPost, draining, continued, held, owned, joined>>

\* The job returns, or throws before it has forked.
JobEnds(w) ==
  /\ \/ pc[w] = "forked"
     \/ pc[w] = "job"
  /\ \E how \in Ended :
       /\ pc[w] = "forked" => how = "ok"
       /\ pc[w] = "job" /\ how = "ok" => Subtasks[job[w]] = <<>>
       /\ status' = [status EXCEPT ![job[w]] = how]
  /\ job' = [job EXCEPT ![w] = None]
  /\ Goto(w, AfterHit(w))
  /\ UNCHANGED <<queue, told, toPost, waiting, draining, continued, held, owned, joined>>

\* run(): "check for shutdown".
Private(w) ==
  /\ pc[w] = "private"
  /\ draining' = [draining EXCEPT ![w] = w \in told]
  /\ told' = told \ {w}
  /\ Goto(w, "try")
  /\ UNCHANGED <<queue, status, job, toPost, waiting, continued, held, owned, joined>>

Worker(w) ==
  \/ TakeJob(w) \/ NextQueue(w) \/ Scan(w)
  \/ ForkLock(w) \/ ForkRefused(w) \/ ForkPost(w) \/ ForkUnlock(w)
  \/ JobEnds(w) \/ Private(w)

-----------------------------------------------------------------------------
Terminated == joined = Pools /\ UNCHANGED vars

Next ==
  \/ \E c \in Clients : DropComposite(c) \/ \E j \in Jobs : Post(c, j)
  \/ \E p \in Pools : ResetSubpool(p) \/ JoinSubpool(p)
  \/ \E w \in Workers : Worker(w)
  \/ Terminated

Fairness ==
  /\ \A w \in Workers : WF_vars(Worker(w))
  /\ \A p \in Pools : WF_vars(ResetSubpool(p) \/ JoinSubpool(p))

Spec == Init /\ [][Next]_vars
FairSpec == Spec /\ Fairness

-----------------------------------------------------------------------------
(* Properties                                                              *)

\* "The queue is processed completely first": a subpool that was joined
\* leaves no job in its queues, although its last workers may have passed a
\* queue before a sibling posted to it, and although nobody of the other
\* pools is obliged to steal what it leaves.
QueuesProcessedFirst ==
  \A p \in joined : \A q \in ToSet(GetQueues(p)) : queue[q] = <<>>

\* A posted job ends, whichever pool it was posted to and whoever steals it,
\* also while the pools are destroyed one after the other.
PostedJobEnds == \A j \in Jobs : status[j] = "queued" ~> status[j] \in Ended

\* The destructor of the composite returns.
CompositeJoins == held = {} ~> joined = Pools

\* Together the pools are one pool: a job starts once, wherever it is stolen,
\* and when all of them are joined none is left.
Pool == INSTANCE JobPool WITH
  state  <- [j \in Jobs |-> CASE status[j] = "queued"  -> "posted"
                              [] status[j] = "refused" -> "new"
                              [] status[j] \in Ended   -> "ended"
                              [] OTHER                 -> status[j]],
  closed <- \A p \in Pools : ~Alive(p),
  joined <- joined = Pools

RefinesJobPool == Pool!Spec
=============================================================================
