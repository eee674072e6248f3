------------------------- MODULE ThreadpoolScheduler -------------------------
(***************************************************************************)
(* threadpool_scheduler: N worker threads that share one queue, the        *)
(* private queue of each worker, the future-based continuations a worker   *)
(* keeps in thread-local storage, and the shutdown that begins when the    *)
(* last copy of any_shared_scheduler_proxy is destroyed.  Jobs may be       *)
(* posted interruptibly; interrupt() is here one step for each interrupt   *)
(* state it marks (InterruptibleJob has its locks), and a job that forks   *)
(* carries its state over to its subtasks and to its continuation.         *)
(*                                                                         *)
(* The life of the scheduler object is that of a shared_ptr.  It is owned  *)
(* by scheduler_shared_proxy_impl (implRef) and, for a moment, by every    *)
(* thread that locks the weak scheduler (locks).  Whoever drops the last   *)
(* reference runs ~threadpool_scheduler in its own thread.                 *)
(***************************************************************************)
EXTENDS Naturals, Sequences

CONSTANTS
  NumberOfWorkers,  \* m_number_of_workers
  Clients,          \* threads that own copies of the proxy
  Jobs,             \* everything that is ever posted
  Subtasks,         \* [Jobs -> SUBSET Jobs]: what create_continuation posts
  Interruptible,    \* jobs that users post by interruptible_post
  Timed,            \* jobs that use create_continuation_timeout
  MaxPrivateTasks,  \* bound: tasks pushed to the private queue of a worker
  FunctorThrows,    \* whether the registered diagnostics functor throws
  None

Workers == 1 .. NumberOfWorkers
Actors  == Clients \cup Workers

ASSUME ConstantsAssumption ==
  /\ NumberOfWorkers \in Nat \ {0}
  /\ Subtasks \in [Jobs -> SUBSET Jobs]
  /\ \A p, q \in Jobs : p # q => Subtasks[p] \cap Subtasks[q] = {}
  /\ \A p \in Jobs : Subtasks[p] \cap Interruptible = {}
  /\ Timed \subseteq Jobs
  /\ MaxPrivateTasks \in Nat
  /\ FunctorThrows \in BOOLEAN
  /\ Clients \cap Workers = {}
  /\ None \notin Jobs \cup Actors

\* Jobs that users post; the others are posted by the body of their parent.
Roots == {j \in Jobs : \A p \in Jobs : j \notin Subtasks[p]}

VARIABLES
  queue,     \* m_queue, a FIFO
  status,    \* what has become of each job
  priv,      \* m_private_queues
  pc,        \* [Workers -> where in run() the worker is]
  job,       \* the job the worker executes
  toPost,    \* subtasks the job still has to post
  waiting,   \* the continuations of the worker (their parents)
  scan,      \* continuations the current pass has not examined
  draining,  \* the worker is in the loop of its shutdown_exception handler
  continued, \* parents whose continuation (on_done) has been called
  current,   \* the "current" row of the diagnostics table
  logged,    \* jobs in the diagnostics table
  marked,    \* jobs whose interrupt_state says "interrupted"
  requested, \* those whose interrupt_state ever said so
  tss,       \* get_interrupt_state: the job whose state the thread carries
  under,     \* m_state of the continuation of a job: the state of which job
  pending,   \* boost::thread interruption requested
  held,      \* clients that own a copy of the proxy
  implRef,   \* scheduler_shared_proxy_impl::m_scheduler is set
  locks,     \* threads that own a reference got from the weak scheduler
  dtor,      \* ~threadpool_scheduler: who runs it, index of its loop
  closing,   \* progress of ~scheduler_shared_proxy_impl
  closer     \* the client that runs it

workerVars == <<pc, job, toPost, waiting, scan, draining>>
diagVars   == <<current, logged>>
ownerVars  == <<held, implRef, locks, dtor, closing, closer>>
interruptVars == <<marked, requested, tss, under, pending>>
vars == <<queue, status, priv, workerVars, continued, diagVars, ownerVars, interruptVars>>

\* "refused" and "dropped": subtasks that were never posted.
Ended    == {"ok", "failed", "skipped", "interrupted"}
Statuses == {"new", "queued", "running", "refused", "dropped"} \cup Ended
PCs      == {"try_pop", "start", "job", "fork", "forked", "scan", "private", "done"}

TypeOK ==
  /\ queue \in Seq(Jobs)
  /\ status \in [Jobs -> Statuses]
  /\ priv \in [Workers -> Seq({"task", "terminate"})]
  /\ pc \in [Workers -> PCs]
  /\ job \in [Workers -> Jobs \cup {None}]
  /\ toPost \in [Workers -> SUBSET Jobs]
  /\ waiting \in [Workers -> SUBSET Jobs]
  /\ scan \in [Workers -> SUBSET Jobs]
  /\ draining \in [Workers -> BOOLEAN]
  /\ continued \subseteq Jobs
  /\ current \in [Workers -> Jobs \cup {None}]
  /\ logged \subseteq Jobs
  /\ marked \subseteq Jobs
  /\ requested \subseteq Jobs
  /\ tss \in [Workers -> Jobs \cup {None}]
  /\ under \in [Jobs -> Jobs \cup {None}]
  /\ pending \in [Workers -> BOOLEAN]
  /\ held \subseteq Clients
  /\ implRef \in BOOLEAN
  /\ locks \subseteq Actors
  /\ dtor \in [by : Actors \cup {None}, next : 1 .. NumberOfWorkers + 1]
  /\ closing \in {"open", "reset", "join", "joined"}
  /\ closer \in Clients \cup {None}

\* The scheduler has been constructed, its threads run, one client owns it.
Init ==
  /\ queue = <<>>
  /\ status = [j \in Jobs |-> "new"]
  /\ priv = [w \in Workers |-> <<>>]
  /\ pc = [w \in Workers |-> "try_pop"]
  /\ job = [w \in Workers |-> None]
  /\ toPost = [w \in Workers |-> {}]
  /\ waiting = [w \in Workers |-> {}]
  /\ scan = [w \in Workers |-> {}]
  /\ draining = [w \in Workers |-> FALSE]
  /\ continued = {}
  /\ current = [w \in Workers |-> None]
  /\ logged = {}
  /\ marked = {}
  /\ requested = {}
  /\ tss = [w \in Workers |-> None]
  /\ under = [j \in Jobs |-> None]
  /\ pending = [w \in Workers |-> FALSE]
  /\ \E c \in Clients : held = {c}
  /\ implRef = TRUE
  /\ locks = {}
  /\ dtor = [by |-> None, next |-> 1]
  /\ closing = "open"
  /\ closer = None

-----------------------------------------------------------------------------
(* The scheduler object and its owners                                     *)

Alive == implRef \/ locks # {}

\* A thread inside a destructor does nothing else.
Free(a) == /\ dtor.by # a
           /\ ~(a = closer /\ closing \in {"reset", "join"})

\* Mutants of Release: the destructor runs when the proxy goes, whoever holds
\* a locked weak scheduler; and only when the proxy holds the last reference.
ReleaseIgnoringLocks(a, ref, refs) ==
  /\ implRef' = ref
  /\ locks' = refs
  /\ dtor' = IF ref THEN dtor ELSE [dtor EXCEPT !.by = a]

ReleaseByProxyOnly(a, ref, refs) ==
  /\ implRef' = ref
  /\ locks' = refs
  /\ dtor' = IF implRef /\ ~ref /\ refs = {} THEN [dtor EXCEPT !.by = a] ELSE dtor

\* The reference counts reach the given values: the last one to go runs
\* ~threadpool_scheduler.
Release(a, ref, refs) ==
  /\ implRef' = ref
  /\ locks' = refs
  /\ dtor' = IF ref \/ refs # {} THEN dtor ELSE [dtor EXCEPT !.by = a]

ShareProxy(c, d) ==
  /\ Free(c) /\ Free(d)
  /\ c \in held /\ d \notin held
  /\ held' = held \cup {d}
  /\ UNCHANGED <<queue, status, priv, workerVars, continued, diagVars,
                 implRef, locks, dtor, closing, closer, interruptVars>>

\* The last copy enters ~scheduler_shared_proxy_impl, which first copies the
\* thread group (get_worker).
DropProxy(c) ==
  /\ Free(c)
  /\ c \in held \ locks
  /\ held' = held \ {c}
  /\ IF held' = {} THEN closing' = "reset" /\ closer' = c
                   ELSE UNCHANGED <<closing, closer>>
  /\ UNCHANGED <<queue, status, priv, workerVars, continued, diagVars,
                 implRef, locks, dtor, interruptVars>>

\* m_scheduler.reset()
ResetScheduler ==
  /\ closing = "reset"
  /\ closing' = "join"
  /\ Release(closer, FALSE, locks)
  /\ UNCHANGED <<queue, status, priv, workerVars, continued, diagVars, held, closer,
                 interruptVars>>

\* One iteration of the loop in ~threadpool_scheduler.
PushTermination ==
  /\ dtor.by # None
  /\ priv' = [priv EXCEPT ![dtor.next] = Append(@, "terminate")]
  /\ dtor' = [by   |-> IF dtor.next = NumberOfWorkers THEN None ELSE dtor.by,
              next |-> dtor.next + 1]
  /\ UNCHANGED <<queue, status, workerVars, continued, diagVars,
                 held, implRef, locks, closing, closer, interruptVars>>

\* worker.join() returns: every thread of the group has left run().
Join ==
  /\ closing = "join"
  /\ dtor.by # closer
  /\ \A w \in Workers : pc[w] = "done"
  /\ closing' = "joined"
  /\ UNCHANGED <<queue, status, priv, workerVars, continued, diagVars,
                 held, implRef, locks, dtor, closer, interruptVars>>

\* lockable_weak_scheduler::lock() by a thread outside the pool.
ClientLock(c) ==
  /\ Free(c)
  /\ c \notin locks
  /\ Alive
  /\ locks' = locks \cup {c}
  /\ UNCHANGED <<queue, status, priv, workerVars, continued, diagVars,
                 held, implRef, dtor, closing, closer, interruptVars>>

ClientUnlock(c) ==
  /\ c \in locks
  /\ Release(c, implRef, locks \ {c})
  /\ UNCHANGED <<queue, status, priv, workerVars, continued, diagVars,
                 held, closing, closer, interruptVars>>

Owns(c) == Free(c) /\ c \in held \cup locks

ClientPost(c, j) ==
  /\ Owns(c)
  /\ j \in Roots
  /\ status[j] = "new"
  /\ status' = [status EXCEPT ![j] = "queued"]
  /\ queue' = Append(queue, j)
  /\ UNCHANGED <<priv, workerVars, continued, diagVars, ownerVars, interruptVars>>

\* set_name, processor_bind and execute_in_all_threads push one task to the
\* private queue of the workers they address.
PushPrivateTask(c, w) ==
  /\ Owns(c)
  /\ Len(priv[w]) < MaxPrivateTasks
  /\ priv' = [priv EXCEPT ![w] = Append(@, "task")]
  /\ UNCHANGED <<queue, status, workerVars, continued, diagVars, ownerVars, interruptVars>>

\* interruptible_post was used: by the user, or for a subtask by a
\* create_continuation that found an interrupt state.
HasState(j) == \/ j \in Interruptible
               \/ \E p \in Jobs : j \in Subtasks[p] /\ under[p] # None

\* Some interrupt() marks the state of j: by a handle of the user, or going
\* through m_interruptibles, which has the subtasks once all are posted.  A
\* job that runs has its thread interrupted, the others learn it from the mark.
Interrupt(j) ==
  /\ HasState(j)
  /\ status[j] \notin {"new", "refused", "dropped"}
  /\ \A w \in Workers : pc[w] = "fork" => j \notin Subtasks[job[w]]
  /\ j \notin marked
  /\ marked' = marked \cup {j}
  /\ requested' = requested \cup {j}
  /\ pending' = [w \in Workers |-> pending[w] \/ (job[w] = j /\ pc[w] # "start")]
  /\ UNCHANGED <<queue, status, priv, workerVars, continued, diagVars, ownerVars, tss, under>>

Client(c) ==
  \/ \E d \in Clients : ShareProxy(c, d)
  \/ DropProxy(c)
  \/ ClientLock(c)
  \/ ClientUnlock(c)
  \/ \E j \in Jobs : ClientPost(c, j)
  \/ \E w \in Workers : PushPrivateTask(c, w)

Shutdown == ResetScheduler \/ PushTermination \/ Join

-----------------------------------------------------------------------------
(* execute_one_job                                                         *)

Goto(w, where) == pc' = [pc EXCEPT ![w] = where]

\* Where a worker goes when execute_one_job returns: the drain loop calls it
\* again as long as it has popped a job, run() looks at the private queue.
\*
\* Mutant of AfterHit: the handler executes one job instead of draining.
AfterHitWithoutDrain(w) == IF draining[w] THEN "done" ELSE "private"

AfterHit(w)  == IF draining[w] THEN "try_pop" ELSE "private"
AfterMiss(w) == IF draining[w] THEN "done" ELSE "private"

\* Mutant of TryPopHit: the job is read and left in the queue.
TryPopHitWithoutRemoval(w) ==
  /\ pc[w] = "try_pop"
  /\ queue # <<>>
  /\ status' = [status EXCEPT ![Head(queue)] = "running"]
  /\ job' = [job EXCEPT ![w] = Head(queue)]
  /\ current' = [current EXCEPT ![w] = Head(queue)]
  /\ Goto(w, IF HasState(Head(queue)) THEN "start" ELSE "job")
  /\ UNCHANGED <<queue, priv, toPost, waiting, scan, draining, continued,
                 logged, ownerVars, interruptVars>>

TryPopHit(w) ==
  /\ pc[w] = "try_pop"
  /\ queue # <<>>
  /\ queue' = Tail(queue)
  /\ status' = [status EXCEPT ![Head(queue)] = "running"]
  /\ job' = [job EXCEPT ![w] = Head(queue)]
  /\ current' = [current EXCEPT ![w] = Head(queue)]
  /\ Goto(w, IF HasState(Head(queue)) THEN "start" ELSE "job")
  /\ UNCHANGED <<priv, toPost, waiting, scan, draining, continued, logged, ownerVars,
                 interruptVars>>

\* Mutant of TryPopMiss: the continuations are not looked at.
TryPopMissWithoutScan(w) ==
  /\ pc[w] = "try_pop"
  /\ queue = <<>>
  /\ Goto(w, "scan")
  /\ UNCHANGED <<queue, status, priv, job, toPost, waiting, scan, draining,
                 continued, diagVars, ownerVars, interruptVars>>

TryPopMiss(w) ==
  /\ pc[w] = "try_pop"
  /\ queue = <<>>
  /\ scan' = [scan EXCEPT ![w] = waiting[w]]
  /\ Goto(w, "scan")
  /\ UNCHANGED <<queue, status, priv, job, toPost, waiting, draining, continued,
                 diagVars, ownerVars, interruptVars>>

\* The future of a job is ready: it holds a value or an exception, or its
\* promise was destroyed.  A job that has forked leaves its promise to its
\* continuation, which dies with the thread that keeps it.
Resolved(j) ==
  /\ status[j] \in Ended \cup {"refused", "dropped"}
  /\ \A w \in Workers : pc[w] # "done" => j \notin waiting[w]

SubtasksResolved(p) == \A s \in Subtasks[p] : Resolved(s)

\* continuation::is_ready: "we are interrupted => we are ready"; the timeout
\* may have elapsed.
IsReady(p) == under[p] \in marked \/ SubtasksResolved(p) \/ p \in Timed

\* is_ready() is true: the continuation leaves the list and on_done runs.  An
\* exception from on_done ends the pass.
ContinuationReady(w, p) ==
  /\ pc[w] = "scan"
  /\ p \in scan[w]
  /\ IsReady(p)
  /\ waiting' = [waiting EXCEPT ![w] = @ \ {p}]
  /\ continued' = continued \cup {p}
  /\ \E rest \in {scan[w] \ {p}, {}} : scan' = [scan EXCEPT ![w] = rest]
  /\ UNCHANGED <<queue, status, priv, pc, job, toPost, draining, diagVars, ownerVars, interruptVars>>

ContinuationNotReady(w, p) ==
  /\ pc[w] = "scan"
  /\ p \in scan[w]
  /\ under[p] \notin marked /\ ~SubtasksResolved(p)
  /\ scan' = [scan EXCEPT ![w] = @ \ {p}]
  /\ UNCHANGED <<queue, status, priv, pc, job, toPost, waiting, draining, continued,
                 diagVars, ownerVars, interruptVars>>

ScanDone(w) ==
  /\ pc[w] = "scan"
  /\ scan[w] = {}
  /\ Goto(w, AfterMiss(w))
  /\ UNCHANGED <<queue, status, priv, job, toPost, waiting, scan, draining,
                 continued, diagVars, ownerVars, interruptVars>>

-----------------------------------------------------------------------------
(* The body of a job                                                       *)

\* interruptible_job: the state goes to thread-local storage and the body is
\* entered, unless the state says interrupted.
Start(w) ==
  /\ pc[w] = "start"
  /\ job[w] \notin marked
  /\ tss' = [tss EXCEPT ![w] = job[w]]
  /\ Goto(w, "job")
  /\ UNCHANGED <<queue, status, priv, job, toPost, waiting, scan, draining, continued,
                 diagVars, ownerVars, marked, requested, under, pending>>

\* create_continuation takes the interrupt state of the thread, and locks the
\* weak scheduler found in thread-local storage.
ForkLock(w) ==
  /\ pc[w] = "job"
  /\ Subtasks[job[w]] # {}
  /\ Alive
  /\ locks' = locks \cup {w}
  /\ toPost' = [toPost EXCEPT ![w] = Subtasks[job[w]]]
  /\ under' = [under EXCEPT ![job[w]] = tss[w]]
  /\ Goto(w, "fork")
  /\ UNCHANGED <<queue, status, priv, job, waiting, scan, draining, continued,
                 diagVars, held, implRef, dtor, closing, closer,
                 marked, requested, tss, pending>>

\* The scheduler is gone: no subtask is posted, their promises are destroyed,
\* the continuation is registered all the same.
ForkRefused(w) ==
  /\ pc[w] = "job"
  /\ Subtasks[job[w]] # {}
  /\ ~Alive
  /\ status' = [j \in Jobs |-> IF j \in Subtasks[job[w]] THEN "refused" ELSE status[j]]
  /\ waiting' = [waiting EXCEPT ![w] = @ \cup {job[w]}]
  /\ under' = [under EXCEPT ![job[w]] = tss[w]]
  /\ Goto(w, "forked")
  /\ UNCHANGED <<queue, priv, job, toPost, scan, draining, continued, diagVars, ownerVars,
                 marked, requested, tss, pending>>

\* Mutant of LastInterrupted: no subtask is posted once the job is interrupted.
LastInterruptedForAny(w, s) == s \in toPost[w] /\ under[job[w]] \in marked

\* Only before the last subtask is the interrupt state asked.
LastInterrupted(w, s) == toPost[w] = {s} /\ under[job[w]] \in marked

ForkPost(w, s) ==
  /\ pc[w] = "fork"
  /\ s \in toPost[w]
  /\ ~LastInterrupted(w, s)
  /\ toPost' = [toPost EXCEPT ![w] = @ \ {s}]
  /\ status' = [status EXCEPT ![s] = "queued"]
  /\ queue' = Append(queue, s)
  /\ UNCHANGED <<priv, pc, job, waiting, scan, draining, continued, diagVars, ownerVars,
                 interruptVars>>

\* The last subtask is not posted, its promise is destroyed.
ForkDrop(w, s) ==
  /\ pc[w] = "fork"
  /\ s \in toPost[w]
  /\ LastInterrupted(w, s)
  /\ toPost' = [toPost EXCEPT ![w] = {}]
  /\ status' = [status EXCEPT ![s] = "dropped"]
  /\ UNCHANGED <<queue, priv, pc, job, waiting, scan, draining, continued, diagVars,
                 ownerVars, interruptVars>>

\* The reference goes out of scope, then the continuation is registered.
ForkUnlock(w) ==
  /\ pc[w] = "fork"
  /\ toPost[w] = {}
  /\ Release(w, implRef, locks \ {w})
  /\ waiting' = [waiting EXCEPT ![w] = @ \cup {job[w]}]
  /\ Goto(w, "forked")
  /\ UNCHANGED <<queue, status, priv, job, toPost, scan, draining, continued,
                 diagVars, held, closing, closer, interruptVars>>

JobEnds(w, how) ==
  /\ Free(w)
  /\ status' = [status EXCEPT ![job[w]] = how]
  /\ job' = [job EXCEPT ![w] = None]
  /\ Goto(w, AfterHit(w))
  /\ UNCHANGED <<queue, priv, toPost, waiting, scan, draining, continued, ownerVars,
                 requested, under>>

\* Mutant of Log: the current row is not reset.
LogWithoutReset(w) == logged' = logged \cup {job[w]} /\ UNCHANGED current

Log(w) == /\ current' = [current EXCEPT ![w] = None]
          /\ logged' = logged \cup {job[w]}

\* interruptible_job calls complete(), which overwrites what the state says,
\* and removes the state from thread-local storage.
Complete(w) ==
  IF HasState(job[w])
  THEN marked' = marked \ {job[w]} /\ tss' = [tss EXCEPT ![w] = None]
  ELSE UNCHANGED <<marked, tss>>

\* The job was interrupted before it started: it returns without running.
JobSkipped(w) ==
  /\ pc[w] = "start"
  /\ job[w] \in marked
  /\ JobEnds(w, "skipped")
  /\ tss' = [tss EXCEPT ![w] = None]
  /\ Log(w)
  /\ UNCHANGED <<marked, pending>>

JobReturns(w) ==
  /\ pc[w] = "forked" \/ (pc[w] = "job" /\ Subtasks[job[w]] = {})
  /\ JobEnds(w, "ok")
  /\ Complete(w)
  /\ Log(w)
  /\ UNCHANGED pending

\* An exception, before or after the job has forked.  post_future keeps it in
\* its promise, an interruption too; a std::exception of another job ends in
\* the handler, which writes the table as for any job.
JobFails(w) ==
  /\ pc[w] \in {"job", "forked"}
  /\ JobEnds(w, "failed")
  /\ Complete(w)
  /\ Log(w)
  /\ \E p \in {pending[w], FALSE} : pending' = [pending EXCEPT ![w] = p]

\* boost::thread_interrupted leaves the job a user has posted (subtasks are
\* posted by post_future): interruptible_job cleans nothing up, the handler
\* leaves the diagnostics alone.
JobInterrupted(w) ==
  /\ pc[w] \in {"job", "forked"}
  /\ pending[w]
  /\ job[w] \in Roots
  /\ JobEnds(w, "interrupted")
  /\ pending' = [pending EXCEPT ![w] = FALSE]
  /\ UNCHANGED <<diagVars, marked, tss>>

-----------------------------------------------------------------------------
(* run(): the private queue                                                *)

\* No private task; the interruption point consumes what is pending.
PrivateMiss(w) ==
  /\ pc[w] = "private"
  /\ priv[w] = <<>>
  /\ Goto(w, "try_pop")
  /\ pending' = [pending EXCEPT ![w] = FALSE]
  /\ UNCHANGED <<queue, status, priv, job, toPost, waiting, scan, draining,
                 continued, diagVars, ownerVars, marked, requested, tss, under>>

\* default_termination_task calls the diagnostics functor and throws
\* shutdown_exception; an exception of the functor takes its place.  Both leave
\* before the interruption point.
PrivateHit(w) ==
  /\ pc[w] = "private"
  /\ priv[w] # <<>>
  /\ priv' = [priv EXCEPT ![w] = Tail(@)]
  /\ draining' = [draining EXCEPT ![w] = Head(priv[w]) = "terminate" /\ ~FunctorThrows]
  /\ pending' = [pending EXCEPT ![w] = @ /\ Head(priv[w]) = "terminate"]
  /\ Goto(w, "try_pop")
  /\ UNCHANGED <<queue, status, job, toPost, waiting, scan, continued,
                 diagVars, ownerVars, marked, requested, tss, under>>

Worker(w) ==
  \/ TryPopHit(w) \/ TryPopMiss(w)
  \/ \E p \in Jobs : ContinuationReady(w, p) \/ ContinuationNotReady(w, p)
  \/ ScanDone(w)
  \/ Start(w)
  \/ ForkLock(w) \/ ForkRefused(w)
  \/ \E s \in Jobs : ForkPost(w, s) \/ ForkDrop(w, s)
  \/ ForkUnlock(w)
  \/ JobSkipped(w)
  \/ JobReturns(w) \/ JobFails(w) \/ JobInterrupted(w)
  \/ PrivateMiss(w) \/ PrivateHit(w)

-----------------------------------------------------------------------------
\* A client that has joined the pool and owns nothing may stop.
Terminated == closing = "joined" /\ UNCHANGED vars

Next ==
  \/ \E c \in Clients : Client(c)
  \/ \E j \in Jobs : Interrupt(j)
  \/ Shutdown
  \/ \E w \in Workers : Worker(w)
  \/ Terminated

\* Threads are scheduled, jobs and destructors do not block for ever, and a
\* reference got from a weak scheduler is released.
Fairness ==
  /\ \A w \in Workers : WF_vars(Worker(w))
  /\ WF_vars(ResetScheduler) /\ WF_vars(PushTermination) /\ WF_vars(Join)
  /\ \A c \in Clients : WF_vars(ClientUnlock(c))

Spec     == Init /\ [][Next]_vars
FairSpec == Spec /\ Fairness
-----------------------------------------------------------------------------
(* Properties                                                              *)

\* No worker is told to stop, and none stops, while anybody can still post:
\* ~threadpool_scheduler is the only source of the termination task and it
\* runs after the last strong reference, of a proxy or of a locked weak
\* scheduler, is gone.
TerminationAfterLastReference ==
  \A w \in Workers :
    draining[w] \/ pc[w] = "done" \/ "terminate" \in {priv[w][i] : i \in DOMAIN priv[w]}
      => ~Alive

\* "The queue is processed completely first": a worker that has left run()
\* leaves no posted job behind, neither in the shared queue nor, as a task of
\* execute_in_all_threads, in its private queue.
NothingLeftBehind ==
  \A w \in Workers :
    pc[w] = "done" => /\ queue = <<>>
                      /\ priv[w] = <<>>
                      /\ toPost[w] = {}

\* A job is in one place: it is queued once, or executed by one worker, or
\* in neither case.  Two workers never execute the same job.
JobInOnePlace ==
  /\ \A i, k \in DOMAIN queue : i # k => queue[i] # queue[k]
  /\ \A j \in Jobs : status[j] = "queued" <=> \E i \in DOMAIN queue : queue[i] = j
  /\ \A j \in Jobs : status[j] = "running" <=> \E w \in Workers : job[w] = j
  /\ \A v, w \in Workers : v # w /\ job[v] # None => job[v] # job[w]

\* on_done of a continuation without timeout runs after every subtask has
\* given its result, whichever workers executed them; or after somebody has
\* interrupted the job whose interrupt state the continuation carries.
ContinuationAfterSubtasks ==
  \A p \in continued \ Timed : SubtasksResolved(p) \/ under[p] \in requested

\* The continuation of p has been registered.
Registered(p) == p \in continued \/ \E w \in Workers : p \in waiting[w]

WasPosted(s) == status[s] \notin {"new", "refused", "dropped"}

\* A continuation is kept by the worker that created it and is called once:
\* it is in one list, and in none once on_done has been called.
ContinuationOnce ==
  \A w \in Workers :
    /\ waiting[w] \cap continued = {}
    /\ \A v \in Workers : v # w => waiting[v] \cap waiting[w] = {}

\* The subtasks of a job share its fate: once its continuation is registered,
\* all of them have been posted, or all were refused by a scheduler that is
\* gone; an interruption in the middle spares one of them and no more.  A job
\* that returns has not left its subtasks out.
ForkAllOrNone ==
  \A p \in Jobs :
    /\ Registered(p) =>
         \/ \A s \in Subtasks[p] : WasPosted(s)
         \/ \A s \in Subtasks[p] : status[s] = "refused"
         \/ /\ under[p] \in requested
            /\ \E d \in Subtasks[p] : /\ status[d] = "dropped"
                                      /\ \A s \in Subtasks[p] \ {d} : WasPosted(s)
    /\ status[p] = "ok" => Subtasks[p] = {} \/ Registered(p)

\* Fork and join of continuations: all three of the above.
ForkJoinCorrect == ContinuationAfterSubtasks /\ ContinuationOnce /\ ForkAllOrNone

\* What the diagnostics table shows: a worker between two jobs has no current
\* job unless an interruption ended it, and a job that returned, failed or was
\* skipped is logged.
DiagnosticsAgree ==
  /\ \A w \in Workers :
       job[w] = None /\ current[w] # None => status[current[w]] = "interrupted"
  /\ \A j \in Jobs : status[j] \in {"ok", "failed", "skipped"} <=> j \in logged

\* Every job is in one place and recorded there: both of the above.
JobsAccountedFor == JobInOnePlace /\ DiagnosticsAgree

\* README: "Diagnostics will show that the task was interrupted."  The handler
\* of thread_interrupted in execute_one_job writes no diagnostics.
InterruptedIsLogged ==
  \A j \in Jobs : status[j] = "interrupted" => j \in logged

\* create_continuation: "on_done. Functor called upon completion of sub-tasks."
\* When the pool is joined, no continuation is left uncalled whose subtasks
\* have all been executed.  A worker that drains drops those it still keeps.
NoContinuationDropped ==
  closing = "joined" =>
    \A w \in Workers : \A p \in waiting[w] :
      \E s \in Subtasks[p] : status[s] \notin Ended

\* Destroying the last proxy joins the pool, whoever still holds a locked
\* weak scheduler and whatever is still queued.
ShutdownCompletes == closing = "reset" ~> closing = "joined"

\* A job is queued or running, or a worker that is not being shut down keeps a
\* continuation.
WorkLeft ==
  \/ \E j \in Jobs : status[j] \in {"queued", "running"}
  \/ \E w \in Workers : waiting[w] # {} /\ ~draining[w]

\* Whoever posts is served: every posted job ends, before or during the shutdown,
\* and every continuation is called unless its thread is being shut down, also
\* when its timeout or an interruption races the end of its last subtask.  The
\* jobs are finitely many, and none comes back.
PostedWorkEnds == WorkLeft ~> ~WorkLeft

\* The scheduler implements what JobPool promises; it never hears of a subtask
\* that an interruption spares.
Seen(st) == CASE st = "queued" -> "posted"
              [] st = "dropped" -> "new"
              [] st \in Ended  -> "ended"
              [] OTHER         -> st

PoolState == [j \in Jobs |-> Seen(status[j])]

Pool == INSTANCE JobPool WITH
  state <- PoolState, closed <- ~Alive, joined <- closing = "joined"

RefinesJobPool == Pool!Spec
=============================================================================
