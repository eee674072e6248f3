---------------------------- MODULE IoThreadpool ----------------------------
(***************************************************************************)
(* io_threadpool_scheduler: a pool with permanent workers (run_always) and *)
(* temporary ones (run_once), which a post creates while more than one job *)
(* is queued and which end when the queue is empty.  An ending thread      *)
(* joins those that ended before it, under the mutex of the thread count,  *)
(* unless the destructor of the last proxy has begun to join all of them.  *)
(*                                                                         *)
(* A job may create a continuation: it posts one subtask and waits for it. *)
(* Failing jobs and the tasks of the private queues are those of           *)
(* ThreadpoolScheduler.  A temporary worker has no private queue; what     *)
(* run_loop then calls is an empty any_callable, whose exception it drops. *)
(***************************************************************************)
EXTENDS Naturals, Sequences, FiniteSets

CONSTANTS
  MinWorkers, MaxWorkers,  \* m_min_, m_max_number_of_workers
  Clients,                 \* threads outside the pool
  Jobs,
  Subtask,                 \* [Jobs -> Jobs \cup {None}]
  None

\* Every post creates one thread at most: there is no other bound on them.
Threads == 1 .. MinWorkers + Cardinality(Jobs)
Permanent == 1 .. MinWorkers

ASSUME WorkersAssumption ==
  /\ MinWorkers \in Nat /\ MaxWorkers \in Nat /\ MinWorkers <= MaxWorkers
  /\ IsFiniteSet(Jobs)
  /\ Subtask \in [Jobs -> Jobs \cup {None}]
  \* A subtask belongs to one continuation.
  /\ \A p, q \in Jobs : p # q /\ Subtask[p] # None => Subtask[p] # Subtask[q]
  /\ Clients \cap Threads = {}
  /\ None \notin Jobs \cup Clients \cup Threads

Roots == {j \in Jobs : \A p \in Jobs : Subtask[p] # j}

VARIABLES
  queue,     \* m_queue
  status,    \* what has become of each job
  created,   \* number of threads created so far
  count,     \* m_current_number_of_workers
  group,     \* m_group: threads not yet handed to a cleanup_group
  doneSet,   \* m_done_threads
  joining,   \* m_joining
  mutex,     \* who holds m_current_number_of_workers_mutex between two steps
  pc,        \* where a thread or client is
  job,       \* the job a thread executes
  waiting,   \* its continuations
  continued, \* jobs whose continuation was called
  toJoin,    \* to_join_threads of a thread in cleanup_threads
  draining,  \* a permanent worker is in its shutdown_exception handler
  told,      \* workers with a termination task in their private queue
  held,      \* clients that own a copy of the proxy
  implRef,   \* scheduler_shared_proxy_impl::m_scheduler is set
  locks,     \* who has locked the weak scheduler
  closing    \* progress of ~scheduler_shared_proxy_impl

poolVars  == <<created, count, group, doneSet, joining, mutex>>
workVars  == <<job, waiting, continued, toJoin, draining>>
ownerVars == <<told, held, implRef, locks, closing>>
vars == <<queue, status, pc, poolVars, workVars, ownerVars>>

Created == 1 .. created
Actors  == Clients \cup Threads

TypeOK ==
  /\ queue \in Seq(Jobs)
  /\ status \in [Jobs -> {"new", "queued", "running", "ended", "refused"}]
  /\ created \in 0 .. Cardinality(Threads)
  /\ count \in 0 .. MaxWorkers
  /\ group \subseteq Created /\ doneSet \subseteq Created
  /\ joining \in BOOLEAN
  /\ mutex \in Threads \cup {None}
  /\ pc \in [Actors -> {"off", "idle", "create", "try", "job", "return", "private",
                        "test", "collect", "remove", "join", "finish", "insert", "end"}]
  /\ job \in [Threads -> Jobs \cup {None}]
  /\ waiting \in [Threads -> SUBSET Jobs]
  /\ continued \subseteq Jobs
  /\ toJoin \in [Threads -> SUBSET Created]
  /\ draining \in [Threads -> BOOLEAN]
  /\ told \subseteq Permanent
  /\ held \subseteq Clients /\ implRef \in BOOLEAN
  /\ locks \subseteq Actors
  /\ closing \in {"open", "get_worker", "reset", "join", "joined"}

\* constructor_done has created the permanent workers.
Init ==
  /\ queue = <<>>
  /\ status = [j \in Jobs |-> "new"]
  /\ created = MinWorkers /\ count = MinWorkers
  /\ group = Permanent /\ doneSet = {}
  /\ joining = FALSE
  /\ mutex = None
  /\ pc = [a \in Actors |-> IF a \in Clients THEN "idle" ELSE
                            IF a \in Permanent THEN "try" ELSE "off"]
  /\ job = [t \in Threads |-> None]
  /\ waiting = [t \in Threads |-> {}]
  /\ continued = {}
  /\ toJoin = [t \in Threads |-> {}]
  /\ draining = [t \in Threads |-> FALSE]
  /\ told = {}
  /\ held = Clients
  /\ implRef = TRUE
  /\ locks = {}
  /\ closing = "open"

Goto(a, where) == pc' = [pc EXCEPT ![a] = where]

-----------------------------------------------------------------------------
(* Posting                                                                 *)

\* The scheduler goes with its last owner: one termination task for every
\* permanent worker.
Release(ref, refs) ==
  /\ implRef' = ref
  /\ locks' = refs
  /\ told' = IF ref \/ refs # {} THEN told ELSE told \cup Permanent

ClientPost(c, j) ==
  /\ pc[c] = "idle"
  /\ c \in held \cup locks
  /\ j \in Roots /\ status[j] = "new"
  /\ queue' = Append(queue, j)
  /\ status' = [status EXCEPT ![j] = "queued"]
  /\ Goto(c, "create")
  /\ UNCHANGED <<poolVars, workVars, ownerVars>>

\* The body of a job creates a continuation.  A scheduler that is gone
\* accepts no subtask; the continuation is kept all the same.
Fork(t) ==
  /\ pc[t] = "job"
  /\ Subtask[job[t]] # None
  /\ LET s == Subtask[job[t]] IN
       IF implRef \/ locks # {}
       THEN /\ queue' = Append(queue, s)
            /\ status' = [status EXCEPT ![s] = "queued"]
            /\ locks' = locks \cup {t}
            /\ Goto(t, "create")
       ELSE /\ status' = [status EXCEPT ![s] = "refused"]
            /\ Goto(t, "return")
            /\ UNCHANGED <<queue, locks>>
  /\ waiting' = [waiting EXCEPT ![t] = @ \cup {job[t]}]
  /\ UNCHANGED <<poolVars, job, continued, toJoin, draining, told, held, implRef, closing>>

\* Mutant of ThreadNeeded: the count is compared without the new thread.
ThreadNeededOffByOne == count <= MaxWorkers /\ Len(queue) > 1 /\ ~joining

ThreadNeeded == count + 1 <= MaxWorkers /\ Len(queue) > 1 /\ ~joining

\* try_create_thread, the end of post.
TryCreateThread(a) ==
  /\ pc[a] = "create"
  /\ mutex = None
  /\ LET t == created + 1
         next == [pc EXCEPT ![a] = IF a \in Threads THEN "return" ELSE "idle"] IN
       IF ThreadNeeded
       THEN /\ created' = t
            /\ count' = count + 1
            /\ group' = group \cup {t}
            /\ pc' = [next EXCEPT ![t] = "try"]
       ELSE /\ pc' = next
            /\ UNCHANGED <<created, count, group>>
  /\ IF a \in Threads THEN Release(implRef, locks \ {a})
                      ELSE UNCHANGED <<implRef, locks, told>>
  /\ UNCHANGED <<queue, status, doneSet, joining, mutex, workVars, held, closing>>

-----------------------------------------------------------------------------
(* Workers                                                                 *)

\* Mutant of After: the handler of shutdown_exception does not drain.
AfterWithoutDrain(t, popped) ==
  IF t \notin Permanent THEN "test" ELSE
  IF ~draining[t] THEN "private" ELSE "end"

\* Where run_always and run_once go when execute_one_job returns.
After(t, popped) ==
  IF t \notin Permanent THEN "test" ELSE
  IF ~draining[t] THEN "private" ELSE
  IF popped THEN "try" ELSE "end"

TryPopHit(t) ==
  /\ pc[t] = "try"
  /\ queue # <<>>
  /\ queue' = Tail(queue)
  /\ job' = [job EXCEPT ![t] = Head(queue)]
  /\ status' = [status EXCEPT ![Head(queue)] = "running"]
  /\ Goto(t, "job")
  /\ UNCHANGED <<poolVars, waiting, continued, toJoin, draining, ownerVars>>

\* The future of a subtask is ready: its value, or its broken promise.
Resolved(j) ==
  \/ status[j] = "refused"
  \/ status[j] = "ended" /\ (Subtask[j] = None \/ j \in continued)
  \/ \E t \in Threads : pc[t] = "end" /\ j \in waiting[t]

\* The queue is empty: the continuations that are ready are called.
TryPopMiss(t) ==
  /\ pc[t] = "try"
  /\ queue = <<>>
  /\ LET ready == {p \in waiting[t] : Resolved(Subtask[p])} IN
       /\ continued' = continued \cup ready
       /\ waiting' = [waiting EXCEPT ![t] = @ \ ready]
  /\ Goto(t, After(t, FALSE))
  /\ UNCHANGED <<queue, status, poolVars, job, toJoin, draining, ownerVars>>

JobEnds(t) ==
  /\ pc[t] = "return" \/ (pc[t] = "job" /\ Subtask[job[t]] = None)
  /\ status' = [status EXCEPT ![job[t]] = "ended"]
  /\ job' = [job EXCEPT ![t] = None]
  /\ Goto(t, After(t, TRUE))
  /\ UNCHANGED <<queue, poolVars, waiting, continued, toJoin, draining, ownerVars>>

\* A permanent worker looks at its private queue.
Private(t) ==
  /\ pc[t] = "private"
  /\ draining' = [draining EXCEPT ![t] = t \in told]
  /\ told' = told \ {t}
  /\ Goto(t, "try")
  /\ UNCHANGED <<queue, status, poolVars, job, waiting, continued, toJoin, held,
                 implRef, locks, closing>>

\* test_worker_loop
TestWorkerLoop(t) ==
  /\ pc[t] = "test"
  /\ mutex = None
  /\ Goto(t, IF queue # <<>> /\ ~joining THEN "try" ELSE "collect")
  /\ UNCHANGED <<queue, status, poolVars, workVars, ownerVars>>

\* Mutant of Collect: m_done_threads is not cleared.
CollectWithoutClear(t) ==
  /\ pc[t] = "collect"
  /\ toJoin' = [toJoin EXCEPT ![t] = doneSet]
  /\ Goto(t, "remove")
  /\ UNCHANGED <<queue, status, poolVars, job, waiting, continued, draining, ownerVars>>

\* cleanup_threads: the threads that have ended ...
Collect(t) ==
  /\ pc[t] = "collect"
  /\ toJoin' = [toJoin EXCEPT ![t] = doneSet]
  /\ doneSet' = {}
  /\ Goto(t, "remove")
  /\ UNCHANGED <<queue, status, created, count, group, joining, mutex, job, waiting,
                 continued, draining, ownerVars>>

\* boost::thread_group has a mutex of its own: join_all keeps it while it joins,
\* and remove_thread needs it.
GroupFree == closing # "join"

\* ... leave the group; unless all threads are being joined ...
Remove(t) ==
  /\ pc[t] = "remove"
  /\ mutex = None
  /\ IF joining
     THEN /\ toJoin' = [toJoin EXCEPT ![t] = {}]
          /\ Goto(t, "finish")
          /\ UNCHANGED <<group, mutex>>
     ELSE /\ GroupFree
          /\ group' = group \ toJoin[t]
          /\ mutex' = t
          /\ Goto(t, "join")
          /\ UNCHANGED toJoin
  /\ UNCHANGED <<queue, status, created, count, doneSet, joining, job, waiting,
                 continued, draining, ownerVars>>

\* ... and are joined and deleted, with the mutex held.
JoinOlder(t) ==
  /\ pc[t] = "join"
  /\ \A old \in toJoin[t] : pc[old] = "end"
  /\ toJoin' = [toJoin EXCEPT ![t] = {}]
  /\ mutex' = None
  /\ Goto(t, "finish")
  /\ UNCHANGED <<queue, status, created, count, group, doneSet, joining, job, waiting,
                 continued, draining, ownerVars>>

\* thread_finished: two critical sections.
Finish(t) ==
  \/ /\ pc[t] = "finish"
     /\ mutex = None
     /\ count' = count - 1
     /\ Goto(t, "insert")
     /\ UNCHANGED <<queue, status, created, group, doneSet, joining, mutex, workVars, ownerVars>>
  \/ /\ pc[t] = "insert"
     /\ doneSet' = doneSet \cup {t}
     /\ Goto(t, "end")
     /\ UNCHANGED <<queue, status, created, count, group, joining, mutex, workVars, ownerVars>>

-----------------------------------------------------------------------------
(* Owners                                                                  *)

\* The last copy enters ~scheduler_shared_proxy_impl.
DropProxy(c) ==
  /\ pc[c] = "idle"
  /\ c \in held
  /\ held' = held \ {c}
  /\ closing' = IF held' = {} THEN "get_worker" ELSE closing
  /\ UNCHANGED <<queue, status, pc, poolVars, workVars, told, implRef, locks>>

\* Mutant of GetWorker: ending threads are not told of the join.
GetWorkerWithoutJoining ==
  /\ closing = "get_worker"
  /\ mutex = None
  /\ closing' = "reset"
  /\ UNCHANGED <<queue, status, pc, poolVars, workVars, told, held, implRef, locks>>

GetWorker ==
  /\ closing = "get_worker"
  /\ mutex = None
  /\ joining' = TRUE
  /\ closing' = "reset"
  /\ UNCHANGED <<queue, status, pc, created, count, group, doneSet, mutex, workVars,
                 told, held, implRef, locks>>

ResetScheduler ==
  /\ closing = "reset"
  /\ closing' = "join"
  /\ Release(FALSE, locks)
  /\ UNCHANGED <<queue, status, pc, poolVars, workVars, held>>

JoinAll ==
  /\ closing = "join"
  /\ \A t \in group : pc[t] = "end"
  /\ closing' = "joined"
  /\ UNCHANGED <<queue, status, pc, poolVars, workVars, told, held, implRef, locks>>

\* A client locks its weak scheduler, and releases it.
ClientLock(c) ==
  /\ pc[c] = "idle"
  /\ c \notin locks
  /\ implRef \/ locks # {}
  /\ locks' = locks \cup {c}
  /\ UNCHANGED <<queue, status, pc, poolVars, workVars, told, held, implRef, closing>>

ClientUnlock(c) ==
  /\ pc[c] = "idle"
  /\ c \in locks
  /\ Release(implRef, locks \ {c})
  /\ UNCHANGED <<queue, status, pc, poolVars, workVars, held, closing>>

-----------------------------------------------------------------------------
Client(c) ==
  \/ DropProxy(c) \/ ClientLock(c) \/ ClientUnlock(c)
  \/ \E j \in Jobs : ClientPost(c, j)

Thread(t) ==
  \/ TryPopHit(t) \/ TryPopMiss(t) \/ Fork(t) \/ JobEnds(t) \/ Private(t)
  \/ TestWorkerLoop(t) \/ Collect(t) \/ Remove(t) \/ JoinOlder(t) \/ Finish(t)

Terminated == closing = "joined" /\ UNCHANGED vars

Next ==
  \/ \E c \in Clients : Client(c)
  \/ \E t \in Threads : Thread(t)
  \/ \E a \in Actors : TryCreateThread(a)
  \/ GetWorker \/ ResetScheduler \/ JoinAll
  \/ Terminated

\* Threads are scheduled; a lock of the weak scheduler is released.  A thread
\* keeps the mutex between two steps once in its life, so that weak fairness
\* suffices for those that wait for it.
Fairness ==
  /\ \A t \in Threads : WF_vars(Thread(t) \/ TryCreateThread(t))
  /\ \A c \in Clients : WF_vars(TryCreateThread(c))
  /\ WF_vars(GetWorker) /\ WF_vars(ResetScheduler) /\ WF_vars(JoinAll)
  /\ \A c \in Clients : WF_vars(ClientUnlock(c))

Spec == Init /\ [][Next]_vars
FairSpec == Spec /\ Fairness

-----------------------------------------------------------------------------
(* Properties                                                              *)

\* The threads in which jobs may run are never more than the maximum, whoever
\* posts while others end: the count is lowered only by a thread that will
\* take no further job.
WorkersBounded ==
  Cardinality({t \in Created : pc[t] \notin {"insert", "end"}}) <= MaxWorkers

\* A boost::thread object is joined and deleted once: the threads that an
\* ending thread takes out of the group are still in it, nobody else takes
\* them, and they do not include the thread itself.
ThreadOwnedOnce ==
  \A t \in Created :
    /\ pc[t] = "remove" => toJoin[t] \subseteq group \ {t}
    /\ \A u \in Created \ {t} : toJoin[t] \cap toJoin[u] = {}

\* Both of the above.
ThreadsAccountedFor == WorkersBounded /\ ThreadOwnedOnce

\* The destructor of the last proxy returns, although threads join each other
\* under the mutex that ending threads and get_worker need ("join. Not blocking
\* as all these threads are finished").
ShutdownCompletes == closing = "get_worker" ~> closing = "joined"

\* Nobody can post any more.
Closed == ~implRef /\ locks = {}

\* The last proxy is gone and no thread of the pool runs.
AllEnded == closing = "joined" /\ \A t \in Created : pc[t] = "end"

PoolState == [j \in Jobs |-> IF status[j] = "queued" THEN "posted" ELSE status[j]]

\* With a permanent worker the pool is a JobPool: in particular the temporary
\* workers that were joined by others have all ended when it is joined.
Pool == INSTANCE JobPool WITH
  state <- PoolState, closed <- Closed, joined <- AllEnded

RefinesJobPool == Pool!Spec

\* continuation_task.hpp: "on_done. Functor called upon completion of
\* sub-tasks."  The continuations of a temporary worker end with it.
ContinuationCalled ==
  \A p \in Jobs :
    status[p] = "ended" /\ Subtask[p] # None ~> p \in continued \/ joining

\* "create a new thread if needed": a job that waits while every worker is
\* busy gets a worker as long as there are fewer than the maximum.
JobGetsWorker ==
  \A j \in Jobs :
    status[j] = "queued" /\ (\A a \in Actors : pc[a] # "create")
      => count = MaxWorkers \/ joining \/ \E t \in Created : pc[t] # "job"
=============================================================================
