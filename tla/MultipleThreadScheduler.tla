----------------------- MODULE MultipleThreadScheduler -----------------------
(***************************************************************************)
(* multiple_thread_scheduler: N workers serve M queues ("worlds"), at most *)
(* one worker at a time serving a world, and the servants whose proxies    *)
(* post to it.  A servant is known by the m_offset_id of its proxy.        *)
(*                                                                         *)
(* The world of a job is computed from the priority it is posted with, so  *)
(* the way in which each kind of post forms that priority is modelled.     *)
(* Continuations and the ownership of the scheduler are those of module    *)
(* ThreadpoolScheduler and are left out.                                   *)
(***************************************************************************)
EXTENDS Naturals, Sequences

CONSTANTS
  NumberOfWorkers,
  MaxNumberOfClients,  \* number of worlds
  Jobs,
  Kind,                \* [Jobs -> Kinds]: how a job is posted
  OffsetId,            \* [Jobs -> Nat]: m_offset_id of the servant it belongs to
  None

Workers == 0 .. NumberOfWorkers - 1
Worlds  == 0 .. MaxNumberOfClients - 1

\* BOOST_ASYNC_POST_MEMBER, BOOST_ASYNC_FUTURE_MEMBER, a callback of
\* make_safe_callback, the servant_deleter that ~servant_proxy posts.
Kinds == {"void", "future", "callback", "deleter"}

WorldSize == 100000

\* servant_proxy::post
ProxyPrio(prio, id) == prio + WorldSize * id

\* The priority that reaches the scheduler.  A user of callbacks passes the
\* priority of the world of the servant.
Prio(j) ==
  CASE Kind[j] = "void"     -> ProxyPrio(WorldSize * OffsetId[j], OffsetId[j])
    [] Kind[j] = "future"   -> WorldSize * OffsetId[j]
    [] Kind[j] = "callback" -> WorldSize * OffsetId[j]
    [] Kind[j] = "deleter"  -> 0

World(j) == Prio(j) \div WorldSize

ASSUME ConstantsAssumption ==
  /\ NumberOfWorkers \in Nat \ {0}
  /\ MaxNumberOfClients \in Nat \ {0}
  /\ Kind \in [Jobs -> Kinds]
  /\ OffsetId \in [Jobs -> Nat]
  /\ None \notin Jobs

\* post() asserts that the queue exists.
ASSUME WorldsExist == \A j \in Jobs : World(j) \in Worlds

VARIABLES
  queues,    \* m_queues of each world, FIFOs
  taken,     \* m_taken of each world
  status,    \* "new", "queued", "running", "ran" (body left), "ended" (destroyed)
  pc, job,   \* the worker and its local variable job
  cur,       \* current_servant of each worker
  tries,     \* i in the loop of execute_one_job
  stop,      \* workers with a termination task in their private queue
  draining,  \* workers in the loop of the shutdown_exception handler
  closing,   \* ~multiple_thread_scheduler has begun
  pushed,    \* index of its loop
  posted,    \* [Worlds -> jobs in the order of the posts]
  completed  \* [Worlds -> jobs in the order in which their bodies were left]

vars == <<queues, taken, status, pc, job, cur, tries, stop, draining, closing,
          pushed, posted, completed>>

TypeOK ==
  /\ queues \in [Worlds -> Seq(Jobs)]
  /\ taken \in [Worlds -> BOOLEAN]
  /\ status \in [Jobs -> {"new", "queued", "running", "ran", "ended"}]
  /\ pc \in [Workers -> {"scan", "pop", "untake", "job", "body", "after",
                         "private", "done"}]
  /\ job \in [Workers -> Jobs \cup {None}]
  /\ cur \in [Workers -> Worlds]
  /\ tries \in [Workers -> 0 .. MaxNumberOfClients]
  /\ stop \subseteq Workers
  /\ draining \subseteq Workers
  /\ closing \in BOOLEAN
  /\ pushed \in 0 .. NumberOfWorkers
  /\ posted \in [Worlds -> Seq(Jobs)]
  /\ completed \in [Worlds -> Seq(Jobs)]

Init ==
  /\ queues = [k \in Worlds |-> <<>>]
  /\ taken = [k \in Worlds |-> FALSE]
  /\ status = [j \in Jobs |-> "new"]
  /\ pc = [w \in Workers |-> "scan"]
  /\ job = [w \in Workers |-> None]
  /\ cur = [w \in Workers |-> 0]
  /\ tries = [w \in Workers |-> 0]
  /\ stop = {}
  /\ draining = {}
  /\ closing = FALSE
  /\ pushed = 0
  /\ posted = [k \in Worlds |-> <<>>]
  /\ completed = [k \in Worlds |-> <<>>]

-----------------------------------------------------------------------------
(* Servants                                                                *)

\* Jobs that capture the shared_ptr to the servant.
Members(id) == {j \in Jobs : OffsetId[j] = id /\ Kind[j] \in {"void", "future"}}

Deleters(id) == {j \in Jobs : OffsetId[j] = id /\ Kind[j] = "deleter"}

\* The deleter has reset its shared_ptr and no captured one is left.
Destroyed(id) ==
  /\ \E d \in Deleters(id) : status[d] \in {"ran", "ended"}
  /\ \A j \in Members(id) : status[j] \in {"new", "ended"}

-----------------------------------------------------------------------------
(* Owners of the scheduler                                                 *)

\* A proxy posts members until it is destroyed, and then its deleter.
Post(j) ==
  /\ ~closing
  /\ status[j] = "new"
  /\ Kind[j] \in {"void", "future"} =>
       \A d \in Deleters(OffsetId[j]) : status[d] = "new"
  /\ status' = [status EXCEPT ![j] = "queued"]
  /\ queues' = [queues EXCEPT ![World(j)] = Append(@, j)]
  /\ posted' = [posted EXCEPT ![World(j)] = Append(@, j)]
  /\ UNCHANGED <<taken, pc, job, cur, tries, stop, draining, closing, pushed, completed>>

\* The last owner is gone.
Close ==
  /\ ~closing
  /\ closing' = TRUE
  /\ UNCHANGED <<queues, taken, status, pc, job, cur, tries, stop, draining, pushed,
                 posted, completed>>

\* Mutant of PushTermination: one iteration too many.
PushTerminationPastEnd ==
  /\ closing
  /\ pushed <= NumberOfWorkers
  /\ stop' = stop \cup ({pushed} \cap Workers)
  /\ pushed' = pushed + 1
  /\ UNCHANGED <<queues, taken, status, pc, job, cur, tries, draining, closing,
                 posted, completed>>

\* One iteration of the loop of ~multiple_thread_scheduler.
PushTermination ==
  /\ closing
  /\ pushed < NumberOfWorkers
  /\ stop' = stop \cup {pushed}
  /\ pushed' = pushed + 1
  /\ UNCHANGED <<queues, taken, status, pc, job, cur, tries, draining, closing,
                 posted, completed>>

-----------------------------------------------------------------------------
(* execute_one_job                                                         *)

Goto(w, where) == pc' = [pc EXCEPT ![w] = where]

NextWorld(w) == (cur[w] + 1) % MaxNumberOfClients

\* compare_exchange_strong on m_taken of the next world fails.
TakeFails(w) ==
  /\ pc[w] = "scan"
  /\ tries[w] < MaxNumberOfClients
  /\ taken[NextWorld(w)]
  /\ cur' = [cur EXCEPT ![w] = NextWorld(w)]
  /\ tries' = [tries EXCEPT ![w] = @ + 1]
  /\ UNCHANGED <<queues, taken, status, pc, job, stop, draining, closing, pushed,
                 posted, completed>>

\* Mutant of Take: the world is visited whether it is taken or not.
TakeUnconditionally(w) ==
  /\ pc[w] = "scan"
  /\ tries[w] < MaxNumberOfClients
  /\ taken' = [taken EXCEPT ![NextWorld(w)] = TRUE]
  /\ cur' = [cur EXCEPT ![w] = NextWorld(w)]
  /\ tries' = [tries EXCEPT ![w] = @ + 1]
  /\ Goto(w, "pop")
  /\ UNCHANGED <<queues, status, job, stop, draining, closing, pushed,
                 posted, completed>>

Take(w) ==
  /\ pc[w] = "scan"
  /\ tries[w] < MaxNumberOfClients
  /\ ~taken[NextWorld(w)]
  /\ taken' = [taken EXCEPT ![NextWorld(w)] = TRUE]
  /\ cur' = [cur EXCEPT ![w] = NextWorld(w)]
  /\ tries' = [tries EXCEPT ![w] = @ + 1]
  /\ Goto(w, "pop")
  /\ UNCHANGED <<queues, status, job, stop, draining, closing, pushed,
                 posted, completed>>

PopHit(w) ==
  /\ pc[w] = "pop"
  /\ queues[cur[w]] # <<>>
  /\ LET j == Head(queues[cur[w]])
     IN job' = [job EXCEPT ![w] = j] /\ status' = [status EXCEPT ![j] = "running"]
  /\ queues' = [queues EXCEPT ![cur[w]] = Tail(@)]
  /\ Goto(w, "job")
  /\ UNCHANGED <<taken, cur, tries, stop, draining, closing, pushed,
                 posted, completed>>

PopMiss(w) ==
  /\ pc[w] = "pop"
  /\ queues[cur[w]] = <<>>
  /\ Goto(w, "untake")
  /\ UNCHANGED <<queues, taken, status, job, cur, tries, stop, draining, closing,
                 pushed, posted, completed>>

\* Mutant of Untake: the flag is not given back.
UntakeForgotten(w) ==
  /\ pc[w] = "untake"
  /\ Goto(w, "scan")
  /\ UNCHANGED <<queues, taken, status, job, cur, tries, stop, draining, closing,
                 pushed, posted, completed>>

Untake(w) ==
  /\ pc[w] = "untake"
  /\ taken' = [taken EXCEPT ![cur[w]] = FALSE]
  /\ Goto(w, "scan")
  /\ UNCHANGED <<queues, status, job, cur, tries, stop, draining, closing, pushed,
                 posted, completed>>

\* Where a worker goes when execute_one_job returns.
\*
\* Mutants: the shutdown handler executes one job and returns; the shutdown
\* handler returns to the loop of run().
AfterHitWithoutDrain(w) == IF w \in draining THEN "done" ELSE "private"
AfterMissKeepsRunning(w) == "private"

AfterHit(w)  == IF w \in draining THEN "scan" ELSE "private"
AfterMiss(w) == IF w \in draining THEN "done" ELSE "private"

\* Every world was tried.
ScanMiss(w) ==
  /\ pc[w] = "scan"
  /\ tries[w] = MaxNumberOfClients
  /\ tries' = [tries EXCEPT ![w] = 0]
  /\ Goto(w, AfterMiss(w))
  /\ UNCHANGED <<queues, taken, status, job, cur, stop, draining, closing, pushed,
                 posted, completed>>

\* A callback tests that its servant is alive, then uses it.
Enter(w) ==
  /\ pc[w] = "job"
  /\ ~(Kind[job[w]] = "callback" /\ Destroyed(OffsetId[job[w]]))
  /\ Goto(w, "body")
  /\ UNCHANGED <<queues, taken, status, job, cur, tries, stop, draining, closing,
                 pushed, posted, completed>>

\* job() has returned or thrown: m_taken = false.
BodyLeft(w) ==
  /\ taken' = [taken EXCEPT ![cur[w]] = FALSE]
  /\ status' = [status EXCEPT ![job[w]] = "ran"]
  /\ completed' = [completed EXCEPT ![cur[w]] = Append(@, job[w])]
  /\ Goto(w, "after")
  /\ UNCHANGED <<queues, job, cur, tries, stop, draining, closing, pushed, posted>>

SkipDead(w) ==
  /\ pc[w] = "job"
  /\ Kind[job[w]] = "callback" /\ Destroyed(OffsetId[job[w]])
  /\ BodyLeft(w)

Return(w) ==
  /\ pc[w] = "body"
  /\ BodyLeft(w)

\* Diagnostics, and the destruction of the local variable job with all that
\* it captured: the world is free for others by now.
Destroy(w) ==
  /\ pc[w] = "after"
  /\ status' = [status EXCEPT ![job[w]] = "ended"]
  /\ job' = [job EXCEPT ![w] = None]
  /\ tries' = [tries EXCEPT ![w] = 0]
  /\ Goto(w, AfterHit(w))
  /\ UNCHANGED <<queues, taken, cur, stop, draining, closing, pushed,
                 posted, completed>>

\* The private queue is looked at after every call of execute_one_job.
CheckShutdown(w) ==
  /\ pc[w] = "private"
  /\ stop' = stop \ {w}
  /\ draining' = draining \cup (stop \cap {w})
  /\ Goto(w, "scan")
  /\ UNCHANGED <<queues, taken, status, job, cur, tries, closing, pushed,
                 posted, completed>>

Worker(w) ==
  \/ TakeFails(w) \/ Take(w) \/ PopHit(w) \/ PopMiss(w) \/ Untake(w) \/ ScanMiss(w)
  \/ Enter(w) \/ SkipDead(w) \/ Return(w) \/ Destroy(w) \/ CheckShutdown(w)

Terminated ==
  /\ \A w \in Workers : pc[w] = "done"
  /\ UNCHANGED vars

Next ==
  \/ \E j \in Jobs : Post(j)
  \/ Close
  \/ PushTermination
  \/ \E w \in Workers : Worker(w)
  \/ Terminated

Fairness == /\ \A w \in Workers : WF_vars(Worker(w))
            /\ WF_vars(PushTermination)

Spec     == Init /\ [][Next]_vars
FairSpec == Spec /\ Fairness

-----------------------------------------------------------------------------
(* Properties                                                              *)

\* README: "only one thread can service a world at a time".  Two workers that
\* are inside a job serve different worlds.
OneThreadPerWorld ==
  \A v, w \in Workers :
    v # w /\ pc[v] \in {"job", "body"} /\ pc[w] \in {"job", "body"} => cur[v] # cur[w]

\* A world is marked taken as long as one worker serves or examines it, and no
\* longer: the flag is neither lost nor leaked, whatever path the worker takes.
TakenByOne ==
  \A k \in Worlds :
    taken[k] <=> \E w \in Workers :
                   /\ cur[w] = k
                   /\ pc[w] \in {"pop", "untake", "job", "body"}

\* The jobs of a world complete in the order in which they were posted, though
\* any worker may execute each of them.
CompletedInOrder ==
  \A k \in Worlds :
    /\ Len(completed[k]) <= Len(posted[k])
    /\ completed[k] = SubSeq(posted[k], 1, Len(completed[k]))

\* A worker that has left run() leaves no job behind in any world, even if the
\* last one it looked at was taken by another worker.
NothingLeftBehind ==
  (\A w \in Workers : pc[w] = "done") => \A j \in Jobs : status[j] \in {"new", "ended"}

\* README: "This means that the thread safety of servants is preserved."  Two
\* members or callbacks of one servant never run at the same time.
OneThreadPerServant ==
  \A v, w \in Workers :
    v # w /\ pc[v] = "body" /\ pc[w] = "body" =>
      \/ "deleter" \in {Kind[job[v]], Kind[job[w]]}
      \/ OffsetId[job[v]] # OffsetId[job[w]]

\* What a servant and its users can rely on: the three above.
WorldsServeInOrder == CompletedInOrder /\ NothingLeftBehind /\ OneThreadPerServant

\* A callback that has found its servant alive runs on a living servant.
CallbackSeesServant ==
  \A w \in Workers :
    pc[w] = "body" /\ Kind[job[w]] = "callback" => ~Destroyed(OffsetId[job[w]])

\* A posted job is executed, whatever the workers contend for.
PostedJobEnds == \A j \in Jobs : status[j] = "queued" ~> status[j] = "ended"

\* The shutdown ends every worker.
ShutdownCompletes == closing ~> \A w \in Workers : pc[w] = "done"

\* Neither a job nor a worker is forgotten: both of the above.
EverythingEnds == PostedJobEnds /\ ShutdownCompletes
=============================================================================
