------------------------------ MODULE Servants ------------------------------
(***************************************************************************)
(* Active objects: a servant "S" in the thread of a                        *)
(* single_thread_scheduler, the servant_proxy objects through which        *)
(* clients reach it, the threadpool it owns (m_worker), and a servant "L"  *)
(* of a lower layer, in a thread of its own, whose only proxy is a member  *)
(* of S.  A call of a client makes S post one task, in one of the ways     *)
(* that trackable_servant, servant_proxy and post.hpp offer.               *)
(*                                                                         *)
(* The model is about ownership: which thread drops the last shared_ptr to *)
(* a servant, whether the weak scheduler to which a callback goes can      *)
(* still be locked, and what a task finds when it starts.  How a scheduler *)
(* pops its jobs is the subject of ThreadpoolScheduler.                    *)
(***************************************************************************)
EXTENDS Naturals, Sequences

CONSTANTS
  Clients,        \* threads that hold a proxy of S
  Tasks,          \* calls of members of S, each of which posts one task
  Ways,           \* [Tasks -> ways in which it may be posted, of DOMAIN Way]
  Interruptible,  \* tasks posted with the interruptible_ variants
  Throwing,       \* tasks whose callback throws the first time
  Timeouts,       \* whether max_create_wait_ms may pass
  None

Worlds == {"S", "L"}

-----------------------------------------------------------------------------
(* Ways of posting a task: where it is executed, whether it is wrapped in  *)
(* check_alive_before_exec (guarded) and its callback in check_alive       *)
(* (checked), how its result comes back, whether the task returns a        *)
(* continuation, and whether the functor holds a shared_ptr to L.          *)

Posting(executor, guarded, checked, answer, holds) ==
  [executor |-> executor, guarded |-> guarded, checked |-> checked, answer |-> answer,
   cont |-> FALSE, holds |-> holds]

\* trackable_servant::post_callback
PostCallback == Posting("pool", TRUE, TRUE, "callback", FALSE)

\* The same with a task that returns a continuation.
PostCallbackContinuation == [PostCallback EXCEPT !.cont = TRUE]

\* trackable_servant::post_future
PostFuture == Posting("pool", TRUE, FALSE, "future", FALSE)

PostFutureContinuation == [PostFuture EXCEPT !.cont = TRUE]

\* trackable_servant::post_self
PostSelf == Posting("S", TRUE, FALSE, "future", FALSE)

\* trackable_servant::call_callback with a BOOST_ASYNC_UNSAFE_MEMBER of L.
CallCallback == Posting("L", TRUE, TRUE, "callback", TRUE)

\* A BOOST_ASYNC_POST_CALLBACK_MEMBER of L.
PostCallbackMember == Posting("L", FALSE, FALSE, "callback", TRUE)

\* A BOOST_ASYNC_MEMBER_UNSAFE_CALLBACK of L.
UnsafeCallback == Posting("L", FALSE, FALSE, "direct", TRUE)

\* A functor of make_safe_callback given to a task of the pool, which calls it:
\* not in the thread of S, it posts, and what it posts checks that S is alive.
SafeCallback == Posting("pool", FALSE, TRUE, "callback", FALSE)

\* The same functor called by S itself: its only thread is the current one.
DirectCallback == Posting("S", FALSE, TRUE, "direct", FALSE)

\* BOOST_ASYNC_FUTURE_MEMBER, the only one of these that a client calls.
FutureMember == Posting("S", FALSE, FALSE, "future", FALSE)

\* Serializable tasks of a pool whose jobs are executed by a remote client:
\* only the functor inside check_alive_before_exec is sent.
RemoteCallback == [PostCallback EXCEPT !.executor = "remote", !.guarded = FALSE]
RemoteFuture == [PostFuture EXCEPT !.executor = "remote", !.guarded = FALSE]

Way ==
  [post_callback |-> PostCallback, callback_continuation |-> PostCallbackContinuation,
   post_future |-> PostFuture, future_continuation |-> PostFutureContinuation,
   post_self |-> PostSelf, call_callback |-> CallCallback,
   callback_member |-> PostCallbackMember, unsafe_callback |-> UnsafeCallback,
   safe_callback |-> SafeCallback, direct_callback |-> DirectCallback,
   future_member |-> FutureMember, remote_callback |-> RemoteCallback, remote_future |-> RemoteFuture]

ASSUME WaysAssumption == Ways \in [Tasks -> SUBSET DOMAIN Way]

-----------------------------------------------------------------------------

VARIABLES
  queue,       \* of the scheduler of each world
  cur,         \* the job that the thread of each world is executing
  life,        \* of each servant
  diedIn,      \* the thread that ran its destructor
  owns,        \* S still holds the proxy of L
  client,      \* where each client is
  made,        \* the promise that servant_proxy's constructor waits for
  way,         \* how the task of each call was posted
  task,        \* where each task is
  future,      \* of each task posted with post_future
  callbacks,   \* how often the callback of each task was called
  interrupted, \* tasks whose any_interruptible was used
  stopped      \* worlds whose thread has left its loop

vars == <<queue, cur, life, diedIn, owns, client, made, way, task, future, callbacks,
          interrupted, stopped>>

worlds == <<queue, cur, life, diedIn, owns, made, stopped>>
tasks == <<way, task, future, callbacks, interrupted>>

Jobs == {"create", "member", "self", "task", "callback", "delete"}
          \X (Tasks \cup Clients \cup {"S", None})

ASSUME NoneAssumption == None \notin Jobs \cup DOMAIN Way \cup Worlds \cup {"client"}

TypeOK ==
  /\ queue \in [Worlds -> Seq(Jobs)]
  /\ cur \in [Worlds -> Jobs \cup {None}]
  /\ life \in [Worlds -> {"unborn", "alive", "dying", "closing", "joining", "dead"}]
  /\ diedIn \in [Worlds -> Worlds \cup {"client", None}]
  /\ owns \in BOOLEAN
  /\ client \in [Clients -> {"new", "creating", "timedout", "ready", "leaving", "gone"}]
  /\ made \in {"empty", "set", "failed", "taken"}
  /\ way \in [Tasks -> DOMAIN Way \cup {None}]
  /\ task \in [Tasks -> {"new", "called", "posted", "running", "continued", "ran", "locked",
                         "returned", "done", "skipped", "dropped"}]
  /\ future \in [Tasks -> {"waiting", "ready", "broken", None}]
  /\ callbacks \in [Tasks -> 0 .. 2]
  /\ interrupted \subseteq Interruptible
  /\ stopped \subseteq Worlds

Init ==
  /\ queue = [w \in Worlds |-> <<>>]
  /\ cur = [w \in Worlds |-> None]
  /\ life = [w \in Worlds |-> "unborn"]
  /\ diedIn = [w \in Worlds |-> None]
  /\ owns = FALSE
  /\ client = [c \in Clients |-> "new"]
  /\ made = "empty"
  /\ way = [t \in Tasks |-> None]
  /\ task = [t \in Tasks |-> "new"]
  /\ future = [t \in Tasks |-> None]
  /\ callbacks = [t \in Tasks |-> 0]
  /\ interrupted = {}
  /\ stopped = {}

Queued(w, job) == \E i \in DOMAIN queue[w] : queue[w][i] = job
InWorld(w, job) == Queued(w, job) \/ cur[w] = job

\* m_tracking is declared before m_worker and m_scheduler, and so it goes last.
Expired == life["S"] \in {"unborn", "dead"}

\* any_weak_scheduler::lock: somebody owns the scheduler of the world.
Lockable(w) ==
  IF w = "S" THEN \/ \E c \in Clients : client[c] \notin {"new", "gone"}
                  \/ \E t \in Tasks : task[t] = "locked"
             ELSE owns

\* Functors that hold a shared_ptr to L.  A task goes back with its callback.
HoldsLow(t) ==
  /\ way[t] # None /\ Way[way[t]].holds
  /\ \/ Queued("L", <<"task", t>>)
     \/ cur["L"] = <<"task", t>> /\ task[t] # "returned"
     \/ InWorld("S", <<"callback", t>>)

\* Somebody has a shared_ptr to the servant.
Held(w) ==
  IF w = "S"
  THEN \/ \E c \in Clients : client[c] = "ready" \/ InWorld("S", <<"delete", c>>)
       \/ \E t \in Tasks : \/ InWorld("S", <<"member", t>>)
                           \/ way[t] = "future_member" /\ InWorld("S", <<"self", t>>)
       \/ made = "set" /\ \/ InWorld("S", <<"create", None>>)
                          \/ \E c \in Clients : client[c] \in {"creating", "timedout"}
  ELSE owns \/ InWorld("L", <<"delete", "S">>) \/ \E t \in Tasks : HoldsLow(t)

\* The thread has dropped shared_ptrs: it destroys what nobody holds any more.
DestroyedBy(thread) ==
  LET Dies(w) == life[w] = "alive" /\ ~Held(w)' IN
  /\ life' = [w \in Worlds |-> IF ~Dies(w) THEN life[w]
                               ELSE IF w = "S" THEN "dying" ELSE "dead"]
  /\ diedIn' = [w \in Worlds |-> IF Dies(w) THEN thread ELSE diedIn[w]]

-----------------------------------------------------------------------------
(* Clients                                                                 *)

\* boost::asynchronous::post_future: the caller keeps the future of the promise.
PostedFuture(t) ==
  /\ task' = [task EXCEPT ![t] = "posted"]
  /\ future' = [future EXCEPT ![t] = "waiting"]
  /\ UNCHANGED callbacks

\* boost::asynchronous::post_callback
PostedCallback(t) ==
  /\ task' = [task EXCEPT ![t] = "posted"]
  /\ UNCHANGED <<future, callbacks>>

\* The first client constructs the proxy: not in the thread of S, it posts the
\* constructor of S and waits for the promise.
Create(c) ==
  /\ \A d \in Clients : client[d] = "new"
  /\ client' = [client EXCEPT ![c] = "creating"]
  /\ queue' = [queue EXCEPT !["S"] = Append(@, <<"create", None>>)]
  /\ UNCHANGED <<cur, life, diedIn, owns, made, stopped, tasks>>

\* The future is ready.
Created(c) ==
  /\ client[c] = "creating" /\ made \in {"set", "failed"}
  /\ client' = [client EXCEPT ![c] = IF made = "set" THEN "ready" ELSE "leaving"]
  /\ made' = IF made = "set" THEN "taken" ELSE made
  /\ UNCHANGED <<queue, cur, life, diedIn, owns, stopped, tasks>>

\* wait_for returns timeout: servant_proxy_timeout is thrown ...
TimeOut(c) ==
  /\ Timeouts
  /\ client[c] = "creating" /\ made = "empty"
  /\ client' = [client EXCEPT ![c] = "timedout"]
  /\ UNCHANGED <<worlds, tasks>>

\* ... and the future and the promise go with the constructor's frame.
Unwind(c) ==
  /\ client[c] = "timedout"
  /\ client' = [client EXCEPT ![c] = "leaving"]
  /\ UNCHANGED <<queue, cur, owns, made, stopped, tasks>>
  /\ DestroyedBy("client")

\* A proxy is copied.
Copy(c, d) ==
  /\ client[c] = "ready" /\ client[d] = "new"
  /\ client' = [client EXCEPT ![d] = "ready"]
  /\ UNCHANGED <<worlds, tasks>>

\* BOOST_ASYNC_POST_MEMBER: the job holds a shared_ptr to the servant.
Call(c, t) ==
  /\ client[c] = "ready" /\ task[t] = "new"
  /\ task' = [task EXCEPT ![t] = "called"]
  /\ queue' = [queue EXCEPT !["S"] = Append(@, <<"member", t>>)]
  /\ UNCHANGED <<cur, life, diedIn, owns, client, made, stopped, way, future,
                 callbacks, interrupted>>

\* BOOST_ASYNC_FUTURE_MEMBER: the same with a promise.
CallFuture(c, t) ==
  /\ client[c] = "ready" /\ task[t] = "new" /\ "future_member" \in Ways[t]
  /\ way' = [way EXCEPT ![t] = "future_member"]
  /\ PostedFuture(t)
  /\ queue' = [queue EXCEPT !["S"] = Append(@, <<"self", t>>)]
  /\ UNCHANGED <<cur, life, diedIn, owns, client, made, stopped, interrupted>>

\* ~servant_proxy posts the servant_deleter into which it moves its shared_ptr ...
Drop(c) ==
  /\ client[c] = "ready"
  /\ client' = [client EXCEPT ![c] = "leaving"]
  /\ queue' = [queue EXCEPT !["S"] = Append(@, <<"delete", c>>)]
  /\ UNCHANGED <<cur, life, diedIn, owns, made, stopped, tasks>>

\* ... and resets m_proxy.  The last one then waits for the thread of S.
Release(c) ==
  /\ client[c] = "leaving"
  /\ client' = [client EXCEPT ![c] = "gone"]
  /\ UNCHANGED <<worlds, tasks>>

\* any_interruptible::interrupt
Interrupt(t) ==
  /\ t \in Interruptible \ interrupted
  /\ task[t] \in {"posted", "running"} /\ Way[way[t]].executor = "pool"
  /\ interrupted' = interrupted \cup {t}
  /\ UNCHANGED <<worlds, client, way, task, future, callbacks>>

-----------------------------------------------------------------------------
(* The threads of the worlds                                               *)

\* A thread inside the destructor of S does nothing else.
Idle(w) ==
  /\ w \notin stopped /\ cur[w] = None
  /\ diedIn["S"] = w => life["S"] = "dead"

Pops(w, kind) ==
  /\ Idle(w) /\ queue[w] # <<>> /\ Head(queue[w])[1] = kind
  /\ cur' = [cur EXCEPT ![w] = Head(queue[w])]

Popped(w) == [queue EXCEPT ![w] = Tail(@)]

\* The constructor of S constructs L, which has a simple_ctor, in the same thread.
RunCreate ==
  /\ Pops("S", "create")
  /\ queue' = Popped("S")
  /\ \/ /\ made' = "set"
        /\ life' = [w \in Worlds |-> "alive"]
        /\ owns' = TRUE
     \/ made' = "failed" /\ UNCHANGED <<life, owns>>
  /\ UNCHANGED <<diedIn, client, stopped, tasks>>

\* A safe callback called in the only thread of its scheduler runs at once.
CalledInPlace(t) ==
  /\ task' = [task EXCEPT ![t] = "done"]
  /\ callbacks' = [callbacks EXCEPT ![t] = @ + 1]
  /\ UNCHANGED future

\* A member of S posts a task.
RunMember(t) ==
  /\ Pops("S", "member") /\ Head(queue["S"])[2] = t
  /\ \E name \in Ways[t] \ {"future_member"} :
       LET p == Way[name] IN
       /\ way' = [way EXCEPT ![t] = name]
       /\ queue' = CASE p.executor = "L" -> [Popped("S") EXCEPT !["L"] = Append(@, <<"task", t>>)]
                     [] name = "post_self" -> [Popped("S") EXCEPT !["S"] = Append(@, <<"self", t>>)]
                     [] OTHER -> Popped("S")
       /\ \/ p.answer = "future" /\ PostedFuture(t)
          \/ p.answer = "callback" /\ PostedCallback(t)
          \/ name = "unsafe_callback" /\ PostedCallback(t)
          \/ name = "direct_callback" /\ CalledInPlace(t)
  /\ UNCHANGED <<life, diedIn, owns, client, made, stopped, interrupted>>

\* servant_deleter resets its shared_ptr.
RunDelete(w) ==
  /\ Pops(w, "delete")
  /\ queue' = Popped(w)
  /\ UNCHANGED <<life, diedIn, owns, client, made, stopped, tasks>>

\* Mutant of RunCallback: the callback is called without the check.
RunCallbackUnchecked(t) ==
  /\ Pops("S", "callback") /\ Head(queue["S"])[2] = t
  /\ queue' = Popped("S")
  /\ callbacks' = [callbacks EXCEPT ![t] = @ + 1]
  /\ task' = [task EXCEPT ![t] = "done"]
  /\ UNCHANGED <<life, diedIn, owns, client, made, stopped, way, future, interrupted>>

\* call_if_alive: the callback is called only if the servant is alive.
RunCallback(t) ==
  /\ Pops("S", "callback") /\ Head(queue["S"])[2] = t
  /\ queue' = Popped("S")
  /\ IF Way[way[t]].checked /\ Expired
     THEN task' = [task EXCEPT ![t] = "skipped"] /\ UNCHANGED callbacks
     ELSE /\ callbacks' = [callbacks EXCEPT ![t] = @ + 1]
          /\ task' = [task EXCEPT ![t] = "done"]
  /\ UNCHANGED <<life, diedIn, owns, client, made, stopped, way, future, interrupted>>

\* The job is destroyed, with the shared_ptrs it holds.
EndJob(w) ==
  /\ cur[w] # None
  /\ cur[w][1] = "task" => task[cur[w][2]] \in {"done", "dropped", "returned"}
  /\ cur[w][1] = "self" => task[cur[w][2]] = "done"
  /\ cur' = [cur EXCEPT ![w] = None]
  /\ UNCHANGED <<queue, owns, client, made, stopped, tasks>>
  /\ DestroyedBy(w)

\* The scheduler has no owner and its thread has emptied the queue.
Stop(w) ==
  /\ Idle(w) /\ queue[w] = <<>>
  /\ IF w = "S" THEN \E c \in Clients : client[c] # "new" ELSE life["L"] # "unborn"
  /\ ~Lockable(w)
  /\ stopped' = stopped \cup {w}
  /\ UNCHANGED <<queue, cur, life, diedIn, owns, client, made, tasks>>

-----------------------------------------------------------------------------
(* The destructor of S: its members, then its base trackable_servant.      *)

\* Mutant of DestroyProxyOfLow: the scheduler of L is not released.
DestroyProxyKeepingScheduler ==
  /\ life["S"] = "dying"
  /\ life' = [life EXCEPT !["S"] = "closing"]
  /\ queue' = [queue EXCEPT !["L"] = Append(@, <<"delete", "S">>)]
  /\ UNCHANGED <<cur, diedIn, owns, client, made, stopped, tasks>>

\* The proxy of L posts a deleter and releases the scheduler of L, ...
DestroyProxyOfLow ==
  /\ life["S"] = "dying"
  /\ life' = [life EXCEPT !["S"] = "closing"]
  /\ queue' = [queue EXCEPT !["L"] = Append(@, <<"delete", "S">>)]
  /\ owns' = FALSE
  /\ UNCHANGED <<cur, diedIn, client, made, stopped, tasks>>

\* Mutant of JoinLow: the proxy does not wait for the thread of L.
JoinLowWithoutWaiting ==
  /\ life["S"] = "closing"
  /\ life' = [life EXCEPT !["S"] = "joining"]
  /\ UNCHANGED <<queue, cur, diedIn, owns, client, made, stopped, tasks>>

\* ... whose thread it joins.
JoinLow ==
  /\ life["S"] = "closing"
  /\ "L" \in stopped
  /\ life' = [life EXCEPT !["S"] = "joining"]
  /\ UNCHANGED <<queue, cur, diedIn, owns, client, made, stopped, tasks>>

InPool(t) ==
  /\ task[t] \in {"posted", "running", "continued", "ran", "locked"}
  /\ Way[way[t]].executor = "pool"

\* m_worker was the last proxy of the pool: its workers process every job, and
\* then m_tracking goes.
JoinPool ==
  /\ life["S"] = "joining"
  /\ \A t \in Tasks : ~InPool(t)
  /\ life' = [life EXCEPT !["S"] = "dead"]
  /\ UNCHANGED <<queue, cur, diedIn, owns, client, made, stopped, tasks>>

-----------------------------------------------------------------------------
(* Tasks                                                                   *)

\* The task is over, with a value or an exception: its promise is set, or the
\* result is kept for the callback.
Ended(t) ==
  IF Way[way[t]].answer = "future"
  THEN /\ future' = [future EXCEPT ![t] = "ready"]
       /\ task' = [task EXCEPT ![t] = "done"]
  ELSE task' = [task EXCEPT ![t] = "ran"] /\ UNCHANGED future

\* call_if_alive_exec: the task starts only if the servant is alive, and throws
\* task_aborted_exception if it is not.
Start(t) ==
  IF Way[way[t]].guarded /\ Expired
  THEN Ended(t)
  ELSE task' = [task EXCEPT ![t] = "running"] /\ UNCHANGED future

\* The task is destroyed in a worker, with its promise.
Dropped(t) ==
  /\ task' = [task EXCEPT ![t] = "dropped"]
  /\ future' = [future EXCEPT ![t] = IF @ = "waiting" THEN "broken" ELSE @]

\* A worker of the pool takes the task.  An interruptible_job that finds its
\* state interrupted returns.
StartInPool(t) ==
  /\ task[t] = "posted" /\ Way[way[t]].executor = "pool"
  /\ IF t \in interrupted THEN Dropped(t) ELSE Start(t)
  /\ UNCHANGED <<worlds, client, way, callbacks, interrupted>>

\* The thread of a world takes it.
StartInWorld(w, t) ==
  /\ Pops(w, IF w = "S" THEN "self" ELSE "task") /\ Head(queue[w])[2] = t
  /\ queue' = Popped(w)
  /\ Start(t)
  /\ UNCHANGED <<life, diedIn, owns, client, made, stopped, way, callbacks, interrupted>>

Running(t, answer, cont) ==
  /\ task[t] = "running"
  /\ Way[way[t]].answer = answer /\ Way[way[t]].cont = cont

\* post_future_helper_base: a value, an exception, or thread_interrupted, which
\* becomes task_aborted_exception.
FinishFuture(t) ==
  /\ Running(t, "future", FALSE)
  /\ Ended(t)
  /\ UNCHANGED <<worlds, client, way, callbacks, interrupted>>

\* post_callback_helper_base: every exception is kept for the callback.
FinishCallback(t) ==
  /\ Running(t, "callback", FALSE)
  /\ Ended(t)
  /\ UNCHANGED <<worlds, client, way, callbacks, interrupted>>

\* post_future_helper_continuation, post_callback_helper_continuation: the task
\* throws, or returns a continuation, which joins the waiting ones of the worker.
FinishContinuation(t) ==
  /\ \E answer \in {"future", "callback"} : Running(t, answer, TRUE)
  /\ \/ Ended(t)
     \/ task' = [task EXCEPT ![t] = "continued"] /\ UNCHANGED future
  /\ UNCHANGED <<worlds, client, way, callbacks, interrupted>>

\* promise_move_helper: a value, an exception, or, when the result is not ready
\* because of a timeout, task_aborted_exception.
ResolveFuture(t) ==
  /\ task[t] = "continued" /\ Way[way[t]].answer = "future"
  /\ Ended(t)
  /\ UNCHANGED <<worlds, client, way, callbacks, interrupted>>

\* Mutant of ResolveCallback: after a timeout nobody is called.
ResolveCallbackIfReady(t) ==
  /\ task[t] = "continued" /\ Way[way[t]].answer = "callback"
  /\ Ended(t) \/ Dropped(t)
  /\ UNCHANGED <<worlds, client, way, callbacks, interrupted>>

\* The functor that post_helper_continuation gives to on_done.
ResolveCallback(t) ==
  /\ task[t] = "continued" /\ Way[way[t]].answer = "callback"
  /\ Ended(t)
  /\ UNCHANGED <<worlds, client, way, callbacks, interrupted>>

\* A worker leaves with a continuation in its waiting list, whose promise breaks.
Abandon(t) ==
  /\ task[t] = "continued" /\ life["S"] = "joining"
  /\ Dropped(t)
  /\ UNCHANGED <<worlds, client, way, callbacks, interrupted>>

\* The answer of a remote client is loaded into the task.
Load(t) ==
  /\ task[t] = "posted" /\ Way[way[t]].executor = "remote"
  /\ Ended(t)
  /\ UNCHANGED <<worlds, client, way, callbacks, interrupted>>

\* The callback is called by the thread of L, and again if it throws.
CallFromLow(t) ==
  /\ Running(t, "direct", FALSE)
  /\ callbacks' = [callbacks EXCEPT ![t] = @ + (IF t \in Throwing THEN 2 ELSE 1)]
  /\ task' = [task EXCEPT ![t] = "done"]
  /\ UNCHANGED <<worlds, client, way, future, interrupted>>

\* The weak scheduler of S is locked.  Without it there is no way to call back,
\* and the task is destroyed where it ran.
LockHome(t) ==
  /\ task[t] = "ran"
  /\ task' = [task EXCEPT ![t] = IF Lockable("S") THEN "locked" ELSE "dropped"]
  /\ UNCHANGED <<worlds, client, way, future, callbacks, interrupted>>

\* The callback is posted, and the task moves with it.
PostBack(t) ==
  /\ task[t] = "locked"
  /\ task' = [task EXCEPT ![t] = "returned"]
  /\ queue' = [queue EXCEPT !["S"] = Append(@, <<"callback", t>>)]
  /\ UNCHANGED <<cur, life, diedIn, owns, client, made, stopped, way, future,
                 callbacks, interrupted>>

-----------------------------------------------------------------------------

ClientStep(c) ==
  \/ Create(c) \/ Created(c) \/ TimeOut(c) \/ Unwind(c) \/ Drop(c) \/ Release(c)
  \/ \E d \in Clients : Copy(c, d)
  \/ \E t \in Tasks : Call(c, t) \/ CallFuture(c, t)

WorldStep(w) ==
  \/ w = "S" /\ (RunCreate \/ \E t \in Tasks : RunMember(t) \/ RunCallback(t))
  \/ RunDelete(w) \/ EndJob(w) \/ Stop(w)
  \/ \E t \in Tasks : StartInWorld(w, t)

Destructor == DestroyProxyOfLow \/ JoinLow \/ JoinPool

TaskStep(t) ==
  \/ StartInPool(t) \/ FinishFuture(t) \/ FinishCallback(t) \/ FinishContinuation(t)
  \/ ResolveFuture(t) \/ ResolveCallback(t) \/ Abandon(t) \/ Load(t)
  \/ CallFromLow(t) \/ LockHome(t) \/ PostBack(t)

Next ==
  \/ \E c \in Clients : ClientStep(c)
  \/ \E w \in Worlds : WorldStep(w)
  \/ Destructor
  \/ \E t \in Tasks : TaskStep(t) \/ Interrupt(t)

\* The threads run, tasks end, continuations become ready or time out, and
\* remote clients answer.  No client has to call or to drop its proxy.
Fairness ==
  /\ \A c \in Clients : WF_vars(Created(c) \/ Unwind(c) \/ Release(c))
  /\ \A w \in Worlds : WF_vars(WorldStep(w))
  /\ WF_vars(Destructor)
  /\ \A t \in Tasks : WF_vars(TaskStep(t))

Spec == Init /\ [][Next]_vars /\ Fairness

-----------------------------------------------------------------------------
(* Properties                                                              *)

Waits(t) == task[t] \in {"posted", "running", "continued", "ran", "locked", "returned"}

\* "A callback is not called if the servant is gone": a callback that is wrapped
\* in check_alive runs while its servant is alive, in none of the windows between
\* the end of the task, the post of the callback and the deleter in the queue.
CallbackOnlyWhileAlive ==
  [][\A t \in Tasks :
       callbacks'[t] # callbacks[t] /\ Way[way'[t]].checked => life["S"] = "alive"]_vars

\* Each layer is destroyed in turn: when S is gone, L is gone, and each of them
\* was destroyed by the thread of its own world.  (A functor that holds L and
\* goes back with a callback of S, or a constructor that timed out, are the ways
\* around it.)
LayersDieInOrder ==
  (\A t \in Tasks : way[t] # None => ~(Way[way[t]].holds /\ Way[way[t]].answer = "callback"))
    => /\ life["S"] = "dead" => life["L"] = "dead"
       /\ diedIn["L"] \in {None, "L"}
       /\ diedIn["S"] \in {None, "S"} \/ (diedIn["S"] = "client" /\ made = "set")

\* Whoever asked gets an answer: a future becomes ready whatever happens to the
\* task, the servant or the pool, and a callback is called unless the servant
\* dies, its world loses its owners or the task was interrupted before it began.
EveryTaskAnswered ==
  \A t \in Tasks :
    (task[t] = "posted") ~>
      \/ future[t] \in {"ready", "broken"}
      \/ /\ future[t] = None
         /\ \/ callbacks[t] > 0
            \/ life["S"] # "alive"
            \/ ~Lockable("S")
            \/ t \in interrupted

\* Nobody waits for ever when the last proxy goes: the destructors run in the
\* threads of the servants, which join the pool and the thread of L, and both
\* threads leave their loops.
WorldsEnd ==
  ((\E c \in Clients : client[c] = "gone") /\ \A c \in Clients : client[c] \in {"new", "gone"})
    ~> /\ "S" \in stopped
       /\ life["S"] = "unborn" \/ (life["S"] = "dead" /\ life["L"] = "dead" /\ "L" \in stopped)
       /\ \A t \in Tasks : ~Waits(t)

\* Neither a client nor a destructor waits for ever: both of the above.
NobodyWaitsForEver == EveryTaskAnswered /\ WorldsEnd

-----------------------------------------------------------------------------
(* Statements of the documentation that the code does not keep             *)

\* "All the objects which have been created, are living and destroyed within
\* this context" (README.md:380).
DestroyedInOwnWorld == \A w \in Worlds : diedIn[w] \in {None, w}

\* "Asynchronous guarantees that each layer will be destroyed in turn: LowLevel -
\* MiddleLevel - TopLevel" (README.md:3401).
LowLayerFirst == life["S"] = "dead" => life["L"] = "dead"

\* "Asynchronous ensures that a task created within a scheduler context gets
\* destroyed in this context" (README.md:516-518).
TasksReturnHome ==
  \A t \in Tasks : task[t] = "dropped" => Way[way[t]].answer # "callback"

\* Jobs of a servant that is being destroyed "will not even start"
\* (README.md:358-361).
QueuedTasksDoNotStart ==
  [][\A t \in Tasks : task[t] = "posted" /\ task'[t] = "running"
                         => life["S"] \notin {"dying", "closing", "joining"}]_vars

\* The user of a member with a callback gets one answer.
CalledBackOnce == \A t \in Tasks : callbacks[t] <= 1
=============================================================================
