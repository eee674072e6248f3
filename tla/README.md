# Boost.Asynchronous in TLA+

This directory models Boost.Asynchronous (the headers under
`src/boost/asynchronous`): TLA+ modules translated from the headers, TLC
configurations that check them on small instances, and TLAPS proofs for every
value of the constants. `PROJECT.json` maps each definition to the lines it
models and lists the runs, the mutants, the hazards and the theorems.

    tlc -workers 2 -config Worlds.cfg MCMultipleThreadScheduler
    tlapm ThreadpoolSchedulerProofs.tla

## 1. Inventory

| part | state | operations | correct when |
|---|---|---|---|
| `threadpool_scheduler`, `single_thread_scheduler` | shared queue, one private queue per worker, waiting continuations in thread-local storage, diagnostics table | post, the worker loop `run` / `execute_one_job`, `set_name`, `processor_bind`, `execute_in_all_threads`, destructor, join | each posted job runs once; workers stop only after the last reference; nothing is left behind |
| proxies (`any_shared_scheduler_proxy`, `any_weak_scheduler`) | reference counts of the scheduler object | copy, drop, `lock` | the last owner stops and joins the pool, and nobody posts to a pool that is gone |
| `multiple_thread_scheduler` | a queue and a flag `m_taken` per world, a position per worker | post (priority / 100000 names the world), the worker loop, destructor | one thread per world; the jobs of a world complete in order |
| queues: `threadsafe_list`, `lockfree_queue` / `stack` / `spsc_queue`, `guarded_deque`, `circular_queue` | elements, sizes and maxima | push, pop, try_pop, try_steal | FIFO (or LIFO), no element lost or taken twice |
| `any_queue_container`, `find_queue_position` | queues by priority, a flag each | push by position, try_pop, try_steal, enable_queue | jobs are taken by priority |
| multiqueue, stealing and composite pools | a queue per worker or per pool; the queues of other pools | post by position, theft, drain, release of subpools | as the thread pool, whichever queue a job is in |
| `io_threadpool_scheduler` | permanent and temporary workers, finished threads to clean up | post, creation and end of workers, join | never more workers than allowed; every thread joined once |
| `interrupt_state`, `interruptible_job`, `any_interruptible` | state of the job, its mutex, the promise of its thread, handles of its subtasks; the thread-local current state | interrupt, run, complete, add_subs | a cancelled job never starts; an interruption hits the job it was meant for; interrupt() returns |
| continuations (`continuation_impl.hpp`, `continuation_task.hpp`) | futures, or a result tuple and a counter; the callback | create, subtask finished, on_done, timeout | on_done is called once, after all the subtasks, with all the results |
| servants (`servant_proxy`, `trackable_servant`, `post.hpp`, `checks.hpp`) | the servant, its tracking object and proxies, tasks it has posted | creation, member posts, post_callback / post_future / post_self, make_safe_callback, the deleter | callbacks run only while the servant lives; layers die in order; nobody waits for ever |
| `notification` | subscriptions of a thread, those of other schedulers, running publications | subscribe, unsubscribe, publish, register a scheduler | an event reaches each subscriber, also while the lists change |
| `scheduler/tcp` | jobs to send, jobs sent, waiting connections; state of each client | add_task, request, result, error, connect | a job is in one place and is executed although connections break |
| algorithms | none that outlives a call (`parallel_partition` shares counters among its tasks) | divide, execute, join | the result of the sequential algorithm; subtasks stay out of each other's memory |
| `all_of`, `any_of`, `if_`, `invoke` | a counter shared by continuations | combine | one answer, the right one |
| `container/vector` | memory, size and capacity, the size again in the deleter of the memory | those of `std::vector`, and asynchronous ones | elements live exactly in the cells of the vector |
| diagnostics | current row per worker, table of finished jobs | add, reset, clear | what is shown agrees with what runs |
| `asio_scheduler`, timers, resolver; http, qt, tbb; geometry | state of the other library | adaptors | |

How the parts interact. Users hold a shared proxy; a job reaches its scheduler
through the weak scheduler found in thread-local storage, which it must lock.
Workers take jobs from a queue; a job may post others through a continuation.
Future-based continuations are kept by the worker that created them and polled
when its queue is empty; callback continuations are called by whichever subtask
finishes last. An interrupt handle acts on a job from any thread through the
state both share, and on the thread through boost::thread. A servant lives in
the thread of a scheduler and is reached by posting; it owns proxies of pools
and of servants of lower layers, posts tasks to them and is called back by a
post to its own scheduler. Destroying the last proxy of a scheduler pushes a
termination task for each worker and joins the threads. The algorithms are
tasks that fork themselves through callback continuations; the containers are
built from the algorithms.

What makes this hard: workers race for queues and flags; a scheduler may die
between any two steps of a job; shutdown races posting; interruption reaches a
job in any of its phases; state in thread-local storage outlives the job that
set it; a continuation may time out while its last subtask finishes; a task
may be the last owner of a servant; connections break with jobs on them; halves
of a range meet at a cut, and one of them throws. `PROJECT.json` lists these
hazards at their lines.

## 2. Plan

Done, in this order: (1) `JobPool`, `ThreadpoolScheduler` and its proofs; (2)
`InterruptibleJob`; (3) `MultipleThreadScheduler` and its proofs; (4) `Fifo`,
`ThreadsafeList`; (5) `LockfreeSize`; (6) `CallbackContinuation`; (7)
`JobServer`; (8) `StealingPool`, `IoThreadpool`; (9) `Servants`; (10)
`Notification`; (11) `QueueContainer`; (12) the algorithms and the vector; (13)
the proofs of section 6: every safety property, action property and refinement
of a state module that a run checks, but for those listed at its end.

Left: `asio_scheduler`, which would need a model of an io_context; interruption
in `multiple_thread_scheduler`.

## 3. The modules

One action stands for one step that other threads can observe between. Values
of results, times, names and task wording are left out. Definitions under a
comment "Mutant of X" are plausible mistakes used to show that the properties
can fail; no specification uses them. `MC...` modules only give instances,
`...Proofs` modules only hold proofs. Every state module has a type invariant
`TypeOK` or says in its VARIABLES what the types are; where proofs exist it is
proved.

### Schedulers

**`JobPool`** is the abstract specification of a scheduler: a job is new,
posted, running, ended or refused; nothing is accepted once the last owner is
gone; "joined" is reported only when nothing is posted or running. Three
modules implement it: `ThreadpoolScheduler`, `StealingPool`, `IoThreadpool`.

**`ThreadpoolScheduler`** models `threadpool_scheduler.hpp`,
`scheduler_shared_proxy.hpp`, the weak scheduler and the future-based
continuations. `held`, `implRef` and `locks` are the reference counts: copies
of the proxy, the implementation's reference, references got by `lock()`.
`Release` is the end of a shared_ptr: the last one starts the destructor in the
thread that drops it (`dtor`), and `PushTermination` is one iteration of its
loop. `pc[w]` places a worker in `run`: popping, in a job, posting subtasks,
scanning continuations, at its private queue, left. `draining` marks the loop
in the handler of `shutdown_exception`. Jobs may fork once (`Subtasks`), be
posted interruptibly (`Interruptible`) or use a timeout (`Timed`).

`marked` says of which jobs the `interrupt_state` says "interrupted", `tss` whose
state a worker's thread carries, and `under` whose state a fork found there and
gave to its continuation (`m_state`). Such a fork posts its subtasks
interruptibly, whoever's the state is: a job that `thread_interrupted` has left
does not take its state out of thread-local storage. `Interrupt` marks a state
at any moment, and `pending` is the interruption of the thread. Three things
follow, all of them in the code on purpose: a job that is marked before it
starts returns without running (`JobSkipped`); a continuation whose state is
marked is ready whatever its subtasks do (`IsReady`, `continuation_impl.hpp:594`);
and the last subtask, before which alone the state is asked, is not posted
(`ForkDrop`, `:559`). `ForkJoinCorrect` says what is left: a continuation is called
before its subtasks have ended, and a subtask left out, only for an interruption,
and one subtask at the most. `interrupt()` is one step for each state it marks;
its mutexes and the promise it waits for are in `InterruptibleJob`.

**`StealingPool`** is `composite_threadpool_scheduler` over the three kinds of
pools that share queues. `Order` gives the queues a worker tries, its own first;
`TakeJob` is `try_pop` or `try_steal`. The composite releases and joins its
subpools one by one (`ResetSubpool`, `JoinSubpool`). `AfterHit` and `AfterMiss`
are the end of an iteration, in or out of the drain loop.

**`IoThreadpool`** has permanent threads and temporary ones, which a post
creates (`TryCreateThread`) and which test after each empty queue whether they
may end. An ending thread collects those that ended before it, takes them out
of the thread group and joins them while it holds the mutex; `JoinAll` is the
destructor. `Finish` is `thread_finished` with its two critical sections.

**`MultipleThreadScheduler`** models `multiple_thread_scheduler.hpp` with the
priorities computed by `servant_proxy.hpp`: `Prio` and `World` are the two
conversions. `taken[k]` is `m_taken`, `cur[w]` the world a worker looks at;
`Take`, `PopHit`, `PopMiss`, `Untake` and `Return` are the steps of
`execute_one_job` between which others may run. `Enter` and `SkipDead` are the
check of `call_if_alive`, `Destroy` the job of the servant deleter.

**`JobServer`** is the distribution over tcp. The server's threads are the
scheduler (`queue`), the servant (`unprocessed`, `waiting`, `waitingConns`) and
the asio thread (`outbox`); each client has a timer (`pc`), a pool
(`executing`) and results that wait to be written. Requests and responses are
messages under way, lost when their connection breaks (`up`); `lost` and
`raced` are ghosts.

### Jobs, queues and continuations

**`InterruptibleJob`** models `interrupt_state.hpp`, `interruptible_job.hpp`,
the thread-local interrupt state and the constructor of a callback
continuation, which posts subtasks under that state. `icall[c]` is an
`interrupt()` in progress; while it is `locked` every step that takes `m_mutex`
of that job waits. `pending[w]` is the interruption flag of boost::thread, which
is consumed by an interruption point of a body (`Throw`) or of `run`
(`InterruptionPoint`). The ghosts `requested`, `cancelled`, `hit` remember who
was interrupted and when.

**`Fifo`** is a queue with its history; **`ThreadsafeList`** implements it:
nodes are numbered, `head` and `tail` are the two pointers, `headLock` and
`tailLock` the mutexes, `waiters` the threads in `m_data_cond.wait`.
**`LockfreeSize`** models `lockfree_size_max_size` around a container that is
assumed linearizable (boost::lockfree is external): an element enters the
container in one step and is counted in another; `Cas` is the loop that raises
the maximum. `size` is a machine word of `Width` bits. **`QueueContainer`** is
`any_queue_container` over queues of every other type, each access to one of
them being one step (they hold a mutex for it); `PushCircular` is the buffer
with its placeholders, `FirstTried` and `Proceed` the search by priority.

**`CallbackContinuation`** models `subtask_finished` and `task_type_selector`.
Every thread is a program of steps: write a slot, increment the counter,
maybe call on_done. `Cases` are the ways of creating the continuation: from
arguments, a tuple or a vector, all posted or the last one executed in place,
nested, with a timeout, with an on_done that throws. Tasks may throw before or
after they gave their result, be sent to a client (`Remote`) or be skipped
because the creating task was interrupted.

### Servants and notifications

**`Servants`** is an active object S in its own thread with a pool and a servant
L of a lower layer. `Way` lists the thirteen ways in which a member can post a
task, by what they have in common: where the task runs, whether it and its
callback are guarded by a check that S is alive, how it answers, and whether it
holds a reference to L. `task[t]` is the life of a task from the call to the end
of its callback; `life`, `owns`, `diedIn` tell who holds what and which thread
ran a destructor. `made` is the promise that the constructor of a proxy waits
for, with its timeout.

**`Notification`** has a world per scheduler with its subscribers (`subs`), what
it knows of other schedulers (`remote`), its queue and private queue, and the
calls of `publish_internal` that are under way (`frames`), which hold
iterators; `bus` is the notification servant that registers schedulers with
each other and waits for them. `telling` is what a thread has still to tell other
schedulers, one call after the other: its new subscription, one it gave back, or,
in the job by which it learns of a new scheduler (`RunOthersJob` to
`OthersJobEnds`), all of them. A call into a scheduler of several threads
(`Wide`) puts the job into their private queues and, if that scheduler was
registered with `wait_until_done` (`Waited`), returns when they have executed it:
until then the caller does nothing else (`Blocked`), and neither does whoever
waits for the caller. The threads of one scheduler are represented by one of
them, and the order in which others are told is left open (`Send`); the code goes
through a vector.

### Algorithms and containers

**`ForkJoin`** says how an algorithm divides a range [b, e): `Divide(cut, leaf,
join, ...)` gives the outcome of the task tree - a value, an exception, an
exception that escaped a task, no answer, or "undefined" when the code touches
what it may not. **`SearchAlgorithms`**, **`RangeAlgorithms`** and
**`SortAlgorithms`** give for each header its leaf and its done functor.
`Together` joins two halves that write memory: their cells must be disjoint.
**`TaskCombinators`** folds a combinator over every order in which the
continuations can end. **`Placement`** counts constructions and destructions
per cell. **`ParallelPartition`** is the one algorithm whose tasks share
counters: each atomic operation is a step, `task[t]` the blocks a task holds.

**`ParallelVector`** keeps for each vector its cells (raw, an object, moved-from,
or damaged by a construction over an object or an access to raw memory), its
size, capacity and the size in the deleter. Every call of a client is an
action built from the helpers that reallocate, close a gap or open one.
`Beyond` names calls that the code gets wrong; the run leaves them out, a
configuration takes them in.

## 4. The runs

Eleven runs pass; one shows a deviation (section 5). A run may hold the
instances of several modules that share no state (`MCQueues`, `MCPools`,
`MCServants`, `MCAlgorithms`), and an MC module may serve two runs
(`MCCallbackContinuation` those of `callback` and `partition`): a variable
chosen at the start (`kind`, `part`) says of which one a behaviour is; in
`MCThreadpoolScheduler`, `offered` says which jobs the clients may post.

| run | instance | shows |
|---|---|---|
| `pool` | 2 workers; 2 clients, 1 private task and either a job that forks two, or one that forks one and waits with a timeout; or 1 client and an interruptible job that forks two and is interrupted at any moment, like its subtasks, two of the three; 259 000 states | `TerminationAfterLastReference`, `NothingLeftBehind`; `ForkJoinCorrect` (continuations after their subtasks and once, all subtasks posted or none, but for a timeout or an interruption); `JobsAccountedFor` (a job is in one place, diagnostics agree); `JobPool` is implemented; `PostedWorkEnds`; `ShutdownCompletes` |
| `interrupt` | 1 client, 2 workers that are told to stop, an interruptible or a plain job that forks two, one that does not catch; 48 600 states | `InterruptsItsJob`: cancelled jobs never run, and outside the drain loop nobody else is hit; `InterruptionsBlockNobody`: interrupt() returns, jobs end |
| `worlds` | 2 workers, 2 worlds, two members, a callback and a deleter; 176 000 states | `OneThreadPerWorld`; `WorldsServeInOrder`; `EverythingEnds` |
| `callback` | 3 continuations, 5 tasks, all the ways of creating; 119 000 states | on_done is called once, with every result, and eventually |
| `queues` | list: 2 producers of 3 elements, a `pop`, a `try_pop`; counters: 2 pushers, 2 poppers, words of 3 bits; container: 4 queues, 3 jobs, a worker, a thief; 154 000 states | the list is a FIFO and `try_pop` returns; counters agree with the contents up to calls in progress; queues keep their order; priorities are respected |
| `job_server` | 2 jobs (one may be stolen), 1 client, 2 connections, 1 crash; 82 000 states | a job in one place; jobs and requests are answered |
| `pools` | io: 1 permanent, 2 temporary workers, 4 jobs; composite: multiqueue pool of 2, stealing pool of 1, a job that forks two; 185 000 states | `ThreadsAccountedFor`: workers bounded, threads joined once; both implement `JobPool`; shutdowns and jobs end |
| `partition` | a range of 4, blocks of up to 3, 2 threads, elements that hold, do not, throw; 188 000 states | no element in two tasks' hands, the range is partitioned, the answer comes |
| `algorithms` | sequences of up to 5 of {0, 1, 2, 9}, 9 throwing, cutoffs 1 and 2, random-access and input iterators; two vectors of up to 3 elements; 9 200 states | the answers and effects of the sequential algorithms; one answer of each combinator; elements live where they should, operations do what those of `std::vector` do |
| `servants` | 2 clients, 2 calls, each posted in six or seven ways, interruption, constructor timeout; 261 000 states | layers die in order; callbacks only while the servant lives; nobody waits for ever |
| `notification` | 2 worlds, one of several threads and waited for, 2 servants, 3 subscriptions, 2 events; 218 000 states | registered schedulers know each other's subscriptions; running loops keep their entries; registrations end |
| `servants_layers` | 1 client, 1 call to the lower layer | violation, see 5 |

Bounds. Two workers are the least that race, and every property about workers
relates at most two of them; two clients are needed for the last proxy to be
dropped while somebody else holds a locked weak scheduler. Two subtasks let the
scheduler die between two posts. Two worlds let a worker skip a taken one and
find another. Three elements let a list become empty and non-empty again on
both sides; three bits are enough for a counter to wrap below zero. Of an io
pool, the second temporary worker is the first one that can join another. One
client with two connections loses a connection and comes back; two clients
differ only in that the server may answer either. A range of 4 with blocks of
3 has a full and a short block on each side. Sequences of five with cutoff 1
give trees of depth three, so that every done functor joins answers that were
joined; five elements of which two are equal and one throws also put equal
elements and the exception on either side of each cut. Two vectors are needed
for swap, assignment and merge; the default capacity and the spare room of the
code (10 each) are constants and 2 and 1 in the instance. `MaxPrivateTasks`,
`Pushes`, `MaxNodes`, `MaxCrashes`, `Conns`, `MaxTokens`, `MaxPublish`,
`MaxLength`, `MaxElements` and the job sets are the only bounds; each stands in
a guard, an ASSUME or an initial state. To keep `pool` small its MC module adds
three, named there: who is sent private tasks (`PrivateTasksBound`), one client
without locks beside the interruptible job (`ClientsBound`), and two interruptions,
each of a state that can still matter (`InterruptsBound`). What no instance shows: an unbounded
stream of jobs, under which continuations of the thread pool starve by design
(they are scanned only when the queue is empty).

Fairness. Every worker thread is scheduled: WF of its actions together, since
`run` is a loop that never blocks except in a job. Jobs and destructors return;
a reference got from a weak scheduler is given back (it is a local variable of
the library's own functions). A client that is inside `interrupt()` continues.
The timers of a live tcp client fire and its pool executes; SF of the server's
thread, which may be busy in between while a message waits in its FIFO. A
servant's thread and the pools run; remote clients answer. Nothing is assumed
of when clients post, copy or drop proxies, call `interrupt()` or `pop()`, nor
of spurious wakeups, thefts, faults, subscriptions and events. `ThreadsafeList`
assumes SF for its steps, since a mutex that is free over and over is obtained
by each waiter eventually (pthread mutexes promise less in theory; WF would let
a busy thread starve `try_pop`).

Deadlock is checked in `pool`, `interrupt`, `worlds`, `callback`, `queues`,
`job_server` and `pools`, whose modules have an explicit step for the states in
which the system may stop. It is not checked in `partition` and `algorithms`,
which end with an answer or a sequence of full length, nor in `servants` and
`notification`, where clients stop calling when the tasks, tokens and events of
the instance are used up; there `PartitionAnswers`, `NobodyWaitsForEver` and
`RegistrationEnds` say that nothing stops too early.

## 5. Deviations found

With a run, `servants_layers`: the documentation promises that layers of
servants are destroyed from the lowest to the highest. The functor of
`BOOST_ASYNC_UNSAFE_MEMBER` holds a `shared_ptr` to the lower servant, and
`post_callback` moves it into the callback that is queued in the thread of its
creator: the proxy and the scheduler of the lower layer go, that of the upper
one follows, and the lower servant dies last, in whatever thread destroys the
queue.

### Deviations without a run

The modules state more properties that the code does not meet. The
configurations named here list them, or give the constants; TLC refutes each of
them under its configuration (one at a time: it stops at the first).

- Thread pool (the constants of `Threadpool.cfg`): `NoContinuationDropped`: a draining
  worker leaves with a continuation whose subtask another worker is still
  executing. `InterruptedIsLogged`: the handler of `thread_interrupted` writes
  no diagnostics, while the documentation says they "will show that the task
  was interrupted". With FunctorThrows = TRUE,
  `ShutdownCompletes`: an exception of the diagnostics functor replaces the one
  that stops the worker (`scheduler_helpers.hpp:41`).
- Interruption (`InterruptDeviations.cfg`): `PlainForksAll`: an interruption
  that leaves the body of a job leaves its state in thread-local storage
  (`interruptible_job.hpp:104`), and the next plain job that forks on that worker
  drops its subtasks. `OnlyRequestedAreHit`: the iteration that finds the
  termination task skips its interruption point, and an interruption left over
  hits the first job of the drain loop. `SubsAreMarked`: a job interrupted
  between the posts of its subtasks and `add_subs` (`continuation_impl.hpp:740`)
  leaves them unmarked.
- Worlds (`WorldsDeviations.cfg`): `OneThreadPerServant`:
  `BOOST_ASYNC_POST_MEMBER` (`servant_proxy.hpp:66`) adds 100000 * offset to a
  priority to which `servant_proxy::post` (`:644`) adds it again, so that a void
  member of servant k is queued in world 2k, which may not exist.
  `CallbackSeesServant`: the deleter is posted to world 0 (`:612`) and destroys
  the servant while its callback runs in its own world.
- Queues (`QueuesDeviations.cfg`): `PopWakes`: `push` notifies without
  `m_head_mutex`, so that a wakeup falls between the test and the wait of `pop`
  (the schedulers use `try_pop` only). `MaxWasReached`: the size wraps below zero
  when an element is popped before its push counts it, and the wrapped value
  becomes the maximum. `TerminationComesLast`: a search that has passed the
  higher queues takes the termination job before what was pushed there.
- Continuations (the constants of `CallbackNested.cfg`): with `Spec`,
  Cases <- OneFlat, Throws = {}, Fails = {t2}, `CalledWithAllResults`: a subtask
  executed in place that throws after it gave its result is counted twice. With
  Cases <- TimedFlat, Remote = {}, Throws = {t3}, `TimeoutEnds`: after the
  timeout the worker drops the continuation and on_done is not called.
- Pools (`PoolsDeviations.cfg`): `QueuesProcessedFirst`: in
  `stealing_multiqueue_threadpool_scheduler.hpp:236` an inner `popped` hides the
  one that is returned, and the drain loop ends after one job.
  `ContinuationCalled`: continuations of a temporary worker of an io pool end
  with it. `JobGetsWorker`: a worker is created when more than one job is queued
  (`io_threadpool_scheduler.hpp:167`), so that a single job waits behind busy
  ones.
- Servants (`ServantsDeviations.cfg`): `DestroyedInOwnWorld`,
  `TasksReturnHome`, `QueuedTasksDoNotStart` are statements of the
  documentation (each quoted at its definition); `CalledBackOnce`: a callback
  that throws is called again by the handler of the call.
- Notification (the constants of `Notification.cfg`, with
  Subscribed <- Overlapping and Published <- SecondPublishes): `PostedOnce`: two matching
  subscriptions of a scheduler, and an event comes twice. `StillKnown`: what is
  subscribed again after it was given back is not known to the others.
  `MarksAreRemoved`: a handler that throws leaves `m_publish_counter` raised.
  With Home <- Together and Throwing = {}, `TracksALivingServant`: the entry of
  another scheduler tracks only the servant that subscribed last.
- Notification (`NotificationWaits.cfg`, where both schedulers have several
  threads and are waited for): `RegistrationEnds`. `wait_until_done` of
  `register_scheduler_to_notification` is there to wait "that the registration has
  been completed"; it makes every later call into that scheduler wait for all its
  threads (`notification_proxy.hpp:119`). X is registered, then Y; the notification
  servant tells X of Y, and then has Y execute the job by which it learns of X.
  Meanwhile a thread of X subscribes and waits for the threads of Y; Y's thread,
  still in its job, sends a waiting subscription to X and waits for its threads.
  The `wait_for_all` of `:148`, in which the notification servant waits for that
  job, never returns. With one scheduler that is waited for, `RegistrationEnds`
  holds (`notification`): that one calls into schedulers that do not make it wait.
- Tcp (the constants of `JobServer.cfg`): `WaitingResultsAreSent`: results
  queued behind a request that is being written wait for the next result
  (`simple_tcp_client.hpp:374`). `ErrorGetsJobBack`: a failed send that is
  reported before the job is among the waiting ones loses it
  (`job_server.hpp:209`).
- `parallel_partition` (`Partition.cfg`) with Size = 5, BlockSize = 2, OpenThreads = 2,
  MinParallel = 9, IntBits = 3, Elements = {"yes", "no"}: `Partitioned`: the
  number of elements left is converted to int (`parallel_partition.hpp:194`).
- Algorithms (`AlgorithmsDeviations.cfg`, eleven invariants): a pattern across
  the cut is not found by `parallel_search` and `parallel_find_end`; a
  lexicographical compare joins halves by "or"; `parallel_nth_element` takes the
  wrong part when the pivot is the element; `partial_sort` may divide an empty
  part for ever; the second range of a transform of two ranges is read from the
  first; scans start from `T()`; merge is not stable; `all_of` answers twice
  when two fail; a failed placement also answers success; a clause that fails
  in another thread is lost; `parallel_stable_sort` reverses a part in reverse
  order together with its equal elements.
- Vector (the constants of `Algorithms.cfg` with Parts = {"vector"}; Beyond
  selects the calls, one after the other): "pop_back" destroys the first
  element; clear and what follows it ("emptied"), `reserve` to less than the
  size ("reserve", which needs MaxRoom <- 5), references into the vector itself
  ("own") and the merge of containers ("merge") break `LiveCells`;
  "async_resize" of a vector with enough room never answers (`AllAnswered`).

## 6. What is proved

Each theorem holds for every value of the constants that satisfies the
assumptions of its module: any number of threads, clients and jobs. The
assumptions describe how a program may use the library: a subtask is moved into
one continuation and belongs to one parent, arguments of a continuation are
distinct tasks, jobs of an io pool and continuations are finitely many, the
world of a job exists (`post` asserts it). Bounds that cap a run
(`MaxPrivateTasks`, `MaxNodes`) are constants too and may be any number. Some
theorems have a hypothesis more; it is named below, with the reason why the
statement is false without it. A component whose proofs stand in the module of
another one is an instance there, with variables and constants of its own; the
assumptions on its constants are then a hypothesis of its theorems. An invariant that a run checks is seldom inductive, so each
argument rests on a stronger one, with a type invariant as its first part.

`ThreadpoolSchedulerProofs` (assumption `ConstantsAssumption`):

- `TypeCorrect`: `TypeOK /\ ControlInv`. The types alone are not inductive: a
  worker in a body must have a job (`WorkerInv`), a destructor that runs must
  have an index within its loop and nobody may own a live scheduler
  (`DtorInv`), the implementation's reference follows the last copy of the
  proxy (`CloseInv`).
- `ShutdownCorrect`: `StopInv /\ LastInv /\ DrainInv`. `StopInv` says where
  the termination task of a worker is: not pushed before the destructor's index
  passes the worker, then last in its private queue, then consumed. `LastInv`
  says that nothing follows it. `DrainInv` says that when a worker has left, the
  queue is empty and stays so: only a thread that owns a reference posts, and
  none is left. `TerminatesAfterLastReference` and `LeavesNothingBehind` follow.
- `JobsCorrect`: `JobInv /\ DiagnosticsAgree`, where `JobInv` says that a job is
  queued once or executed by one worker (`HoldInv`, `PlaceInv`) and that a job
  that has not forked yet finds its subtasks new (`ForkInv`: without it, a post
  of a subtask could put a second copy into the queue). `AllJobsAccountedFor`
  is the property `JobsAccountedFor` of `pool`.
- `ForksJoin` is `ForkJoinCorrect`, with the exceptions that an interruption
  makes. `KeepInv` adds that a continuation that is kept or was called is that of
  a job that has forked; that its subtasks have ended when it is called follows
  since an end is final (`ResolvedStays`), or its state was marked, which
  `requested` remembers though a job that completes overwrites the mark.
  `FateInv` says of a fork under way that what it no longer has to post was
  posted, but for its last subtask once its state was marked.
- `ImplementsJobPool`: every step maps to one step of `JobPool` or a stutter.
  Accepting needs that who posts owns a reference, reporting "joined" needs
  `DrainInv` and that a worker without a job leaves no running job.

`IoThreadpoolProofs` (assumption `WorkersAssumption`):

- `PoolCorrect`: where jobs are (`QueueInv`, `RunInv`, `ForkInv`), that the
  counter is the number of threads that have not passed `thread_finished` and
  that threads are created by posts (`CountInv`), that a thread that has ended
  is in `m_done_threads` or in the hands of one ending thread (`GroupInv`), and
  who owns the scheduler (`OwnerInv`). `AllThreadsAccountedFor` follows: never
  more threads than `MaxWorkers`, and a thread that has ended is taken out of the
  group and joined by one other thread.
- `ImplementsJobPool`, if `MinWorkers >= 1`: without a permanent worker nobody
  has to empty the queue, and a job may be in it when the destructor returns.
- `SharedImplementsJobPool`, for `StealingPool`: pools that share their queues
  are together one `JobPool`. The hypothesis `SharedConstants` says that a
  subtask has one parent and that no pool is a `stealing_multiqueue` one, whose
  drain loop stops after one job (section 5), so that jobs are left. The
  invariant `SharedInv`: a queued job is in one queue (`InQueues`), a running one
  has one worker (`Executed`), subtasks are new until they are posted
  (`ForksReady`), a worker is told to end only when its pool is owned by nobody,
  and one that drains and has passed its own queue leaves it empty (`ShutDown`).
  Since every queue is the own queue of a worker, nothing is left when the last
  pool was joined; that a thief forks in its own pool, not in that of the job,
  does not matter, since it locks that pool's scheduler first. What computes the
  order in which queues are tried is proved by least counterexamples (`Least`).

`MultipleThreadSchedulerProofs` (assumptions `ConstantsAssumption`,
`WorldsExist`):

- `TypeCorrect`; `WorldCorrect`: two workers that serve serve different worlds,
  and a world is marked exactly while one serves it. Neither half is inductive
  alone: taking a world preserves the first because of the second.
  `FlagFollowsOwner` (`TakenByOne`) and `WorldExclusion` (`OneThreadPerWorld`).
- `OrderCorrect`: what was posted to a world is what has completed there, then
  the job in hand, then its queue. `CompletesInOrder` is a consequence.
- `ShutdownCorrect`: a world that has jobs will be looked at by some worker
  that has not left (`WillVisit`: it does not drain yet, is in a job, or its
  scan has not passed the world). It is what makes a scan that skips worlds
  taken by others safe: who has taken one comes back. From it and `OrderInv`,
  `ShutdownLeavesNothing`.
- `ServantsServed` is `WorldsServeInOrder`, if all members and callbacks of a
  servant go to one world (`OneWorldPerServant`). Where they do not, since the
  offset of a void member is added twice (`servant_proxy.hpp:66`, section 5),
  its part `OneThreadPerServant` is false.

`ThreadsafeListProofs` (assumption `ThreadsAssumption`): `ListCorrect`, who is
between lock and unlock owns the mutex, and the dummy node is behind the
elements; a consumer that takes has seen under its mutex that the list is not
empty, and producers only make it longer. `ImplementsQueue`: with the elements
from `head` to `tail` as the queue, each step is one of `Fifo` or a stutter. The
element enters when the node is linked and leaves when `m_head` moves. The
other queues are instances:

- `CountersAgree` (`CountersFollow` of `LockfreeSize`), if the counter is wide
  enough for all pushes (`NoOverflow`). `BalanceInv`: counter and uncounted
  pushes balance elements and uncounted pops, but for one wrap below zero, which
  happens when an element is popped before its push counts it. `MaxInv`: while
  the size exceeds the maximum, a producer is on its way to record it.
- `QueuesGiveInOrder` and `ContainerRespectsPriority` (`QueuesKeepOrder`,
  `PriorityRespected` of `QueueContainer`), for containers of any known queues
  (`ContainerConstants`). `CellsInv`: the used cells of the circular buffer are
  its first ones; `OrderInv`: what was pushed is what was taken, then what is
  there; `LateInv`: a job in a queue that a search has passed came after it.

`InterruptibleJobProofs` (assumption `JobsAssumption`): `JobsCorrect`, a job is
taken once, subtasks are fresh until they are posted, an `interrupt()` in
progress is of one job; `InterruptCorrect`, a job that was marked before it ran
is never entered (`CancelInv`), and a thread that does not drain has a pending
interruption only for the job it executes, or has just left one and will consume
it (`SignalInv`). `InterruptReachesItsJob` is `InterruptsItsJob`. The exception
for draining workers is not a weakness of the proof: section 5.

`CallbackContinuationProofs` (assumption `CaseAssumption`), for any tree of
continuations in all forms:

- `CallbackCorrect`, `CallsOnce` (`CalledOnce`), whatever throws: there is one
  step "return" of the root at a time, and it appears when its counter becomes
  full. A subtask that is counted twice cannot add another one, since the counter
  only grows.
- `CalledWithAll` (`CalledWithAllResults`), if no task throws after it gave its
  result (`Fails = {}`). Each argument has one token to count, which is in one
  program of a thread, posted, or not created yet (`Apart`, `Clear`); those
  that are used have counted, and the counter is their number (`Balanced`); a
  slot is written before it is counted (`WriteFirst`). A full counter therefore
  means that every slot is written. A task that throws late counts twice, and
  the statement is false (section 5).
- `BlocksNeverMeet` (`BlocksApart`) and `PartitionIsCorrect` (`PartitionCorrect`
  of `ParallelPartition`), whose tasks fork by such continuations, for any range,
  number of threads and size of blocks, if the int that a block's size is
  converted to can hold the values of the counter (`IntHolds`; `WideInt` says how
  wide that is; without it, section 5). The first needs that what was taken from the
  counter and not yet from an end, what was taken from the ends and what is left
  add up to the range (`SpaceInv`), and how often the counter may go below zero
  (`ThreadsInv`: a task that finds nothing left has taken below zero at most
  once, a fork adds two tasks, and a fork needs an opened thread). The second adds, while nothing has thrown, that an element
  on the wrong side is in the hands of a task (`SidesInv`), and that the tasks
  have counted the elements that hold, but for those in blocks they are busy with
  (`OnesInv`). A list of unfinished blocks may be in any order: what is left
  after an exchange follows from the order in which its positions are visited
  (`ByBlocks`), the final exchange from the number of positions on either side of
  the answer being the same (`EndExchange`). An element handed to two tasks
  would be counted twice, so that the second half needs the first.

`ServantsProofs` (assumptions `NoneAssumption`, `BusAssumption`):

- `ServantsInvariant`: what a queued job says of its task, its client and the
  servant (`QueueInv`, `TaskInv`), that the servant is constructed once and for
  one client (`BirthInv`), that it is alive exactly while a proxy, a task or a
  callback holds it, and dies in its own thread or in that of a client that no
  longer waited (`DeathInv`), and when it gives up the lower layer (`OwnerInv`).
- `LowerLayerFirst` (`LayersDieInOrder`), with `LowInv` for the lower servant;
  `CallbacksFindTheirServant` (`CallbackOnlyWhileAlive`), an action property:
  the callback is posted with a lock on the tracking object, and nobody destroys
  the servant while it is held.
- `LoopsFindTheirEntries` (`LoopsKeepTheirEntries` of `Notification`): the entry a loop over the
  subscribers stands at is there in the next state, however often handlers
  subscribe, unsubscribe or publish again. `LoopInv` says so of all nested loops;
  entries are marked only, and removed by the outermost loop when it ends.
- `SubscriptionsBecomeKnown` (`SubscriptionsKnown`), for any number of schedulers,
  registrations and servants. Of two schedulers on the bus that live, the first
  has been told of the second or is still to be told in the round under way
  (`KnowledgeInv`), and a topic wanted in the first is in the table of the second,
  in a job on its way there, or will be sent when the first is told. A round
  passes nobody over: the notification servant waits for one world, the only one
  with a job of its (`OthersJobs`), whose thread sends all its subscriptions with
  the new list. It does so call by call, and other worlds run in between: what a
  thread has still to tell (`telling`, `Underway`) counts as on its way like a job in
  a queue, and `bus.learns` as not told yet. Nothing removes the topic again: a job or a note that removes a
  scheduler is for a topic somebody there gave back, or for a scheduler that is
  gone (`RemovalsInv`).

`JobServerProofs` (assumption `ConnsAssumption`):

- `RequestsHaveOneAnswer` (`TokenInv`): of a request, a waiting connection, a
  message under way and a message that has arrived a connection has one.
- `JobsStayInOnePlace` (`JobInOnePlace`): unless an error callback and the answer
  to it have raced, every job has one place between server, connections and
  clients. It rests on `TokenInv`: a second answer would be a second place.

Only model-checked:

- liveness under fairness: `PostedWorkEnds`, `ShutdownCompletes`,
  `EverythingEnds` and the others, which are out of the prover's reach;
- what the other algorithms and the vector compute: recursion over the range,
  whose proof needs induction over data.

## 7. What is not modelled

- The asio extension, http, qt and tbb: event loops and containers of other
  libraries.
- Geometry: the union and overlay of polygons are those of Boost.Geometry on
  floating-point coordinates; their forks are plain callback continuations.
- Formatting and output of diagnostics, cpu load policies (how long an idle
  worker sleeps), `expected`, `any_callable` and serialization of values.
- In the modelled parts: interruption, continuations and diagnostics of
  `multiple_thread_scheduler`; shutdown of the tcp server; registering a
  scheduler with the bus twice; comparison and iterators of the vector; external
  sort functors other than as "sorts, stably or not"; the iterators that `insert`
  and `erase` of the vector return; exceptions of other types than
  `std::exception`, which the done functor of `parallel_adjacent_find` lets
  through.
- Memory orders weaker than sequential consistency: the atomics of the modelled
  code use the default order. Plain data that threads race for (the flags of
  `any_queue_container`, the containers of `job_server` in an error callback)
  are accessed in one step.
