--------------------------- MODULE InterruptibleJob ---------------------------
(***************************************************************************)
(* Interruption of posted jobs: interrupt_state (shared by the job and by  *)
(* the any_interruptible handle), interruptible_job (what the worker       *)
(* executes), the interrupt state that a worker keeps in thread-local      *)
(* storage, the interruption flag of boost::thread, and the subtasks that  *)
(* a callback continuation posts under the interrupt state of its job.     *)
(*                                                                         *)
(* m_mutex of an interrupt_state is held by interrupt() for its whole body *)
(* when the job runs; every other access to m_state is one locked access   *)
(* and one step here.                                                      *)
(***************************************************************************)
EXTENDS Naturals, Sequences

CONSTANTS
  Workers,
  Clients,        \* threads that own handles
  Jobs,
  Interruptible,  \* roots posted by interruptible_post
  Plain,          \* roots posted by post
  Posted,         \* the sets of roots of which one was posted
  Subtasks,       \* [Jobs -> Seq(Jobs)]: arguments of create_callback_continuation
  Catching,       \* jobs whose body catches thread_interrupted (post_future,
                  \* post_callback); the others let it through
  Stops,          \* whether the scheduler is shut down in this instance
  None

Elements(s) == {s[i] : i \in DOMAIN s}

ASSUME JobsAssumption ==
  /\ Interruptible \cup Plain \subseteq Jobs
  /\ Interruptible \cap Plain = {}
  /\ Subtasks \in [Jobs -> Seq(Jobs)]
  /\ \A roots \in Posted :
       /\ roots \subseteq Interruptible \cup Plain
       /\ \A p, q \in roots : p # q => Elements(Subtasks[p]) \cap Elements(Subtasks[q]) = {}
  /\ \A p \in Jobs : \A s \in Elements(Subtasks[p]) :
       Subtasks[s] = <<>> /\ s \notin Interruptible \cup Plain
  \* Every argument is a job of its own.
  /\ \A p \in Jobs : \A i, k \in DOMAIN Subtasks[p] :
       i # k => Subtasks[p][i] # Subtasks[p][k]
  /\ Catching \subseteq Jobs
  /\ Stops \in BOOLEAN
  /\ None \notin Jobs \cup Workers

VARIABLES
  istate,    \* m_state of the interrupt_state of a job
  subs,      \* its m_interruptibles
  kind,      \* how the job was posted: "none", "plain" or "interruptible"
  queue,     \* posted and not taken
  outcome,   \* what became of the job
  ran,       \* jobs whose body was entered
  workerOf,  \* the promise m_worker: which thread executes the job
  pc, job,   \* the worker and the interruptible_job or job it executes
  tss,       \* get_interrupt_state: the job whose state the thread carries
  pending,   \* boost::thread interruption requested
  draining,  \* the worker is in the drain loop of run()
  fork,      \* subtasks still to be given to task_type_selector::construct
  forkState, \* the interrupt state create_callback_continuation has read
  forked,    \* handles collected for add_subs
  icall,     \* the interrupt() a client is in
  requested, \* jobs whose interrupt() was called, by a client or a parent
  cancelled, \* jobs marked interrupted before their state became "running"
  hit        \* jobs in whose body thread_interrupted was thrown

stateVars  == <<istate, subs, kind>>
workerVars == <<pc, job, tss, draining>>
forkVars   == <<fork, forkState, forked>>
history    == <<requested, cancelled>>
vars == <<stateVars, queue, outcome, ran, workerOf, workerVars, pending,
          forkVars, icall, history, hit>>

NoCall == [job |-> None, todo |-> {}, locked |-> FALSE]

TypeOK ==
  /\ istate \in [Jobs -> {"none", "running", "completed", "interrupted"}]
  /\ subs \in [Jobs -> SUBSET Jobs]
  /\ kind \in [Jobs -> {"none", "plain", "interruptible"}]
  /\ queue \subseteq Jobs
  /\ outcome \in [Jobs -> {"none", "skipped", "returned", "thrown", "inline", "dropped"}]
  /\ ran \subseteq Jobs
  /\ workerOf \in [Jobs -> Workers \cup {None}]
  /\ pc \in [Workers -> {"idle", "start", "run", "check", "body", "fork", "complete", "after",
                       "done"}]
  /\ job \in [Workers -> Jobs \cup {None}]
  /\ tss \in [Workers -> Jobs \cup {None}]
  /\ pending \in [Workers -> BOOLEAN]
  /\ draining \in [Workers -> BOOLEAN]
  /\ fork \in [Workers -> Seq(Jobs)]
  /\ forkState \in [Workers -> Jobs \cup {None}]
  /\ forked \in [Workers -> SUBSET Jobs]
  /\ icall \in [Clients -> [job : Jobs \cup {None}, todo : SUBSET Jobs, locked : BOOLEAN]]
  /\ requested \subseteq Jobs
  /\ cancelled \subseteq Jobs
  /\ hit \subseteq Jobs

\* The roots have been posted.
Init ==
  /\ istate = [j \in Jobs |-> "none"]
  /\ subs = [j \in Jobs |-> {}]
  /\ queue \in Posted
  /\ kind = [j \in Jobs |-> IF j \notin queue THEN "none"
                            ELSE IF j \in Plain THEN "plain" ELSE "interruptible"]
  /\ outcome = [j \in Jobs |-> "none"]
  /\ ran = {}
  /\ workerOf = [j \in Jobs |-> None]
  /\ pc = [w \in Workers |-> "idle"]
  /\ job = [w \in Workers |-> None]
  /\ tss = [w \in Workers |-> None]
  /\ pending = [w \in Workers |-> FALSE]
  /\ draining = [w \in Workers |-> FALSE]
  /\ fork = [w \in Workers |-> <<>>]
  /\ forkState = [w \in Workers |-> None]
  /\ forked = [w \in Workers |-> {}]
  /\ icall = [c \in Clients |-> NoCall]
  /\ requested = {}
  /\ cancelled = {}
  /\ hit = {}

\* m_mutex of the interrupt_state of j is held by an interrupt().
Locked(j) == \E c \in Clients : icall[c].job = j /\ icall[c].locked

-----------------------------------------------------------------------------
(* interrupt_state::interrupt                                              *)

\* The handle of j is interrupted while m_state has the value it has now.
\* w->interrupt() needs the thread, which interruptible_job publishes before
\* it calls run().
Mark(S) == /\ istate' = [j \in Jobs |-> IF j \in S THEN "interrupted" ELSE istate[j]]
           /\ cancelled' = cancelled \cup {j \in S : istate[j] = "none"}

Signal(S) == pending' = [w \in Workers |-> pending[w] \/ \E j \in S : workerOf[j] = w]

\* Not started: marked.  Already interrupted: nothing.  Completed: marked,
\* the mutex is released, then the subtasks.  Running: the subtasks, then
\* w->interrupt() and the mark, all under the mutex.
InterruptBegin(c, j) ==
  /\ icall[c] = NoCall
  /\ kind[j] = "interruptible"
  /\ j \in Interruptible \ requested
  /\ ~Locked(j)
  /\ requested' = requested \cup {j}
  /\ IF istate[j] = "running" THEN UNCHANGED <<istate, cancelled>> ELSE Mark({j})
  /\ icall' = IF istate[j] \in {"running", "completed"}
              THEN [icall EXCEPT ![c] = [job |-> j, todo |-> subs[j],
                                         locked |-> istate[j] = "running"]]
              ELSE icall
  /\ UNCHANGED <<subs, kind, queue, outcome, ran, workerOf, workerVars, pending,
                 forkVars, hit>>

\* The same call on a subtask, which has no subtasks of its own.
InterruptSub(c, s) ==
  /\ s \in icall[c].todo
  /\ istate[s] = "running" => workerOf[s] # None
  /\ icall' = [icall EXCEPT ![c].todo = @ \ {s}]
  /\ requested' = requested \cup {s}
  /\ Mark({s})
  /\ IF istate[s] = "running" THEN Signal({s}) ELSE UNCHANGED pending
  /\ UNCHANGED <<subs, kind, queue, outcome, ran, workerOf, workerVars, forkVars, hit>>

InterruptEnd(c) ==
  /\ icall[c].job # None
  /\ icall[c].todo = {}
  /\ icall[c].locked => workerOf[icall[c].job] # None
  /\ icall' = [icall EXCEPT ![c] = NoCall]
  /\ IF icall[c].locked THEN Mark({icall[c].job}) /\ Signal({icall[c].job})
                        ELSE UNCHANGED <<istate, cancelled, pending>>
  /\ UNCHANGED <<subs, kind, queue, outcome, ran, workerOf, workerVars, forkVars,
                 requested, hit>>

Client(c) ==
  \/ \E j \in Jobs : InterruptBegin(c, j) \/ InterruptSub(c, j)
  \/ InterruptEnd(c)

-----------------------------------------------------------------------------
(* interruptible_job::operator()                                           *)

Goto(w, where) == pc' = [pc EXCEPT ![w] = where]

\* Only an interruptible_job writes the thread-local interrupt state.
Take(w, j) ==
  /\ pc[w] = "idle"
  /\ j \in queue
  /\ queue' = queue \ {j}
  /\ job' = [job EXCEPT ![w] = j]
  /\ IF kind[j] = "interruptible"
     THEN /\ tss' = [tss EXCEPT ![w] = j]
          /\ Goto(w, "start")
          /\ UNCHANGED ran
     ELSE /\ ran' = ran \cup {j}
          /\ Goto(w, "body")
          /\ UNCHANGED tss
  /\ UNCHANGED <<stateVars, outcome, workerOf, pending, draining, forkVars,
                 icall, history, hit>>

\* The job ends in this way; in the drain loop the next one is popped at once.
Finish(w, how) ==
  /\ outcome' = [outcome EXCEPT ![job[w]] = how]
  /\ job' = [job EXCEPT ![w] = None]
  /\ Goto(w, IF draining[w] THEN "idle" ELSE "after")

ClearTss(w) == tss' = [tss EXCEPT ![w] = None]

\* is_interrupted() says yes: the job returns without running.
Skip(w) ==
  /\ pc[w] \in {"start", "check"}
  /\ ~Locked(job[w])
  /\ istate[job[w]] = "interrupted"
  /\ Finish(w, "skipped")
  /\ ClearTss(w)
  /\ UNCHANGED <<stateVars, queue, ran, workerOf, pending, draining, forkVars,
                 icall, history, hit>>

\* Mutant of Publish: the thread is not published.
PublishNothing(w) ==
  /\ pc[w] = "start"
  /\ ~Locked(job[w])
  /\ istate[job[w]] # "interrupted"
  /\ Goto(w, "run")
  /\ UNCHANGED <<stateVars, queue, outcome, ran, workerOf, job, tss, draining, pending,
                 forkVars, icall, history, hit>>

\* m_worker->set_value(...)
Publish(w) ==
  /\ pc[w] = "start"
  /\ ~Locked(job[w])
  /\ istate[job[w]] # "interrupted"
  /\ workerOf' = [workerOf EXCEPT ![job[w]] = w]
  /\ Goto(w, "run")
  /\ UNCHANGED <<stateVars, queue, outcome, ran, job, tss, draining, pending,
                 forkVars, icall, history, hit>>

\* interrupt_state::run()
Run(w) ==
  /\ pc[w] = "run"
  /\ ~Locked(job[w])
  /\ istate' = [istate EXCEPT ![job[w]] = IF @ = "interrupted" THEN @ ELSE "running"]
  /\ Goto(w, "check")
  /\ UNCHANGED <<subs, kind, queue, outcome, ran, workerOf, job, tss, draining,
                 pending, forkVars, icall, history, hit>>

\* Mutant of Enter: the second test of is_interrupted() is missing.
EnterUnchecked(w) ==
  /\ pc[w] = "check"
  /\ ~Locked(job[w])
  /\ ran' = ran \cup {job[w]}
  /\ Goto(w, "body")
  /\ UNCHANGED <<stateVars, queue, outcome, workerOf, job, tss, draining, pending,
                 forkVars, icall, history, hit>>

Enter(w) ==
  /\ pc[w] = "check"
  /\ ~Locked(job[w])
  /\ istate[job[w]] # "interrupted"
  /\ ran' = ran \cup {job[w]}
  /\ Goto(w, "body")
  /\ UNCHANGED <<stateVars, queue, outcome, workerOf, job, tss, draining, pending,
                 forkVars, icall, history, hit>>

\* The body has returned: an interruptible_job still has to call complete().
Leave(w) ==
  IF kind[job[w]] = "interruptible"
  THEN Goto(w, "complete") /\ UNCHANGED <<outcome, job>>
  ELSE Finish(w, "returned")

Return(w) ==
  /\ pc[w] = "body"
  /\ Subtasks[job[w]] = <<>>
  /\ Leave(w)
  /\ UNCHANGED <<stateVars, queue, ran, workerOf, tss, draining, pending, forkVars,
                 icall, history, hit>>

\* An interruption point of the body.  A body that catches the exception
\* returns; otherwise it is rethrown and nothing is cleaned up.
Throw(w) ==
  /\ pc[w] = "body"
  /\ pending[w]
  /\ pending' = [pending EXCEPT ![w] = FALSE]
  /\ hit' = hit \cup {job[w]}
  /\ IF job[w] \in Catching THEN Leave(w) ELSE Finish(w, "thrown")
  /\ UNCHANGED <<stateVars, queue, ran, workerOf, tss, draining, forkVars, icall, history>>

\* interrupt_state::complete() overwrites whatever the state is.
Complete(w) ==
  /\ pc[w] = "complete"
  /\ ~Locked(job[w])
  /\ istate' = [istate EXCEPT ![job[w]] = "completed"]
  /\ Finish(w, "returned")
  /\ ClearTss(w)
  /\ UNCHANGED <<subs, kind, queue, ran, workerOf, draining, pending, forkVars,
                 icall, history, hit>>

-----------------------------------------------------------------------------
(* callback_continuation: the constructor                                  *)

ForkBegin(w) ==
  /\ pc[w] = "body"
  /\ Subtasks[job[w]] # <<>>
  /\ fork' = [fork EXCEPT ![w] = Subtasks[job[w]]]
  /\ forkState' = [forkState EXCEPT ![w] = tss[w]]
  /\ Goto(w, "fork")
  /\ UNCHANGED <<stateVars, queue, outcome, ran, workerOf, job, tss, draining,
                 pending, forked, icall, history, hit>>

\* task_type_selector::construct for the next subtask.  Without a state the
\* last subtask is executed here and the others are posted; with a state all
\* are posted as interruptible jobs, until it says it is interrupted.
Construct(w) ==
  LET s     == Head(fork[w])
      state == forkState[w]
  IN /\ pc[w] = "fork"
     /\ fork[w] # <<>>
     /\ state # None => ~Locked(state)
     /\ fork' = [fork EXCEPT ![w] = Tail(@)]
     /\ \/ /\ state = None /\ Len(fork[w]) = 1
           /\ outcome' = [outcome EXCEPT ![s] = "inline"]
           /\ ran' = ran \cup {s}
           /\ UNCHANGED <<kind, queue, forked>>
        \/ /\ state = None /\ Len(fork[w]) > 1
           /\ kind' = [kind EXCEPT ![s] = "plain"]
           /\ queue' = queue \cup {s}
           /\ UNCHANGED <<outcome, ran, forked>>
        \/ /\ state # None /\ istate[state] # "interrupted"
           /\ kind' = [kind EXCEPT ![s] = "interruptible"]
           /\ queue' = queue \cup {s}
           /\ forked' = [forked EXCEPT ![w] = @ \cup {s}]
           /\ UNCHANGED <<outcome, ran>>
        \/ /\ state # None /\ istate[state] = "interrupted"
           /\ outcome' = [outcome EXCEPT ![s] = "dropped"]
           /\ UNCHANGED <<kind, queue, ran, forked>>
     /\ UNCHANGED <<istate, subs, workerOf, workerVars, pending, forkState,
                    icall, history, hit>>

\* Mutant of AddSubs: m_state is not tested.
AddSubsUnchecked(w) ==
  /\ pc[w] = "fork"
  /\ fork[w] = <<>>
  /\ subs' = [j \in Jobs \cup {forkState[w]} |->
              (IF j \in Jobs THEN subs[j] ELSE {})
                \cup (IF j = forkState[w] THEN forked[w] ELSE {})]
  /\ forked' = [forked EXCEPT ![w] = {}]
  /\ forkState' = [forkState EXCEPT ![w] = None]
  /\ Leave(w)
  /\ UNCHANGED <<istate, kind, queue, ran, workerOf, tss, draining, pending, fork,
                 icall, history, hit>>

\* m_state->add_subs(...), after the last subtask; then the body returns.
AddSubs(w) ==
  /\ pc[w] = "fork"
  /\ fork[w] = <<>>
  /\ subs' = IF forkState[w] = None THEN subs
             ELSE [subs EXCEPT ![forkState[w]] = @ \cup forked[w]]
  /\ forked' = [forked EXCEPT ![w] = {}]
  /\ forkState' = [forkState EXCEPT ![w] = None]
  /\ Leave(w)
  /\ UNCHANGED <<istate, kind, queue, ran, workerOf, tss, draining, pending, fork,
                 icall, history, hit>>

-----------------------------------------------------------------------------
(* run(): between two jobs                                                 *)

\* Mutant of InterruptionPoint: run() has no interruption point.
NoInterruptionPoint(w) ==
  /\ pc[w] = "after"
  /\ Goto(w, "idle")
  /\ UNCHANGED <<stateVars, queue, outcome, ran, workerOf, job, tss, draining,
                 pending, forkVars, icall, history, hit>>

\* boost::this_thread::interruption_point() at the end of an iteration.
InterruptionPoint(w) ==
  /\ pc[w] = "after" \/ (pc[w] = "idle" /\ ~draining[w] /\ pending[w])
  /\ pending' = [pending EXCEPT ![w] = FALSE]
  /\ Goto(w, "idle")
  /\ UNCHANGED <<stateVars, queue, outcome, ran, workerOf, job, tss, draining,
                 forkVars, icall, history, hit>>

\* The termination task is found in the private queue: its exception leaves
\* the iteration before the interruption point.
Terminate(w) ==
  /\ Stops
  /\ pc[w] = "after" \/ (pc[w] = "idle" /\ ~draining[w] /\ queue = {})
  /\ draining' = [draining EXCEPT ![w] = TRUE]
  /\ Goto(w, "idle")
  /\ UNCHANGED <<stateVars, queue, outcome, ran, workerOf, job, tss, pending,
                 forkVars, icall, history, hit>>

\* The drain loop ends when try_pop finds nothing.
Drained(w) ==
  /\ pc[w] = "idle"
  /\ draining[w]
  /\ queue = {}
  /\ Goto(w, "done")
  /\ UNCHANGED <<stateVars, queue, outcome, ran, workerOf, job, tss, draining,
                 pending, forkVars, icall, history, hit>>

Worker(w) ==
  \/ \E j \in Jobs : Take(w, j)
  \/ Skip(w) \/ Publish(w) \/ Run(w) \/ Enter(w)
  \/ Return(w) \/ Throw(w) \/ Complete(w)
  \/ ForkBegin(w) \/ Construct(w) \/ AddSubs(w)
  \/ InterruptionPoint(w) \/ Terminate(w) \/ Drained(w)

\* Everything was executed and every handle is at rest.
Terminated ==
  /\ queue = {}
  /\ \A w \in Workers : pc[w] \in {"idle", "done"}
  /\ UNCHANGED vars

Next ==
  \/ \E c \in Clients : Client(c)
  \/ \E w \in Workers : Worker(w)
  \/ Terminated

\* Threads are scheduled; a client finishes the interrupt() it has begun.
Fairness ==
  /\ \A w \in Workers : WF_vars(Worker(w))
  /\ \A c \in Clients : /\ WF_vars(\E s \in Jobs : InterruptSub(c, s))
                        /\ WF_vars(InterruptEnd(c))

Spec     == Init /\ [][Next]_vars
FairSpec == Spec /\ Fairness

-----------------------------------------------------------------------------
(* Properties                                                              *)

\* README: "if they did not start yet because they are waiting in a queue,
\* then they will never start."  A job marked before it was running, be it
\* between the two tests of interruptible_job, never enters its body.
CancelledNeverRuns == cancelled \cap ran = {}

\* An interruption ends the job it was asked for, never the next job of the
\* same thread: what is left of it is consumed at the end of the iteration.
OnlyRequestedAreHit == hit \subseteq requested

\* An interruption reaches its job and no other: both of the above, until a
\* worker drains the queue in a loop that has no such interruption point.
InterruptsItsJob ==
  CancelledNeverRuns /\ ((\A w \in Workers : ~draining[w]) => OnlyRequestedAreHit)

\* interrupt() returns, though it takes the mutexes of the subtasks and waits
\* for the thread of the job while it holds the mutex of the job.
InterruptReturns == \A c \in Clients : icall[c] # NoCall ~> icall[c] = NoCall

\* A job that was posted ends in one way or another: neither the mutex held by
\* interrupt() nor a pending interruption blocks a worker.
PostedJobEnds == \A j \in Jobs : j \in queue ~> outcome[j] # "none"

\* Nobody is blocked by an interruption: both of the above.
InterruptionsBlockNobody == InterruptReturns /\ PostedJobEnds

\* A posted job leaves its thread without an interrupt state, so that a job
\* that nobody can interrupt forks all its subtasks: "All are posted except the
\* last, which is immediately executed from within the caller context."
PlainForksAll ==
  \A p \in Plain : \A s \in Elements(Subtasks[p]) : outcome[s] # "dropped"

\* interrupt(): "interrupt subs if any".  When no interrupt() is in progress, a
\* subtask that is still queued and whose parent was interrupted while it ran
\* has been marked too.
SubsAreMarked ==
  (\A c \in Clients : icall[c] = NoCall) =>
    \A p \in requested : \A s \in Elements(Subtasks[p]) :
      s \in queue /\ kind[s] = "interruptible" /\ outcome[p] # "none"
        => istate[s] = "interrupted"
=============================================================================
