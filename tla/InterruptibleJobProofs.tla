----------------------- MODULE InterruptibleJobProofs -----------------------
(***************************************************************************)
(* Type correctness of InterruptibleJob, and that an interruption reaches  *)
(* its job and no other, for any number of workers, clients and jobs.      *)
(***************************************************************************)
EXTENDS InterruptibleJob, TLAPS

\* Where the worker has a job.
HasJob(w) == pc[w] \in {"start", "run", "check", "body", "fork", "complete"}

Roots == Interruptible \cup Plain
PostedRoots == {p \in Roots : kind[p] # "none"}

\* A job that was not posted, or was taken, is not in the queue, and it is
\* taken once; between the tests of interruptible_job there is an interruptible job.
TakenOnce ==
  /\ \A w \in Workers : HasJob(w) <=> job[w] # None
  /\ \A v, w \in Workers : v # w /\ job[v] # None => job[v] # job[w]
  /\ \A w \in Workers : job[w] \notin queue
  /\ \A j \in queue : kind[j] # "none"
  /\ \A w \in Workers : job[w] # None => kind[job[w]] # "none"
  /\ \A w \in Workers :
       pc[w] \in {"start", "run", "check", "complete"} => kind[job[w]] = "interruptible"

\* Subtasks that nobody has posted or executed yet.
FreshJobs == {s \in Jobs : kind[s] = "none" /\ s \notin ran /\ istate[s] = "none"}

\* Jobs that have not begun to fork.
Unforked ==
  queue \cup {job[w] : w \in {v \in Workers : pc[v] \in {"start", "run", "check", "body"}}}

\* f holds subtasks of p, all fresh, each once.
Remaining(f, p, fresh) ==
  /\ Subtasks[p] # <<>>
  /\ \A i \in DOMAIN f : f[i] \in fresh /\ f[i] \in Elements(Subtasks[p])
  /\ \A i, k \in DOMAIN f : i # k => f[i] # f[k]

\* The subtasks of a job are fresh until the job posts them one by one.
ForksFresh ==
  /\ PostedRoots \in Posted
  /\ \A j \in Jobs : kind[j] # "none" => j \in Roots \/ Subtasks[j] = <<>>
  /\ \A w \in Workers : pc[w] = "fork" => Remaining(fork[w], job[w], FreshJobs)
  /\ \A p \in Roots \cap Unforked : Elements(Subtasks[p]) \subseteq FreshJobs

\* Subtasks that can be interrupted.
SubHandles == {s \in Jobs : kind[s] = "interruptible" /\ s \notin Roots}

\* Only interruptible jobs have a state; what add_subs registers are subtasks;
\* an interrupt() is that of one job, whose mutex it holds while the job runs.
HandlesInv ==
  /\ \A j \in Jobs : istate[j] # "none" => kind[j] = "interruptible"
  /\ \A w \in Workers : forked[w] \subseteq SubHandles
  /\ \A j \in Jobs : subs[j] \subseteq SubHandles
  /\ \A c \in Clients : icall[c].todo \subseteq SubHandles
  /\ \A c \in Clients : icall[c].job # None =>
       icall[c].job \in Roots \cap requested /\ kind[icall[c].job] = "interruptible"
  /\ \A c, d \in Clients : c # d /\ icall[c].job # None => icall[c].job # icall[d].job
  /\ \A c \in Clients :
       icall[c].locked => icall[c].job # None /\ istate[icall[c].job] = "running"

\* A job that was marked before it ran is never entered: no worker is beyond the
\* second test with it.
CancelInv ==
  /\ \A j \in Jobs : kind[j] = "interruptible" /\ istate[j] = "none" =>
       j \notin ran /\ \A w \in Workers : job[w] = j => pc[w] \in {"start", "run"}
  /\ \A j \in cancelled :
       /\ kind[j] = "interruptible" /\ istate[j] = "interrupted" /\ j \notin ran
       /\ \A w \in Workers : job[w] = j => pc[w] \in {"start", "run", "check"}

\* m_worker is the thread that executes the job, and while the job is running
\* that thread is in it, unless it drains the queue.  A thread that does not
\* drain has a pending interruption only for the job it executes, or has left.
SignalInv ==
  /\ \A j \in queue : istate[j] \in {"none", "interrupted"}
  /\ \A w \in Workers : pc[w] \in {"start", "run"} => istate[job[w]] \in {"none", "interrupted"}
  /\ \A w \in Workers :
       pc[w] \in {"run", "check", "body", "fork", "complete"} /\ kind[job[w]] = "interruptible"
         => workerOf[job[w]] = w
  /\ \A j \in Jobs : \A w \in Workers :
       istate[j] = "running" /\ workerOf[j] = w /\ ~draining[w] =>
         job[w] = j /\ pc[w] \in {"check", "body", "fork", "complete"}
  /\ \A w \in Workers : pending[w] /\ ~draining[w] =>
       /\ pc[w] \in {"check", "body", "fork", "complete", "after"}
       /\ job[w] # None => job[w] \in requested /\ istate[job[w]] # "running"
  /\ (\A w \in Workers : ~draining[w]) => hit \subseteq requested

JobsInv == TakenOnce /\ ForksFresh /\ HandlesInv
InterruptInv == CancelInv /\ SignalInv

\* A sequence that is not empty has a head and a tail of the same type.
LEMMA HeadTail ==
  ASSUME NEW S, NEW s \in Seq(S), s # <<>>
  PROVE  Head(s) \in S /\ Tail(s) \in Seq(S)
  OBVIOUS

\* What a subtask is.
LEMMA SubtaskFacts ==
  ASSUME NEW p \in Jobs, NEW s \in Elements(Subtasks[p])
  PROVE  /\ s \in Jobs /\ s \notin Roots /\ Subtasks[s] = <<>>
         /\ p \in Jobs /\ Subtasks[p] \in Seq(Jobs)
  BY JobsAssumption DEF Elements, Roots

-----------------------------------------------------------------------------
(* Types                                                                   *)

\* TypeOK in three parts: calls, forks and the others.
CallTyped ==
  icall \in [Clients -> [job : Jobs \cup {None}, todo : SUBSET Jobs, locked : BOOLEAN]]

ForkTyped == fork \in [Workers -> Seq(Jobs)]

StateTyped ==
  /\ istate \in [Jobs -> {"none", "running", "completed", "interrupted"}]
  /\ subs \in [Jobs -> SUBSET Jobs]
  /\ kind \in [Jobs -> {"none", "plain", "interruptible"}]
  /\ queue \subseteq Jobs
  /\ outcome \in [Jobs -> {"none", "skipped", "returned", "thrown", "inline", "dropped"}]
  /\ ran \subseteq Jobs
  /\ workerOf \in [Jobs -> Workers \cup {None}]
  /\ pc \in [Workers -> {"idle", "start", "run", "check", "body", "fork", "complete", "after",
                       "done"}]
  /\ job \in [Workers -> Jobs \cup {None}]
  /\ tss \in [Workers -> Jobs \cup {None}]
  /\ pending \in [Workers -> BOOLEAN]
  /\ draining \in [Workers -> BOOLEAN]
  /\ forkState \in [Workers -> Jobs \cup {None}]
  /\ forked \in [Workers -> SUBSET Jobs]
  /\ requested \subseteq Jobs
  /\ cancelled \subseteq Jobs
  /\ hit \subseteq Jobs

\* TypeOK is the three parts.
LEMMA TypeParts == /\ TypeOK <=> CallTyped /\ ForkTyped /\ StateTyped
                   /\ TypeOK' <=> CallTyped' /\ ForkTyped' /\ StateTyped'
  BY DEF TypeOK, CallTyped, ForkTyped, StateTyped

\* How the end of a job changes the worker.
LEMMA FinishTyped ==
  ASSUME StateTyped, NEW w \in Workers, NEW how \in {"skipped", "returned", "thrown"},
         Finish(w, how)
  PROVE  /\ outcome' \in [Jobs -> {"none", "skipped", "returned", "thrown", "inline", "dropped"}]
         /\ job' \in [Workers -> Jobs \cup {None}]
         /\ pc' \in [Workers -> {"idle", "start", "run", "check", "body", "fork", "complete",
                                 "after", "done"}]
  BY DEF Finish, Goto, StateTyped

\* The same when complete() may follow.
LEMMA LeaveTyped ==
  ASSUME StateTyped, NEW w \in Workers, Leave(w)
  PROVE  /\ outcome' \in [Jobs -> {"none", "skipped", "returned", "thrown", "inline", "dropped"}]
         /\ job' \in [Workers -> Jobs \cup {None}]
         /\ pc' \in [Workers -> {"idle", "start", "run", "check", "body", "fork", "complete",
                                 "after", "done"}]
  BY FinishTyped DEF Leave, Goto, StateTyped

\* Every step keeps the types of the calls.
LEMMA CallStep ==
  ASSUME TypeOK, [Next]_vars
  PROVE  CallTyped'
<1> USE DEF TypeOK, CallTyped, stateVars, workerVars, forkVars, history, Goto
<1>1. ASSUME NEW c \in Clients, NEW j \in Jobs, InterruptBegin(c, j)
      PROVE  CallTyped'
  BY <1>1 DEF InterruptBegin, Mark
<1>2. ASSUME NEW c \in Clients, NEW j \in Jobs, InterruptSub(c, j)
      PROVE  CallTyped'
  <2>1. icall[c] \in [job : Jobs \cup {None}, todo : SUBSET Jobs, locked : BOOLEAN]
    BY <1>2
  <2>2. [icall[c] EXCEPT !.todo = @ \ {j}]
          \in [job : Jobs \cup {None}, todo : SUBSET Jobs, locked : BOOLEAN]
    BY <2>1
  <2>3. icall' = [icall EXCEPT ![c] = [icall[c] EXCEPT !.todo = @ \ {j}]]
    BY <1>2 DEF InterruptSub
  <2> QED
    BY <2>2, <2>3
<1>3. ASSUME NEW c \in Clients, InterruptEnd(c)
      PROVE  CallTyped'
  <2>1. NoCall \in [job : Jobs \cup {None}, todo : SUBSET Jobs, locked : BOOLEAN]
    BY DEF NoCall
  <2> QED
    BY <1>3, <2>1 DEF InterruptEnd
<1>4. CASE UNCHANGED vars
  BY <1>4 DEF vars
<1> QED
  BY <1>1, <1>2, <1>3, <1>4
     DEF Next, Client, Worker, Terminated, Take, Skip, Publish, Run, Enter,
         Return, Throw, Complete, ForkBegin, Construct, AddSubs,
         InterruptionPoint, Terminate, Drained

\* Every step keeps the types of the forks.
LEMMA ForkTypeStep ==
  ASSUME TypeOK, TakenOnce, [Next]_vars
  PROVE  ForkTyped'
<1> USE DEF TypeOK, ForkTyped, stateVars, workerVars, forkVars, history, Goto
<1>1. ASSUME NEW w \in Workers, ForkBegin(w)
      PROVE  ForkTyped'
  <2>1. job[w] \in Jobs
    BY <1>1 DEF ForkBegin, TakenOnce, HasJob
  <2> QED
    BY <1>1, <2>1, JobsAssumption DEF ForkBegin
<1>2. ASSUME NEW w \in Workers, Construct(w)
      PROVE  ForkTyped'
  <2>1. Tail(fork[w]) \in Seq(Jobs)
    BY <1>2, HeadTail DEF Construct
  <2> QED
    BY <1>2, <2>1 DEF Construct
<1>3. CASE UNCHANGED vars
  BY <1>3 DEF vars
<1> QED
  BY <1>1, <1>2, <1>3
     DEF Next, Client, Worker, Terminated, InterruptBegin, InterruptSub,
         InterruptEnd, Take, Skip, Publish, Run, Enter, Return, Throw, Complete,
         AddSubs, InterruptionPoint, Terminate, Drained

\* Every step keeps the other types.
LEMMA StateStep ==
  ASSUME StateTyped, CallTyped, ForkTyped, TakenOnce, [Next]_vars
  PROVE  StateTyped'
<1> USE DEF StateTyped, stateVars, workerVars, forkVars, history, Goto
<1>1. ASSUME NEW c \in Clients, NEW j \in Jobs, InterruptBegin(c, j)
      PROVE  StateTyped'
  BY <1>1 DEF InterruptBegin, Mark
<1>2. ASSUME NEW c \in Clients, NEW j \in Jobs, InterruptSub(c, j)
      PROVE  StateTyped'
  <2>1. icall[c].todo \subseteq Jobs
    BY DEF CallTyped
  <2> QED
    BY <1>2, <2>1 DEF InterruptSub, Mark, Signal
<1>3. ASSUME NEW c \in Clients, InterruptEnd(c)
      PROVE  StateTyped'
  <2>1. CASE icall[c].locked
    <3>1. /\ istate' \in [Jobs -> {"none", "running", "completed", "interrupted"}]
          /\ cancelled' \subseteq Jobs
      BY <1>3, <2>1 DEF InterruptEnd, Mark, CallTyped
    <3>2. Signal({icall[c].job})
      BY <1>3, <2>1 DEF InterruptEnd
    <3>3. pending' \in [Workers -> BOOLEAN]
      BY <3>2 DEF Signal
    <3> QED
      BY <1>3, <2>1, <3>1, <3>3 DEF InterruptEnd
  <2>2. CASE ~icall[c].locked
    BY <1>3, <2>2 DEF InterruptEnd
  <2> QED
    BY <2>1, <2>2
<1>4. ASSUME NEW w \in Workers, NEW j \in Jobs, Take(w, j)
      PROVE  StateTyped'
  BY <1>4 DEF Take
<1>5. ASSUME NEW w \in Workers, Skip(w)
      PROVE  StateTyped'
  BY <1>5 DEF Skip, Finish, ClearTss
<1>6. ASSUME NEW w \in Workers, Publish(w)
      PROVE  StateTyped'
  BY <1>6 DEF Publish
<1>7. ASSUME NEW w \in Workers, Run(w)
      PROVE  StateTyped'
  BY <1>7 DEF Run
<1>8. ASSUME NEW w \in Workers, Enter(w)
      PROVE  StateTyped'
  BY <1>8 DEF Enter, TakenOnce, HasJob
<1>9. ASSUME NEW w \in Workers, Return(w)
      PROVE  StateTyped'
  <2>1. Leave(w)
    BY <1>9 DEF Return
  <2> QED
    BY <1>9, <2>1, LeaveTyped DEF Return
<1>10. ASSUME NEW w \in Workers, Throw(w)
       PROVE  StateTyped'
  <2>1. Leave(w) \/ Finish(w, "thrown")
    BY <1>10 DEF Throw
  <2>2. job[w] \in Jobs
    BY <1>10 DEF Throw, TakenOnce, HasJob
  <2> QED
    BY <1>10, <2>1, <2>2, LeaveTyped, FinishTyped DEF Throw
<1>11. ASSUME NEW w \in Workers, Complete(w)
       PROVE  StateTyped'
  BY <1>11 DEF Complete, Finish, ClearTss
<1>12. ASSUME NEW w \in Workers, ForkBegin(w)
       PROVE  StateTyped'
  BY <1>12 DEF ForkBegin
<1>13. ASSUME NEW w \in Workers, Construct(w)
       PROVE  StateTyped'
  <2>1. Head(fork[w]) \in Jobs
    BY <1>13, HeadTail DEF Construct, ForkTyped
  <2> QED
    BY <1>13, <2>1 DEF Construct
<1>14. ASSUME NEW w \in Workers, AddSubs(w)
       PROVE  StateTyped'
  <2>1. Leave(w)
    BY <1>14 DEF AddSubs
  <2> QED
    BY <1>14, <2>1, LeaveTyped DEF AddSubs
<1>15. ASSUME NEW w \in Workers, InterruptionPoint(w)
       PROVE  StateTyped'
  BY <1>15 DEF InterruptionPoint
<1>16. ASSUME NEW w \in Workers, Terminate(w)
       PROVE  StateTyped'
  BY <1>16 DEF Terminate
<1>17. ASSUME NEW w \in Workers, Drained(w)
       PROVE  StateTyped'
  BY <1>17 DEF Drained
<1>18. CASE UNCHANGED vars
  BY <1>18 DEF vars
<1> QED
  BY <1>1, <1>2, <1>3, <1>4, <1>5, <1>6, <1>7, <1>8, <1>9, <1>10, <1>11, <1>12,
     <1>13, <1>14, <1>15, <1>16, <1>17, <1>18
     DEF Next, Client, Worker, Terminated

\* Every step keeps the types.
LEMMA TypeStep ==
  ASSUME TypeOK, TakenOnce, [Next]_vars
  PROVE  TypeOK'
  BY TypeParts, CallStep, ForkTypeStep, StateStep

-----------------------------------------------------------------------------
(* Jobs                                                                    *)

\* The first subtask left is fresh and not among those that follow.
LEMMA RemainingSplit ==
  ASSUME NEW fresh, NEW p \in Jobs, NEW f \in Seq(Jobs), f # <<>>, Remaining(f, p, fresh)
  PROVE  /\ Head(f) \in fresh /\ Head(f) \in Elements(Subtasks[p])
         /\ Remaining(Tail(f), p, fresh \ {Head(f)})
<1>1. /\ Head(f) = f[1] /\ 1 \in DOMAIN f
      /\ \A i \in DOMAIN Tail(f) : i + 1 \in DOMAIN f /\ Tail(f)[i] = f[i + 1] /\ i \in 1 .. Len(f)
  OBVIOUS
<1>2. Head(f) \in fresh /\ Head(f) \in Elements(Subtasks[p])
  BY <1>1 DEF Remaining
<1>3. \A i \in DOMAIN Tail(f) : /\ Tail(f)[i] \in fresh \ {Head(f)}
                                /\ Tail(f)[i] \in Elements(Subtasks[p])
  BY <1>1 DEF Remaining
<1>4. \A i, k \in DOMAIN Tail(f) : i # k => Tail(f)[i] # Tail(f)[k]
  <2> SUFFICES ASSUME NEW i \in DOMAIN Tail(f), NEW k \in DOMAIN Tail(f), i # k
               PROVE  Tail(f)[i] # Tail(f)[k]
    OBVIOUS
  <2>1. i + 1 # k + 1
    BY <1>1
  <2> QED
    BY <1>1, <2>1 DEF Remaining
<1> QED
  BY <1>2, <1>3, <1>4 DEF Remaining

\* What construct finds at the head of the subtasks left: a fresh subtask of the
\* root that the worker executes.
LEMMA ForkHead ==
  ASSUME TypeOK, TakenOnce, ForksFresh, NEW w \in Workers, pc[w] = "fork", fork[w] # <<>>
  PROVE  /\ job[w] \in Roots /\ job[w] \in Jobs /\ kind[job[w]] # "none"
         /\ Head(fork[w]) \in Elements(Subtasks[job[w]])
         /\ Head(fork[w]) \in Jobs /\ Head(fork[w]) \notin Roots
         /\ Head(fork[w]) \in FreshJobs /\ kind[Head(fork[w])] = "none"
         /\ Subtasks[Head(fork[w])] = <<>>
         /\ Remaining(Tail(fork[w]), job[w], FreshJobs \ {Head(fork[w])})
<1>1. fork[w] \in Seq(Jobs) /\ job[w] # None /\ job[w] \in Jobs
  BY DEF TypeOK, TakenOnce, HasJob
<1>2. kind[job[w]] # "none"
  BY <1>1 DEF TakenOnce
<1>3. Remaining(fork[w], job[w], FreshJobs)
  BY DEF ForksFresh
<1>4. Subtasks[job[w]] # <<>>
  BY <1>3 DEF Remaining
<1>5. job[w] \in Roots
  BY <1>1, <1>2, <1>4 DEF ForksFresh
<1>6. /\ Head(fork[w]) \in FreshJobs /\ Head(fork[w]) \in Elements(Subtasks[job[w]])
      /\ Remaining(Tail(fork[w]), job[w], FreshJobs \ {Head(fork[w])})
  BY <1>1, <1>3, RemainingSplit
<1>7. kind[Head(fork[w])] = "none"
  BY <1>6 DEF FreshJobs
<1> QED
  BY <1>1, <1>2, <1>5, <1>6, <1>7, SubtaskFacts

\* Two jobs that were posted have no subtask in common.
LEMMA SubtasksApart ==
  ASSUME ForksFresh, NEW p \in Roots, NEW q \in Roots, p # q,
         kind[p] # "none", kind[q] # "none"
  PROVE  Elements(Subtasks[p]) \cap Elements(Subtasks[q]) = {}
<1>1. p \in PostedRoots /\ q \in PostedRoots /\ PostedRoots \in Posted
  BY DEF PostedRoots, ForksFresh
<1> QED
  BY <1>1, JobsAssumption

\* Moving a worker, perhaps to the end of its job.
LEMMA TakenKept ==
  ASSUME TypeOK, TakenOnce, kind' = kind, queue' = queue,
         NEW w \in Workers, NEW where, NEW j \in {job[w], None},
         pc' = [pc EXCEPT ![w] = where], job' = [job EXCEPT ![w] = j],
         where \in {"start", "run", "check", "body", "fork", "complete"} <=> j # None,
         where \in {"start", "run", "check", "complete"} => kind[j] = "interruptible"
  PROVE  TakenOnce'
<1>1. /\ pc'[w] = where /\ job'[w] = j
      /\ \A v \in Workers \ {w} : pc'[v] = pc[v] /\ job'[v] = job[v]
  BY DEF TypeOK
<1>2. \A v \in Workers : HasJob(v)' <=> job'[v] # None
  BY <1>1 DEF TakenOnce, HasJob
<1>3. \A u, v \in Workers : u # v /\ job'[u] # None => job'[u] # job'[v]
  BY <1>1 DEF TakenOnce
<1>4. \A v \in Workers : job'[v] \notin queue'
  BY <1>1, JobsAssumption DEF TakenOnce, TypeOK
<1>5. \A v \in Workers : job'[v] # None => kind'[job'[v]] # "none"
  BY <1>1 DEF TakenOnce
<1>6. \A v \in Workers :
        pc'[v] \in {"start", "run", "check", "complete"} => kind'[job'[v]] = "interruptible"
  BY <1>1 DEF TakenOnce
<1> QED
  BY <1>2, <1>3, <1>4, <1>5, <1>6 DEF TakenOnce


\* The worker goes on to complete(), with its job, or has none any more.
LEMMA EndMoves ==
  ASSUME NEW w \in Workers, NEW how, Finish(w, how) \/ Leave(w)
  PROVE  \/ /\ job' = job /\ pc' = [pc EXCEPT ![w] = "complete"]
            /\ kind[job[w]] = "interruptible" /\ Leave(w)
         \/ /\ job' = [job EXCEPT ![w] = None]
            /\ pc' = [pc EXCEPT ![w] = IF draining[w] THEN "idle" ELSE "after"]
<1>1. ASSUME NEW h, Finish(w, h)
      PROVE  /\ job' = [job EXCEPT ![w] = None]
             /\ pc' = [pc EXCEPT ![w] = IF draining[w] THEN "idle" ELSE "after"]
  BY <1>1 DEF Finish, Goto
<1>2. CASE Leave(w) /\ kind[job[w]] = "interruptible"
  BY <1>2 DEF Leave, Goto
<1>3. CASE Leave(w) /\ kind[job[w]] # "interruptible"
  <2>1. Finish(w, "returned")
    BY <1>3 DEF Leave
  <2> QED
    BY <1>1, <2>1
<1> QED
  BY <1>1, <1>2, <1>3

\* The end of a job keeps the other jobs in their places.
LEMMA TakenEnds ==
  ASSUME TypeOK, TakenOnce, kind' = kind, queue' = queue,
         NEW w \in Workers, job[w] # None, NEW how, Finish(w, how) \/ Leave(w)
  PROVE  TakenOnce'
<1>1. CASE /\ job' = job /\ pc' = [pc EXCEPT ![w] = "complete"]
           /\ kind[job[w]] = "interruptible"
  <2>1. job' = [job EXCEPT ![w] = job[w]]
    BY <1>1 DEF TypeOK
  <2> QED
    BY <1>1, <2>1, TakenKept
<1>2. CASE /\ job' = [job EXCEPT ![w] = None]
           /\ pc' = [pc EXCEPT ![w] = IF draining[w] THEN "idle" ELSE "after"]
  <2> DEFINE where == IF draining[w] THEN "idle" ELSE "after"
  <2>1. where \notin {"start", "run", "check", "body", "fork", "complete"}
    OBVIOUS
  <2>2. pc' = [pc EXCEPT ![w] = where] /\ job' = [job EXCEPT ![w] = None]
    BY <1>2
  <2> HIDE DEF where
  <2> QED
    BY <2>1, <2>2, TakenKept
<1> QED
  BY <1>1, <1>2, EndMoves

\* Every step keeps a job in one place.
LEMMA TakenStep ==
  ASSUME TypeOK, TakenOnce, ForksFresh, [Next]_vars
  PROVE  TakenOnce'
<1> USE DEF stateVars, workerVars, forkVars, history, Goto
<1>1. ASSUME NEW w \in Workers, NEW j \in Jobs, Take(w, j)
      PROVE  TakenOnce'
  <2>1. /\ kind' = kind /\ queue' = queue \ {j} /\ job[w] = None /\ j # None
        /\ kind[j] # "none"
    BY <1>1, JobsAssumption DEF Take, TakenOnce, HasJob
  <2>2. /\ pc'[w] = (IF kind[j] = "interruptible" THEN "start" ELSE "body") /\ job'[w] = j
        /\ \A v \in Workers \ {w} : pc'[v] = pc[v] /\ job'[v] = job[v]
    BY <1>1 DEF Take, TypeOK
  <2>3. \A v \in Workers : HasJob(v)' <=> job'[v] # None
    BY <2>1, <2>2 DEF TakenOnce, HasJob
  <2>4. \A u, v \in Workers : u # v /\ job'[u] # None => job'[u] # job'[v]
    BY <1>1, <2>1, <2>2 DEF TakenOnce, Take
  <2>5. /\ \A v \in Workers : job'[v] \notin queue'
        /\ \A x \in queue' : kind'[x] # "none"
    BY <2>1, <2>2 DEF TakenOnce
  <2>6. /\ \A v \in Workers : job'[v] # None => kind'[job'[v]] # "none"
        /\ \A v \in Workers :
             pc'[v] \in {"start", "run", "check", "complete"} => kind'[job'[v]] = "interruptible"
    BY <2>1, <2>2 DEF TakenOnce
  <2> QED
    BY <2>3, <2>4, <2>5, <2>6 DEF TakenOnce
<1>2. ASSUME NEW w \in Workers, Skip(w)
      PROVE  TakenOnce'
  <2>1. kind' = kind /\ queue' = queue /\ job[w] # None
    BY <1>2 DEF Skip, TakenOnce, HasJob
  <2>2. Finish(w, "skipped")
    BY <1>2 DEF Skip
  <2> QED
    BY <2>1, <2>2, TakenEnds
<1>3. ASSUME NEW w \in Workers, Publish(w)
      PROVE  TakenOnce'
  <2>1. kind' = kind /\ queue' = queue /\ job' = job
    BY <1>3 DEF Publish
  <2>2. job' = [job EXCEPT ![w] = job[w]]
    BY <2>1 DEF TypeOK
  <2>3. pc' = [pc EXCEPT ![w] = "run"]
    BY <1>3 DEF Publish
  <2>4. HasJob(w) <=> job[w] # None
    BY DEF TakenOnce
  <2>5. pc[w] \in {"start", "run", "check"} => kind[job[w]] = "interruptible"
    BY DEF TakenOnce
  <2> QED
    BY <1>3, <2>1, <2>2, <2>3, <2>4, <2>5, TakenKept DEF Publish, HasJob
<1>4. ASSUME NEW w \in Workers, Run(w)
      PROVE  TakenOnce'
  <2>1. kind' = kind /\ queue' = queue /\ job' = job
    BY <1>4 DEF Run
  <2>2. job' = [job EXCEPT ![w] = job[w]]
    BY <2>1 DEF TypeOK
  <2>3. pc' = [pc EXCEPT ![w] = "check"]
    BY <1>4 DEF Run
  <2>4. HasJob(w) <=> job[w] # None
    BY DEF TakenOnce
  <2>5. pc[w] \in {"start", "run", "check"} => kind[job[w]] = "interruptible"
    BY DEF TakenOnce
  <2> QED
    BY <1>4, <2>1, <2>2, <2>3, <2>4, <2>5, TakenKept DEF Run, HasJob
<1>5. ASSUME NEW w \in Workers, Enter(w)
      PROVE  TakenOnce'
  <2>1. kind' = kind /\ queue' = queue /\ job' = job
    BY <1>5 DEF Enter
  <2>2. job' = [job EXCEPT ![w] = job[w]]
    BY <2>1 DEF TypeOK
  <2>3. pc' = [pc EXCEPT ![w] = "body"]
    BY <1>5 DEF Enter
  <2>4. HasJob(w) <=> job[w] # None
    BY DEF TakenOnce
  <2>5. pc[w] \in {"start", "run", "check"} => kind[job[w]] = "interruptible"
    BY DEF TakenOnce
  <2> QED
    BY <1>5, <2>1, <2>2, <2>3, <2>4, <2>5, TakenKept DEF Enter, HasJob
<1>6. ASSUME NEW w \in Workers, Return(w)
      PROVE  TakenOnce'
  <2>1. kind' = kind /\ queue' = queue /\ job[w] # None
    BY <1>6 DEF Return, TakenOnce, HasJob
  <2>2. Leave(w)
    BY <1>6 DEF Return
  <2> QED
    BY <2>1, <2>2, TakenEnds
<1>7. ASSUME NEW w \in Workers, Throw(w)
      PROVE  TakenOnce'
  <2>1. kind' = kind /\ queue' = queue /\ job[w] # None
    BY <1>7 DEF Throw, TakenOnce, HasJob
  <2>2. Leave(w) \/ Finish(w, "thrown")
    BY <1>7 DEF Throw
  <2> QED
    BY <2>1, <2>2, TakenEnds
<1>8. ASSUME NEW w \in Workers, Complete(w)
      PROVE  TakenOnce'
  <2>1. kind' = kind /\ queue' = queue /\ job[w] # None
    BY <1>8 DEF Complete, TakenOnce, HasJob
  <2>2. Finish(w, "returned")
    BY <1>8 DEF Complete
  <2> QED
    BY <2>1, <2>2, TakenEnds
<1>9. ASSUME NEW w \in Workers, ForkBegin(w)
      PROVE  TakenOnce'
  <2>1. kind' = kind /\ queue' = queue /\ job' = job
    BY <1>9 DEF ForkBegin
  <2>2. job' = [job EXCEPT ![w] = job[w]]
    BY <2>1 DEF TypeOK
  <2>3. pc' = [pc EXCEPT ![w] = "fork"]
    BY <1>9 DEF ForkBegin
  <2>4. HasJob(w) <=> job[w] # None
    BY DEF TakenOnce
  <2>5. pc[w] \in {"start", "run", "check"} => kind[job[w]] = "interruptible"
    BY DEF TakenOnce
  <2> QED
    BY <1>9, <2>1, <2>2, <2>3, <2>4, <2>5, TakenKept DEF ForkBegin, HasJob
<1>10. ASSUME NEW w \in Workers, Construct(w)
       PROVE  TakenOnce'
  <2> DEFINE s == Head(fork[w])
  <2>1. s \in Jobs /\ kind[s] = "none"
    BY <1>10, ForkHead DEF Construct
  <2>2. /\ pc' = pc /\ job' = job
        /\ \A x \in Jobs : kind'[x] # kind[x] => x = s /\ kind'[x] # "none"
        /\ queue' \subseteq queue \cup {s}
        /\ s \in queue' \ queue => kind'[s] # "none"
    BY <1>10 DEF Construct, TypeOK
  <2> HIDE DEF s
  <2>3. \A v \in Workers : job[v] # None => job[v] # s /\ job[v] \in Jobs /\ kind'[job[v]] = kind[job[v]]
    BY <2>1, <2>2 DEF TakenOnce, TypeOK
  <2>4. \A v \in Workers : job'[v] \notin queue'
    BY <2>1, <2>2, <2>3, JobsAssumption DEF TakenOnce
  <2>5. \A x \in queue' : kind'[x] # "none"
    BY <2>1, <2>2 DEF TakenOnce, TypeOK
  <2>6. \A v \in Workers : HasJob(v)' <=> job'[v] # None
    BY <2>2 DEF TakenOnce, HasJob
  <2>7. /\ \A v \in Workers : job'[v] # None => kind'[job'[v]] # "none"
        /\ \A v \in Workers :
             pc'[v] \in {"start", "run", "check", "complete"} => kind'[job'[v]] = "interruptible"
    BY <2>2, <2>3 DEF TakenOnce, HasJob
  <2> QED
    BY <2>2, <2>4, <2>5, <2>6, <2>7 DEF TakenOnce
<1>11. ASSUME NEW w \in Workers, AddSubs(w)
       PROVE  TakenOnce'
  <2>1. kind' = kind /\ queue' = queue /\ job[w] # None
    BY <1>11 DEF AddSubs, TakenOnce, HasJob
  <2>2. Leave(w)
    BY <1>11 DEF AddSubs
  <2> QED
    BY <2>1, <2>2, TakenEnds
<1>12. ASSUME NEW w \in Workers, InterruptionPoint(w)
       PROVE  TakenOnce'
  <2>1. kind' = kind /\ queue' = queue /\ job' = job
    BY <1>12 DEF InterruptionPoint
  <2>2. job' = [job EXCEPT ![w] = job[w]]
    BY <2>1 DEF TypeOK
  <2>3. pc' = [pc EXCEPT ![w] = "idle"]
    BY <1>12 DEF InterruptionPoint
  <2>4. HasJob(w) <=> job[w] # None
    BY DEF TakenOnce
  <2>5. pc[w] \in {"start", "run", "check"} => kind[job[w]] = "interruptible"
    BY DEF TakenOnce
  <2> QED
    BY <1>12, <2>1, <2>2, <2>3, <2>4, <2>5, TakenKept DEF InterruptionPoint, HasJob
<1>13. ASSUME NEW w \in Workers, Terminate(w)
       PROVE  TakenOnce'
  <2>1. kind' = kind /\ queue' = queue /\ job' = job
    BY <1>13 DEF Terminate
  <2>2. job' = [job EXCEPT ![w] = job[w]]
    BY <2>1 DEF TypeOK
  <2>3. pc' = [pc EXCEPT ![w] = "idle"]
    BY <1>13 DEF Terminate
  <2>4. HasJob(w) <=> job[w] # None
    BY DEF TakenOnce
  <2>5. pc[w] \in {"start", "run", "check"} => kind[job[w]] = "interruptible"
    BY DEF TakenOnce
  <2> QED
    BY <1>13, <2>1, <2>2, <2>3, <2>4, <2>5, TakenKept DEF Terminate, HasJob
<1>14. ASSUME NEW w \in Workers, Drained(w)
       PROVE  TakenOnce'
  <2>1. kind' = kind /\ queue' = queue /\ job' = job
    BY <1>14 DEF Drained
  <2>2. job' = [job EXCEPT ![w] = job[w]]
    BY <2>1 DEF TypeOK
  <2>3. pc' = [pc EXCEPT ![w] = "done"]
    BY <1>14 DEF Drained
  <2>4. HasJob(w) <=> job[w] # None
    BY DEF TakenOnce
  <2>5. pc[w] \in {"start", "run", "check"} => kind[job[w]] = "interruptible"
    BY DEF TakenOnce
  <2> QED
    BY <1>14, <2>1, <2>2, <2>3, <2>4, <2>5, TakenKept DEF Drained, HasJob
<1>15. CASE UNCHANGED vars
  BY <1>15 DEF vars, TakenOnce, HasJob
<1> QED
  BY <1>1, <1>2, <1>3, <1>4, <1>5, <1>6, <1>7, <1>8, <1>9, <1>10, <1>11, <1>12,
     <1>13, <1>14, <1>15
     DEF Next, Client, Worker, Terminated, InterruptBegin, InterruptSub,
         InterruptEnd, TakenOnce, HasJob

\* More jobs may be fresh.
LEMMA RemainingKept ==
  ASSUME NEW f, NEW p, NEW fresh, NEW more, fresh \subseteq more, Remaining(f, p, fresh)
  PROVE  Remaining(f, p, more)
  BY DEF Remaining

\* A step that posts no subtask keeps what is fresh, and the subtasks of a job
\* stay so until the job posts them.
LEMMA FreshKept ==
  ASSUME ForksFresh, kind' = kind, FreshJobs \subseteq FreshJobs',
         Roots \cap Unforked' \subseteq Unforked,
         \A w \in Workers : pc'[w] = "fork" =>
           pc[w] = "fork" /\ job'[w] = job[w] /\ fork'[w] = fork[w]
  PROVE  ForksFresh'
<1>1. PostedRoots' = PostedRoots
  BY DEF PostedRoots
<1>2. \A w \in Workers : pc'[w] = "fork" => Remaining(fork'[w], job'[w], FreshJobs')
  BY RemainingKept DEF ForksFresh
<1>3. \A p \in Roots \cap Unforked' : Elements(Subtasks[p]) \subseteq FreshJobs'
  BY DEF ForksFresh
<1> QED
  BY <1>1, <1>2, <1>3 DEF ForksFresh

\* Every step keeps the subtasks fresh that were not posted.
LEMMA ForkStep ==
  ASSUME TypeOK, TakenOnce, ForksFresh, HandlesInv, [Next]_vars
  PROVE  ForksFresh'
<1> USE DEF stateVars, workerVars, forkVars, history, Goto
<1>1. ASSUME NEW c \in Clients, NEW j \in Jobs, InterruptBegin(c, j)
      PROVE  ForksFresh'
  <2>1. kind' = kind
    BY <1>1 DEF InterruptBegin
  <2>2. FreshJobs \subseteq FreshJobs'
    BY <1>1, <2>1 DEF InterruptBegin, Mark, FreshJobs, TypeOK, TakenOnce, HasJob,
             HandlesInv, SubHandles
  <2>3. \A v \in Workers : pc'[v] = "fork" =>
          pc[v] = "fork" /\ job'[v] = job[v] /\ fork'[v] = fork[v]
    BY <1>1 DEF InterruptBegin, Mark, TypeOK
  <2>4. Roots \cap Unforked' \subseteq Unforked
    BY <1>1, JobsAssumption DEF InterruptBegin, Mark, TypeOK, Roots, Unforked
  <2> QED
    BY <2>1, <2>2, <2>3, <2>4, FreshKept
<1>2. ASSUME NEW c \in Clients, NEW j \in Jobs, InterruptSub(c, j)
      PROVE  ForksFresh'
  <2>1. kind' = kind
    BY <1>2 DEF InterruptSub
  <2>2. FreshJobs \subseteq FreshJobs'
    BY <1>2, <2>1 DEF InterruptSub, Mark, FreshJobs, TypeOK, TakenOnce, HasJob,
             HandlesInv, SubHandles
  <2>3. \A v \in Workers : pc'[v] = "fork" =>
          pc[v] = "fork" /\ job'[v] = job[v] /\ fork'[v] = fork[v]
    BY <1>2 DEF InterruptSub, Mark, TypeOK
  <2>4. Roots \cap Unforked' \subseteq Unforked
    BY <1>2, JobsAssumption DEF InterruptSub, Mark, TypeOK, Roots, Unforked
  <2> QED
    BY <2>1, <2>2, <2>3, <2>4, FreshKept
<1>3. ASSUME NEW c \in Clients, InterruptEnd(c)
      PROVE  ForksFresh'
  <2>1. kind' = kind
    BY <1>3 DEF InterruptEnd
  <2>2. FreshJobs \subseteq FreshJobs'
    BY <1>3, <2>1 DEF InterruptEnd, Mark, FreshJobs, TypeOK, TakenOnce, HasJob,
             HandlesInv, SubHandles
  <2>3. \A v \in Workers : pc'[v] = "fork" =>
          pc[v] = "fork" /\ job'[v] = job[v] /\ fork'[v] = fork[v]
    BY <1>3 DEF InterruptEnd, Mark, TypeOK
  <2>4. Roots \cap Unforked' \subseteq Unforked
    BY <1>3, JobsAssumption DEF InterruptEnd, Mark, TypeOK, Roots, Unforked
  <2> QED
    BY <2>1, <2>2, <2>3, <2>4, FreshKept
<1>4. ASSUME NEW w \in Workers, NEW j \in Jobs, Take(w, j)
      PROVE  ForksFresh'
  <2>1. kind' = kind
    BY <1>4 DEF Take
  <2>2. FreshJobs \subseteq FreshJobs'
    BY <1>4, <2>1 DEF Take, FreshJobs, TypeOK, TakenOnce, HasJob,
             HandlesInv, SubHandles
  <2>3. \A v \in Workers : pc'[v] = "fork" =>
          pc[v] = "fork" /\ job'[v] = job[v] /\ fork'[v] = fork[v]
    BY <1>4 DEF Take, TypeOK
  <2>4. Roots \cap Unforked' \subseteq Unforked
    BY <1>4, JobsAssumption DEF Take, TypeOK, Roots, Unforked
  <2> QED
    BY <2>1, <2>2, <2>3, <2>4, FreshKept
<1>5. ASSUME NEW w \in Workers, Skip(w)
      PROVE  ForksFresh'
  <2>1. kind' = kind
    BY <1>5 DEF Skip
  <2>2. FreshJobs \subseteq FreshJobs'
    BY <1>5, <2>1 DEF Skip, Finish, FreshJobs, TypeOK, TakenOnce, HasJob,
             HandlesInv, SubHandles
  <2>3. \A v \in Workers : pc'[v] = "fork" =>
          pc[v] = "fork" /\ job'[v] = job[v] /\ fork'[v] = fork[v]
    BY <1>5 DEF Skip, Finish, TypeOK
  <2>4. Roots \cap Unforked' \subseteq Unforked
    BY <1>5, JobsAssumption DEF Skip, Finish, TypeOK, Roots, Unforked
  <2> QED
    BY <2>1, <2>2, <2>3, <2>4, FreshKept
<1>6. ASSUME NEW w \in Workers, Publish(w)
      PROVE  ForksFresh'
  <2>1. kind' = kind
    BY <1>6 DEF Publish
  <2>2. FreshJobs \subseteq FreshJobs'
    BY <1>6, <2>1 DEF Publish, FreshJobs, TypeOK, TakenOnce, HasJob,
             HandlesInv, SubHandles
  <2>3. \A v \in Workers : pc'[v] = "fork" =>
          pc[v] = "fork" /\ job'[v] = job[v] /\ fork'[v] = fork[v]
    BY <1>6 DEF Publish, TypeOK
  <2>4. Roots \cap Unforked' \subseteq Unforked
    BY <1>6, JobsAssumption DEF Publish, TypeOK, Roots, Unforked
  <2> QED
    BY <2>1, <2>2, <2>3, <2>4, FreshKept
<1>7. ASSUME NEW w \in Workers, Run(w)
      PROVE  ForksFresh'
  <2>1. kind' = kind
    BY <1>7 DEF Run
  <2>2. FreshJobs \subseteq FreshJobs'
    BY <1>7, <2>1 DEF Run, FreshJobs, TypeOK, TakenOnce, HasJob,
             HandlesInv, SubHandles
  <2>3. \A v \in Workers : pc'[v] = "fork" =>
          pc[v] = "fork" /\ job'[v] = job[v] /\ fork'[v] = fork[v]
    BY <1>7 DEF Run, TypeOK
  <2>4. Roots \cap Unforked' \subseteq Unforked
    BY <1>7, JobsAssumption DEF Run, TypeOK, Roots, Unforked
  <2> QED
    BY <2>1, <2>2, <2>3, <2>4, FreshKept
<1>8. ASSUME NEW w \in Workers, Enter(w)
      PROVE  ForksFresh'
  <2>1. kind' = kind
    BY <1>8 DEF Enter
  <2>2. FreshJobs \subseteq FreshJobs'
    BY <1>8, <2>1 DEF Enter, FreshJobs, TypeOK, TakenOnce, HasJob,
             HandlesInv, SubHandles
  <2>3. \A v \in Workers : pc'[v] = "fork" =>
          pc[v] = "fork" /\ job'[v] = job[v] /\ fork'[v] = fork[v]
    BY <1>8 DEF Enter, TypeOK
  <2>4. Roots \cap Unforked' \subseteq Unforked
    BY <1>8, JobsAssumption DEF Enter, TypeOK, Roots, Unforked
  <2> QED
    BY <2>1, <2>2, <2>3, <2>4, FreshKept
<1>9. ASSUME NEW w \in Workers, Return(w)
      PROVE  ForksFresh'
  <2>1. kind' = kind
    BY <1>9 DEF Return
  <2>2. FreshJobs \subseteq FreshJobs'
    BY <1>9, <2>1 DEF Return, Leave, Finish, FreshJobs, TypeOK, TakenOnce, HasJob,
             HandlesInv, SubHandles
  <2>3. \A v \in Workers : pc'[v] = "fork" =>
          pc[v] = "fork" /\ job'[v] = job[v] /\ fork'[v] = fork[v]
    BY <1>9 DEF Return, Leave, Finish, TypeOK
  <2>4. Roots \cap Unforked' \subseteq Unforked
    BY <1>9, JobsAssumption DEF Return, Leave, Finish, TypeOK, Roots, Unforked
  <2> QED
    BY <2>1, <2>2, <2>3, <2>4, FreshKept
<1>10. ASSUME NEW w \in Workers, Throw(w)
       PROVE  ForksFresh'
  <2>1. kind' = kind
    BY <1>10 DEF Throw
  <2>2. FreshJobs \subseteq FreshJobs'
    BY <1>10, <2>1 DEF Throw, Leave, Finish, FreshJobs, TypeOK, TakenOnce, HasJob,
             HandlesInv, SubHandles
  <2>3. \A v \in Workers : pc'[v] = "fork" =>
          pc[v] = "fork" /\ job'[v] = job[v] /\ fork'[v] = fork[v]
    BY <1>10 DEF Throw, Leave, Finish, TypeOK
  <2>4. Roots \cap Unforked' \subseteq Unforked
    BY <1>10, JobsAssumption DEF Throw, Leave, Finish, TypeOK, Roots, Unforked
  <2> QED
    BY <2>1, <2>2, <2>3, <2>4, FreshKept
<1>11. ASSUME NEW w \in Workers, Complete(w)
       PROVE  ForksFresh'
  <2>1. kind' = kind
    BY <1>11 DEF Complete
  <2>2. FreshJobs \subseteq FreshJobs'
    BY <1>11, <2>1 DEF Complete, Finish, FreshJobs, TypeOK, TakenOnce, HasJob,
             HandlesInv, SubHandles
  <2>3. \A v \in Workers : pc'[v] = "fork" =>
          pc[v] = "fork" /\ job'[v] = job[v] /\ fork'[v] = fork[v]
    BY <1>11 DEF Complete, Finish, TypeOK
  <2>4. Roots \cap Unforked' \subseteq Unforked
    BY <1>11, JobsAssumption DEF Complete, Finish, TypeOK, Roots, Unforked
  <2> QED
    BY <2>1, <2>2, <2>3, <2>4, FreshKept
<1>12. ASSUME NEW w \in Workers, ForkBegin(w)
       PROVE  ForksFresh'
  <2>1. /\ job[w] \in Jobs /\ kind[job[w]] # "none" /\ Subtasks[job[w]] # <<>>
        /\ job[w] \in Unforked
    BY <1>12 DEF ForkBegin, TypeOK, TakenOnce, HasJob, Unforked
  <2>2. job[w] \in Roots
    BY <2>1 DEF ForksFresh
  <2>3. /\ kind' = kind /\ queue' = queue /\ ran' = ran /\ istate' = istate /\ job' = job
        /\ fork' = [fork EXCEPT ![w] = Subtasks[job[w]]] /\ pc' = [pc EXCEPT ![w] = "fork"]
    BY <1>12 DEF ForkBegin
  <2>4. FreshJobs' = FreshJobs /\ PostedRoots' = PostedRoots /\ Unforked' \subseteq Unforked
    BY <2>3 DEF FreshJobs, PostedRoots, Unforked, TypeOK
  <2>5. Remaining(Subtasks[job[w]], job[w], FreshJobs)
    BY <2>1, <2>2, JobsAssumption DEF ForksFresh, Remaining, Elements
  <2>6. \A v \in Workers : pc'[v] = "fork" => Remaining(fork'[v], job'[v], FreshJobs')
    BY <2>3, <2>4, <2>5 DEF ForksFresh, TypeOK
  <2> QED
    BY <2>3, <2>4, <2>6 DEF ForksFresh
<1>13. ASSUME NEW w \in Workers, Construct(w)
       PROVE  ForksFresh'
  <2> DEFINE s == Head(fork[w])
  <2>1. pc[w] = "fork" /\ fork[w] # <<>>
    BY <1>13 DEF Construct
  <2>2. /\ job[w] \in Roots /\ kind[job[w]] # "none"
        /\ s \in Elements(Subtasks[job[w]])
        /\ s \in Jobs /\ s \notin Roots /\ Subtasks[s] = <<>>
        /\ Remaining(Tail(fork[w]), job[w], FreshJobs \ {s})
    BY <2>1, ForkHead
  <2>3. /\ fork' = [fork EXCEPT ![w] = Tail(@)] /\ pc' = pc /\ job' = job /\ istate' = istate
        /\ \A x \in Jobs : x # s => kind'[x] = kind[x] /\ (x \in ran' <=> x \in ran)
        /\ queue' \subseteq queue \cup {s}
    BY <1>13 DEF Construct, TypeOK
  <2> HIDE DEF s
  <2>4. FreshJobs \ {s} \subseteq FreshJobs'
    BY <2>3 DEF FreshJobs
  <2>5. PostedRoots' = PostedRoots
    <3>1. \A p \in Roots : p \in Jobs /\ p # s
      BY <2>2, JobsAssumption DEF Roots
    <3> QED
      BY <2>3, <3>1 DEF PostedRoots
  <2>6. ASSUME NEW v \in Workers, pc'[v] = "fork"
        PROVE  Remaining(fork'[v], job'[v], FreshJobs')
    <3>1. CASE v = w
      <4>1. fork'[v] = Tail(fork[w]) /\ job'[v] = job[w]
        BY <2>3, <3>1 DEF TypeOK
      <4> QED
        BY <2>2, <2>4, <4>1, RemainingKept
    <3>2. CASE v # w
      <4>1. fork'[v] = fork[v] /\ job'[v] = job[v] /\ pc[v] = "fork"
        BY <2>3, <2>6, <3>2 DEF TypeOK
      <4>2. Remaining(fork[v], job[v], FreshJobs)
        BY <4>1 DEF ForksFresh
      <4>3. job[v] \in Jobs /\ job[v] # job[w] /\ kind[job[v]] # "none"
        BY <2>1, <3>2, <4>1 DEF TakenOnce, HasJob, TypeOK
      <4>4. job[v] \in Roots
        BY <4>2, <4>3 DEF ForksFresh, Remaining
      <4>5. s \notin Elements(Subtasks[job[v]])
        BY <2>2, <4>3, <4>4, SubtasksApart
      <4>6. Remaining(fork[v], job[v], FreshJobs \ {s})
        BY <4>2, <4>5 DEF Remaining
      <4> QED
        BY <2>4, <4>1, <4>6, RemainingKept
    <3> QED
      BY <3>1, <3>2
  <2>7. ASSUME NEW p \in Roots \cap Unforked'
        PROVE  Elements(Subtasks[p]) \subseteq FreshJobs'
    <3>1. p \in Unforked
      BY <2>2, <2>3 DEF Unforked
    <3>2. p \in Roots /\ p # job[w] /\ kind[p] # "none"
      BY <2>1, <3>1, JobsAssumption DEF TakenOnce, TypeOK, Roots, Unforked
    <3>3. s \notin Elements(Subtasks[p])
      BY <2>2, <3>2, SubtasksApart
    <3> QED
      BY <2>4, <3>1, <3>3 DEF ForksFresh
  <2>8. \A j \in Jobs : kind'[j] # "none" => j \in Roots \/ Subtasks[j] = <<>>
    BY <2>2, <2>3 DEF ForksFresh
  <2> QED
    BY <2>5, <2>6, <2>7, <2>8 DEF ForksFresh
<1>14. ASSUME NEW w \in Workers, AddSubs(w)
       PROVE  ForksFresh'
  <2>1. kind' = kind
    BY <1>14 DEF AddSubs
  <2>2. FreshJobs \subseteq FreshJobs'
    BY <1>14, <2>1 DEF AddSubs, Leave, Finish, FreshJobs, TypeOK, TakenOnce, HasJob,
             HandlesInv, SubHandles
  <2>3. \A v \in Workers : pc'[v] = "fork" =>
          pc[v] = "fork" /\ job'[v] = job[v] /\ fork'[v] = fork[v]
    BY <1>14 DEF AddSubs, Leave, Finish, TypeOK
  <2>4. Roots \cap Unforked' \subseteq Unforked
    BY <1>14, JobsAssumption DEF AddSubs, Leave, Finish, TypeOK, Roots, Unforked
  <2> QED
    BY <2>1, <2>2, <2>3, <2>4, FreshKept
<1>15. ASSUME NEW w \in Workers, InterruptionPoint(w)
       PROVE  ForksFresh'
  <2>1. kind' = kind
    BY <1>15 DEF InterruptionPoint
  <2>2. FreshJobs \subseteq FreshJobs'
    BY <1>15, <2>1 DEF InterruptionPoint, FreshJobs, TypeOK, TakenOnce, HasJob,
             HandlesInv, SubHandles
  <2>3. \A v \in Workers : pc'[v] = "fork" =>
          pc[v] = "fork" /\ job'[v] = job[v] /\ fork'[v] = fork[v]
    BY <1>15 DEF InterruptionPoint, TypeOK
  <2>4. Roots \cap Unforked' \subseteq Unforked
    BY <1>15, JobsAssumption DEF InterruptionPoint, TypeOK, Roots, Unforked
  <2> QED
    BY <2>1, <2>2, <2>3, <2>4, FreshKept
<1>16. ASSUME NEW w \in Workers, Terminate(w)
       PROVE  ForksFresh'
  <2>1. kind' = kind
    BY <1>16 DEF Terminate
  <2>2. FreshJobs \subseteq FreshJobs'
    BY <1>16, <2>1 DEF Terminate, FreshJobs, TypeOK, TakenOnce, HasJob,
             HandlesInv, SubHandles
  <2>3. \A v \in Workers : pc'[v] = "fork" =>
          pc[v] = "fork" /\ job'[v] = job[v] /\ fork'[v] = fork[v]
    BY <1>16 DEF Terminate, TypeOK
  <2>4. Roots \cap Unforked' \subseteq Unforked
    BY <1>16, JobsAssumption DEF Terminate, TypeOK, Roots, Unforked
  <2> QED
    BY <2>1, <2>2, <2>3, <2>4, FreshKept
<1>17. ASSUME NEW w \in Workers, Drained(w)
       PROVE  ForksFresh'
  <2>1. kind' = kind
    BY <1>17 DEF Drained
  <2>2. FreshJobs \subseteq FreshJobs'
    BY <1>17, <2>1 DEF Drained, FreshJobs, TypeOK, TakenOnce, HasJob,
             HandlesInv, SubHandles
  <2>3. \A v \in Workers : pc'[v] = "fork" =>
          pc[v] = "fork" /\ job'[v] = job[v] /\ fork'[v] = fork[v]
    BY <1>17 DEF Drained, TypeOK
  <2>4. Roots \cap Unforked' \subseteq Unforked
    BY <1>17, JobsAssumption DEF Drained, TypeOK, Roots, Unforked
  <2> QED
    BY <2>1, <2>2, <2>3, <2>4, FreshKept
<1>18. CASE UNCHANGED vars
  <2>1. PostedRoots' = PostedRoots
    BY <1>18 DEF vars, PostedRoots
  <2>2. FreshJobs' = FreshJobs /\ Unforked' = Unforked
    BY <1>18 DEF vars, FreshJobs, Unforked
  <2> QED
    BY <1>18, <2>1, <2>2 DEF vars, ForksFresh
<1> QED
  BY <1>1, <1>2, <1>3, <1>4, <1>5, <1>6, <1>7, <1>8, <1>9, <1>10, <1>11, <1>12,
     <1>13, <1>14, <1>15, <1>16, <1>17, <1>18
     DEF Next, Client, Worker, Terminated

-----------------------------------------------------------------------------
(* Handles and calls of interrupt()                                        *)

\* What a step must leave of the handles: the mark of a job may change as long
\* as nobody holds its mutex.
LEMMA HandlesKept ==
  ASSUME HandlesInv, UNCHANGED <<kind, subs, forked, icall, requested>>,
         \A j \in Jobs : istate'[j] # istate[j] => kind[j] = "interruptible" /\ ~Locked(j)
  PROVE  HandlesInv'
<1>1. SubHandles' = SubHandles
  BY DEF SubHandles
<1>2. \A c \in Clients : icall[c].locked => icall[c].job \in Jobs /\ Locked(icall[c].job)
  BY JobsAssumption DEF HandlesInv, Locked, Roots
<1> QED
  BY <1>1, <1>2 DEF HandlesInv

\* Every step keeps the handles.
LEMMA HandlesStep ==
  ASSUME TypeOK, TakenOnce, ForksFresh, HandlesInv, [Next]_vars
  PROVE  HandlesInv'
<1> USE DEF stateVars, workerVars, forkVars, history, Goto
<1>1. ASSUME NEW c \in Clients, NEW j \in Jobs, InterruptBegin(c, j)
      PROVE  HandlesInv'
  <2>1. /\ UNCHANGED <<kind, subs, forked>> /\ requested' = requested \cup {j}
        /\ j \in Roots /\ kind[j] = "interruptible" /\ j \notin requested /\ ~Locked(j)
        /\ icall[c].job = None
    BY <1>1 DEF InterruptBegin, NoCall, Roots
  <2>2. SubHandles' = SubHandles
    BY <2>1 DEF SubHandles
  <2>3. /\ \A x \in Jobs : x # j => istate'[x] = istate[x]
        /\ istate'[j] = IF istate[j] = "running" THEN "running" ELSE "interrupted"
    BY <1>1 DEF InterruptBegin, Mark, TypeOK
  <2>4. /\ \A d \in Clients : d # c => icall'[d] = icall[d]
        /\ \/ icall'[c] = icall[c]
           \/ icall'[c] = [job |-> j, todo |-> subs[j], locked |-> istate[j] = "running"]
    BY <1>1 DEF InterruptBegin, TypeOK
  <2>5. \A d \in Clients : icall[d].job # j
    BY <2>1, JobsAssumption DEF HandlesInv
  <2>6. \A d \in Clients : icall'[d].todo \subseteq SubHandles
    BY <2>4 DEF HandlesInv
  <2>7. \A d \in Clients : icall'[d].job # None =>
          icall'[d].job \in Roots \cap requested' /\ kind[icall'[d].job] = "interruptible"
    BY <2>1, <2>4 DEF HandlesInv
  <2>8. \A b, d \in Clients : b # d /\ icall'[b].job # None => icall'[b].job # icall'[d].job
    BY <2>4, <2>5 DEF HandlesInv
  <2>9. ASSUME NEW d \in Clients, icall'[d].locked
        PROVE  icall'[d].job # None /\ istate'[icall'[d].job] = "running"
    <3>1. CASE icall'[d] = icall[d]
      <4>1. icall[d].job # None /\ icall[d].job \in Jobs /\ istate[icall[d].job] = "running"
        BY <2>9, <3>1, JobsAssumption DEF HandlesInv, Roots
      <4> QED
        BY <2>3, <2>5, <3>1, <4>1
    <3>2. CASE icall'[d] = [job |-> j, todo |-> subs[j], locked |-> istate[j] = "running"]
      <4>1. icall'[d].job = j /\ icall'[d].locked = (istate[j] = "running")
        BY <3>2
      <4>2. istate[j] = "running"
        BY <2>9, <4>1
      <4> QED
        BY <2>3, <4>1, <4>2, JobsAssumption
    <3> QED
      BY <2>4, <3>1, <3>2
  <2>10. \A x \in Jobs : istate'[x] # "none" => kind'[x] = "interruptible"
    BY <2>1, <2>3 DEF HandlesInv
  <2> QED
    BY <2>1, <2>2, <2>6, <2>7, <2>8, <2>9, <2>10 DEF HandlesInv
<1>2. ASSUME NEW c \in Clients, NEW j \in Jobs, InterruptSub(c, j)
      PROVE  HandlesInv'
  <2>1. /\ UNCHANGED <<kind, subs, forked>> /\ requested' = requested \cup {j}
        /\ j \in icall[c].todo
    BY <1>2 DEF InterruptSub
  <2>2. SubHandles' = SubHandles /\ j \in SubHandles
    BY <2>1 DEF SubHandles, HandlesInv
  <2>3. \A x \in Jobs : x # j => istate'[x] = istate[x]
    BY <1>2 DEF InterruptSub, Mark
  <2>4. \A d \in Clients : /\ icall'[d].job = icall[d].job /\ icall'[d].locked = icall[d].locked
                           /\ icall'[d].todo \subseteq icall[d].todo
    BY <1>2 DEF InterruptSub, TypeOK
  <2>5. ASSUME NEW d \in Clients, icall'[d].locked
        PROVE  icall'[d].job # None /\ istate'[icall'[d].job] = "running"
    BY <2>2, <2>3, <2>4, <2>5, JobsAssumption DEF HandlesInv, SubHandles, Roots
  <2>6. \A x \in Jobs : istate'[x] # "none" => kind'[x] = "interruptible"
    BY <2>1, <2>2, <2>3 DEF HandlesInv, SubHandles
  <2>7. \A d \in Clients : icall'[d].todo \subseteq SubHandles
    BY <2>4 DEF HandlesInv
  <2>8. /\ \A d \in Clients : icall'[d].job # None =>
             icall'[d].job \in Roots \cap requested' /\ kind[icall'[d].job] = "interruptible"
        /\ \A b, d \in Clients : b # d /\ icall'[b].job # None => icall'[b].job # icall'[d].job
    BY <2>1, <2>4 DEF HandlesInv
  <2> QED
    BY <2>1, <2>2, <2>5, <2>6, <2>7, <2>8 DEF HandlesInv
<1>3. ASSUME NEW c \in Clients, InterruptEnd(c)
      PROVE  HandlesInv'
  <2>1. UNCHANGED <<kind, subs, forked, requested>> /\ icall[c].job # None
    BY <1>3 DEF InterruptEnd
  <2>2. SubHandles' = SubHandles
    BY <2>1 DEF SubHandles
  <2>3. \A x \in Jobs : x # icall[c].job => istate'[x] = istate[x]
    BY <1>3 DEF InterruptEnd, Mark
  <2>4. /\ \A d \in Clients : d # c => icall'[d] = icall[d]
        /\ icall'[c] = NoCall
    BY <1>3 DEF InterruptEnd, TypeOK
  <2>5. NoCall.job = None /\ NoCall.todo = {} /\ NoCall.locked = FALSE
    BY DEF NoCall
  <2>6. ASSUME NEW d \in Clients, icall'[d].locked
        PROVE  icall'[d].job # None /\ istate'[icall'[d].job] = "running"
    <3>1. d # c /\ icall'[d] = icall[d]
      BY <2>4, <2>5, <2>6
    <3>2. /\ icall[d].job # None /\ icall[d].job \in Jobs /\ istate[icall[d].job] = "running"
          /\ icall[d].job # icall[c].job
      BY <2>6, <3>1, JobsAssumption DEF HandlesInv, Roots
    <3> QED
      BY <2>3, <3>1, <3>2
  <2>7. \A x \in Jobs : istate'[x] # "none" => kind'[x] = "interruptible"
    BY <2>1, <2>3 DEF HandlesInv
  <2>8. \A d \in Clients : icall'[d].todo \subseteq SubHandles
    BY <2>4, <2>5 DEF HandlesInv
  <2>9. /\ \A d \in Clients : icall'[d].job # None =>
             icall'[d].job \in Roots \cap requested' /\ kind[icall'[d].job] = "interruptible"
        /\ \A b, d \in Clients : b # d /\ icall'[b].job # None => icall'[b].job # icall'[d].job
    BY <2>1, <2>4, <2>5 DEF HandlesInv
  <2> QED
    BY <2>1, <2>2, <2>6, <2>7, <2>8, <2>9 DEF HandlesInv
<1>4. ASSUME NEW w \in Workers, NEW j \in Jobs, Take(w, j)
      PROVE  HandlesInv'
  BY <1>4, HandlesKept DEF Take
<1>5. ASSUME NEW w \in Workers, Skip(w)
      PROVE  HandlesInv'
  BY <1>5, HandlesKept DEF Skip, Finish
<1>6. ASSUME NEW w \in Workers, Publish(w)
      PROVE  HandlesInv'
  BY <1>6, HandlesKept DEF Publish
<1>7. ASSUME NEW w \in Workers, Run(w)
      PROVE  HandlesInv'
  <2>1. /\ UNCHANGED <<kind, subs, forked, icall, requested>> /\ ~Locked(job[w])
        /\ \A j \in Jobs : istate'[j] # istate[j] => j = job[w]
    BY <1>7 DEF Run, TypeOK
  <2>2. kind[job[w]] = "interruptible"
    BY <1>7 DEF Run, TakenOnce
  <2> QED
    BY <2>1, <2>2, HandlesKept
<1>8. ASSUME NEW w \in Workers, Enter(w)
      PROVE  HandlesInv'
  BY <1>8, HandlesKept DEF Enter
<1>9. ASSUME NEW w \in Workers, Return(w)
      PROVE  HandlesInv'
  BY <1>9, HandlesKept DEF Return, Leave, Finish
<1>10. ASSUME NEW w \in Workers, Throw(w)
       PROVE  HandlesInv'
  BY <1>10, HandlesKept DEF Throw, Leave, Finish
<1>11. ASSUME NEW w \in Workers, Complete(w)
       PROVE  HandlesInv'
  <2>1. /\ UNCHANGED <<kind, subs, forked, icall, requested>> /\ ~Locked(job[w])
        /\ \A j \in Jobs : istate'[j] # istate[j] => j = job[w]
    BY <1>11 DEF Complete, TypeOK
  <2>2. kind[job[w]] = "interruptible"
    BY <1>11 DEF Complete, TakenOnce
  <2> QED
    BY <2>1, <2>2, HandlesKept
<1>12. ASSUME NEW w \in Workers, ForkBegin(w)
       PROVE  HandlesInv'
  BY <1>12, HandlesKept DEF ForkBegin
<1>13. ASSUME NEW w \in Workers, Construct(w)
       PROVE  HandlesInv'
  <2> DEFINE s == Head(fork[w])
  <2>1. s \in Jobs /\ s \notin Roots /\ kind[s] = "none"
    BY <1>13, ForkHead DEF Construct
  <2>2. /\ UNCHANGED <<istate, subs, icall, requested>>
        /\ \A x \in Jobs : kind[x] # "none" => kind'[x] = kind[x]
        /\ \A v \in Workers : \/ forked'[v] = forked[v]
                              \/ forked'[v] = forked[v] \cup {s} /\ kind'[s] = "interruptible"
    BY <1>13, <2>1 DEF Construct, TypeOK
  <2> HIDE DEF s
  <2>3. SubHandles \subseteq SubHandles'
    BY <2>2 DEF SubHandles
  <2>4. \A v \in Workers : forked'[v] \subseteq SubHandles'
    BY <2>1, <2>2, <2>3 DEF SubHandles, HandlesInv
  <2>5. /\ \A j \in Jobs : subs'[j] \subseteq SubHandles'
        /\ \A c \in Clients : icall'[c].todo \subseteq SubHandles'
    BY <2>2, <2>3 DEF HandlesInv
  <2>6. \A c \in Clients : icall'[c].job # None =>
          icall'[c].job \in Roots \cap requested' /\ kind'[icall'[c].job] = "interruptible"
    BY <2>2, JobsAssumption DEF HandlesInv, Roots
  <2>7. \A j \in Jobs : istate'[j] # "none" => kind'[j] = "interruptible"
    BY <2>2 DEF HandlesInv
  <2> QED
    BY <2>2, <2>4, <2>5, <2>6, <2>7 DEF HandlesInv
<1>14. ASSUME NEW w \in Workers, AddSubs(w)
       PROVE  HandlesInv'
  <2>1. /\ UNCHANGED <<istate, kind, icall, requested>>
        /\ \A v \in Workers : forked'[v] \subseteq forked[v]
    BY <1>14 DEF AddSubs, TypeOK
  <2>2. SubHandles' = SubHandles
    BY <2>1 DEF SubHandles
  <2>3. \A j \in Jobs : subs'[j] \subseteq subs[j] \cup forked[w]
    BY <1>14 DEF AddSubs, TypeOK
  <2> QED
    BY <2>1, <2>2, <2>3 DEF HandlesInv
<1>15. ASSUME NEW w \in Workers, InterruptionPoint(w)
       PROVE  HandlesInv'
  BY <1>15, HandlesKept DEF InterruptionPoint
<1>16. ASSUME NEW w \in Workers, Terminate(w)
       PROVE  HandlesInv'
  BY <1>16, HandlesKept DEF Terminate
<1>17. ASSUME NEW w \in Workers, Drained(w)
       PROVE  HandlesInv'
  BY <1>17, HandlesKept DEF Drained
<1>18. CASE UNCHANGED vars
  BY <1>18, HandlesKept DEF vars
<1> QED
  BY <1>1, <1>2, <1>3, <1>4, <1>5, <1>6, <1>7, <1>8, <1>9, <1>10, <1>11, <1>12,
     <1>13, <1>14, <1>15, <1>16, <1>17, <1>18
     DEF Next, Client, Worker, Terminated

-----------------------------------------------------------------------------
(* What is marked before it runs                                           *)

\* What the end of a job leaves of the workers.
LEMMA EndEffect ==
  ASSUME TypeOK, NEW w \in Workers, NEW how, Finish(w, how) \/ Leave(w)
  PROVE  /\ \A v \in Workers : v # w => job'[v] = job[v] /\ pc'[v] = pc[v]
         /\ \/ job'[w] = job[w] /\ pc'[w] = "complete" /\ kind[job[w]] = "interruptible" /\ Leave(w)
            \/ job'[w] = None /\ pc'[w] = IF draining[w] THEN "idle" ELSE "after"
<1>1. CASE /\ job' = job /\ pc' = [pc EXCEPT ![w] = "complete"]
           /\ kind[job[w]] = "interruptible" /\ Leave(w)
  BY <1>1 DEF TypeOK
<1>2. CASE /\ job' = [job EXCEPT ![w] = None]
           /\ pc' = [pc EXCEPT ![w] = IF draining[w] THEN "idle" ELSE "after"]
  BY <1>2 DEF TypeOK
<1> QED
  BY <1>1, <1>2, EndMoves

\* The end of a body marks and enters nothing.
LEMMA CancelEnds ==
  ASSUME TypeOK, CancelInv, UNCHANGED <<kind, cancelled, ran, istate>>,
         NEW w \in Workers, NEW how, Finish(w, how) \/ Leave(w),
         Leave(w) => pc[w] \notin {"start", "run", "check"}
  PROVE  CancelInv'
<1>1. \A v \in Workers :
        \/ job'[v] = None
        \/ job'[v] = job[v] /\ (pc'[v] = pc[v] \/ pc[v] \notin {"start", "run", "check"})
  BY EndEffect
<1>2. None \notin Jobs /\ cancelled \subseteq Jobs
  BY JobsAssumption DEF TypeOK
<1> QED
  BY <1>1, <1>2 DEF CancelInv

\* Every step keeps what was marked before it ran out of its body.
LEMMA CancelStep ==
  ASSUME TypeOK, TakenOnce, ForksFresh, HandlesInv, CancelInv, [Next]_vars
  PROVE  CancelInv'
<1> USE DEF stateVars, workerVars, forkVars, history, Goto
<1>1. ASSUME NEW c \in Clients, NEW j \in Jobs, InterruptBegin(c, j)
      PROVE  CancelInv'
  BY <1>1 DEF InterruptBegin, Mark, CancelInv, TypeOK, TakenOnce, HasJob
<1>2. ASSUME NEW c \in Clients, NEW j \in Jobs, InterruptSub(c, j)
      PROVE  CancelInv'
  <2>1. kind[j] = "interruptible" /\ j \in Jobs
    BY <1>2 DEF InterruptSub, HandlesInv, SubHandles
  <2> QED
    BY <1>2, <2>1 DEF InterruptSub, Mark, CancelInv, TypeOK
<1>3. ASSUME NEW c \in Clients, InterruptEnd(c)
      PROVE  CancelInv'
  <2>1. icall[c].locked => istate[icall[c].job] = "running"
    BY DEF HandlesInv
  <2>2. /\ cancelled' = cancelled /\ ran' = ran /\ kind' = kind /\ pc' = pc /\ job' = job
        /\ \A j \in Jobs : \/ istate'[j] = istate[j]
                           \/ istate'[j] = "interrupted" /\ istate[j] # "none"
    <3>1. CASE icall[c].locked
      <4>1. Mark({icall[c].job})
        BY <1>3, <3>1 DEF InterruptEnd
      <4> QED
        BY <1>3, <2>1, <3>1, <4>1 DEF InterruptEnd, Mark
    <3>2. CASE ~icall[c].locked
      BY <1>3, <3>2 DEF InterruptEnd
    <3> QED
      BY <3>1, <3>2
  <2> QED
    BY <2>2 DEF CancelInv, TypeOK
<1>4. ASSUME NEW w \in Workers, NEW j \in Jobs, Take(w, j)
      PROVE  CancelInv'
  BY <1>4 DEF Take, CancelInv, TypeOK, TakenOnce, HasJob
<1>5. ASSUME NEW w \in Workers, Skip(w)
      PROVE  CancelInv'
  <2>1. UNCHANGED <<kind, cancelled, ran, istate>>
    BY <1>5 DEF Skip
  <2>2. /\ \A v \in Workers : v # w => job'[v] = job[v] /\ pc'[v] = pc[v]
        /\ job'[w] = None
    BY <1>5 DEF Skip, Finish, TypeOK
  <2>3. None \notin Jobs /\ cancelled \subseteq Jobs
    BY JobsAssumption DEF TypeOK
  <2> QED
    BY <2>1, <2>2, <2>3 DEF CancelInv
<1>6. ASSUME NEW w \in Workers, Publish(w)
      PROVE  CancelInv'
  BY <1>6 DEF Publish, CancelInv, TypeOK, TakenOnce, HasJob
<1>7. ASSUME NEW w \in Workers, Run(w)
      PROVE  CancelInv'
  BY <1>7 DEF Run, CancelInv, TypeOK, TakenOnce, HasJob
<1>8. ASSUME NEW w \in Workers, Enter(w)
      PROVE  CancelInv'
  <2>1. /\ UNCHANGED <<kind, cancelled, istate, job>> /\ ran' = ran \cup {job[w]}
        /\ \A v \in Workers : v # w => pc'[v] = pc[v]
        /\ pc[w] = "check" /\ istate[job[w]] # "interrupted"
    BY <1>8 DEF Enter, TypeOK
  <2>2. job[w] \in Jobs /\ kind[job[w]] = "interruptible"
    BY <2>1 DEF TakenOnce, HasJob, TypeOK
  <2>3. istate[job[w]] # "none" /\ job[w] \notin cancelled
    BY <2>1, <2>2 DEF CancelInv
  <2>4. cancelled \subseteq Jobs
    BY DEF TypeOK
  <2>5. \A v \in Workers : v # w => job[v] # job[w]
    BY <2>2, JobsAssumption DEF TakenOnce
  <2> QED
    BY <2>1, <2>2, <2>3, <2>4, <2>5 DEF CancelInv
<1>9. ASSUME NEW w \in Workers, Return(w)
      PROVE  CancelInv'
  <2>1. UNCHANGED <<kind, cancelled, ran, istate>>
    BY <1>9 DEF Return
  <2>2. Leave(w)
    BY <1>9 DEF Return
  <2>3. Leave(w) => pc[w] \notin {"start", "run", "check"}
    BY <1>9 DEF Return
  <2> QED
    BY <2>1, <2>2, <2>3, CancelEnds
<1>10. ASSUME NEW w \in Workers, Throw(w)
       PROVE  CancelInv'
  <2>1. UNCHANGED <<kind, cancelled, ran, istate>>
    BY <1>10 DEF Throw
  <2>2. Leave(w) \/ Finish(w, "thrown")
    BY <1>10 DEF Throw
  <2>3. Leave(w) => pc[w] \notin {"start", "run", "check"}
    BY <1>10 DEF Throw
  <2> QED
    BY <2>1, <2>2, <2>3, CancelEnds
<1>11. ASSUME NEW w \in Workers, Complete(w)
       PROVE  CancelInv'
  <2>1. /\ UNCHANGED <<kind, cancelled, ran>> /\ pc[w] = "complete"
        /\ istate'[job[w]] = "completed"
        /\ \A j \in Jobs : j # job[w] => istate'[j] = istate[j]
    BY <1>11 DEF Complete, TypeOK, TakenOnce, HasJob
  <2>2. /\ \A v \in Workers : v # w => job'[v] = job[v] /\ pc'[v] = pc[v]
        /\ job'[w] = None
    BY <1>11 DEF Complete, Finish, TypeOK
  <2>3. job[w] \notin cancelled
    BY <2>1 DEF CancelInv
  <2>4. None \notin Jobs /\ cancelled \subseteq Jobs
    BY JobsAssumption DEF TypeOK
  <2> QED
    BY <2>1, <2>2, <2>3, <2>4 DEF CancelInv
<1>12. ASSUME NEW w \in Workers, ForkBegin(w)
       PROVE  CancelInv'
  BY <1>12 DEF ForkBegin, CancelInv, TypeOK, TakenOnce, HasJob
<1>13. ASSUME NEW w \in Workers, Construct(w)
       PROVE  CancelInv'
  <2> DEFINE s == Head(fork[w])
  <2>1. s \in Jobs /\ kind[s] = "none" /\ s \notin ran
    BY <1>13, ForkHead DEF Construct, FreshJobs
  <2>2. /\ UNCHANGED <<istate, cancelled, pc, job>>
        /\ \A x \in Jobs : x # s => kind'[x] = kind[x] /\ (x \in ran' <=> x \in ran)
        /\ kind'[s] = "interruptible" => s \notin ran'
    BY <1>13, <2>1 DEF Construct, TypeOK
  <2> HIDE DEF s
  <2>3. \A v \in Workers : job[v] # s
    BY <2>1, JobsAssumption DEF TakenOnce
  <2>4. s \notin cancelled
    BY <2>1 DEF CancelInv
  <2> QED
    BY <2>1, <2>2, <2>3, <2>4 DEF CancelInv, TypeOK
<1>14. ASSUME NEW w \in Workers, AddSubs(w)
       PROVE  CancelInv'
  <2>1. UNCHANGED <<kind, cancelled, ran, istate>>
    BY <1>14 DEF AddSubs
  <2>2. Leave(w)
    BY <1>14 DEF AddSubs
  <2>3. Leave(w) => pc[w] \notin {"start", "run", "check"}
    BY <1>14 DEF AddSubs
  <2> QED
    BY <2>1, <2>2, <2>3, CancelEnds
<1>15. ASSUME NEW w \in Workers, InterruptionPoint(w)
       PROVE  CancelInv'
  BY <1>15 DEF InterruptionPoint, CancelInv, TypeOK, TakenOnce, HasJob
<1>16. ASSUME NEW w \in Workers, Terminate(w)
       PROVE  CancelInv'
  BY <1>16 DEF Terminate, CancelInv, TypeOK, TakenOnce, HasJob
<1>17. ASSUME NEW w \in Workers, Drained(w)
       PROVE  CancelInv'
  BY <1>17 DEF Drained, CancelInv, TypeOK, TakenOnce, HasJob
<1>18. CASE UNCHANGED vars
  BY <1>18 DEF vars, CancelInv
<1> QED
  BY <1>1, <1>2, <1>3, <1>4, <1>5, <1>6, <1>7, <1>8, <1>9, <1>10, <1>11, <1>12,
     <1>13, <1>14, <1>15, <1>16, <1>17, <1>18
     DEF Next, Client, Worker, Terminated

-----------------------------------------------------------------------------
(* Signals                                                                 *)

\* The handle of a job that runs is interrupted: what the signal finds.
LEMMA SignalReaches ==
  ASSUME TypeOK, TakenOnce, SignalInv, NEW x \in Jobs, istate[x] = "running", x \in requested',
         Signal({x}), Mark({x}), requested \subseteq requested',
         UNCHANGED <<kind, queue, workerOf, pc, job, draining, hit>>
  PROVE  SignalInv'
<1>1. /\ \A j \in Jobs : j # x => istate'[j] = istate[j]
      /\ istate'[x] = "interrupted"
  BY DEF Mark
<1>2. \A w \in Workers : pending'[w] => pending[w] \/ workerOf[x] = w
  BY DEF Signal
<1>3. queue \subseteq Jobs /\ \A w \in Workers : job[w] # None => job[w] \in Jobs
  BY DEF TypeOK
<1>4. \A w \in Workers : pc[w] \in {"start", "run"} => job[w] # None
  BY DEF TakenOnce, HasJob
<1>5. /\ \A j \in queue' : istate'[j] \in {"none", "interrupted"}
      /\ \A w \in Workers :
           pc'[w] \in {"start", "run"} => istate'[job'[w]] \in {"none", "interrupted"}
  BY <1>1, <1>3, <1>4 DEF SignalInv
<1>6. /\ \A w \in Workers :
           pc'[w] \in {"run", "check", "body", "fork", "complete"} /\ kind'[job'[w]] = "interruptible"
             => workerOf'[job'[w]] = w
      /\ \A j \in Jobs : \A w \in Workers :
           istate'[j] = "running" /\ workerOf'[j] = w /\ ~draining'[w] =>
             job'[w] = j /\ pc'[w] \in {"check", "body", "fork", "complete"}
  BY <1>1 DEF SignalInv
<1>7. ASSUME NEW w \in Workers, pending'[w], ~draining'[w]
      PROVE  /\ pc'[w] \in {"check", "body", "fork", "complete", "after"}
             /\ job'[w] # None => job'[w] \in requested' /\ istate'[job'[w]] # "running"
  <2>1. CASE pending[w]
    BY <1>1, <1>3, <1>7, <2>1 DEF SignalInv
  <2>2. CASE workerOf[x] = w
    BY <1>1, <1>7, <2>2 DEF SignalInv
  <2> QED
    BY <1>2, <1>7, <2>1, <2>2
<1>8. (\A w \in Workers : ~draining'[w]) => hit' \subseteq requested'
  BY DEF SignalInv
<1> QED
  BY <1>5, <1>6, <1>7, <1>8 DEF SignalInv

\* A handle of a job that does not run is interrupted.
LEMMA MarkOnly ==
  ASSUME TypeOK, TakenOnce, SignalInv, NEW S, Mark(S), requested \subseteq requested',
         UNCHANGED <<kind, queue, workerOf, pc, job, draining, hit, pending>>
  PROVE  SignalInv'
<1>1. \A j \in Jobs : istate'[j] = istate[j] \/ istate'[j] = "interrupted"
  BY DEF Mark
<1>2. queue \subseteq Jobs /\ \A w \in Workers : job[w] # None => job[w] \in Jobs
  BY DEF TypeOK
<1>3. \A w \in Workers : pc[w] \in {"start", "run"} => job[w] \in Jobs
  BY <1>2 DEF TakenOnce, HasJob
<1> QED
  BY <1>1, <1>2, <1>3 DEF SignalInv

\* The body ends: the job is not running any more, or complete() follows.
LEMMA SignalEnds ==
  ASSUME TypeOK, TakenOnce, HandlesInv, SignalInv,
         UNCHANGED <<istate, kind, queue, workerOf, draining, requested>>,
         NEW w \in Workers, NEW how, Finish(w, how) \/ Leave(w), pc[w] \in {"body", "fork"},
         \A v \in Workers : pending'[v] => pending[v],
         Leave(w) \/ draining[w] \/ istate[job[w]] # "running",
         (\A v \in Workers : ~draining[v]) => hit' \subseteq requested
  PROVE  SignalInv'
<1>1. /\ \A v \in Workers : v # w => job'[v] = job[v] /\ pc'[v] = pc[v]
      /\ \/ job'[w] = job[w] /\ pc'[w] = "complete" /\ kind[job[w]] = "interruptible" /\ Leave(w)
         \/ job'[w] = None /\ pc'[w] = IF draining[w] THEN "idle" ELSE "after"
  BY EndEffect
<1>2. job[w] \in Jobs
  BY DEF TypeOK, TakenOnce, HasJob
<1>3. job'[w] = None => draining[w] \/ istate[job[w]] # "running"
  <2>1. CASE kind[job[w]] = "interruptible"
    <3>1. Leave(w) => job'[w] = job[w]
      BY <2>1 DEF Leave
    <3> QED
      BY <1>2, <3>1, JobsAssumption
  <2>2. CASE kind[job[w]] # "interruptible"
    BY <1>2, <2>2 DEF HandlesInv
  <2> QED
    BY <2>1, <2>2
<1>4. /\ \A j \in queue' : istate'[j] \in {"none", "interrupted"}
      /\ \A v \in Workers :
           pc'[v] \in {"start", "run"} => istate'[job'[v]] \in {"none", "interrupted"}
      /\ \A v \in Workers :
           pc'[v] \in {"run", "check", "body", "fork", "complete"} /\ kind'[job'[v]] = "interruptible"
             => workerOf'[job'[v]] = v
  BY <1>1 DEF SignalInv
<1>5. ASSUME NEW j \in Jobs, NEW v \in Workers, istate'[j] = "running", workerOf'[j] = v,
             ~draining'[v]
      PROVE  job'[v] = j /\ pc'[v] \in {"check", "body", "fork", "complete"}
  <2>1. job[v] = j /\ pc[v] \in {"check", "body", "fork", "complete"}
    BY <1>5 DEF SignalInv
  <2>2. v = w => job'[w] = job[w] /\ pc'[w] = "complete"
    BY <1>1, <1>3, <1>5, <2>1
  <2> QED
    BY <1>1, <2>1, <2>2
<1>6. ASSUME NEW v \in Workers, pending'[v], ~draining'[v]
      PROVE  /\ pc'[v] \in {"check", "body", "fork", "complete", "after"}
             /\ job'[v] # None => job'[v] \in requested' /\ istate'[job'[v]] # "running"
  BY <1>1, <1>6 DEF SignalInv
<1> QED
  BY <1>4, <1>5, <1>6 DEF SignalInv

\* Every step keeps the signals of a thread that does not drain those of its job.
LEMMA SignalStep ==
  ASSUME TypeOK, TakenOnce, ForksFresh, HandlesInv, CancelInv, SignalInv, [Next]_vars
  PROVE  SignalInv'
<1> USE DEF stateVars, workerVars, forkVars, history, Goto
<1>1. ASSUME NEW c \in Clients, NEW j \in Jobs, InterruptBegin(c, j)
      PROVE  SignalInv'
  BY <1>1 DEF InterruptBegin, Mark, SignalInv, TypeOK, TakenOnce, HasJob
<1>2. ASSUME NEW c \in Clients, NEW j \in Jobs, InterruptSub(c, j)
      PROVE  SignalInv'
  <2>1. j \in Jobs /\ j \in requested' /\ Mark({j}) /\ requested \subseteq requested'
    BY <1>2 DEF InterruptSub
  <2>2. UNCHANGED <<kind, queue, workerOf, pc, job, draining, hit>>
    BY <1>2 DEF InterruptSub
  <2>3. CASE istate[j] = "running"
    <3>1. Signal({j})
      BY <1>2, <2>3 DEF InterruptSub
    <3> QED
      BY <2>1, <2>2, <2>3, <3>1, SignalReaches
  <2>4. CASE istate[j] # "running"
    <3>1. pending' = pending
      BY <1>2, <2>4 DEF InterruptSub
    <3> QED
      BY <2>1, <2>2, <3>1, MarkOnly
  <2> QED
    BY <2>3, <2>4
<1>3. ASSUME NEW c \in Clients, InterruptEnd(c)
      PROVE  SignalInv'
  <2>1. UNCHANGED <<kind, queue, workerOf, pc, job, draining, hit, requested>>
    BY <1>3 DEF InterruptEnd
  <2>2. CASE icall[c].locked
    <3>1. Mark({icall[c].job}) /\ Signal({icall[c].job})
      BY <1>3, <2>2 DEF InterruptEnd
    <3>2. /\ icall[c].job \in Roots \cap requested /\ icall[c].job \in Jobs
          /\ istate[icall[c].job] = "running"
      BY <2>2, JobsAssumption DEF HandlesInv, Roots
    <3> QED
      BY <2>1, <3>1, <3>2, SignalReaches
  <2>3. CASE ~icall[c].locked
    <3>1. istate' = istate /\ pending' = pending
      BY <1>3, <2>3 DEF InterruptEnd
    <3> QED
      BY <2>1, <3>1 DEF SignalInv
  <2> QED
    BY <2>2, <2>3
<1>4. ASSUME NEW w \in Workers, NEW j \in Jobs, Take(w, j)
      PROVE  SignalInv'
  BY <1>4 DEF Take, SignalInv, TypeOK, TakenOnce, HasJob
<1>5. ASSUME NEW w \in Workers, Skip(w)
      PROVE  SignalInv'
  BY <1>5 DEF Skip, Finish, SignalInv, TypeOK, TakenOnce, HasJob
<1>6. ASSUME NEW w \in Workers, Publish(w)
      PROVE  SignalInv'
  BY <1>6 DEF Publish, SignalInv, TypeOK, TakenOnce, HasJob
<1>7. ASSUME NEW w \in Workers, Run(w)
      PROVE  SignalInv'
  BY <1>7 DEF Run, SignalInv, TypeOK, TakenOnce, HasJob
<1>8. ASSUME NEW w \in Workers, Enter(w)
      PROVE  SignalInv'
  BY <1>8 DEF Enter, SignalInv, TypeOK, TakenOnce, HasJob
<1>9. ASSUME NEW w \in Workers, Return(w)
      PROVE  SignalInv'
  <2>1. /\ UNCHANGED <<istate, kind, queue, workerOf, draining, requested>> /\ Leave(w)
        /\ UNCHANGED <<pending, hit>> /\ pc[w] \in {"body", "fork"}
    BY <1>9 DEF Return
  <2>2. (\A v \in Workers : ~draining[v]) => hit' \subseteq requested
    BY <2>1 DEF SignalInv
  <2> QED
    BY <2>1, <2>2, SignalEnds
<1>10. ASSUME NEW w \in Workers, Throw(w)
       PROVE  SignalInv'
  <2>1. /\ UNCHANGED <<istate, kind, queue, workerOf, draining, requested>>
        /\ Leave(w) \/ Finish(w, "thrown")
        /\ pc[w] \in {"body", "fork"} /\ pending[w] /\ hit' = hit \cup {job[w]}
        /\ \A v \in Workers : pending'[v] => pending[v]
    BY <1>10 DEF Throw, TypeOK
  <2>2. job[w] # None
    BY <1>10 DEF Throw, TakenOnce, HasJob
  <2>3. ~draining[w] => job[w] \in requested /\ istate[job[w]] # "running"
    BY <2>1, <2>2 DEF SignalInv
  <2>4. (\A v \in Workers : ~draining[v]) => hit' \subseteq requested
    BY <2>1, <2>3 DEF SignalInv
  <2> QED
    BY <2>1, <2>3, <2>4, SignalEnds
<1>11. ASSUME NEW w \in Workers, Complete(w)
       PROVE  SignalInv'
  BY <1>11 DEF Complete, Finish, SignalInv, TypeOK, TakenOnce, HasJob
<1>12. ASSUME NEW w \in Workers, ForkBegin(w)
       PROVE  SignalInv'
  BY <1>12 DEF ForkBegin, SignalInv, TypeOK, TakenOnce, HasJob
<1>13. ASSUME NEW w \in Workers, Construct(w)
       PROVE  SignalInv'
  <2> DEFINE s == Head(fork[w])
  <2>1. s \in Jobs /\ kind[s] = "none" /\ istate[s] = "none"
    BY <1>13, ForkHead DEF Construct, FreshJobs
  <2>2. /\ UNCHANGED <<istate, pc, job, workerOf, draining, pending, requested, hit>>
        /\ \A x \in Jobs : x # s => kind'[x] = kind[x]
        /\ queue' \subseteq queue \cup {s}
    BY <1>13 DEF Construct, TypeOK
  <2> HIDE DEF s
  <2>3. \A v \in Workers :
          pc[v] \in {"run", "check", "body", "fork", "complete"} => job[v] # s /\ job[v] \in Jobs
    BY <2>1, JobsAssumption DEF TakenOnce, HasJob, TypeOK
  <2> QED
    BY <2>1, <2>2, <2>3 DEF SignalInv
<1>14. ASSUME NEW w \in Workers, AddSubs(w)
       PROVE  SignalInv'
  <2>1. /\ UNCHANGED <<istate, kind, queue, workerOf, draining, requested>> /\ Leave(w)
        /\ UNCHANGED <<pending, hit>> /\ pc[w] \in {"body", "fork"}
    BY <1>14 DEF AddSubs
  <2>2. (\A v \in Workers : ~draining[v]) => hit' \subseteq requested
    BY <2>1 DEF SignalInv
  <2> QED
    BY <2>1, <2>2, SignalEnds
<1>15. ASSUME NEW w \in Workers, InterruptionPoint(w)
       PROVE  SignalInv'
  BY <1>15 DEF InterruptionPoint, SignalInv, TypeOK, TakenOnce, HasJob
<1>16. ASSUME NEW w \in Workers, Terminate(w)
       PROVE  SignalInv'
  BY <1>16 DEF Terminate, SignalInv, TypeOK, TakenOnce, HasJob
<1>17. ASSUME NEW w \in Workers, Drained(w)
       PROVE  SignalInv'
  BY <1>17 DEF Drained, SignalInv, TypeOK, TakenOnce, HasJob
<1>18. CASE UNCHANGED vars
  BY <1>18 DEF vars, SignalInv
<1> QED
  BY <1>1, <1>2, <1>3, <1>4, <1>5, <1>6, <1>7, <1>8, <1>9, <1>10, <1>11, <1>12,
     <1>13, <1>14, <1>15, <1>16, <1>17, <1>18
     DEF Next, Client, Worker, Terminated

-----------------------------------------------------------------------------
(* The theorems                                                            *)

\* Every job that was posted is in the queue or with one worker, its subtasks are
\* fresh until it posts them, and every handle is that of an interruptible job.
THEOREM JobsCorrect == Spec => [](TypeOK /\ JobsInv)
<1>1. ASSUME Init
      PROVE  TypeOK /\ JobsInv
  <2>1. queue \in Posted /\ queue \subseteq Roots /\ queue \subseteq Jobs
    BY <1>1, JobsAssumption DEF Init, Roots
  <2>2. TypeOK
    BY <1>1, <2>1 DEF Init, TypeOK, NoCall
  <2>3. TakenOnce
    BY <1>1, <2>1, JobsAssumption DEF Init, TakenOnce, HasJob
  <2>4. PostedRoots = queue
    <3>1. \A j \in Jobs : kind[j] # "none" <=> j \in queue
      BY <1>1 DEF Init
    <3>2. Roots \subseteq Jobs
      BY JobsAssumption DEF Roots
    <3> QED
      BY <2>1, <3>1, <3>2 DEF PostedRoots
  <2>5. \A p \in Roots \cap Unforked : Elements(Subtasks[p]) \subseteq FreshJobs
    <3>1. SUFFICES ASSUME NEW p \in Roots, NEW s \in Elements(Subtasks[p])
                   PROVE  s \in FreshJobs
      OBVIOUS
    <3>2. s \in Jobs /\ s \notin Roots
      BY SubtaskFacts, JobsAssumption DEF Roots
    <3> QED
      BY <1>1, <2>1, <3>2 DEF Init, FreshJobs
  <2>6. ForksFresh
    BY <1>1, <2>1, <2>4, <2>5 DEF Init, ForksFresh
  <2>7. HandlesInv
    BY <1>1 DEF Init, HandlesInv, NoCall
  <2> QED
    BY <2>2, <2>3, <2>6, <2>7 DEF JobsInv
<1>2. TypeOK /\ JobsInv /\ [Next]_vars => TypeOK' /\ JobsInv'
  BY TypeStep, TakenStep, ForkStep, HandlesStep DEF JobsInv
<1> QED
  BY <1>1, <1>2, PTL DEF Spec

\* A job that was marked before it ran is not beyond the second test, and a
\* thread that does not drain is signalled only for the job it executes.
THEOREM InterruptCorrect == Spec => []InterruptInv
<1>1. ASSUME Init
      PROVE  InterruptInv
  <2>1. queue \subseteq Jobs
    BY <1>1, JobsAssumption DEF Init
  <2>2. CancelInv
    BY <1>1, JobsAssumption DEF Init, CancelInv
  <2>3. SignalInv
    BY <1>1, <2>1 DEF Init, SignalInv
  <2> QED
    BY <2>2, <2>3 DEF InterruptInv
<1>2. TypeOK /\ JobsInv /\ InterruptInv /\ [Next]_vars => InterruptInv'
  BY CancelStep, SignalStep DEF JobsInv, InterruptInv
<1> QED
  BY <1>1, <1>2, JobsCorrect, PTL DEF Spec

\* An interruption reaches its job and no other: a job that was interrupted before
\* it ran never enters its body, and as long as no worker drains the queue,
\* thread_interrupted is thrown only in a job whose interrupt() was called.
THEOREM InterruptReachesItsJob == Spec => []InterruptsItsJob
<1>1. TypeOK /\ InterruptInv => InterruptsItsJob
  <2> SUFFICES ASSUME TypeOK, InterruptInv
               PROVE  InterruptsItsJob
    OBVIOUS
  <2>1. CancelledNeverRuns
    BY DEF InterruptInv, CancelInv, CancelledNeverRuns
  <2>2. (\A w \in Workers : ~draining[w]) => OnlyRequestedAreHit
    BY DEF InterruptInv, SignalInv, OnlyRequestedAreHit
  <2> QED
    BY <2>1, <2>2 DEF InterruptsItsJob
<1> QED
  BY <1>1, JobsCorrect, InterruptCorrect, PTL
=============================================================================
