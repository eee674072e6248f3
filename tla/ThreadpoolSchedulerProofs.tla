---------------------- MODULE ThreadpoolSchedulerProofs ----------------------
(***************************************************************************)
(* Type correctness of ThreadpoolScheduler and the correctness of its      *)
(* shutdown, for any number of workers, clients and jobs.                  *)
(***************************************************************************)
EXTENDS ThreadpoolScheduler, TLAPS

\* What TypeOK needs of the control state: a worker in the body of a job has
\* one, a worker that posts subtasks owns a reference, a destructor that runs
\* has somebody to run it and something to do, and the proxy implementation
\* goes after the last copy of the proxy.
WorkerInv ==
  \A w \in Workers : /\ pc[w] \in {"start", "job", "fork", "forked"} => job[w] \in Jobs
                     /\ pc[w] = "fork" => w \in locks

DtorInv == /\ dtor.by # None => dtor.next \in Workers
           /\ Alive => dtor = [by |-> None, next |-> 1]

CloseInv == /\ implRef <=> closing \in {"open", "reset"}
            /\ held # {} => closing = "open"
            /\ closing # "open" => closer \in Clients

ControlInv == WorkerInv /\ DtorInv /\ CloseInv

\* A sequence that is not empty has a head and a tail of the same type.
LEMMA HeadTail ==
  ASSUME NEW S, NEW s \in Seq(S), s # <<>>
  PROVE  Head(s) \in S /\ Tail(s) \in Seq(S)
  OBVIOUS

\* Dropping a reference to a live scheduler: the destructor starts at the
\* first worker if the reference was the last one.
LEMMA ReleaseTyped ==
  ASSUME DtorInv, Alive,
         NEW a \in Actors, NEW ref \in BOOLEAN, NEW refs \in SUBSET Actors,
         Release(a, ref, refs)
  PROVE  /\ implRef' = ref /\ locks' = refs
         /\ dtor' \in [by : Actors \cup {None}, next : 1 .. NumberOfWorkers + 1]
         /\ (dtor.by # None => dtor.next \in Workers)'
         /\ (Alive => dtor = [by |-> None, next |-> 1])'
<1>1. dtor = [by |-> None, next |-> 1]
  BY DEF DtorInv
<1>2. implRef' = ref /\ locks' = refs
  BY DEF Release
<1>3. CASE ref \/ refs # {}
  <2>1. dtor' = [by |-> None, next |-> 1]
    BY <1>1, <1>3 DEF Release
  <2> QED
    BY <1>2, <2>1, ConstantsAssumption
<1>4. CASE ~ref /\ refs = {}
  <2>1. dtor' = [by |-> a, next |-> 1]
    BY <1>1, <1>4 DEF Release
  <2>2. ~Alive'
    BY <1>2, <1>4 DEF Alive
  <2> QED
    BY <1>2, <2>1, <2>2, ConstantsAssumption DEF Workers
<1> QED
  BY <1>3, <1>4

\* Every step keeps the types.
LEMMA TypeStep ==
  ASSUME TypeOK, WorkerInv, DtorInv, CloseInv, [Next]_vars
  PROVE  TypeOK'
<1> USE DEF TypeOK, ownerVars, workerVars, diagVars, interruptVars, Goto
<1>1. ASSUME NEW c \in Clients, NEW d \in Clients, ShareProxy(c, d)
       PROVE  TypeOK'
  BY <1>1 DEF ShareProxy
<1>2. ASSUME NEW c \in Clients, DropProxy(c)
       PROVE  TypeOK'
  BY <1>2 DEF DropProxy
<1>3. ASSUME NEW c \in Clients, ClientLock(c)
       PROVE  TypeOK'
  BY <1>3 DEF ClientLock, Actors
<1>4. ASSUME NEW c \in Clients, ClientUnlock(c)
       PROVE  TypeOK'
  <2>1. Release(c, implRef, locks \ {c}) /\ Alive
    BY <1>4 DEF ClientUnlock, Alive
  <2> QED
    BY <1>4, <2>1, ReleaseTyped DEF ClientUnlock, Actors
<1>5. ASSUME NEW c \in Clients, NEW j \in Jobs, ClientPost(c, j)
       PROVE  TypeOK'
  BY <1>5 DEF ClientPost, Statuses
<1>6. ASSUME NEW c \in Clients, NEW w \in Workers, PushPrivateTask(c, w)
       PROVE  TypeOK'
  BY <1>6 DEF PushPrivateTask
<1>7. CASE ResetScheduler
  <2>1. Release(closer, FALSE, locks) /\ Alive
    BY <1>7 DEF ResetScheduler, Alive, CloseInv
  <2>2. closer \in Clients
    BY <1>7 DEF ResetScheduler, CloseInv
  <2>3. implRef' \in BOOLEAN /\ locks' \subseteq Actors
    BY <2>1 DEF Release
  <2>4. dtor' \in [by : Actors \cup {None}, next : 1 .. NumberOfWorkers + 1]
    BY <2>1, <2>2, ReleaseTyped DEF Actors
  <2> QED
    BY <1>7, <2>3, <2>4 DEF ResetScheduler
<1>8. CASE PushTermination
  BY <1>8, ConstantsAssumption DEF PushTermination, DtorInv, Workers
<1>9. CASE Join
  BY <1>9 DEF Join
<1>10. ASSUME NEW w \in Workers, TryPopHit(w)
        PROVE  TypeOK'
  BY <1>10, HeadTail DEF TryPopHit, PCs, Statuses
<1>11. ASSUME NEW w \in Workers, TryPopMiss(w)
        PROVE  TypeOK'
  BY <1>11 DEF TryPopMiss, PCs
<1>12. ASSUME NEW w \in Workers, NEW p \in Jobs, ContinuationReady(w, p)
        PROVE  TypeOK'
  BY <1>12 DEF ContinuationReady
<1>13. ASSUME NEW w \in Workers, NEW p \in Jobs, ContinuationNotReady(w, p)
        PROVE  TypeOK'
  BY <1>13 DEF ContinuationNotReady
<1>14. ASSUME NEW w \in Workers, ScanDone(w)
        PROVE  TypeOK'
  BY <1>14 DEF ScanDone, AfterMiss, PCs
<1>15. ASSUME NEW w \in Workers, ForkLock(w)
        PROVE  TypeOK'
  BY <1>15, ConstantsAssumption DEF ForkLock, WorkerInv, Actors, PCs
<1>16. ASSUME NEW w \in Workers, ForkRefused(w)
        PROVE  TypeOK'
  BY <1>16 DEF ForkRefused, WorkerInv, Statuses, PCs
<1>17. ASSUME NEW w \in Workers, NEW s \in Jobs, ForkPost(w, s)
        PROVE  TypeOK'
  BY <1>17 DEF ForkPost, Statuses
<1>18. ASSUME NEW w \in Workers, ForkUnlock(w)
        PROVE  TypeOK'
  <2>1. Release(w, implRef, locks \ {w}) /\ Alive
    BY <1>18 DEF ForkUnlock, WorkerInv, Alive
  <2>2. job[w] \in Jobs
    BY <1>18 DEF ForkUnlock, WorkerInv
  <2> QED
    BY <1>18, <2>1, <2>2, ReleaseTyped DEF ForkUnlock, PCs, Actors
<1>19. ASSUME NEW w \in Workers, JobReturns(w)
        PROVE  TypeOK'
  BY <1>19 DEF JobReturns, JobEnds, AfterHit, Complete, Log, WorkerInv, Statuses, Ended, PCs
<1>20. ASSUME NEW w \in Workers, JobFails(w)
        PROVE  TypeOK'
  <2>1. pending' \in [Workers -> BOOLEAN]
    BY <1>20 DEF JobFails
  <2>2. /\ pc[w] \in {"job", "forked"}
        /\ JobEnds(w, "failed") /\ Complete(w) /\ Log(w)
    BY <1>20 DEF JobFails
  <2> QED
    BY <2>1, <2>2 DEF JobEnds, AfterHit, Complete, Log, WorkerInv, Statuses, Ended, PCs
<1>21. ASSUME NEW w \in Workers, JobInterrupted(w)
        PROVE  TypeOK'
  BY <1>21 DEF JobInterrupted, JobEnds, AfterHit, WorkerInv, Statuses, Ended, PCs
<1>22. ASSUME NEW w \in Workers, PrivateMiss(w)
        PROVE  TypeOK'
  BY <1>22 DEF PrivateMiss, PCs
<1>23. ASSUME NEW w \in Workers, PrivateHit(w)
        PROVE  TypeOK'
  BY <1>23, HeadTail DEF PrivateHit, PCs
<1>24. CASE UNCHANGED vars
  BY <1>24 DEF vars
<1>25. ASSUME NEW j \in Jobs, Interrupt(j)
        PROVE  TypeOK'
  BY <1>25 DEF Interrupt
<1>26. ASSUME NEW w \in Workers, Start(w)
        PROVE  TypeOK'
  BY <1>26 DEF Start, WorkerInv, PCs
<1>27. ASSUME NEW w \in Workers, NEW s \in Jobs, ForkDrop(w, s)
        PROVE  TypeOK'
  BY <1>27 DEF ForkDrop, Statuses
<1>28. ASSUME NEW w \in Workers, JobSkipped(w)
        PROVE  TypeOK'
  BY <1>28 DEF JobSkipped, JobEnds, AfterHit, Log, WorkerInv, Statuses, Ended, PCs
<1> QED
  BY <1>1, <1>2, <1>3, <1>4, <1>5, <1>6, <1>7, <1>8, <1>9, <1>10, <1>11,
     <1>12, <1>13, <1>14, <1>15, <1>16, <1>17, <1>18, <1>19, <1>20, <1>21,
     <1>22, <1>23, <1>24, <1>25, <1>26, <1>27, <1>28
  DEF Next, Client, Shutdown, Worker, Terminated

\* Every step keeps the workers in order.
LEMMA WorkerStep ==
  ASSUME TypeOK, WorkerInv, [Next]_vars
  PROVE  WorkerInv'
<1> USE DEF TypeOK, WorkerInv, ownerVars, workerVars, diagVars, Goto
<1>1. ASSUME NEW c \in Clients, NEW d \in Clients, ShareProxy(c, d)
       PROVE  WorkerInv'
  BY <1>1 DEF ShareProxy
<1>2. ASSUME NEW c \in Clients, DropProxy(c)
       PROVE  WorkerInv'
  BY <1>2 DEF DropProxy
<1>3. ASSUME NEW c \in Clients, ClientLock(c)
       PROVE  WorkerInv'
  BY <1>3 DEF ClientLock
<1>4. ASSUME NEW c \in Clients, ClientUnlock(c)
       PROVE  WorkerInv'
  BY <1>4, ConstantsAssumption DEF ClientUnlock, Release
<1>5. ASSUME NEW c \in Clients, NEW j \in Jobs, ClientPost(c, j)
       PROVE  WorkerInv'
  BY <1>5 DEF ClientPost
<1>6. ASSUME NEW c \in Clients, NEW w \in Workers, PushPrivateTask(c, w)
       PROVE  WorkerInv'
  BY <1>6 DEF PushPrivateTask
<1>7. CASE ResetScheduler
  BY <1>7 DEF ResetScheduler, Release
<1>8. CASE PushTermination
  BY <1>8 DEF PushTermination
<1>9. CASE Join
  BY <1>9 DEF Join
<1>10. ASSUME NEW w \in Workers, TryPopHit(w)
        PROVE  WorkerInv'
  BY <1>10, HeadTail DEF TryPopHit
<1>11. ASSUME NEW w \in Workers, TryPopMiss(w)
        PROVE  WorkerInv'
  BY <1>11 DEF TryPopMiss
<1>12. ASSUME NEW w \in Workers, NEW p \in Jobs, ContinuationReady(w, p)
        PROVE  WorkerInv'
  BY <1>12 DEF ContinuationReady
<1>13. ASSUME NEW w \in Workers, NEW p \in Jobs, ContinuationNotReady(w, p)
        PROVE  WorkerInv'
  BY <1>13 DEF ContinuationNotReady
<1>14. ASSUME NEW w \in Workers, ScanDone(w)
        PROVE  WorkerInv'
  BY <1>14 DEF ScanDone, AfterMiss
<1>15. ASSUME NEW w \in Workers, ForkLock(w)
        PROVE  WorkerInv'
  BY <1>15 DEF ForkLock
<1>16. ASSUME NEW w \in Workers, ForkRefused(w)
        PROVE  WorkerInv'
  BY <1>16 DEF ForkRefused
<1>17. ASSUME NEW w \in Workers, NEW s \in Jobs, ForkPost(w, s)
        PROVE  WorkerInv'
  BY <1>17 DEF ForkPost
<1>18. ASSUME NEW w \in Workers, ForkUnlock(w)
        PROVE  WorkerInv'
  BY <1>18 DEF ForkUnlock, Release
<1>19. ASSUME NEW w \in Workers, JobReturns(w)
        PROVE  WorkerInv'
  BY <1>19 DEF JobReturns, JobEnds, AfterHit
<1>20. ASSUME NEW w \in Workers, JobFails(w)
        PROVE  WorkerInv'
  BY <1>20 DEF JobFails, JobEnds, AfterHit
<1>21. ASSUME NEW w \in Workers, JobInterrupted(w)
        PROVE  WorkerInv'
  BY <1>21 DEF JobInterrupted, JobEnds, AfterHit
<1>22. ASSUME NEW w \in Workers, PrivateMiss(w)
        PROVE  WorkerInv'
  BY <1>22 DEF PrivateMiss
<1>23. ASSUME NEW w \in Workers, PrivateHit(w)
        PROVE  WorkerInv'
  BY <1>23 DEF PrivateHit
<1>24. CASE UNCHANGED vars
  BY <1>24 DEF vars
<1>25. ASSUME NEW j \in Jobs, Interrupt(j)
        PROVE  WorkerInv'
  BY <1>25 DEF Interrupt
<1>26. ASSUME NEW w \in Workers, Start(w)
        PROVE  WorkerInv'
  BY <1>26 DEF Start
<1>27. ASSUME NEW w \in Workers, NEW s \in Jobs, ForkDrop(w, s)
        PROVE  WorkerInv'
  BY <1>27 DEF ForkDrop
<1>28. ASSUME NEW w \in Workers, JobSkipped(w)
        PROVE  WorkerInv'
  BY <1>28 DEF JobSkipped, JobEnds, AfterHit
<1> QED
  BY <1>1, <1>2, <1>3, <1>4, <1>5, <1>6, <1>7, <1>8, <1>9, <1>10, <1>11,
     <1>12, <1>13, <1>14, <1>15, <1>16, <1>17, <1>18, <1>19, <1>20, <1>21,
     <1>22, <1>23, <1>24, <1>25, <1>26, <1>27, <1>28
  DEF Next, Client, Shutdown, Worker, Terminated

\* The variables of the owners change only in the steps named here.
LEMMA OwnerStep ==
  ASSUME TypeOK, WorkerInv, DtorInv, CloseInv, [Next]_vars
  PROVE  DtorInv' /\ CloseInv'
<1> USE DEF Alive
<1>1. CASE UNCHANGED ownerVars
  BY <1>1 DEF DtorInv, CloseInv, ownerVars
<1>2. ASSUME NEW c \in Clients, NEW d \in Clients, ShareProxy(c, d)
      PROVE  DtorInv' /\ CloseInv'
  BY <1>2 DEF ShareProxy, DtorInv, CloseInv
<1>3. ASSUME NEW c \in Clients, DropProxy(c)
      PROVE  DtorInv' /\ CloseInv'
  BY <1>3 DEF DropProxy, DtorInv, CloseInv
<1>4. ASSUME NEW c \in Clients, ClientLock(c)
      PROVE  DtorInv' /\ CloseInv'
  BY <1>4 DEF ClientLock, DtorInv, CloseInv
<1>5. ASSUME NEW c \in Clients, ClientUnlock(c)
      PROVE  DtorInv' /\ CloseInv'
  <2>1. Release(c, implRef, locks \ {c}) /\ Alive
    BY <1>5 DEF ClientUnlock
  <2>2. UNCHANGED <<implRef, held, closing, closer>>
    BY <1>5, <2>1 DEF ClientUnlock, Release
  <2>3. DtorInv'
    BY <2>1, ReleaseTyped DEF TypeOK, DtorInv, Actors
  <2> QED
    BY <2>2, <2>3 DEF CloseInv
<1>6. CASE ResetScheduler
  <2>1. Release(closer, FALSE, locks) /\ Alive /\ closer \in Clients
    BY <1>6 DEF ResetScheduler, CloseInv
  <2>2. implRef' = FALSE /\ closing' = "join" /\ UNCHANGED <<held, closer>>
    BY <1>6, <2>1 DEF ResetScheduler, Release
  <2>3. DtorInv'
    BY <2>1, ReleaseTyped DEF TypeOK, DtorInv, Actors
  <2>4. CloseInv'
    BY <1>6, <2>1, <2>2 DEF ResetScheduler, CloseInv
  <2> QED
    BY <2>3, <2>4
<1>7. CASE PushTermination
  BY <1>7, ConstantsAssumption
  DEF PushTermination, TypeOK, DtorInv, CloseInv, Workers, Actors
<1>8. CASE Join
  BY <1>8 DEF Join, DtorInv, CloseInv
<1>9. ASSUME NEW w \in Workers, ForkLock(w)
      PROVE  DtorInv' /\ CloseInv'
  BY <1>9 DEF ForkLock, DtorInv, CloseInv
<1>10. ASSUME NEW w \in Workers, ForkUnlock(w)
       PROVE  DtorInv' /\ CloseInv'
  <2>1. Release(w, implRef, locks \ {w}) /\ Alive
    BY <1>10 DEF ForkUnlock, WorkerInv
  <2>2. UNCHANGED <<implRef, held, closing, closer>>
    BY <1>10, <2>1 DEF ForkUnlock, Release
  <2>3. DtorInv'
    BY <2>1, ReleaseTyped DEF TypeOK, DtorInv, Actors
  <2> QED
    BY <2>2, <2>3 DEF CloseInv
<1> QED
  BY <1>1, <1>2, <1>3, <1>4, <1>5, <1>6, <1>7, <1>8, <1>9, <1>10
  DEF Next, Client, Shutdown, Worker, Terminated, vars, ownerVars,
      ClientPost, PushPrivateTask, TryPopHit, TryPopMiss, ContinuationReady,
      ContinuationNotReady, ScanDone, Start, ForkRefused, ForkPost, ForkDrop,
      JobSkipped, JobReturns, JobFails, JobInterrupted, JobEnds, Interrupt,
      PrivateMiss, PrivateHit

\* Every variable keeps its type in every execution of the thread pool.
THEOREM TypeCorrect == Spec => [](TypeOK /\ ControlInv)
<1>1. Init => TypeOK /\ ControlInv
  BY ConstantsAssumption
  DEF Init, TypeOK, ControlInv, WorkerInv, DtorInv, CloseInv, Alive, Workers,
      Actors, Statuses, PCs
<1>2. TypeOK /\ ControlInv /\ [Next]_vars => TypeOK' /\ ControlInv'
  BY TypeStep, WorkerStep, OwnerStep DEF ControlInv
<1> QED
  BY <1>1, <1>2, PTL DEF Spec
-----------------------------------------------------------------------------
(* The shutdown                                                            *)

HasTermination(w) == \E i \in DOMAIN priv[w] : priv[w][i] = "terminate"

\* Workers stop only once the scheduler has no owner; the loop of the
\* destructor has not reached the workers from dtor.next on.
StopInv ==
  \A w \in Workers :
    /\ draining[w] \/ HasTermination(w) => ~Alive
    /\ w >= dtor.next => ~draining[w] /\ ~HasTermination(w)

\* The termination task is the last one of a private queue, so a worker that
\* has taken it has nothing left there.
LastInv ==
  \A w \in Workers :
    /\ \A i \in DOMAIN priv[w] : priv[w][i] = "terminate" => i = Len(priv[w])
    /\ draining[w] => priv[w] = <<>>

\* A worker stops after a pop that found the queue empty, and the queue stays
\* empty: only an owner can push.
DrainInv ==
  \A w \in Workers :
    /\ pc[w] = "private" => ~draining[w]
    /\ pc[w] = "done" => draining[w] /\ queue = <<>>
    /\ pc[w] = "scan" /\ draining[w] => queue = <<>>
    /\ toPost[w] # {} => pc[w] = "fork"

\* Every step keeps StopInv.
LEMMA StopStep ==
  ASSUME TypeOK, WorkerInv, DtorInv, CloseInv, StopInv, [Next]_vars
  PROVE  StopInv'
<1> USE DEF TypeOK, StopInv, HasTermination, Alive, ownerVars, workerVars
<1>1. ASSUME NEW c \in Clients, NEW d \in Clients, ShareProxy(c, d)
      PROVE  StopInv'
  BY <1>1 DEF ShareProxy
<1>2. ASSUME NEW c \in Clients, DropProxy(c)
      PROVE  StopInv'
  BY <1>2 DEF DropProxy
<1>3. ASSUME NEW c \in Clients, ClientLock(c)
      PROVE  StopInv'
  BY <1>3 DEF ClientLock
<1>4. ASSUME NEW c \in Clients, ClientUnlock(c)
      PROVE  StopInv'
  BY <1>4 DEF ClientUnlock, Release
<1>5. ASSUME NEW c \in Clients, NEW j \in Jobs, ClientPost(c, j)
      PROVE  StopInv'
  BY <1>5 DEF ClientPost
<1>6. ASSUME NEW c \in Clients, NEW w \in Workers, PushPrivateTask(c, w)
      PROVE  StopInv'
  BY <1>6 DEF PushPrivateTask
<1>7. CASE ResetScheduler
  BY <1>7 DEF ResetScheduler, Release, CloseInv
<1>8. CASE PushTermination
  <2>1. ~Alive /\ ~Alive' /\ dtor'.next = dtor.next + 1 /\ draining' = draining
    BY <1>8 DEF PushTermination, DtorInv
  <2>2. \A v \in Workers : v # dtor.next => priv'[v] = priv[v]
    BY <1>8 DEF PushTermination
  <2>3. dtor.next \in Nat
    BY ConstantsAssumption
  <2> QED
    BY <2>1, <2>2, <2>3 DEF Workers
<1>9. CASE Join
  BY <1>9 DEF Join
<1>10. ASSUME NEW w \in Workers, TryPopHit(w)
       PROVE  StopInv'
  BY <1>10 DEF TryPopHit
<1>11. ASSUME NEW w \in Workers, TryPopMiss(w)
       PROVE  StopInv'
  BY <1>11 DEF TryPopMiss
<1>12. ASSUME NEW w \in Workers, NEW p \in Jobs, ContinuationReady(w, p)
       PROVE  StopInv'
  BY <1>12 DEF ContinuationReady
<1>13. ASSUME NEW w \in Workers, NEW p \in Jobs, ContinuationNotReady(w, p)
       PROVE  StopInv'
  BY <1>13 DEF ContinuationNotReady
<1>14. ASSUME NEW w \in Workers, ScanDone(w)
       PROVE  StopInv'
  BY <1>14 DEF ScanDone
<1>15. ASSUME NEW w \in Workers, ForkLock(w)
       PROVE  StopInv'
  BY <1>15 DEF ForkLock
<1>16. ASSUME NEW w \in Workers, ForkRefused(w)
       PROVE  StopInv'
  BY <1>16 DEF ForkRefused
<1>17. ASSUME NEW w \in Workers, NEW s \in Jobs, ForkPost(w, s)
       PROVE  StopInv'
  BY <1>17 DEF ForkPost
<1>18. ASSUME NEW w \in Workers, ForkUnlock(w)
       PROVE  StopInv'
  BY <1>18 DEF ForkUnlock, Release, WorkerInv
<1>19. ASSUME NEW w \in Workers, JobReturns(w)
       PROVE  StopInv'
  BY <1>19 DEF JobReturns, JobEnds
<1>20. ASSUME NEW w \in Workers, JobFails(w)
       PROVE  StopInv'
  BY <1>20 DEF JobFails, JobEnds
<1>21. ASSUME NEW w \in Workers, JobInterrupted(w)
       PROVE  StopInv'
  BY <1>21 DEF JobInterrupted, JobEnds
<1>22. ASSUME NEW w \in Workers, PrivateMiss(w)
       PROVE  StopInv'
  BY <1>22 DEF PrivateMiss
<1>23. ASSUME NEW w \in Workers, PrivateHit(w)
       PROVE  StopInv'
  BY <1>23 DEF PrivateHit
<1>24. CASE UNCHANGED vars
  BY <1>24 DEF vars
<1>25. ASSUME NEW j \in Jobs, Interrupt(j)
       PROVE  StopInv'
  BY <1>25 DEF Interrupt
<1>26. ASSUME NEW w \in Workers, Start(w)
       PROVE  StopInv'
  BY <1>26 DEF Start
<1>27. ASSUME NEW w \in Workers, NEW s \in Jobs, ForkDrop(w, s)
       PROVE  StopInv'
  BY <1>27 DEF ForkDrop
<1>28. ASSUME NEW w \in Workers, JobSkipped(w)
       PROVE  StopInv'
  BY <1>28 DEF JobSkipped, JobEnds
<1> QED
  BY <1>1, <1>2, <1>3, <1>4, <1>5, <1>6, <1>7, <1>8, <1>9, <1>10, <1>11,
     <1>12, <1>13, <1>14, <1>15, <1>16, <1>17, <1>18, <1>19, <1>20, <1>21,
     <1>22, <1>23, <1>24, <1>25, <1>26, <1>27, <1>28
  DEF Next, Client, Shutdown, Worker, Terminated

\* Every step keeps LastInv.
LEMMA LastStep ==
  ASSUME TypeOK, DtorInv, CloseInv, StopInv, LastInv, DrainInv, [Next]_vars
  PROVE  LastInv'
<1> USE DEF TypeOK, LastInv, ownerVars, workerVars
<1>1. ASSUME NEW c \in Clients, NEW d \in Clients, ShareProxy(c, d)
      PROVE  LastInv'
  BY <1>1 DEF ShareProxy
<1>2. ASSUME NEW c \in Clients, DropProxy(c)
      PROVE  LastInv'
  BY <1>2 DEF DropProxy
<1>3. ASSUME NEW c \in Clients, ClientLock(c)
      PROVE  LastInv'
  BY <1>3 DEF ClientLock
<1>4. ASSUME NEW c \in Clients, ClientUnlock(c)
      PROVE  LastInv'
  BY <1>4 DEF ClientUnlock, Release
<1>5. ASSUME NEW c \in Clients, NEW j \in Jobs, ClientPost(c, j)
      PROVE  LastInv'
  BY <1>5 DEF ClientPost
<1>6. ASSUME NEW c \in Clients, NEW w \in Workers, PushPrivateTask(c, w)
      PROVE  LastInv'
  BY <1>6 DEF PushPrivateTask, Owns, Alive, CloseInv, StopInv, HasTermination
<1>7. CASE ResetScheduler
  BY <1>7 DEF ResetScheduler, Release
<1>8. CASE PushTermination
  BY <1>8 DEF PushTermination, DtorInv, StopInv, HasTermination, Workers
<1>9. CASE Join
  BY <1>9 DEF Join
<1>10. ASSUME NEW w \in Workers, TryPopHit(w)
       PROVE  LastInv'
  BY <1>10 DEF TryPopHit
<1>11. ASSUME NEW w \in Workers, TryPopMiss(w)
       PROVE  LastInv'
  BY <1>11 DEF TryPopMiss
<1>12. ASSUME NEW w \in Workers, NEW p \in Jobs, ContinuationReady(w, p)
       PROVE  LastInv'
  BY <1>12 DEF ContinuationReady
<1>13. ASSUME NEW w \in Workers, NEW p \in Jobs, ContinuationNotReady(w, p)
       PROVE  LastInv'
  BY <1>13 DEF ContinuationNotReady
<1>14. ASSUME NEW w \in Workers, ScanDone(w)
       PROVE  LastInv'
  BY <1>14 DEF ScanDone
<1>15. ASSUME NEW w \in Workers, ForkLock(w)
       PROVE  LastInv'
  BY <1>15 DEF ForkLock
<1>16. ASSUME NEW w \in Workers, ForkRefused(w)
       PROVE  LastInv'
  BY <1>16 DEF ForkRefused
<1>17. ASSUME NEW w \in Workers, NEW s \in Jobs, ForkPost(w, s)
       PROVE  LastInv'
  BY <1>17 DEF ForkPost
<1>18. ASSUME NEW w \in Workers, ForkUnlock(w)
       PROVE  LastInv'
  BY <1>18 DEF ForkUnlock, Release
<1>19. ASSUME NEW w \in Workers, JobReturns(w)
       PROVE  LastInv'
  BY <1>19 DEF JobReturns, JobEnds
<1>20. ASSUME NEW w \in Workers, JobFails(w)
       PROVE  LastInv'
  BY <1>20 DEF JobFails, JobEnds
<1>21. ASSUME NEW w \in Workers, JobInterrupted(w)
       PROVE  LastInv'
  BY <1>21 DEF JobInterrupted, JobEnds
<1>22. ASSUME NEW w \in Workers, PrivateMiss(w)
       PROVE  LastInv'
  BY <1>22 DEF PrivateMiss
<1>23. ASSUME NEW w \in Workers, PrivateHit(w)
       PROVE  LastInv'
  BY <1>23, HeadTail DEF PrivateHit, DrainInv
<1>24. CASE UNCHANGED vars
  BY <1>24 DEF vars
<1>25. ASSUME NEW j \in Jobs, Interrupt(j)
       PROVE  LastInv'
  BY <1>25 DEF Interrupt
<1>26. ASSUME NEW w \in Workers, Start(w)
       PROVE  LastInv'
  BY <1>26 DEF Start
<1>27. ASSUME NEW w \in Workers, NEW s \in Jobs, ForkDrop(w, s)
       PROVE  LastInv'
  BY <1>27 DEF ForkDrop
<1>28. ASSUME NEW w \in Workers, JobSkipped(w)
       PROVE  LastInv'
  BY <1>28 DEF JobSkipped, JobEnds
<1> QED
  BY <1>1, <1>2, <1>3, <1>4, <1>5, <1>6, <1>7, <1>8, <1>9, <1>10, <1>11,
     <1>12, <1>13, <1>14, <1>15, <1>16, <1>17, <1>18, <1>19, <1>20, <1>21,
     <1>22, <1>23, <1>24, <1>25, <1>26, <1>27, <1>28
  DEF Next, Client, Shutdown, Worker, Terminated

\* Every step keeps DrainInv.
LEMMA DrainStep ==
  ASSUME TypeOK, WorkerInv, CloseInv, StopInv, DrainInv, [Next]_vars
  PROVE  DrainInv'
<1> USE DEF TypeOK, DrainInv, ownerVars, workerVars, Goto
<1>1. ASSUME NEW c \in Clients, NEW d \in Clients, ShareProxy(c, d)
      PROVE  DrainInv'
  BY <1>1 DEF ShareProxy
<1>2. ASSUME NEW c \in Clients, DropProxy(c)
      PROVE  DrainInv'
  BY <1>2 DEF DropProxy
<1>3. ASSUME NEW c \in Clients, ClientLock(c)
      PROVE  DrainInv'
  BY <1>3 DEF ClientLock
<1>4. ASSUME NEW c \in Clients, ClientUnlock(c)
      PROVE  DrainInv'
  BY <1>4 DEF ClientUnlock, Release
<1>5. ASSUME NEW c \in Clients, NEW j \in Jobs, ClientPost(c, j)
      PROVE  DrainInv'
  BY <1>5 DEF ClientPost, Owns, Alive, CloseInv, StopInv
<1>6. ASSUME NEW c \in Clients, NEW w \in Workers, PushPrivateTask(c, w)
      PROVE  DrainInv'
  BY <1>6 DEF PushPrivateTask
<1>7. CASE ResetScheduler
  BY <1>7 DEF ResetScheduler, Release
<1>8. CASE PushTermination
  BY <1>8 DEF PushTermination
<1>9. CASE Join
  BY <1>9 DEF Join
<1>10. ASSUME NEW w \in Workers, TryPopHit(w)
       PROVE  DrainInv'
  BY <1>10 DEF TryPopHit
<1>11. ASSUME NEW w \in Workers, TryPopMiss(w)
       PROVE  DrainInv'
  BY <1>11 DEF TryPopMiss
<1>12. ASSUME NEW w \in Workers, NEW p \in Jobs, ContinuationReady(w, p)
       PROVE  DrainInv'
  BY <1>12 DEF ContinuationReady
<1>13. ASSUME NEW w \in Workers, NEW p \in Jobs, ContinuationNotReady(w, p)
       PROVE  DrainInv'
  BY <1>13 DEF ContinuationNotReady
<1>14. ASSUME NEW w \in Workers, ScanDone(w)
       PROVE  DrainInv'
  BY <1>14 DEF ScanDone, AfterMiss
<1>15. ASSUME NEW w \in Workers, ForkLock(w)
       PROVE  DrainInv'
  BY <1>15 DEF ForkLock
<1>16. ASSUME NEW w \in Workers, ForkRefused(w)
       PROVE  DrainInv'
  BY <1>16 DEF ForkRefused
<1>17. ASSUME NEW w \in Workers, NEW s \in Jobs, ForkPost(w, s)
       PROVE  DrainInv'
  BY <1>17 DEF ForkPost, WorkerInv, Alive, StopInv
<1>18. ASSUME NEW w \in Workers, ForkUnlock(w)
       PROVE  DrainInv'
  BY <1>18 DEF ForkUnlock, Release
<1>19. ASSUME NEW w \in Workers, JobReturns(w)
       PROVE  DrainInv'
  BY <1>19 DEF JobReturns, JobEnds, AfterHit
<1>20. ASSUME NEW w \in Workers, JobFails(w)
       PROVE  DrainInv'
  BY <1>20 DEF JobFails, JobEnds, AfterHit
<1>21. ASSUME NEW w \in Workers, JobInterrupted(w)
       PROVE  DrainInv'
  BY <1>21 DEF JobInterrupted, JobEnds, AfterHit
<1>22. ASSUME NEW w \in Workers, PrivateMiss(w)
       PROVE  DrainInv'
  BY <1>22 DEF PrivateMiss
<1>23. ASSUME NEW w \in Workers, PrivateHit(w)
       PROVE  DrainInv'
  BY <1>23 DEF PrivateHit
<1>24. CASE UNCHANGED vars
  BY <1>24 DEF vars
<1>25. ASSUME NEW j \in Jobs, Interrupt(j)
       PROVE  DrainInv'
  BY <1>25 DEF Interrupt
<1>26. ASSUME NEW w \in Workers, Start(w)
       PROVE  DrainInv'
  BY <1>26 DEF Start
<1>27. ASSUME NEW w \in Workers, NEW s \in Jobs, ForkDrop(w, s)
       PROVE  DrainInv'
  BY <1>27 DEF ForkDrop
<1>28. ASSUME NEW w \in Workers, JobSkipped(w)
       PROVE  DrainInv'
  BY <1>28 DEF JobSkipped, JobEnds, AfterHit
<1> QED
  BY <1>1, <1>2, <1>3, <1>4, <1>5, <1>6, <1>7, <1>8, <1>9, <1>10, <1>11,
     <1>12, <1>13, <1>14, <1>15, <1>16, <1>17, <1>18, <1>19, <1>20, <1>21,
     <1>22, <1>23, <1>24, <1>25, <1>26, <1>27, <1>28
  DEF Next, Client, Shutdown, Worker, Terminated

ShutdownInv == StopInv /\ LastInv /\ DrainInv

\* The shutdown invariant holds in every execution.
THEOREM ShutdownCorrect == Spec => []ShutdownInv
<1>1. Init => ShutdownInv
  BY ConstantsAssumption
  DEF Init, ShutdownInv, StopInv, LastInv, DrainInv, HasTermination, Alive
<1>2. /\ TypeOK /\ ControlInv /\ ShutdownInv /\ [Next]_vars
      => ShutdownInv'
  BY StopStep, LastStep, DrainStep DEF ControlInv, ShutdownInv
<1> QED
  BY <1>1, <1>2, TypeCorrect, PTL DEF Spec

\* No worker is told to stop before the last owner of the scheduler is gone.
THEOREM TerminatesAfterLastReference == Spec => []TerminationAfterLastReference
<1>1. ShutdownInv => TerminationAfterLastReference
  BY DEF ShutdownInv, StopInv, DrainInv, HasTermination,
         TerminationAfterLastReference
<1> QED
  BY <1>1, ShutdownCorrect, PTL

\* A worker that has stopped leaves no job and no private task behind, and
\* nobody adds one after it has gone.
THEOREM LeavesNothingBehind == Spec => []NothingLeftBehind
<1>1. ShutdownInv => NothingLeftBehind
  BY DEF ShutdownInv, LastInv, DrainInv, NothingLeftBehind
<1> QED
  BY <1>1, ShutdownCorrect, PTL

-----------------------------------------------------------------------------
(* Where the jobs are                                                      *)

NoneTwice(q) == \A i, k \in DOMAIN q : i # k => q[i] # q[k]
Within(j, q) == \E i \in DOMAIN q : q[i] = j

\* Appending an element that a sequence does not have.
LEMMA AppendNew ==
  ASSUME NEW S, NEW q \in Seq(S), NEW x \in S, NoneTwice(q), ~Within(x, q)
  PROVE  /\ NoneTwice(Append(q, x))
         /\ \A j \in S : Within(j, Append(q, x)) <=> Within(j, q) \/ j = x
<1>1. /\ Append(q, x) \in Seq(S)
      /\ DOMAIN Append(q, x) = 1 .. Len(q) + 1
      /\ \A i \in 1 .. Len(q) : Append(q, x)[i] = q[i]
      /\ Append(q, x)[Len(q) + 1] = x
      /\ DOMAIN q = 1 .. Len(q)
      /\ Len(q) \in Nat
  OBVIOUS
<1> DEFINE r == Append(q, x)
<1> HIDE DEF r
<1>2. NoneTwice(r)
  BY <1>1 DEF NoneTwice, Within, r
<1>3. ASSUME NEW j \in S
      PROVE  Within(j, r) <=> Within(j, q) \/ j = x
  BY <1>1 DEF Within, r
<1> QED
  BY <1>2, <1>3 DEF r

\* Taking the first element of a sequence.
LEMMA TakeFirst ==
  ASSUME NEW S, NEW q \in Seq(S), q # <<>>, NoneTwice(q)
  PROVE  /\ Head(q) \in S /\ Tail(q) \in Seq(S)
         /\ Within(Head(q), q)
         /\ NoneTwice(Tail(q))
         /\ \A j \in S : Within(j, Tail(q)) <=> Within(j, q) /\ j # Head(q)
<1>1. /\ Tail(q) \in Seq(S) /\ Head(q) \in S /\ Head(q) = q[1]
      /\ Len(q) \in Nat /\ Len(q) > 0
      /\ DOMAIN q = 1 .. Len(q)
      /\ DOMAIN Tail(q) = 1 .. Len(q) - 1
      /\ \A i \in 1 .. Len(q) - 1 : Tail(q)[i] = q[i + 1]
  OBVIOUS
<1> DEFINE r == Tail(q)
<1> HIDE DEF r
<1>2. NoneTwice(r)
  BY <1>1 DEF NoneTwice, r
<1>3. Within(q[1], q)
  BY <1>1 DEF Within
<1>4. ASSUME NEW j \in S
      PROVE  Within(j, r) <=> Within(j, q) /\ j # q[1]
  <2>1. ASSUME Within(j, r)
        PROVE  Within(j, q) /\ j # q[1]
    <3>1. PICK i \in 1 .. Len(q) - 1 : r[i] = j
      BY <1>1, <2>1 DEF Within, r
    <3>2. q[i + 1] = j /\ i + 1 \in DOMAIN q /\ i + 1 # 1 /\ 1 \in DOMAIN q
      BY <1>1, <3>1 DEF r
    <3> QED
      BY <3>2 DEF Within, NoneTwice
  <2>2. ASSUME Within(j, q), j # q[1]
        PROVE  Within(j, r)
    <3>1. PICK i \in 1 .. Len(q) : q[i] = j
      BY <1>1, <2>2 DEF Within
    <3>2. i - 1 \in 1 .. Len(q) - 1 /\ r[i - 1] = q[i]
      BY <1>1, <2>2, <3>1 DEF r
    <3> QED
      BY <1>1, <3>1, <3>2 DEF Within, r
  <2> QED
    BY <2>1, <2>2
<1> QED
  BY <1>1, <1>2, <1>3, <1>4 DEF r

\* A worker has a job exactly while it executes one, and shows it.
HoldInv ==
  \A w \in Workers :
    /\ job[w] # None <=> pc[w] \in {"start", "job", "fork", "forked"}
    /\ job[w] # None => current[w] = job[w]

\* JobInOnePlace, with the sequences named.
PlaceInv ==
  /\ NoneTwice(queue)
  /\ \A j \in Jobs : status[j] = "queued" <=> Within(j, queue)
  /\ \A w \in Workers : job[w] # None => status[job[w]] = "running"
  /\ \A j \in Jobs : status[j] = "running" => \E w \in Workers : job[w] = j
  /\ \A v, w \in Workers : v # w /\ job[v] # None => job[v] # job[w]

Unposted(p, st) == \A s \in Subtasks[p] : st[s] = "new"

\* The subtasks of a job are posted by it and by nobody else.
ForkInv ==
  /\ \A p \in Jobs : status[p] \in {"new", "queued"} => Unposted(p, status)
  /\ \A w \in Workers :
       /\ pc[w] \in {"start", "job"} => Unposted(job[w], status)
       /\ pc[w] = "fork" =>
            /\ toPost[w] \subseteq Subtasks[job[w]]
            /\ \A s \in toPost[w] : status[s] = "new"
            /\ \A s \in Subtasks[job[w]] \ toPost[w] : status[s] \notin {"new", "refused"}

\* What may become of a job in one step.
Moves(j) ==
  \/ status'[j] = status[j]
  \/ status[j] = "new" /\ status'[j] \in {"queued", "refused", "dropped"}
  \/ status[j] = "queued" /\ status'[j] = "running"
  \/ status[j] = "running" /\ status'[j] \in Ended

JobVars == <<queue, status, pc, job, toPost, current>>
JobInv == HoldInv /\ PlaceInv /\ ForkInv

\* A subtask is a job, with one parent.
LEMMA SubtasksAreJobs ==
  /\ \A p \in Jobs : \A s \in Subtasks[p] : s \in Jobs
  /\ \A p, q \in Jobs : p # q => \A s \in Subtasks[p] : s \notin Subtasks[q]
BY ConstantsAssumption

\* A step that leaves the jobs where they are.
LEMMA SameJobs ==
  ASSUME JobInv, UNCHANGED JobVars
  PROVE  JobInv'
BY DEF JobInv, JobVars, HoldInv, PlaceInv, ForkInv, Unposted

\* A worker that executes no job goes where it executes none.
LEMMA MoveOutside ==
  ASSUME TypeOK, JobInv, NEW w \in Workers, NEW where \in PCs,
         pc[w] \notin {"start", "job", "fork", "forked"}, where \notin {"start", "job", "fork", "forked"},
         Goto(w, where), UNCHANGED <<queue, status, job, toPost, current>>
  PROVE  JobInv'
<1> USE DEF TypeOK, JobInv, Goto
<1>1. HoldInv'
  BY DEF HoldInv
<1>2. PlaceInv'
  BY DEF PlaceInv
<1>3. ForkInv'
  BY DEF ForkInv
<1> QED
  BY <1>1, <1>2, <1>3

\* Posting a job that nobody has posted: of a user, or of the one job that has
\* it as a subtask.
LEMMA PostKeepsPlaces ==
  ASSUME TypeOK, PlaceInv, NEW j \in Jobs, status[j] = "new",
         queue' = Append(queue, j),
         status' = [status EXCEPT ![j] = "queued"], job' = job
  PROVE  PlaceInv'
<1>1. ~Within(j, queue)
  BY DEF PlaceInv
<1>2. /\ NoneTwice(queue')
      /\ \A i \in Jobs : Within(i, queue') <=> Within(i, queue) \/ i = j
  BY <1>1, AppendNew DEF TypeOK, PlaceInv
<1>3. \A i \in Jobs : status'[i] = IF i = j THEN "queued" ELSE status[i]
  BY DEF TypeOK
<1>4. \A w \in Workers : job[w] # None => job[w] \in Jobs
  BY DEF TypeOK
<1> QED
  BY <1>2, <1>3, <1>4 DEF PlaceInv

\* A client's post gives a new job one place, in the queue.
LEMMA ClientPostKeepsJobInv ==
  ASSUME TypeOK, WorkerInv, JobInv, NEW c \in Clients, NEW j \in Jobs, ClientPost(c, j)
  PROVE  JobInv'
<1>1. /\ status[j] = "new" /\ queue' = Append(queue, j)
      /\ status' = [status EXCEPT ![j] = "queued"]
      /\ UNCHANGED <<pc, job, toPost, current>>
      /\ \A p \in Jobs : j \notin Subtasks[p]
  BY DEF ClientPost, workerVars, diagVars, Roots
<1>2. HoldInv'
  BY <1>1 DEF HoldInv, JobInv
<1>3. PlaceInv'
  BY <1>1, PostKeepsPlaces DEF JobInv
<1>4. \A p \in Jobs : \A s \in Subtasks[p] : s \in Jobs /\ status'[s] = status[s]
  BY <1>1, SubtasksAreJobs DEF TypeOK
<1>5. \A p \in Jobs : Unposted(p, status') <=> Unposted(p, status)
  BY <1>4 DEF Unposted
<1>6. \A p \in Jobs : status'[p] = IF p = j THEN "queued" ELSE status[p]
  BY <1>1 DEF TypeOK
<1>7. ForkInv'
  <2>1. \A p \in Jobs : status'[p] \in {"new", "queued"} => Unposted(p, status')
    <3>1. \A p \in Jobs : status'[p] \in {"new", "queued"} => status[p] \in {"new", "queued"}
      BY <1>1, <1>6
    <3> QED
      BY <1>5, <3>1 DEF ForkInv, JobInv
  <2>2. ASSUME NEW v \in Workers, pc[v] \in {"start", "job"}
        PROVE  Unposted(job[v], status')
    BY <1>5, <2>2 DEF ForkInv, JobInv, WorkerInv
  <2>3. ASSUME NEW v \in Workers, pc[v] = "fork"
        PROVE  /\ toPost[v] \subseteq Subtasks[job[v]]
               /\ \A s \in toPost[v] : status'[s] = "new"
               /\ \A s \in Subtasks[job[v]] \ toPost[v] : status'[s] \notin {"new", "refused"}
    BY <1>4, <2>3 DEF ForkInv, JobInv, WorkerInv
  <2> QED
    BY <1>1, <2>1, <2>2, <2>3 DEF ForkInv
<1> QED
  BY <1>2, <1>3, <1>7 DEF JobInv

\* A job that is popped leaves the queue for one worker.
LEMMA PopKeepsJobInv ==
  ASSUME TypeOK, WorkerInv, JobInv, NEW w \in Workers, TryPopHit(w)
  PROVE  JobInv'
<1> DEFINE j == Head(queue)
<1>1. /\ j \in Jobs
      /\ Within(j, queue) /\ NoneTwice(queue')
      /\ \A i \in Jobs : Within(i, queue') <=> Within(i, queue) /\ i # j
  BY TakeFirst DEF TryPopHit, TypeOK, JobInv, PlaceInv
<1>2. status[j] = "queued" /\ job[w] = None
  BY <1>1 DEF JobInv, PlaceInv, HoldInv, TryPopHit
<1>3. /\ \A i \in Jobs : status'[i] = IF i = j THEN "running" ELSE status[i]
      /\ \A v \in Workers : /\ job'[v] = IF v = w THEN j ELSE job[v]
                            /\ current'[v] = IF v = w THEN j ELSE current[v]
                            /\ v # w => pc'[v] = pc[v]
      /\ pc'[w] \in {"start", "job"}
      /\ toPost' = toPost
  BY DEF TryPopHit, TypeOK, Goto
<1>4. j # None
  BY <1>1, ConstantsAssumption
<1>5. \A v \in Workers : job[v] # None => job[v] \in Jobs /\ job[v] # j
  BY <1>1, <1>2 DEF TypeOK, JobInv, PlaceInv
<1> HIDE DEF j
<1>6. HoldInv'
  BY <1>3, <1>4 DEF HoldInv, JobInv
<1>7. PlaceInv'
  <2>1. \A i \in Jobs : status'[i] = "queued" <=> Within(i, queue')
    BY <1>1, <1>3 DEF PlaceInv, JobInv
  <2>2. \A v \in Workers : job'[v] # None => status'[job'[v]] = "running"
    BY <1>1, <1>3, <1>5 DEF PlaceInv, JobInv
  <2>3. ASSUME NEW i \in Jobs, status'[i] = "running"
        PROVE  \E v \in Workers : job'[v] = i
    <3>1. CASE i = j
      BY <1>3, <3>1
    <3>2. CASE i # j
      <4>1. PICK v \in Workers : job[v] = i
        BY <1>3, <2>3, <3>2 DEF PlaceInv, JobInv
      <4>2. v # w
        BY <1>2, <4>1, ConstantsAssumption
      <4> QED
        BY <1>3, <4>1, <4>2
    <3> QED
      BY <3>1, <3>2
  <2>4. \A v, u \in Workers : v # u /\ job'[v] # None => job'[v] # job'[u]
    BY <1>3, <1>5 DEF PlaceInv, JobInv
  <2> QED
    BY <1>1, <2>1, <2>2, <2>3, <2>4 DEF PlaceInv
<1>8. \A p \in Jobs : \A s \in Subtasks[p] :
        s \in Jobs /\ (status[s] = "new" => status'[s] = "new")
                   /\ (status[s] \notin {"new", "refused"} => status'[s] \notin {"new", "refused"})
  BY <1>2, <1>3, SubtasksAreJobs
<1>9. \A p \in Jobs : Unposted(p, status) => Unposted(p, status')
  BY <1>8 DEF Unposted
<1>10. Unposted(j, status)
  BY <1>1, <1>2 DEF ForkInv, JobInv
<1>11. ForkInv'
  <2>1. \A p \in Jobs : status'[p] \in {"new", "queued"} => Unposted(p, status')
    BY <1>3, <1>9 DEF ForkInv, JobInv
  <2>2. ASSUME NEW v \in Workers, v # w
        PROVE  /\ pc'[v] = pc[v] /\ job'[v] = job[v] /\ toPost'[v] = toPost[v]
               /\ pc[v] \in {"start", "job", "fork", "forked"} => job[v] \in Jobs
    BY <1>3, <2>2 DEF WorkerInv
  <2>3. ASSUME NEW v \in Workers, pc'[v] \in {"start", "job"}
        PROVE  Unposted(job'[v], status')
    BY <1>1, <1>3, <1>9, <1>10, <2>2, <2>3 DEF ForkInv, JobInv
  <2>4. ASSUME NEW v \in Workers, pc'[v] = "fork"
        PROVE  /\ toPost'[v] \subseteq Subtasks[job'[v]]
               /\ \A s \in toPost'[v] : status'[s] = "new"
               /\ \A s \in Subtasks[job'[v]] \ toPost'[v] : status'[s] \notin {"new", "refused"}
    BY <1>3, <1>8, <2>2, <2>4 DEF ForkInv, JobInv
  <2> QED
    BY <2>1, <2>3, <2>4 DEF ForkInv
<1> QED
  BY <1>6, <1>7, <1>11 DEF JobInv

\* The only worker that may post s executes the job that forks it.
LEMMA OneParent ==
  ASSUME WorkerInv, HoldInv, PlaceInv, NEW w \in Workers, pc[w] = "fork",
         NEW s \in Subtasks[job[w]]
  PROVE  /\ \A p \in Jobs : p # job[w] => s \notin Subtasks[p]
         /\ \A v \in Workers : v # w /\ pc[v] \in {"start", "job", "fork", "forked"} =>
              job[v] \in Jobs /\ job[v] # job[w] /\ s \notin Subtasks[job[v]]
<1>1. job[w] \in Jobs
  BY DEF WorkerInv
<1>2. \A p \in Jobs : p # job[w] => s \notin Subtasks[p]
  BY <1>1, SubtasksAreJobs
<1>3. ASSUME NEW v \in Workers, v # w, pc[v] \in {"start", "job", "fork", "forked"}
      PROVE  job[v] \in Jobs /\ job[v] # job[w]
  BY <1>3 DEF WorkerInv, HoldInv, PlaceInv
<1> QED
  BY <1>2, <1>3

\* A subtask that has not been posted yet is posted, or dropped as the last.
LEMMA OneSubtaskGiven ==
  ASSUME TypeOK, WorkerInv, JobInv, NEW w \in Workers, NEW s \in toPost[w],
         NEW st \in {"queued", "dropped"}, pc[w] = "fork",
         status' = [status EXCEPT ![s] = st],
         toPost' = [toPost EXCEPT ![w] = @ \ {s}],
         PlaceInv', UNCHANGED <<pc, job, current>>
  PROVE  JobInv'
<1>1. status[s] = "new" /\ s \in Subtasks[job[w]] /\ job[w] \in Jobs /\ s \in Jobs
  BY SubtasksAreJobs DEF JobInv, ForkInv, WorkerInv
<1>2. /\ \A i \in Jobs : status'[i] = IF i = s THEN st ELSE status[i]
      /\ \A v \in Workers : toPost'[v] = IF v = w THEN toPost[v] \ {s} ELSE toPost[v]
  BY DEF TypeOK
<1>3. HoldInv'
  BY DEF HoldInv, JobInv
<1>4. /\ \A p \in Jobs : p # job[w] => s \notin Subtasks[p]
      /\ \A v \in Workers : v # w /\ pc[v] \in {"start", "job", "fork", "forked"} =>
           job[v] \in Jobs /\ job[v] # job[w] /\ s \notin Subtasks[job[v]]
  BY <1>1, OneParent DEF JobInv
<1>5. \A p \in Jobs : p # job[w] => (Unposted(p, status) => Unposted(p, status'))
  BY <1>2, <1>4, SubtasksAreJobs DEF Unposted
<1>6. status[job[w]] = "running" /\ job[w] # s
  BY <1>1 DEF JobInv, HoldInv, PlaceInv
<1>7. ForkInv'
  <2>1. \A p \in Jobs : status'[p] \in {"new", "queued"} => Unposted(p, status')
    <3>1. \A p \in Jobs : status'[p] \in {"new", "queued"} =>
            status[p] \in {"new", "queued"} /\ p # job[w]
      BY <1>1, <1>2, <1>6
    <3> QED
      BY <1>5, <3>1 DEF JobInv, ForkInv
  <2>2. ASSUME NEW v \in Workers, pc[v] \in {"start", "job"}
        PROVE  Unposted(job[v], status')
    BY <1>4, <1>5, <2>2 DEF JobInv, ForkInv
  <2>3. ASSUME NEW v \in Workers, pc[v] = "fork"
        PROVE  /\ toPost'[v] \subseteq Subtasks[job[v]]
               /\ \A r \in toPost'[v] : status'[r] = "new"
               /\ \A r \in Subtasks[job[v]] \ toPost'[v] : status'[r] \notin {"new", "refused"}
    <3>1. job[v] \in Jobs /\ \A r \in Subtasks[job[v]] : r \in Jobs
      BY <2>3, SubtasksAreJobs DEF WorkerInv
    <3>2. CASE v = w
      <4>1. /\ toPost[w] \subseteq Subtasks[job[w]]
            /\ \A r \in toPost[w] : status[r] = "new"
            /\ \A r \in Subtasks[job[w]] \ toPost[w] : status[r] \notin {"new", "refused"}
        BY DEF JobInv, ForkInv
      <4>2. toPost'[w] = toPost[w] \ {s}
        BY <1>2
      <4> QED
        BY <1>2, <3>1, <3>2, <4>1, <4>2
    <3>3. CASE v # w
      BY <1>2, <1>4, <2>3, <3>1, <3>3 DEF JobInv, ForkInv
    <3> QED
      BY <3>2, <3>3
  <2> QED
    BY <2>1, <2>2, <2>3 DEF ForkInv
<1> QED
  BY <1>3, <1>7 DEF JobInv

\* A subtask that is posted was new, and is queued once.
LEMMA ForkPostKeepsJobInv ==
  ASSUME TypeOK, WorkerInv, JobInv, NEW w \in Workers, NEW s \in Jobs, ForkPost(w, s)
  PROVE  JobInv'
<1>1. /\ pc[w] = "fork" /\ s \in toPost[w]
      /\ queue' = Append(queue, s)
      /\ status' = [status EXCEPT ![s] = "queued"]
      /\ toPost' = [toPost EXCEPT ![w] = @ \ {s}]
      /\ UNCHANGED <<pc, job, current>>
  BY DEF ForkPost, diagVars
<1>2. status[s] = "new"
  BY <1>1 DEF JobInv, ForkInv
<1>3. PlaceInv'
  BY <1>1, <1>2, PostKeepsPlaces DEF JobInv
<1> QED
  BY <1>1, <1>3, OneSubtaskGiven

\* A subtask that an interruption spares is in no place.
LEMMA ForkDropKeepsJobInv ==
  ASSUME TypeOK, WorkerInv, JobInv, NEW w \in Workers, NEW s \in Jobs, ForkDrop(w, s)
  PROVE  JobInv'
<1>1. /\ pc[w] = "fork" /\ toPost[w] = {s} /\ s \in toPost[w]
      /\ status' = [status EXCEPT ![s] = "dropped"]
      /\ toPost' = [toPost EXCEPT ![w] = {}]
      /\ UNCHANGED <<queue, pc, job, current>>
  BY DEF ForkDrop, LastInterrupted, diagVars
<1>2. toPost' = [toPost EXCEPT ![w] = @ \ {s}]
  BY <1>1
<1>3. status[s] = "new"
  BY <1>1 DEF JobInv, ForkInv
<1>4. \A j \in Jobs : /\ status'[j] = "queued" <=> status[j] = "queued"
                      /\ status'[j] = "running" <=> status[j] = "running"
  BY <1>1, <1>3 DEF TypeOK
<1>5. PlaceInv'
  BY <1>1, <1>4 DEF JobInv, PlaceInv, TypeOK
<1> QED
  BY <1>1, <1>2, <1>5, OneSubtaskGiven

\* Start, ForkLock and ForkUnlock: the worker keeps its job and goes on with it.
LEMMA ForkMovesKeepJobInv ==
  ASSUME TypeOK, WorkerInv, JobInv, NEW w \in Workers,
         Start(w) \/ ForkLock(w) \/ ForkUnlock(w)
  PROVE  JobInv'
<1>1. UNCHANGED <<queue, status, job, current>>
  BY DEF Start, ForkLock, ForkUnlock, diagVars
<1>2. PlaceInv'
  BY <1>1 DEF JobInv, PlaceInv
<1>3. \A v \in Workers \ {w} : pc'[v] = pc[v] /\ toPost'[v] = toPost[v]
  BY DEF Start, ForkLock, ForkUnlock, TypeOK, Goto
<1>4. CASE ForkLock(w)
  <2>1. pc[w] = "job" /\ pc'[w] = "fork" /\ toPost'[w] = Subtasks[job[w]]
    BY <1>4 DEF ForkLock, TypeOK, Goto
  <2>2. HoldInv'
    BY <1>1, <1>3, <2>1 DEF JobInv, HoldInv
  <2>3. \A s \in toPost'[w] : status[s] = "new"
    BY <2>1 DEF JobInv, ForkInv, Unposted
  <2>4. ForkInv'
    BY <1>1, <1>3, <2>1, <2>3 DEF JobInv, ForkInv
  <2> QED
    BY <1>2, <2>2, <2>4 DEF JobInv
<1>5. CASE ForkUnlock(w)
  <2>1. pc[w] = "fork" /\ pc'[w] = "forked" /\ toPost' = toPost /\ toPost[w] = {}
    BY <1>5 DEF ForkUnlock, TypeOK, Goto
  <2>2. HoldInv'
    BY <1>1, <1>3, <2>1 DEF JobInv, HoldInv
  <2>3. ForkInv'
    BY <1>1, <1>3, <2>1 DEF JobInv, ForkInv
  <2> QED
    BY <1>2, <2>2, <2>3 DEF JobInv
<1>6. CASE Start(w)
  <2>1. pc[w] = "start" /\ pc'[w] = "job" /\ toPost' = toPost
    BY <1>6 DEF Start, TypeOK, Goto
  <2>2. HoldInv'
    BY <1>1, <1>3, <2>1 DEF JobInv, HoldInv
  <2>3. ForkInv'
    BY <1>1, <1>3, <2>1 DEF JobInv, ForkInv
  <2> QED
    BY <1>2, <2>2, <2>3 DEF JobInv
<1> QED
  BY <1>4, <1>5, <1>6

\* The scheduler is gone: the subtasks, which nobody has posted, are refused.
LEMMA RefusedKeepsJobInv ==
  ASSUME TypeOK, WorkerInv, JobInv, NEW w \in Workers, ForkRefused(w)
  PROVE  JobInv'
<1> DEFINE S == Subtasks[job[w]]
<1>1. /\ pc[w] = "job" /\ job[w] \in Jobs
      /\ UNCHANGED <<queue, job, toPost, current>>
      /\ \A v \in Workers : pc'[v] = IF v = w THEN "forked" ELSE pc[v]
  BY DEF ForkRefused, WorkerInv, TypeOK, Goto, diagVars
<1>2. \A j \in Jobs : status'[j] = IF j \in S THEN "refused" ELSE status[j]
  BY DEF ForkRefused
<1>3. /\ \A s \in S : s \in Jobs /\ status[s] = "new"
      /\ \A p \in Jobs : p # job[w] => \A s \in Subtasks[p] : s \in Jobs /\ s \notin S
  BY <1>1, SubtasksAreJobs DEF JobInv, ForkInv, Unposted
<1>4. \A v \in Workers : v # w /\ pc[v] \in {"start", "job", "fork", "forked"} =>
        job[v] \in Jobs /\ job[v] # job[w]
  BY <1>1 DEF JobInv, HoldInv, PlaceInv, WorkerInv
<1> HIDE DEF S
<1>5. HoldInv'
  BY <1>1 DEF JobInv, HoldInv
<1>6. PlaceInv'
  <2>1. /\ \A j \in Jobs : status'[j] = "queued" <=> status[j] = "queued"
        /\ \A j \in Jobs : status'[j] = "running" <=> status[j] = "running"
    BY <1>2, <1>3
  <2> QED
    BY <1>1, <2>1 DEF JobInv, PlaceInv, TypeOK
<1>7. \A p \in Jobs : p # job[w] => (Unposted(p, status) => Unposted(p, status'))
  BY <1>2, <1>3 DEF Unposted
<1>8. status[job[w]] = "running" /\ status'[job[w]] = "running"
  BY <1>1, <1>2, <1>3 DEF JobInv, HoldInv, PlaceInv
<1>9. ForkInv'
  <2>1. \A p \in Jobs : status'[p] \in {"new", "queued"} => Unposted(p, status')
    <3>1. \A p \in Jobs : status'[p] \in {"new", "queued"} =>
            status[p] \in {"new", "queued"} /\ p # job[w]
      BY <1>2, <1>8
    <3> QED
      BY <1>7, <3>1 DEF JobInv, ForkInv
  <2>2. ASSUME NEW v \in Workers, pc'[v] \in {"start", "job"}
        PROVE  Unposted(job[v], status')
    BY <1>1, <1>4, <1>7, <2>2 DEF JobInv, ForkInv
  <2>3. ASSUME NEW v \in Workers, pc'[v] = "fork"
        PROVE  /\ toPost[v] \subseteq Subtasks[job[v]]
               /\ \A r \in toPost[v] : status'[r] = "new"
               /\ \A r \in Subtasks[job[v]] \ toPost[v] : status'[r] \notin {"new", "refused"}
    <3>1. v # w /\ pc[v] = "fork"
      BY <1>1, <2>3
    <3>2. \A r \in Subtasks[job[v]] : status'[r] = status[r]
      BY <1>2, <1>3, <1>4, <3>1
    <3> QED
      BY <3>1, <3>2 DEF JobInv, ForkInv
  <2> QED
    BY <1>1, <2>1, <2>2, <2>3 DEF ForkInv
<1> QED
  BY <1>5, <1>6, <1>9 DEF JobInv

\* A job ends, or returns before it has started.
LEMMA EndKeepsJobInv ==
  ASSUME TypeOK, WorkerInv, JobInv, NEW w \in Workers, NEW how \in Ended,
         pc[w] \in {"start", "job", "forked"}, JobEnds(w, how),
         \A v \in Workers \ {w} : current'[v] = current[v]
  PROVE  JobInv'
<1>1. /\ job[w] \in Jobs /\ job[w] # None /\ status[job[w]] = "running"
      /\ UNCHANGED <<queue, toPost>>
      /\ \A j \in Jobs : status'[j] = IF j = job[w] THEN how ELSE status[j]
      /\ \A v \in Workers : job'[v] = IF v = w THEN None ELSE job[v]
      /\ \A v \in Workers \ {w} : pc'[v] = pc[v]
      /\ pc'[w] \in {"try_pop", "private"}
  BY DEF JobEnds, WorkerInv, JobInv, HoldInv, PlaceInv, TypeOK, Goto, AfterHit
<1>2. \A v \in Workers : v # w /\ pc[v] \in {"start", "job", "fork", "forked"} =>
        job[v] \in Jobs /\ job[v] # job[w]
  BY <1>1 DEF JobInv, HoldInv, PlaceInv, WorkerInv
<1>3. how \notin {"new", "queued", "running", "refused"}
  BY DEF Ended
<1>4. HoldInv'
  BY <1>1 DEF JobInv, HoldInv
<1>5. PlaceInv'
  <2>1. \A j \in Jobs : status'[j] = "queued" <=> status[j] = "queued"
    BY <1>1, <1>3
  <2>2. \A v \in Workers : job'[v] # None => status'[job'[v]] = "running"
    BY <1>1 DEF TypeOK, JobInv, PlaceInv
  <2>3. \A j \in Jobs : status'[j] = "running" => \E v \in Workers : job'[v] = j
    BY <1>1, <1>3 DEF JobInv, PlaceInv
  <2>4. \A u, v \in Workers : u # v /\ job'[u] # None => job'[u] # job'[v]
    BY <1>1 DEF JobInv, PlaceInv
  <2> QED
    BY <1>1, <2>1, <2>2, <2>3, <2>4 DEF JobInv, PlaceInv
<1>6. \A p \in Jobs : \A s \in Subtasks[p] :
        /\ status[s] = "new" => status'[s] = "new"
        /\ status[s] \notin {"new", "refused"} => status'[s] \notin {"new", "refused"}
  BY <1>1, <1>3, SubtasksAreJobs
<1>7. \A p \in Jobs : Unposted(p, status) => Unposted(p, status')
  BY <1>6 DEF Unposted
<1>8. ForkInv'
  <2>1. \A p \in Jobs : status'[p] \in {"new", "queued"} => Unposted(p, status')
    <3>1. \A p \in Jobs : status'[p] \in {"new", "queued"} => status[p] \in {"new", "queued"}
      BY <1>1, <1>3
    <3> QED
      BY <1>7, <3>1 DEF JobInv, ForkInv
  <2>2. ASSUME NEW v \in Workers, v # w, pc'[v] \in {"start", "job"}
        PROVE  Unposted(job'[v], status')
    BY <1>1, <1>2, <1>7, <2>2 DEF JobInv, ForkInv
  <2>3. ASSUME NEW v \in Workers, v # w, pc'[v] = "fork"
        PROVE  /\ toPost'[v] \subseteq Subtasks[job'[v]]
               /\ \A r \in toPost'[v] : status'[r] = "new"
               /\ \A r \in Subtasks[job'[v]] \ toPost'[v] : status'[r] \notin {"new", "refused"}
    BY <1>1, <1>2, <1>6, <2>3 DEF JobInv, ForkInv
  <2> QED
    BY <1>1, <2>1, <2>2, <2>3 DEF ForkInv
<1> QED
  BY <1>4, <1>5, <1>8 DEF JobInv

\* Every step keeps the jobs in their places.
LEMMA JobStep ==
  ASSUME TypeOK, WorkerInv, JobInv, [Next]_vars
  PROVE  JobInv'
<1>1. CASE UNCHANGED JobVars
  BY <1>1, SameJobs
<1>2. ASSUME NEW c \in Clients, NEW j \in Jobs, ClientPost(c, j)
      PROVE  JobInv'
  BY <1>2, ClientPostKeepsJobInv
<1>3. ASSUME NEW w \in Workers, TryPopHit(w)
      PROVE  JobInv'
  BY <1>3, PopKeepsJobInv
<1>4. ASSUME NEW w \in Workers, TryPopMiss(w)
      PROVE  JobInv'
  BY <1>4, MoveOutside DEF TryPopMiss, PCs, diagVars
<1>5. ASSUME NEW w \in Workers, ScanDone(w)
      PROVE  JobInv'
  <2>1. AfterMiss(w) \in PCs /\ AfterMiss(w) \notin {"start", "job", "fork", "forked"}
    BY DEF AfterMiss, PCs
  <2> QED
    BY <1>5, <2>1, MoveOutside DEF ScanDone, diagVars
<1>6. ASSUME NEW w \in Workers, Start(w) \/ ForkLock(w) \/ ForkUnlock(w)
      PROVE  JobInv'
  BY <1>6, ForkMovesKeepJobInv
<1>7. ASSUME NEW w \in Workers, ForkRefused(w)
      PROVE  JobInv'
  BY <1>7, RefusedKeepsJobInv
<1>8. ASSUME NEW w \in Workers, NEW s \in Jobs, ForkPost(w, s) \/ ForkDrop(w, s)
      PROVE  JobInv'
  BY <1>8, ForkPostKeepsJobInv, ForkDropKeepsJobInv
<1>9. ASSUME NEW w \in Workers, JobReturns(w) \/ JobFails(w) \/ JobSkipped(w)
      PROVE  JobInv'
  <2>1. \E how \in Ended : JobEnds(w, how)
    BY <1>9 DEF JobReturns, JobFails, JobSkipped, Ended
  <2>2. pc[w] \in {"start", "job", "forked"}
    BY <1>9 DEF JobReturns, JobFails, JobSkipped
  <2>3. \A v \in Workers \ {w} : current'[v] = current[v]
    BY <1>9 DEF JobReturns, JobFails, JobSkipped, Log, TypeOK
  <2> QED
    BY <2>1, <2>2, <2>3, EndKeepsJobInv
<1>10. ASSUME NEW w \in Workers, JobInterrupted(w)
       PROVE  JobInv'
  <2>1. pc[w] \in {"job", "forked"} /\ JobEnds(w, "interrupted") /\ "interrupted" \in Ended
    BY <1>10 DEF JobInterrupted, Ended
  <2>2. \A v \in Workers \ {w} : current'[v] = current[v]
    BY <1>10 DEF JobInterrupted, diagVars
  <2> QED
    BY <2>1, <2>2, EndKeepsJobInv
<1>11. ASSUME NEW w \in Workers, PrivateMiss(w) \/ PrivateHit(w)
       PROVE  JobInv'
  BY <1>11, MoveOutside DEF PrivateMiss, PrivateHit, PCs, diagVars
<1> QED
  BY <1>1, <1>2, <1>3, <1>4, <1>5, <1>6, <1>7, <1>8, <1>9, <1>10, <1>11
  DEF Next, Client, Shutdown, Worker, Terminated, vars, workerVars, diagVars, JobVars,
      ShareProxy, DropProxy, ClientLock, ClientUnlock, PushPrivateTask, ResetScheduler,
      PushTermination, Join, Interrupt, ContinuationReady, ContinuationNotReady

\* A job only goes forward, and whoever ends it has executed it.
LEMMA MovesStep ==
  ASSUME TypeOK, WorkerInv, JobInv, [Next]_vars, NEW j \in Jobs
  PROVE  Moves(j)
<1> USE DEF Moves, TypeOK
<1>1. CASE UNCHANGED status
  BY <1>1
<1>2. ASSUME NEW c \in Clients, NEW i \in Jobs, ClientPost(c, i)
      PROVE  Moves(j)
  BY <1>2 DEF ClientPost
<1>3. ASSUME NEW w \in Workers, TryPopHit(w)
      PROVE  Moves(j)
  <2>1. Head(queue) \in Jobs /\ status[Head(queue)] = "queued"
    BY <1>3, TakeFirst DEF TryPopHit, JobInv, PlaceInv
  <2> QED
    BY <1>3, <2>1 DEF TryPopHit
<1>4. ASSUME NEW w \in Workers, ForkRefused(w)
      PROVE  Moves(j)
  BY <1>4 DEF ForkRefused, JobInv, ForkInv, Unposted
<1>5. ASSUME NEW w \in Workers, NEW s \in Jobs, ForkPost(w, s) \/ ForkDrop(w, s)
      PROVE  Moves(j)
  BY <1>5 DEF ForkPost, ForkDrop, JobInv, ForkInv
<1>6. ASSUME NEW w \in Workers, NEW how \in Ended, JobEnds(w, how),
             pc[w] \in {"start", "job", "forked"}
      PROVE  Moves(j)
  <2>1. job[w] \in Jobs /\ status[job[w]] = "running"
    BY <1>6 DEF WorkerInv, JobInv, HoldInv, PlaceInv
  <2> QED
    BY <1>6, <2>1 DEF JobEnds
<1>7. ASSUME NEW w \in Workers, JobReturns(w) \/ JobFails(w) \/ JobSkipped(w) \/ JobInterrupted(w)
      PROVE  Moves(j)
  <2>1. \E how \in Ended : JobEnds(w, how)
    BY <1>7 DEF JobReturns, JobFails, JobSkipped, JobInterrupted, Ended
  <2>2. pc[w] \in {"start", "job", "forked"}
    BY <1>7 DEF JobReturns, JobFails, JobSkipped, JobInterrupted
  <2> QED
    BY <1>6, <2>1, <2>2
<1> QED
  BY <1>1, <1>2, <1>3, <1>4, <1>5, <1>7
  DEF Next, Client, Shutdown, Worker, Terminated, vars,
      ShareProxy, DropProxy, ClientLock, ClientUnlock, PushPrivateTask, ResetScheduler,
      PushTermination, Join, Interrupt, TryPopMiss, ContinuationReady,
      ContinuationNotReady, ScanDone, Start, ForkLock, ForkUnlock, PrivateMiss, PrivateHit

\* A job that is not executed any more has ended, one that has ended stays so.
LEMMA OutcomeIsFinal ==
  ASSUME TypeOK, WorkerInv, JobInv, [Next]_vars, NEW j \in Jobs,
         status[j] \in Ended \cup {"refused", "dropped"}
  PROVE  status'[j] = status[j]
BY MovesStep DEF Moves, Ended

\* The diagnostics table follows the jobs in every step.
LEMMA LogStep ==
  ASSUME TypeOK, WorkerInv, JobInv, DiagnosticsAgree, [Next]_vars
  PROVE  DiagnosticsAgree'
<1>1. JobInv' /\ \A j \in Jobs : Moves(j)
  BY JobStep, MovesStep
<1>2. \A w \in Workers : current[w] # None => current[w] \in Jobs
  BY DEF TypeOK
<1>3. CASE UNCHANGED <<job, current, logged>>
  <2>1. \A j \in Jobs : status[j] = "running" => status'[j] = "running"
    BY <1>1, <1>3, ConstantsAssumption DEF JobInv, PlaceInv
  <2>2. \A j \in Jobs : status'[j] \in {"ok", "failed", "skipped"} <=>
                       status[j] \in {"ok", "failed", "skipped"}
    BY <1>1, <2>1 DEF Moves, Ended
  <2>3. \A j \in Jobs : status[j] = "interrupted" => status'[j] = "interrupted"
    BY <1>1 DEF Moves
  <2> QED
    BY <1>2, <1>3, <2>2, <2>3 DEF DiagnosticsAgree
<1>4. ASSUME NEW w \in Workers, TryPopHit(w)
      PROVE  DiagnosticsAgree'
  <2>1. Head(queue) \in Jobs /\ status[Head(queue)] = "queued"
    BY <1>4, TakeFirst DEF TryPopHit, TypeOK, JobInv, PlaceInv
  <2>2. /\ \A j \in Jobs : status'[j] = IF j = Head(queue) THEN "running" ELSE status[j]
        /\ \A v \in Workers : /\ job'[v] = IF v = w THEN Head(queue) ELSE job[v]
                              /\ current'[v] = IF v = w THEN Head(queue) ELSE current[v]
        /\ logged' = logged
    BY <1>4 DEF TryPopHit, TypeOK
  <2> QED
    BY <1>2, <2>1, <2>2, ConstantsAssumption DEF DiagnosticsAgree
<1>5. ASSUME NEW w \in Workers, NEW how \in Ended, pc[w] \in {"start", "job", "forked"},
             JobEnds(w, how), IF how = "interrupted" THEN UNCHANGED diagVars ELSE Log(w)
      PROVE  DiagnosticsAgree'
  <2>1. job[w] \in Jobs /\ status[job[w]] = "running" /\ current[w] = job[w]
    BY <1>5 DEF WorkerInv, JobInv, HoldInv, PlaceInv
  <2>2. /\ \A j \in Jobs : status'[j] = IF j = job[w] THEN how ELSE status[j]
        /\ \A v \in Workers : job'[v] = IF v = w THEN None ELSE job[v]
    BY <1>5, <2>1 DEF JobEnds, TypeOK
  <2>3. CASE how = "interrupted"
    <3>1. current' = current /\ logged' = logged
      BY <1>5, <2>3 DEF diagVars
    <3> QED
      BY <1>2, <2>1, <2>2, <2>3, <3>1 DEF DiagnosticsAgree
  <2>4. CASE how # "interrupted"
    <3>1. /\ \A v \in Workers : current'[v] = IF v = w THEN None ELSE current[v]
          /\ logged' = logged \cup {job[w]}
      BY <1>5, <2>4 DEF Log, TypeOK
    <3>2. how \in {"ok", "failed", "skipped"}
      BY <2>4 DEF Ended
    <3> QED
      BY <1>2, <2>1, <2>2, <3>1, <3>2 DEF DiagnosticsAgree
  <2> QED
    BY <2>3, <2>4
<1>6. ASSUME NEW w \in Workers, JobReturns(w) \/ JobFails(w) \/ JobSkipped(w) \/ JobInterrupted(w)
      PROVE  DiagnosticsAgree'
  BY <1>5, <1>6 DEF JobReturns, JobFails, JobSkipped, JobInterrupted, Ended
<1> QED
  BY <1>3, <1>4, <1>6
  DEF Next, Client, Shutdown, Worker, Terminated, vars, workerVars, diagVars,
      ShareProxy, DropProxy, ClientLock, ClientUnlock, ClientPost, PushPrivateTask,
      ResetScheduler, PushTermination, Join, Interrupt, TryPopMiss, ContinuationReady,
      ContinuationNotReady, ScanDone, Start, ForkLock, ForkUnlock, ForkRefused, ForkPost,
      ForkDrop, PrivateMiss, PrivateHit

\* The jobs are in their places in every execution.
THEOREM JobsCorrect == Spec => [](JobInv /\ DiagnosticsAgree)
<1>1. Init => JobInv /\ DiagnosticsAgree
  <2> SUFFICES ASSUME Init
               PROVE  JobInv /\ DiagnosticsAgree
    OBVIOUS
  <2>1. HoldInv /\ DiagnosticsAgree
    BY DEF Init, HoldInv, DiagnosticsAgree
  <2>2. PlaceInv
    BY DEF Init, PlaceInv, NoneTwice, Within
  <2>3. ForkInv
    BY SubtasksAreJobs DEF Init, ForkInv, Unposted
  <2> QED
    BY <2>1, <2>2, <2>3 DEF JobInv
<1>2. TypeOK /\ ControlInv /\ JobInv /\ DiagnosticsAgree /\ [Next]_vars
      => JobInv' /\ DiagnosticsAgree'
  BY JobStep, LogStep DEF ControlInv
<1> QED
  BY <1>1, <1>2, TypeCorrect, PTL DEF Spec

\* A job is queued once, or executed by one worker, or in neither case, and
\* the diagnostics table shows what became of it.
THEOREM AllJobsAccountedFor == Spec => []JobsAccountedFor
<1>1. TypeOK /\ JobInv /\ DiagnosticsAgree => JobsAccountedFor
  <2> SUFFICES ASSUME TypeOK, JobInv, DiagnosticsAgree
               PROVE  JobInOnePlace
    BY DEF JobsAccountedFor
  <2>1. \A j \in Jobs : status[j] = "running" <=> \E w \in Workers : job[w] = j
    BY ConstantsAssumption DEF JobInv, PlaceInv
  <2> QED
    BY <2>1 DEF JobInv, PlaceInv, NoneTwice, Within, JobInOnePlace
<1> QED
  BY <1>1, TypeCorrect, JobsCorrect, PTL
-----------------------------------------------------------------------------
(* The continuations                                                       *)

\* The body of p is over, or about to return.
BodyOver(p) == \/ status[p] \in Ended
               \/ \E w \in Workers : job[w] = p /\ pc[w] = "forked"

\* A continuation that is kept or has been called is that of a job whose body
\* is over; a pass examines what its worker keeps.
KeepInv ==
  /\ \A w \in Workers : scan[w] \subseteq waiting[w]
  /\ \A p \in Jobs : Registered(p) => BodyOver(p)
  /\ ContinuationOnce

\* What the thread of a worker owns changes in its own steps only.
LEMMA OthersStay ==
  ASSUME TypeOK, [Next]_vars, NEW w \in Workers, ~Worker(w)
  PROVE  /\ pc'[w] = pc[w] /\ job'[w] = job[w]
         /\ toPost'[w] = toPost[w] /\ waiting'[w] = waiting[w]
<1>1. ASSUME NEW v \in Workers, v # w, Worker(v)
      PROVE  /\ pc'[w] = pc[w] /\ job'[w] = job[w]
         /\ toPost'[w] = toPost[w] /\ waiting'[w] = waiting[w]
  BY <1>1
  DEF Worker, TypeOK, Goto, TryPopHit, TryPopMiss, ContinuationReady,
      ContinuationNotReady, ScanDone, Start, ForkLock, ForkRefused, ForkPost, ForkDrop,
      ForkUnlock, JobSkipped, JobReturns, JobFails, JobInterrupted, JobEnds, PrivateMiss,
      PrivateHit
<1> QED
  BY <1>1
  DEF Next, Client, Shutdown, Terminated, vars, workerVars, ShareProxy, DropProxy,
      ClientLock, ClientUnlock, ClientPost, PushPrivateTask, ResetScheduler,
      PushTermination, Join, Interrupt

\* The body of a job does not begin again.
LEMMA BodyStaysOver ==
  ASSUME TypeOK, WorkerInv, JobInv, [Next]_vars, NEW p \in Jobs, BodyOver(p)
  PROVE  BodyOver(p)'
<1>1. CASE status[p] \in Ended
  BY <1>1, OutcomeIsFinal DEF BodyOver
<1>2. ASSUME NEW w \in Workers, job[w] = p, pc[w] = "forked"
      PROVE  BodyOver(p)'
  <2>1. ASSUME NEW how \in Ended, JobEnds(w, how)
        PROVE  BodyOver(p)'
    BY <1>2, <2>1 DEF JobEnds, TypeOK, BodyOver
  <2>2. CASE JobReturns(w) \/ JobFails(w) \/ JobInterrupted(w)
    BY <2>1, <2>2 DEF JobReturns, JobFails, JobInterrupted, Ended
  <2>3. CASE ~(JobReturns(w) \/ JobFails(w) \/ JobInterrupted(w))
    <3>1. ~Worker(w)
      BY <1>2, <2>3
      DEF Worker, TryPopHit, TryPopMiss, ContinuationReady, ContinuationNotReady, ScanDone,
          Start, ForkLock, ForkRefused, ForkPost, ForkDrop, ForkUnlock, JobSkipped,
          PrivateMiss, PrivateHit
    <3> QED
      BY <1>2, <3>1, OthersStay DEF BodyOver
  <2> QED
    BY <2>2, <2>3
<1> QED
  BY <1>1, <1>2 DEF BodyOver

\* A job in the middle of its body has registered no continuation yet.
LEMMA NotYetRegistered ==
  ASSUME WorkerInv, JobInv, KeepInv, NEW w \in Workers, pc[w] \in {"job", "fork"}
  PROVE  job[w] \in Jobs /\ ~Registered(job[w])
<1>1. job[w] \in Jobs /\ status[job[w]] = "running"
  BY DEF WorkerInv, JobInv, HoldInv, PlaceInv
<1>2. ~BodyOver(job[w])
  BY <1>1 DEF BodyOver, Ended, JobInv, HoldInv, PlaceInv
<1> QED
  BY <1>1, <1>2 DEF KeepInv

\* Registering the continuation of the job that a worker executes.
LEMMA RegisterKeeps ==
  ASSUME TypeOK, WorkerInv, JobInv, KeepInv, NEW w \in Workers,
         pc[w] \in {"job", "fork"}, Goto(w, "forked"), job' = job,
         waiting' = [waiting EXCEPT ![w] = @ \cup {job[w]}],
         scan' = scan, continued' = continued,
         \A p \in Jobs : BodyOver(p) => BodyOver(p)'
  PROVE  KeepInv'
<1>1. job[w] \in Jobs /\ ~Registered(job[w])
  BY NotYetRegistered
<1>2. \A v \in Workers : waiting'[v] = IF v = w THEN waiting[w] \cup {job[w]} ELSE waiting[v]
  BY DEF TypeOK
<1>3. job'[w] = job[w] /\ pc'[w] = "forked"
  BY DEF Goto, TypeOK
<1>4. \A p \in Jobs : Registered(p)' => BodyOver(p)'
  <2>1. BodyOver(job[w])'
    BY <1>3 DEF BodyOver
  <2>2. \A p \in Jobs : Registered(p)' => Registered(p) \/ p = job[w]
    BY <1>2 DEF Registered
  <2> QED
    BY <2>1, <2>2 DEF KeepInv
<1>5. \A v \in Workers : scan'[v] \subseteq waiting'[v]
  BY <1>2 DEF KeepInv
<1>6. ContinuationOnce'
  BY <1>1, <1>2 DEF KeepInv, Registered, ContinuationOnce
<1> QED
  BY <1>4, <1>5, <1>6 DEF KeepInv

\* Every step keeps what is known of the continuations of forked jobs.
LEMMA KeepStep ==
  ASSUME TypeOK, WorkerInv, JobInv, KeepInv, [Next]_vars
  PROVE  KeepInv'
<1>1. \A p \in Jobs : BodyOver(p) => BodyOver(p)'
  BY BodyStaysOver
<1>2. CASE UNCHANGED <<waiting, scan, continued>>
  <2>1. \A p \in Jobs : Registered(p)' => Registered(p)
    BY <1>2 DEF Registered
  <2> QED
    BY <1>1, <1>2, <2>1 DEF KeepInv, ContinuationOnce
<1>3. ASSUME NEW w \in Workers, TryPopMiss(w)
      PROVE  KeepInv'
  <2>1. /\ waiting' = waiting /\ continued' = continued
        /\ \A v \in Workers : scan'[v] = IF v = w THEN waiting[w] ELSE scan[v]
    BY <1>3 DEF TryPopMiss, TypeOK
  <2>2. \A p \in Jobs : Registered(p)' => Registered(p)
    BY <2>1 DEF Registered
  <2> QED
    BY <1>1, <2>1, <2>2 DEF KeepInv, ContinuationOnce
<1>4. ASSUME NEW w \in Workers, NEW p \in Jobs, ContinuationReady(w, p)
      PROVE  KeepInv'
  <2>1. /\ p \in scan[w] /\ p \in waiting[w]
        /\ \A v \in Workers : waiting'[v] = IF v = w THEN waiting[w] \ {p} ELSE waiting[v]
        /\ \A v \in Workers : v # w => scan'[v] = scan[v]
        /\ scan'[w] \subseteq scan[w] \ {p}
        /\ continued' = continued \cup {p}
    BY <1>4 DEF ContinuationReady, TypeOK, KeepInv
  <2>2. \A i \in Jobs : Registered(i)' => Registered(i)
    BY <2>1 DEF Registered
  <2>3. ContinuationOnce'
    BY <2>1 DEF KeepInv, ContinuationOnce
  <2>4. \A v \in Workers : scan'[v] \subseteq waiting'[v]
    BY <2>1 DEF KeepInv
  <2> QED
    BY <1>1, <2>2, <2>3, <2>4 DEF KeepInv
<1>5. ASSUME NEW w \in Workers, NEW p \in Jobs, ContinuationNotReady(w, p)
      PROVE  KeepInv'
  <2>1. /\ waiting' = waiting /\ continued' = continued
        /\ \A v \in Workers : scan'[v] \subseteq scan[v]
    BY <1>5 DEF ContinuationNotReady, TypeOK
  <2>2. \A i \in Jobs : Registered(i)' => Registered(i)
    BY <2>1 DEF Registered
  <2> QED
    BY <1>1, <2>1, <2>2 DEF KeepInv, ContinuationOnce
<1>6. ASSUME NEW w \in Workers, ForkRefused(w) \/ ForkUnlock(w)
      PROVE  KeepInv'
  BY <1>1, <1>6, RegisterKeeps DEF ForkRefused, ForkUnlock
<1> QED
  BY <1>2, <1>3, <1>4, <1>5, <1>6
  DEF Next, Client, Shutdown, Worker, Terminated, vars, workerVars,
      ShareProxy, DropProxy, ClientLock, ClientUnlock, ClientPost, PushPrivateTask,
      ResetScheduler, PushTermination, Join, Interrupt, TryPopHit, ScanDone, Start,
      ForkLock, ForkPost, ForkDrop, JobSkipped, JobReturns, JobFails, JobInterrupted,
      JobEnds, PrivateMiss, PrivateHit

\* A continuation that is registered is kept or has been called.
LEMMA RegisteredStays ==
  ASSUME TypeOK, [Next]_vars, NEW p \in Jobs, Registered(p)
  PROVE  Registered(p)'
<1>1. CASE UNCHANGED <<waiting, continued>>
  BY <1>1 DEF Registered
<1>2. ASSUME NEW w \in Workers, NEW q \in Jobs, ContinuationReady(w, q)
      PROVE  Registered(p)'
  BY <1>2 DEF ContinuationReady, TypeOK, Registered
<1>3. ASSUME NEW w \in Workers, ForkRefused(w) \/ ForkUnlock(w)
      PROVE  Registered(p)'
  BY <1>3 DEF ForkRefused, ForkUnlock, TypeOK, Registered
<1> QED
  BY <1>1, <1>2, <1>3
  DEF Next, Client, Shutdown, Worker, Terminated, vars, workerVars,
      ShareProxy, DropProxy, ClientLock, ClientUnlock, ClientPost, PushPrivateTask,
      ResetScheduler, PushTermination, Join, Interrupt, TryPopHit, TryPopMiss,
      ContinuationNotReady, ScanDone, Start, ForkLock, ForkPost, ForkDrop, JobSkipped,
      JobReturns, JobFails, JobInterrupted, JobEnds, PrivateMiss, PrivateHit

\* Only the worker that executes p registers the continuation of p.
LEMMA RegisteredBy ==
  ASSUME TypeOK, [Next]_vars, NEW p \in Jobs, ~Registered(p), Registered(p)', KeepInv
  PROVE  \E w \in Workers : job[w] = p /\ (ForkRefused(w) \/ ForkUnlock(w))
<1>1. ~UNCHANGED <<waiting, continued>>
  BY DEF Registered
<1>2. ASSUME NEW w \in Workers, NEW q \in Jobs, ContinuationReady(w, q)
      PROVE  FALSE
  <2>1. q \in waiting[w]
    BY <1>2 DEF ContinuationReady, KeepInv
  <2>2. /\ \A v \in Workers : waiting'[v] \subseteq waiting[v]
        /\ continued' = continued \cup {q}
    BY <1>2 DEF ContinuationReady, TypeOK
  <2> QED
    BY <2>1, <2>2 DEF Registered
<1>3. PICK w \in Workers : ForkRefused(w) \/ ForkUnlock(w)
  BY <1>1, <1>2
  DEF Next, Client, Shutdown, Worker, Terminated, vars, workerVars,
      ShareProxy, DropProxy, ClientLock, ClientUnlock, ClientPost, PushPrivateTask,
      ResetScheduler, PushTermination, Join, Interrupt, TryPopHit, TryPopMiss,
      ContinuationNotReady, ScanDone, Start, ForkLock, ForkPost, ForkDrop, JobSkipped,
      JobReturns, JobFails, JobInterrupted, JobEnds, PrivateMiss, PrivateHit
<1>4. /\ waiting' = [waiting EXCEPT ![w] = waiting[w] \cup {job[w]}]
      /\ continued' = continued
  BY <1>3 DEF ForkRefused, ForkUnlock
<1>5. \A v \in Workers : waiting'[v] \subseteq waiting[v] \cup {job[w]}
  BY <1>4 DEF TypeOK
<1>6. job[w] = p
  BY <1>4, <1>5 DEF Registered
<1> QED
  BY <1>3, <1>6

\* The continuation of p is created once, by the job that runs.
LEMMA UnderStays ==
  ASSUME TypeOK, WorkerInv, [Next]_vars, NEW p \in Jobs,
         \A w \in Workers : pc[w] = "job" => job[w] # p
  PROVE  under'[p] = under[p]
<1>1. ASSUME NEW w \in Workers, ForkRefused(w) \/ ForkLock(w)
      PROVE  under'[p] = under[p]
  BY <1>1 DEF ForkRefused, ForkLock, TypeOK, WorkerInv
<1>2. ASSUME NEW w \in Workers, Worker(w)
      PROVE  under'[p] = under[p]
  BY <1>1, <1>2
  DEF Worker, interruptVars, TryPopHit, TryPopMiss, ContinuationReady,
      ContinuationNotReady, ScanDone, Start, ForkPost, ForkDrop, ForkUnlock, JobSkipped,
      JobReturns, JobFails, JobInterrupted, JobEnds, PrivateMiss, PrivateHit
<1> QED
  BY <1>2
  DEF Next, Client, Shutdown, Terminated, vars, interruptVars,
      ShareProxy, DropProxy, ClientLock, ClientUnlock, ClientPost, PushPrivateTask,
      ResetScheduler, PushTermination, Join, Interrupt

\* What somebody has requested is not forgotten, complete() forgets the mark.
LEMMA RequestsGrow ==
  ASSUME [Next]_vars
  PROVE  /\ requested \subseteq requested'
         /\ marked \subseteq requested => marked' \subseteq requested'
<1>1. ASSUME NEW j \in Jobs, Interrupt(j)
      PROVE  marked' = marked \cup {j} /\ requested' = requested \cup {j}
  BY <1>1 DEF Interrupt
<1>2. ASSUME NEW w \in Workers, JobReturns(w) \/ JobFails(w)
      PROVE  marked' \subseteq marked /\ requested' = requested
  BY <1>2 DEF JobReturns, JobFails, JobEnds, Complete
<1>3. ASSUME NEW w \in Workers, Worker(w), ~JobReturns(w), ~JobFails(w)
      PROVE  marked' = marked /\ requested' = requested
  BY <1>3
  DEF Worker, interruptVars, TryPopHit, TryPopMiss, ContinuationReady,
      ContinuationNotReady, ScanDone, Start, ForkLock, ForkRefused, ForkPost, ForkDrop,
      ForkUnlock, JobSkipped, JobInterrupted, JobEnds, PrivateMiss, PrivateHit
<1>4. ASSUME NEW c \in Clients, Client(c)
      PROVE  marked' = marked /\ requested' = requested
  BY <1>4
  DEF Client, interruptVars, ShareProxy, DropProxy, ClientLock, ClientUnlock, ClientPost,
      PushPrivateTask
<1>5. ASSUME Shutdown \/ UNCHANGED vars
      PROVE  marked' = marked /\ requested' = requested
  BY <1>5 DEF Shutdown, vars, interruptVars, ResetScheduler, PushTermination, Join
<1> QED
  BY <1>1, <1>2, <1>3, <1>4, <1>5 DEF Next, Terminated

\* A future that is ready stays ready.
LEMMA ResolvedStays ==
  ASSUME TypeOK, WorkerInv, JobInv, [Next]_vars, NEW j \in Jobs, Resolved(j)
  PROVE  Resolved(j)'
<1>1. status'[j] = status[j] /\ status[j] \in Ended \cup {"refused", "dropped"}
  BY OutcomeIsFinal DEF Resolved
<1>2. ASSUME NEW w \in Workers, pc'[w] # "done"
      PROVE  j \notin waiting'[w]
  <2>1. CASE Worker(w)
    <3>1. pc[w] # "done"
      BY <2>1
      DEF Worker, TryPopHit, TryPopMiss, ContinuationReady, ContinuationNotReady, ScanDone,
          Start, ForkLock, ForkRefused, ForkPost, ForkDrop, ForkUnlock, JobSkipped,
          JobReturns, JobFails, JobInterrupted, PrivateMiss, PrivateHit
    <3>2. j \notin waiting[w]
      BY <3>1 DEF Resolved
    <3>3. ASSUME NEW p \in Jobs, ContinuationReady(w, p)
          PROVE  waiting'[w] \subseteq waiting[w]
      BY <3>3 DEF ContinuationReady, TypeOK
    <3>4. ASSUME ForkRefused(w) \/ ForkUnlock(w)
          PROVE  waiting'[w] = waiting[w] \cup {job[w]} /\ job[w] # j
      <4>1. waiting'[w] = waiting[w] \cup {job[w]} /\ pc[w] \in {"job", "fork"}
        BY <3>4 DEF ForkRefused, ForkUnlock, TypeOK
      <4>2. status[job[w]] = "running"
        BY <4>1 DEF JobInv, HoldInv, PlaceInv
      <4> QED
        BY <1>1, <4>1, <4>2 DEF Ended
    <3>5. \/ \E p \in Jobs : ContinuationReady(w, p)
          \/ ForkRefused(w) \/ ForkUnlock(w)
          \/ waiting' = waiting
      BY <2>1
      DEF Worker, TryPopHit, TryPopMiss, ContinuationNotReady, ScanDone, Start, ForkLock,
          ForkPost, ForkDrop, JobSkipped, JobReturns, JobFails, JobInterrupted, JobEnds,
          PrivateMiss, PrivateHit
    <3> QED
      BY <3>2, <3>3, <3>4, <3>5
  <2>2. CASE ~Worker(w)
    BY <1>2, <2>2, OthersStay DEF Resolved
  <2> QED
    BY <2>1, <2>2
<1> QED
  BY <1>1, <1>2 DEF Resolved

\* A job whose continuation is registered does not create it again.
LEMMA RegisteredUnder ==
  ASSUME TypeOK, WorkerInv, JobInv, KeepInv, [Next]_vars, NEW p \in Jobs, Registered(p)
  PROVE  under'[p] = under[p]
BY NotYetRegistered, UnderStays

\* A continuation is called after its subtasks or an interruption, in every step.
LEMMA ContinuationStep ==
  ASSUME TypeOK, WorkerInv, JobInv, KeepInv, ContinuationAfterSubtasks,
         marked \subseteq requested, [Next]_vars
  PROVE  ContinuationAfterSubtasks'
<1>1. \A p \in Jobs : SubtasksResolved(p) => SubtasksResolved(p)'
  BY ResolvedStays, SubtasksAreJobs DEF SubtasksResolved
<1>2. continued \subseteq Jobs
  BY DEF TypeOK
<1>3. requested \subseteq requested'
  BY RequestsGrow
<1>4. \A p \in continued : under'[p] = under[p]
  BY <1>2, RegisteredUnder DEF Registered
<1>5. ASSUME NEW w \in Workers, NEW p \in Jobs, ContinuationReady(w, p)
      PROVE  ContinuationAfterSubtasks'
  <2>1. continued' = continued \cup {p} /\ under' = under
    BY <1>5 DEF ContinuationReady, interruptVars
  <2>2. under[p] \in requested \/ SubtasksResolved(p) \/ p \in Timed
    BY <1>5 DEF ContinuationReady, IsReady
  <2> QED
    BY <1>1, <1>2, <1>3, <2>1, <2>2 DEF ContinuationAfterSubtasks
<1>6. CASE continued' = continued
  BY <1>1, <1>2, <1>3, <1>4, <1>6 DEF ContinuationAfterSubtasks
<1> QED
  BY <1>5, <1>6
  DEF Next, Client, Shutdown, Worker, Terminated, vars,
      ShareProxy, DropProxy, ClientLock, ClientUnlock, ClientPost, PushPrivateTask,
      ResetScheduler, PushTermination, Join, Interrupt, TryPopHit, TryPopMiss,
      ContinuationNotReady, ScanDone, Start, ForkLock, ForkRefused, ForkPost, ForkDrop,
      ForkUnlock, JobSkipped, JobReturns, JobFails, JobInterrupted, JobEnds, PrivateMiss,
      PrivateHit

-----------------------------------------------------------------------------
(* What becomes of the subtasks                                            *)

AllPosted(p)  == \A s \in Subtasks[p] : WasPosted(s)
AllRefused(p) == \A s \in Subtasks[p] : status[s] = "refused"

\* The state of p was interrupted in the middle of its fork.
AllButOne(p) ==
  /\ under[p] \in requested
  /\ \E d \in Subtasks[p] : /\ status[d] = "dropped"
                            /\ \A s \in Subtasks[p] \ {d} : WasPosted(s)

Given(p) == AllPosted(p) \/ AllRefused(p) \/ AllButOne(p)

\* A fork drops its last subtask only.
ForkFate(w) ==
  /\ pc[w] = "forked" => Registered(job[w])
  /\ pc[w] = "fork" => \/ \A s \in Subtasks[job[w]] \ toPost[w] : WasPosted(s)
                       \/ toPost[w] = {} /\ AllButOne(job[w])

\* What becomes of the subtasks is known once the continuation is registered.
FateInv ==
  /\ marked \subseteq requested
  /\ \A p \in Jobs : Registered(p) => Given(p)
  /\ \A p \in Jobs : status[p] = "ok" => Subtasks[p] = {} \/ Registered(p)
  /\ \A w \in Workers : ForkFate(w)

\* Where the fate of a job and its subtasks is decided, it is final.
LEMMA FateIsFinal ==
  ASSUME TypeOK, WorkerInv, JobInv, [Next]_vars, NEW p \in Jobs, under'[p] = under[p]
  PROVE  /\ \A s \in Subtasks[p] : WasPosted(s) => WasPosted(s)'
         /\ AllButOne(p) => AllButOne(p)'
         /\ Given(p) => Given(p)'
<1>1. \A s \in Subtasks[p] : s \in Jobs
  BY SubtasksAreJobs
<1>2. \A s \in Subtasks[p] : /\ WasPosted(s) => WasPosted(s)'
                             /\ status[s] = "refused" => status'[s] = "refused"
                             /\ status[s] = "dropped" => status'[s] = "dropped"
  BY <1>1, MovesStep DEF Moves, WasPosted, Ended
<1>3. AllButOne(p) => AllButOne(p)'
  BY <1>2, RequestsGrow DEF AllButOne
<1> QED
  BY <1>2, <1>3 DEF Given, AllPosted, AllRefused

\* Registering a continuation: its subtasks have been given, or are refused.
LEMMA GivenWhenRegistered ==
  ASSUME TypeOK, WorkerInv, JobInv, FateInv, [Next]_vars, NEW w \in Workers,
         ForkRefused(w) \/ ForkUnlock(w)
  PROVE  Given(job[w])'
<1>1. job[w] \in Jobs
  BY DEF ForkRefused, ForkUnlock, WorkerInv
<1>2. job' = job
  BY DEF ForkRefused, ForkUnlock
<1>3. CASE ForkRefused(w)
  <2>1. \A s \in Subtasks[job[w]] : status'[s] = "refused"
    BY <1>1, <1>3, SubtasksAreJobs DEF ForkRefused
  <2> QED
    BY <1>2, <2>1 DEF Given, AllRefused
<1>4. CASE ForkUnlock(w)
  <2>1. pc[w] = "fork" /\ toPost[w] = {}
    BY <1>4 DEF ForkUnlock
  <2>2. Given(job[w])
    BY <2>1 DEF FateInv, ForkFate, Given, AllPosted
  <2>3. \A v \in Workers : pc[v] = "job" => job[v] # job[w]
    BY <2>1 DEF JobInv, HoldInv, PlaceInv
  <2>4. under'[job[w]] = under[job[w]]
    BY <1>1, <2>3, UnderStays
  <2>5. \A p \in Jobs : Given(p) /\ under'[p] = under[p] => Given(p)'
    BY FateIsFinal
  <2>6. PICK p \in Jobs : p = job[w]
    BY <1>1
  <2>7. Given(p)'
    BY <2>2, <2>4, <2>5, <2>6
  <2> QED
    BY <1>2, <2>6, <2>7
<1> QED
  BY <1>3, <1>4

\* A job that returns has registered its continuation, if it has subtasks.
LEMMA ReturnStep ==
  ASSUME TypeOK, WorkerInv, JobInv, FateInv, [Next]_vars, NEW p \in Jobs, status'[p] = "ok"
  PROVE  Subtasks[p] = {} \/ Registered(p)'
<1>1. CASE status[p] = "ok"
  BY <1>1, RegisteredStays DEF FateInv
<1>2. CASE status[p] # "ok"
  <2>1. status[p] = "running"
    BY <1>2, MovesStep DEF Moves
  <2>2. PICK w \in Workers : JobEnds(w, "ok") /\ JobReturns(w)
    <3>1. ASSUME NEW v \in Workers, NEW how \in Ended \ {"ok"}, JobEnds(v, how)
          PROVE  FALSE
      BY <1>2, <3>1 DEF JobEnds, TypeOK
    <3>2. \A v \in Workers : ~JobFails(v) /\ ~JobSkipped(v) /\ ~JobInterrupted(v)
      BY <3>1 DEF JobFails, JobSkipped, JobInterrupted, Ended
    <3>3. ASSUME NEW c \in Clients, NEW i \in Jobs, ClientPost(c, i)
          PROVE  FALSE
      BY <1>2, <3>3 DEF ClientPost, TypeOK
    <3>4. ASSUME NEW v \in Workers, TryPopHit(v)
          PROVE  FALSE
      BY <1>2, <3>4 DEF TryPopHit, TypeOK
    <3>5. ASSUME NEW v \in Workers, ForkRefused(v)
          PROVE  FALSE
      BY <1>2, <3>5 DEF ForkRefused, TypeOK
    <3>6. ASSUME NEW v \in Workers, NEW s \in Jobs, ForkPost(v, s) \/ ForkDrop(v, s)
          PROVE  FALSE
      BY <1>2, <3>6 DEF ForkPost, ForkDrop, TypeOK
    <3>7. status' # status
      BY <1>2
    <3> QED
      BY <3>2, <3>3, <3>4, <3>5, <3>6, <3>7
      DEF Next, Client, Shutdown, Worker, Terminated, vars,
          ShareProxy, DropProxy, ClientLock, ClientUnlock, PushPrivateTask, ResetScheduler,
          PushTermination, Join, Interrupt, TryPopMiss, ContinuationReady,
          ContinuationNotReady, ScanDone, Start, ForkLock, ForkUnlock, JobReturns,
          PrivateMiss, PrivateHit
  <2>3. job[w] = p
    BY <1>2, <2>2 DEF JobEnds, TypeOK
  <2>4. CASE pc[w] = "forked"
    BY <2>3, <2>4, RegisteredStays DEF FateInv, ForkFate
  <2> QED
    BY <2>2, <2>3, <2>4 DEF JobReturns
<1> QED
  BY <1>1, <1>2

\* The worker that forks: a subtask is given in each step, the last may be
\* dropped; then the continuation is registered.
LEMMA ForkStep ==
  ASSUME TypeOK, WorkerInv, JobInv, KeepInv, FateInv, [Next]_vars, NEW w \in Workers
  PROVE  ForkFate(w)'
<1>1. CASE ForkRefused(w) \/ ForkUnlock(w)
  <2>1. pc'[w] = "forked" /\ job' = job /\ job[w] \in waiting'[w]
    BY <1>1 DEF ForkRefused, ForkUnlock, Goto, TypeOK
  <2>2. Registered(job[w])'
    BY <2>1 DEF Registered
  <2> QED
    BY <2>1, <2>2 DEF ForkFate
<1>2. CASE ForkLock(w)
  <2>1. pc'[w] = "fork" /\ job' = job /\ toPost'[w] = Subtasks[job[w]]
    BY <1>2 DEF ForkLock, Goto, TypeOK
  <2> QED
    BY <2>1 DEF ForkFate
<1>3. ASSUME pc[w] = "fork", pc'[w] = "fork", job'[w] = job[w]
      PROVE  /\ job[w] \in Jobs
             /\ \A s \in Subtasks[job[w]] : s \in Jobs /\ (WasPosted(s) => WasPosted(s)')
             /\ AllButOne(job[w]) => AllButOne(job[w])'
  <2>1. job[w] \in Jobs
    BY <1>3 DEF WorkerInv
  <2>2. PICK p \in Jobs : p = job[w]
    BY <2>1
  <2>3. \A v \in Workers : pc[v] = "job" => job[v] # p
    BY <1>3, <2>2 DEF JobInv, HoldInv, PlaceInv
  <2>4. under'[p] = under[p]
    BY <2>3, UnderStays
  <2>5. /\ \A s \in Subtasks[p] : WasPosted(s) => WasPosted(s)'
        /\ AllButOne(p) => AllButOne(p)'
    BY <2>4, FateIsFinal
  <2>6. AllButOne(job[w]) => AllButOne(job[w])'
    BY <1>3, <2>2, <2>5 DEF AllButOne
  <2> QED
    BY <2>1, <2>2, <2>5, <2>6, SubtasksAreJobs
<1>4. ASSUME NEW s \in Jobs, ForkPost(w, s)
      PROVE  ForkFate(w)'
  <2>1. /\ pc[w] = "fork" /\ pc' = pc /\ job' = job /\ s \in toPost[w]
        /\ toPost'[w] = toPost[w] \ {s} /\ status'[s] = "queued"
    BY <1>4 DEF ForkPost, TypeOK
  <2>2. \A r \in Subtasks[job[w]] \ toPost[w] : WasPosted(r)
    BY <2>1 DEF FateInv, ForkFate
  <2>3. WasPosted(s)'
    BY <2>1 DEF WasPosted
  <2>4. \A r \in Subtasks[job[w]] \ toPost'[w] : WasPosted(r)'
    BY <1>3, <2>1, <2>2, <2>3
  <2> QED
    BY <2>1, <2>4 DEF ForkFate
<1>5. ASSUME NEW s \in Jobs, ForkDrop(w, s)
      PROVE  ForkFate(w)'
  <2>1. /\ pc[w] = "fork" /\ UNCHANGED <<pc, job, requested, under>> /\ toPost[w] = {s}
        /\ toPost'[w] = {} /\ status'[s] = "dropped" /\ under[job[w]] \in marked
    BY <1>5 DEF ForkDrop, LastInterrupted, interruptVars, TypeOK
  <2>2. \A r \in Subtasks[job[w]] \ {s} : WasPosted(r)
    BY <2>1 DEF FateInv, ForkFate
  <2>3. \A r \in Subtasks[job[w]] \ {s} : WasPosted(r)'
    BY <1>3, <2>1, <2>2
  <2>4. s \in Subtasks[job[w]]
    BY <2>1 DEF JobInv, ForkInv
  <2>5. under[job[w]] \in requested
    BY <2>1 DEF FateInv
  <2>6. AllButOne(job[w])'
    BY <2>1, <2>3, <2>4, <2>5 DEF AllButOne
  <2> QED
    BY <2>1, <2>6 DEF ForkFate
<1>6. CASE pc'[w] = pc[w] /\ job'[w] = job[w] /\ toPost'[w] = toPost[w]
  <2>1. CASE pc[w] = "forked"
    <3>1. PICK p \in Jobs : p = job[w]
      BY <2>1 DEF WorkerInv
    <3>2. Registered(p)'
      BY <2>1, <3>1, RegisteredStays DEF FateInv, ForkFate
    <3>3. Registered(job[w])'
      BY <1>6, <3>1, <3>2
    <3> QED
      BY <1>6, <2>1, <3>3 DEF ForkFate
  <2>2. CASE pc[w] = "fork"
    <3>1. \/ \A s \in Subtasks[job[w]] \ toPost[w] : WasPosted(s)
          \/ toPost[w] = {} /\ AllButOne(job[w])
      BY <2>2 DEF FateInv, ForkFate
    <3>2. \/ \A s \in Subtasks[job[w]] \ toPost[w] : WasPosted(s)'
          \/ toPost[w] = {} /\ AllButOne(job[w])'
      BY <1>3, <1>6, <2>2, <3>1
    <3> QED
      BY <1>6, <2>2, <3>2 DEF ForkFate
  <2> QED
    BY <1>6, <2>1, <2>2 DEF ForkFate
<1>7. CASE pc'[w] \notin {"fork", "forked"}
  BY <1>7 DEF ForkFate
<1>8. \/ ForkRefused(w) \/ ForkUnlock(w) \/ ForkLock(w)
      \/ \E s \in Jobs : ForkPost(w, s) \/ ForkDrop(w, s)
      \/ pc'[w] = pc[w] /\ job'[w] = job[w] /\ toPost'[w] = toPost[w]
      \/ pc'[w] \notin {"fork", "forked"}
  <2>1. CASE Worker(w)
    BY <2>1
    DEF Worker, TypeOK, Goto, TryPopHit, TryPopMiss, ContinuationReady,
        ContinuationNotReady, ScanDone, Start, JobSkipped, JobReturns, JobFails,
        JobInterrupted, JobEnds, AfterHit, AfterMiss, PrivateMiss, PrivateHit
  <2>2. CASE ~Worker(w)
    BY <2>2, OthersStay
  <2> QED
    BY <2>1, <2>2
<1> QED
  BY <1>1, <1>2, <1>4, <1>5, <1>6, <1>7, <1>8

\* Every step keeps the common fate of the subtasks of a fork.
LEMMA FateStep ==
  ASSUME TypeOK, WorkerInv, JobInv, KeepInv, FateInv, [Next]_vars
  PROVE  FateInv'
<1>1. marked' \subseteq requested'
  BY RequestsGrow DEF FateInv
<1>2. ASSUME NEW p \in Jobs, Registered(p)'
      PROVE  Given(p)'
  <2>1. CASE Registered(p)
    BY <2>1, RegisteredUnder, FateIsFinal DEF FateInv
  <2>2. CASE ~Registered(p)
    <3>1. PICK w \in Workers : job[w] = p /\ (ForkRefused(w) \/ ForkUnlock(w))
      BY <1>2, <2>2, RegisteredBy
    <3>2. Given(job[w])' /\ job' = job
      BY <3>1, GivenWhenRegistered DEF ForkRefused, ForkUnlock
    <3> QED
      BY <3>1, <3>2
  <2> QED
    BY <2>1, <2>2
<1>3. \A p \in Jobs : status'[p] = "ok" => Subtasks[p] = {} \/ Registered(p)'
  BY ReturnStep
<1>4. \A w \in Workers : ForkFate(w)'
  BY ForkStep
<1> QED
  BY <1>1, <1>2, <1>3, <1>4 DEF FateInv

\* on_done of a continuation is called once and, unless it has a timeout or
\* somebody has interrupted the state it carries, after all of its subtasks;
\* the subtasks of a job are posted or refused together, but for the last one
\* of a fork that is interrupted.
THEOREM ForksJoin == Spec => []ForkJoinCorrect
<1>1. Init => KeepInv /\ ContinuationAfterSubtasks /\ FateInv
  BY DEF Init, KeepInv, Registered, ContinuationOnce, ContinuationAfterSubtasks, FateInv,
         ForkFate
<1>2. /\ TypeOK /\ ControlInv /\ JobInv /\ [Next]_vars
      /\ KeepInv /\ ContinuationAfterSubtasks /\ FateInv
      => KeepInv' /\ ContinuationAfterSubtasks' /\ FateInv'
  BY KeepStep, ContinuationStep, FateStep DEF ControlInv, FateInv
<1>3. KeepInv /\ ContinuationAfterSubtasks /\ FateInv => ForkJoinCorrect
  BY DEF KeepInv, FateInv, Given, AllPosted, AllRefused, AllButOne, ForkAllOrNone,
         ForkJoinCorrect
<1> QED
  BY <1>1, <1>2, <1>3, TypeCorrect, JobsCorrect, PTL DEF Spec
-----------------------------------------------------------------------------
(* The promise of a scheduler                                              *)

\* The status of one job changes, and with it what a user sees of that job.
LEMMA OneJobMoves ==
  ASSUME TypeOK, NEW j \in Jobs, NEW st \in Statuses, NEW from, NEW to,
         status' = [status EXCEPT ![j] = st], Seen(status[j]) = from, Seen(st) = to,
         UNCHANGED <<Alive, closing>>
  PROVE  Pool!Move(j, from, to)
<1>1. PoolState[j] = from
  BY DEF PoolState
<1>2. \A i \in Jobs : status'[i] = IF i = j THEN st ELSE status[i]
  BY DEF TypeOK
<1>3. PoolState' = [i \in Jobs |-> Seen(status'[i])]
  BY DEF PoolState, Seen
<1>4. [PoolState EXCEPT ![j] = to] = [i \in Jobs |-> IF i = j THEN to ELSE Seen(status[i])]
  BY DEF PoolState
<1>5. PoolState' = [PoolState EXCEPT ![j] = to]
  BY <1>2, <1>3, <1>4
<1> QED
  BY <1>1, <1>5 DEF Pool!Move

\* A scheduler that is gone does not come back.
LEMMA GoneForEver ==
  ASSUME CloseInv, WorkerInv, [Next]_vars, ~Alive
  PROVE  ~Alive'
<1>1. ~implRef /\ locks = {} /\ \A w \in Workers : pc[w] # "fork"
  BY DEF Alive, WorkerInv
<1>2. ASSUME NEW w \in Workers, Worker(w)
      PROVE  implRef' = implRef /\ locks' = locks
  BY <1>1, <1>2
  DEF Worker, Alive, ownerVars, TryPopHit, TryPopMiss, ContinuationReady,
      ContinuationNotReady, ScanDone, Start, ForkLock, ForkRefused, ForkPost, ForkDrop,
      ForkUnlock, JobSkipped, JobReturns, JobFails, JobInterrupted, JobEnds, PrivateMiss,
      PrivateHit
<1>3. ASSUME NEW c \in Clients, Client(c)
      PROVE  implRef' = implRef /\ locks' = locks
  BY <1>1, <1>3
  DEF Client, Alive, ownerVars, ShareProxy, DropProxy, ClientLock, ClientUnlock,
      ClientPost, PushPrivateTask
<1>4. CASE Shutdown
  BY <1>1, <1>4
  DEF Shutdown, CloseInv, Alive, ownerVars, ResetScheduler, Release, PushTermination, Join
<1> QED
  BY <1>1, <1>2, <1>3, <1>4
  DEF Next, Terminated, Interrupt, Alive, vars, ownerVars

\* A step in which no job moves is a step of the pool only if the last owner
\* goes.
LEMMA StepOfOwners ==
  ASSUME CloseInv, WorkerInv, [Next]_vars, status' = status,
         (closing' = "joined") <=> (closing = "joined")
  PROVE  [Pool!Next]_Pool!vars
<1>1. PoolState' = PoolState
  BY DEF PoolState, Seen
<1>2. CASE Alive' <=> Alive
  BY <1>1, <1>2 DEF Pool!vars
<1>3. CASE ~(Alive' <=> Alive)
  <2>1. Alive /\ ~Alive'
    BY <1>3, GoneForEver DEF Alive
  <2>2. Pool!Close
    BY <1>1, <2>1 DEF Pool!Close
  <2> QED
    BY <2>2 DEF Pool!Next
<1> QED
  BY <1>2, <1>3

\* Every step of the thread pool is a step of the pool, or none.
LEMMA PoolStep ==
  ASSUME TypeOK, ControlInv, ShutdownInv, JobInv, [Next]_vars
  PROVE  [Pool!Next]_Pool!vars
<1> USE DEF ControlInv
<1>1. CASE status' = status /\ ((closing' = "joined") <=> (closing = "joined"))
  BY <1>1, StepOfOwners
<1>2. CASE Join
  <2>1. status' = status /\ closing' = "joined" /\ (Alive' <=> Alive)
    BY <1>2 DEF Join, Alive
  <2>2. 1 \in Workers /\ pc[1] = "done"
    BY <1>2, ConstantsAssumption DEF Join, Workers
  <2>3. ~Alive /\ queue = <<>>
    BY <2>2 DEF ShutdownInv, DrainInv, StopInv
  <2>4. ASSUME NEW j \in Jobs
        PROVE  status[j] \notin {"queued", "running"}
    <3>1. ~Within(j, queue)
      BY <2>3 DEF Within
    <3>2. \A w \in Workers : job[w] # j
      BY <1>2, ConstantsAssumption DEF Join, JobInv, HoldInv
    <3> QED
      BY <3>1, <3>2 DEF JobInv, PlaceInv
  <2>5. \A j \in Jobs : PoolState[j] \notin {"posted", "running"}
    BY <2>4 DEF PoolState, Seen, Ended, TypeOK, Statuses
  <2>6. PoolState' = PoolState
    BY <2>1 DEF PoolState, Seen
  <2> QED
    BY <2>1, <2>3, <2>5, <2>6 DEF Pool!Join, Pool!Next
<1>3. ASSUME NEW c \in Clients, NEW j \in Jobs, ClientPost(c, j)
      PROVE  [Pool!Next]_Pool!vars
  <2>1. Alive /\ UNCHANGED <<Alive, closing>>
    BY <1>3 DEF ClientPost, Owns, Alive, CloseInv, ownerVars
  <2>2. Pool!Move(j, "new", "posted")
    BY <1>3, <2>1, OneJobMoves DEF ClientPost, Seen, Ended, Statuses
  <2> QED
    BY <2>1, <2>2 DEF Pool!Post, Pool!Next
<1>4. ASSUME NEW w \in Workers, NEW s \in Jobs, ForkPost(w, s)
      PROVE  [Pool!Next]_Pool!vars
  <2>1. Alive /\ UNCHANGED <<Alive, closing>> /\ status[s] = "new"
    BY <1>4 DEF ForkPost, WorkerInv, Alive, ownerVars, JobInv, ForkInv
  <2>2. Pool!Move(s, "new", "posted")
    BY <1>4, <2>1, OneJobMoves DEF ForkPost, Seen, Ended, Statuses
  <2> QED
    BY <2>1, <2>2 DEF Pool!Post, Pool!Next
<1>5. ASSUME NEW w \in Workers, TryPopHit(w)
      PROVE  [Pool!Next]_Pool!vars
  <2>1. Head(queue) \in Jobs /\ status[Head(queue)] = "queued"
    BY <1>5, TakeFirst DEF TryPopHit, TypeOK, JobInv, PlaceInv
  <2>2. UNCHANGED <<Alive, closing>>
    BY <1>5 DEF TryPopHit, Alive, ownerVars
  <2>3. Pool!Move(Head(queue), "posted", "running")
    BY <1>5, <2>1, <2>2, OneJobMoves DEF TryPopHit, Seen, Ended, Statuses
  <2> QED
    BY <2>1, <2>3 DEF Pool!Start, Pool!Next
<1>6. ASSUME NEW w \in Workers, NEW how \in Ended, JobEnds(w, how),
             pc[w] \in {"start", "job", "forked"}
      PROVE  [Pool!Next]_Pool!vars
  <2>1. job[w] \in Jobs /\ status[job[w]] = "running"
    BY <1>6 DEF WorkerInv, JobInv, HoldInv, PlaceInv
  <2>2. UNCHANGED <<Alive, closing>>
    BY <1>6 DEF JobEnds, Alive, ownerVars
  <2>3. Pool!Move(job[w], "running", "ended")
    BY <1>6, <2>1, <2>2, OneJobMoves DEF JobEnds, Seen, Ended, Statuses
  <2> QED
    BY <2>1, <2>3 DEF Pool!End, Pool!Next
<1>7. ASSUME NEW w \in Workers, JobReturns(w) \/ JobFails(w) \/ JobSkipped(w) \/ JobInterrupted(w)
      PROVE  [Pool!Next]_Pool!vars
  <2>1. \E how \in Ended : JobEnds(w, how)
    BY <1>7 DEF JobReturns, JobFails, JobSkipped, JobInterrupted, Ended
  <2>2. pc[w] \in {"start", "job", "forked"}
    BY <1>7 DEF JobReturns, JobFails, JobSkipped, JobInterrupted
  <2> QED
    BY <1>6, <2>1, <2>2
<1>8. ASSUME NEW w \in Workers, ForkRefused(w)
      PROVE  [Pool!Next]_Pool!vars
  <2> DEFINE S == Subtasks[job[w]]
  <2>1. ~Alive /\ UNCHANGED <<Alive, closing>>
    BY <1>8 DEF ForkRefused, Alive, ownerVars
  <2>2. \A s \in S : s \in Jobs /\ status[s] = "new"
    BY <1>8, SubtasksAreJobs DEF ForkRefused, WorkerInv, JobInv, ForkInv, Unposted
  <2>3. S \in SUBSET {j \in Jobs : PoolState[j] = "new"}
    BY <2>2 DEF PoolState, Seen, Ended
  <2>4. PoolState' = [j \in Jobs |-> Seen(status'[j])]
    BY DEF PoolState, Seen
  <2>5. \A j \in Jobs : Seen(status'[j]) = IF j \in S THEN "refused" ELSE PoolState[j]
    BY <1>8 DEF ForkRefused, PoolState, Seen, Ended
  <2>6. PoolState' = [j \in Jobs |-> IF j \in S THEN "refused" ELSE PoolState[j]]
    BY <2>4, <2>5
  <2>7. Pool!Refuse
    BY <2>1, <2>3, <2>6 DEF Pool!Refuse
  <2> QED
    BY <2>7 DEF Pool!Next
<1>9. ASSUME NEW c \in Clients, DropProxy(c)
      PROVE  [Pool!Next]_Pool!vars
  <2>1. closing = "open" /\ closing' # "joined" /\ status' = status
    BY <1>9 DEF DropProxy, CloseInv
  <2> QED
    BY <1>1, <2>1
<1>10. ASSUME NEW w \in Workers, NEW s \in Jobs, ForkDrop(w, s)
       PROVE  [Pool!Next]_Pool!vars
  <2>1. status[s] = "new" /\ status' = [status EXCEPT ![s] = "dropped"]
    BY <1>10 DEF ForkDrop, JobInv, ForkInv
  <2>2. \A j \in Jobs : Seen(status'[j]) = Seen(status[j])
    BY <2>1 DEF Seen, Ended, TypeOK
  <2>3. PoolState' = PoolState
    BY <2>2 DEF PoolState, Seen
  <2>4. UNCHANGED <<Alive, closing>>
    BY <1>10 DEF ForkDrop, Alive, ownerVars
  <2> QED
    BY <2>3, <2>4 DEF Pool!vars
<1> QED
  BY <1>1, <1>2, <1>3, <1>4, <1>5, <1>7, <1>8, <1>9, <1>10
  DEF Next, Client, Shutdown, Worker, Terminated, vars, ownerVars,
      ShareProxy, ClientLock, ClientUnlock, PushPrivateTask, ResetScheduler,
      PushTermination, Interrupt, TryPopMiss, ContinuationReady, ContinuationNotReady,
      ScanDone, Start, ForkLock, ForkUnlock, PrivateMiss, PrivateHit

\* The thread pool keeps what JobPool promises, for any number of workers and
\* jobs: a job is accepted only while somebody owns the pool, is executed once,
\* and the last proxy has joined the pool only when nothing is left to run.
THEOREM ImplementsJobPool == Spec => RefinesJobPool
<1>1. Init => Pool!Init
  BY DEF Init, Pool!Init, PoolState, Seen, Ended, Alive
<1>2. TypeOK /\ ControlInv /\ ShutdownInv /\ JobInv /\ [Next]_vars => [Pool!Next]_Pool!vars
  BY PoolStep
<1> QED
  BY <1>1, <1>2, TypeCorrect, ShutdownCorrect, JobsCorrect, PTL
  DEF Spec, RefinesJobPool, Pool!Spec
=============================================================================
