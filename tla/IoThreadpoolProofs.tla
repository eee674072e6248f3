-------------------------- MODULE IoThreadpoolProofs --------------------------
(***************************************************************************)
(* The threads of IoThreadpool are accounted for, and with a permanent     *)
(* worker the pool is a JobPool, for any number of workers, clients and    *)
(* jobs.  The pools that share their queues (StealingPool) are one JobPool *)
(* as well: the second part.                                               *)
(***************************************************************************)
EXTENDS MCPools, FiniteSetTheorems, FunctionTheorems, WellFoundedInduction,
        SequenceTheorems, TLAPS

\* Where a thread has a job, and where a temporary one has none any more.
HasJob(t) == pc[t] \in {"job", "create", "return"}
Leaving == {"collect", "remove", "join", "finish", "insert"}

\* Jobs that may still create a continuation.
Unforked ==
  {j \in Jobs : status[j] \in {"new", "queued"}} \cup {job[t] : t \in {u \in Threads : pc[u] = "job"}}

\* Clients are idle or in post, threads that do not exist are off, permanent
\* workers never leave by test_worker_loop and only they have a private queue.
PlaceInv ==
  /\ \A c \in Clients : pc[c] \in {"idle", "create"}
  /\ \A t \in Threads : pc[t] # "idle" /\ (pc[t] = "off" <=> t \notin Created)
  /\ \A t \in Permanent : pc[t] \notin Leaving \cup {"test"}
  /\ \A t \in Threads \ Permanent : pc[t] # "private" /\ ~draining[t]

\* A job that was posted is queued once, or executed by one thread.
Holds(q, st) ==
  /\ \A i \in DOMAIN q : st[q[i]] = "queued"
  /\ \A i, k \in DOMAIN q : i # k => q[i] # q[k]
  /\ \A j \in Jobs : st[j] = "queued" => \E i \in DOMAIN q : q[i] = j

QueueInv == Holds(queue, status)

RunInv ==
  /\ \A t \in Threads : HasJob(t) <=> job[t] # None
  /\ \A t \in Threads : job[t] # None => status[job[t]] = "running"
  /\ \A t, u \in Threads : t # u /\ job[t] # None => job[t] # job[u]
  /\ \A j \in Jobs : status[j] = "running" => \E t \in Threads : job[t] = j

\* The subtask of a job is new until the job posts it.
ForkInv ==
  \A p \in Unforked \cap Jobs : Subtask[p] # None => status[Subtask[p]] = "new"

\* The count is that of the permanent workers and of the temporary ones that
\* have not passed thread_finished; a thread is created by the post of a job.
Counted  == {t \in Created : t \in Permanent \/ pc[t] \notin {"insert", "end"}}
Creating == {a \in Actors : pc[a] = "create"}
Accepted == {j \in Jobs : status[j] # "new"}

CountInv ==
  /\ count = Cardinality(Counted)
  /\ IsFiniteSet(Creating)
  /\ MinWorkers <= created
  /\ created + Cardinality(Creating) <= MinWorkers + Cardinality(Accepted)

\* A thread that has not ended is in the group; those that have ended wait in
\* m_done_threads, in the group too, until one ending thread takes them.
GroupInv ==
  /\ Permanent \subseteq group
  /\ \A t \in Created : pc[t] # "end" => t \in group
  /\ doneSet \subseteq group
  /\ \A t \in doneSet : pc[t] = "end" /\ t \notin Permanent
  /\ \A t \in Threads : toJoin[t] # {} => pc[t] \in {"remove", "join"}
  /\ \A t \in Threads : \A u \in toJoin[t] :
       pc[u] = "end" /\ u \notin Permanent \cup doneSet /\ (pc[t] = "remove" => u \in group)
  /\ \A t, u \in Threads : t # u => toJoin[t] \cap toJoin[u] = {}

\* Who posts owns the scheduler; without an owner the permanent workers are
\* told to end, and one that has ended has found the queue empty.
OwnerInv ==
  /\ implRef <=> closing \in {"open", "get_worker", "reset"}
  /\ held # {} => closing = "open"
  /\ \A c \in Clients : pc[c] = "create" => c \in held \cup locks
  /\ told # {} => Closed
  /\ \A t \in Threads : draining[t] => Closed
  /\ \A t \in Permanent : pc[t] = "end" => Closed /\ queue = <<>>
  /\ closing = "joined" => \A t \in Permanent : pc[t] = "end"

PoolInv == PlaceInv /\ QueueInv /\ RunInv /\ ForkInv /\ CountInv /\ GroupInv /\ OwnerInv

-----------------------------------------------------------------------------
(* Constants, sets and sequences                                           *)

\* There are finitely many threads, and every permanent worker is one.
LEMMA ConstantFacts ==
  /\ MinWorkers \in Nat /\ MaxWorkers \in Nat /\ MinWorkers <= MaxWorkers
  /\ Cardinality(Jobs) \in Nat
  /\ Cardinality(Threads) = MinWorkers + Cardinality(Jobs)
  /\ Permanent \subseteq Threads
  /\ Clients \cap Threads = {}
  /\ None \notin Jobs /\ None \notin Threads
<1>1. Cardinality(Jobs) \in Nat
  BY WorkersAssumption, FS_CardinalityType
<1>2. Cardinality(1 .. MinWorkers + Cardinality(Jobs)) = MinWorkers + Cardinality(Jobs)
  <2>1. MinWorkers + Cardinality(Jobs) \in Nat /\ 1 \in Int
    BY <1>1, WorkersAssumption
  <2> QED
    BY <2>1, FS_Interval
<1> QED
  BY <1>1, <1>2, WorkersAssumption DEF Threads, Permanent

\* A job that was not queued is appended.
LEMMA HoldsAppend ==
  ASSUME NEW q \in Seq(Jobs), NEW st \in [Jobs -> {"new", "queued", "running", "ended", "refused"}],
         Holds(q, st), NEW j \in Jobs, st[j] = "new"
  PROVE  Holds(Append(q, j), [st EXCEPT ![j] = "queued"])
<1> DEFINE r == Append(q, j)
<1>1. /\ DOMAIN r = DOMAIN q \cup {Len(q) + 1} /\ Len(q) + 1 \notin DOMAIN q
      /\ r[Len(q) + 1] = j /\ \A i \in DOMAIN q : r[i] = q[i] /\ q[i] \in Jobs
  OBVIOUS
<1> HIDE DEF r
<1>2. \A i \in DOMAIN q : q[i] # j
  BY DEF Holds
<1>3. \A i \in DOMAIN r : [st EXCEPT ![j] = "queued"][r[i]] = "queued"
  BY <1>1 DEF Holds
<1>4. \A i, k \in DOMAIN r : i # k => r[i] # r[k]
  BY <1>1, <1>2 DEF Holds
<1>5. ASSUME NEW x \in Jobs, [st EXCEPT ![j] = "queued"][x] = "queued"
      PROVE  \E i \in DOMAIN r : r[i] = x
  BY <1>1, <1>5 DEF Holds
<1>6. Holds(r, [st EXCEPT ![j] = "queued"])
  BY <1>3, <1>4, <1>5 DEF Holds
<1> QED
  BY <1>6 DEF r

\* The first job is popped and leaves the state "queued".
LEMMA HoldsTail ==
  ASSUME NEW q \in Seq(Jobs), NEW st \in [Jobs -> {"new", "queued", "running", "ended", "refused"}],
         Holds(q, st), q # <<>>
  PROVE  /\ Head(q) \in Jobs /\ st[Head(q)] = "queued" /\ Tail(q) \in Seq(Jobs)
         /\ Holds(Tail(q), [st EXCEPT ![Head(q)] = "running"])
<1> DEFINE r == Tail(q)
           h == Head(q)
<1>1. /\ h = q[1] /\ 1 \in DOMAIN q /\ h \in Jobs /\ r \in Seq(Jobs)
      /\ \A i \in DOMAIN r : i + 1 \in DOMAIN q /\ r[i] = q[i + 1] /\ i + 1 # 1 /\ i \in Nat
      /\ \A i \in DOMAIN q : q[i] \in Jobs /\ (i # 1 => i - 1 \in DOMAIN r /\ r[i - 1] = q[i])
  OBVIOUS
<1> HIDE DEF r, h
<1>2. st[h] = "queued"
  BY <1>1 DEF Holds
<1>3. \A i \in DOMAIN r : r[i] # h /\ r[i] \in Jobs
  BY <1>1 DEF Holds
<1>4. \A i \in DOMAIN r : [st EXCEPT ![h] = "running"][r[i]] = "queued"
  BY <1>1, <1>3 DEF Holds
<1>5. \A i, k \in DOMAIN r : i # k => r[i] # r[k]
  <2> SUFFICES ASSUME NEW i \in DOMAIN r, NEW k \in DOMAIN r, i # k
               PROVE  r[i] # r[k]
    OBVIOUS
  <2>1. i + 1 # k + 1
    BY <1>1
  <2> QED
    BY <1>1, <2>1 DEF Holds
<1>6. ASSUME NEW x \in Jobs, [st EXCEPT ![h] = "running"][x] = "queued"
      PROVE  \E i \in DOMAIN r : r[i] = x
  <2>1. x # h /\ st[x] = "queued"
    BY <1>1, <1>6
  <2>2. PICK i \in DOMAIN q : q[i] = x
    BY <2>1 DEF Holds
  <2>3. i # 1
    BY <1>1, <2>1, <2>2
  <2> QED
    BY <1>1, <2>2, <2>3
<1>7. Holds(r, [st EXCEPT ![h] = "running"])
  BY <1>4, <1>5, <1>6 DEF Holds
<1> QED
  BY <1>1, <1>2, <1>7 DEF r, h

\* The status of a job that is not in the queue changes to another than "queued".
LEMMA HoldsOther ==
  ASSUME NEW q \in Seq(Jobs), NEW st \in [Jobs -> {"new", "queued", "running", "ended", "refused"}],
         Holds(q, st), NEW j \in Jobs, st[j] # "queued", NEW to, to # "queued"
  PROVE  Holds(q, [st EXCEPT ![j] = to])
<1>1. \A i \in DOMAIN q : q[i] \in Jobs /\ q[i] # j
  BY DEF Holds
<1> QED
  BY <1>1 DEF Holds

-----------------------------------------------------------------------------
(* Types                                                                   *)

\* A post that creates a thread has room for one: each accepted job creates one
\* thread at most.
LEMMA RoomForThread ==
  ASSUME TypeOK, CountInv, NEW a \in Actors, pc[a] = "create"
  PROVE  created + 1 \in Threads /\ created \in Nat
<1>1. a \in Creating
  BY DEF Creating
<1>2. Cardinality(Creating) \in Nat /\ Cardinality(Creating) # 0
  BY <1>1, FS_CardinalityType, FS_EmptySet DEF CountInv
<1>3. Cardinality(Accepted) <= Cardinality(Jobs) /\ Cardinality(Accepted) \in Nat
  <2>1. Accepted \subseteq Jobs /\ IsFiniteSet(Jobs)
    BY WorkersAssumption DEF Accepted
  <2> QED
    BY <2>1, FS_Subset, FS_CardinalityType
<1>4. created \in Nat
  BY ConstantFacts DEF TypeOK
<1> QED
  BY <1>2, <1>3, <1>4, ConstantFacts DEF CountInv, Threads

\* The threads that are counted are finitely many, also without one of them.
LEMMA CountedFinite ==
  ASSUME TypeOK
  PROVE  /\ IsFiniteSet(Counted) /\ Cardinality(Counted) \in Nat
         /\ \A t \in Counted : Cardinality(Counted) # 0
<1>1. Counted \subseteq 1 .. created /\ created \in Nat
  BY ConstantFacts DEF Counted, Created, TypeOK
<1>2. IsFiniteSet(1 .. created)
  BY <1>1, FS_Interval
<1>3. IsFiniteSet(Counted) /\ Cardinality(Counted) \in Nat
  BY <1>1, <1>2, FS_Subset, FS_CardinalityType
<1> QED
  BY <1>3, FS_EmptySet

\* Sequences: appending, and taking the first.
LEMMA QueueTyped ==
  ASSUME NEW q \in Seq(Jobs)
  PROVE  /\ \A j \in Jobs : Append(q, j) \in Seq(Jobs)
         /\ q # <<>> => Head(q) \in Jobs /\ Tail(q) \in Seq(Jobs)
  OBVIOUS

\* Every step keeps the types.
LEMMA TypeStep ==
  ASSUME TypeOK, PoolInv, [Next]_vars
  PROVE  TypeOK'
<1> USE DEF TypeOK, Actors, Created, poolVars, workVars, ownerVars, vars, Goto
<1>1. ASSUME NEW c \in Clients, NEW j \in Jobs, ClientPost(c, j)
      PROVE  TypeOK'
  BY <1>1, QueueTyped DEF ClientPost
<1>2. ASSUME NEW c \in Clients, DropProxy(c)
      PROVE  TypeOK'
  BY <1>2 DEF DropProxy
<1>3. ASSUME NEW c \in Clients, ClientLock(c)
      PROVE  TypeOK'
  BY <1>3 DEF ClientLock
<1>4. ASSUME NEW c \in Clients, ClientUnlock(c)
      PROVE  TypeOK'
  BY <1>4 DEF ClientUnlock, Release
<1>5. ASSUME NEW t \in Threads, TryPopHit(t)
      PROVE  TypeOK'
  BY <1>5, QueueTyped DEF TryPopHit
<1>6. ASSUME NEW t \in Threads, TryPopMiss(t)
      PROVE  TypeOK'
  BY <1>6 DEF TryPopMiss, After
<1>7. ASSUME NEW t \in Threads, Fork(t)
      PROVE  TypeOK'
  <2>1. job[t] \in Jobs
    BY <1>7 DEF Fork, PoolInv, RunInv, HasJob
  <2>2. Subtask[job[t]] \in Jobs
    BY <1>7, <2>1, WorkersAssumption DEF Fork
  <2> QED
    <3>1. queue' \in Seq(Jobs) /\ locks' \subseteq Actors
      <4>1. \/ queue' = Append(queue, Subtask[job[t]]) /\ locks' = locks \cup {t}
            \/ queue' = queue /\ locks' = locks
        BY <1>7 DEF Fork
      <4> QED
        BY <2>2, <4>1, QueueTyped
    <3>2. status' \in [Jobs -> {"new", "queued", "running", "ended", "refused"}]
      BY <1>7, <2>2 DEF Fork
    <3>3. pc' \in [Actors -> {"off", "idle", "create", "try", "job", "return", "private", "test",
                              "collect", "remove", "join", "finish", "insert", "end"}]
      BY <1>7 DEF Fork
    <3>4. waiting' \in [Threads -> SUBSET Jobs]
      BY <1>7, <2>1 DEF Fork
    <3>5. UNCHANGED <<poolVars, job, continued, toJoin, draining, told, held, implRef, closing>>
      BY <1>7 DEF Fork
    <3> QED
      BY <3>1, <3>2, <3>3, <3>4, <3>5
<1>8. ASSUME NEW t \in Threads, JobEnds(t)
      PROVE  TypeOK'
  BY <1>8 DEF JobEnds, After
<1>9. ASSUME NEW t \in Threads, Private(t)
      PROVE  TypeOK'
  BY <1>9 DEF Private
<1>10. ASSUME NEW t \in Threads, TestWorkerLoop(t)
       PROVE  TypeOK'
  BY <1>10 DEF TestWorkerLoop
<1>11. ASSUME NEW t \in Threads, Collect(t)
       PROVE  TypeOK'
  BY <1>11 DEF Collect
<1>12. ASSUME NEW t \in Threads, Remove(t)
       PROVE  TypeOK'
  BY <1>12 DEF Remove, GroupFree
<1>13. ASSUME NEW t \in Threads, JoinOlder(t)
       PROVE  TypeOK'
  BY <1>13 DEF JoinOlder
<1>14. ASSUME NEW t \in Threads, Finish(t)
       PROVE  TypeOK'
  <2>1. CASE pc[t] = "finish"
    <3>1. t \in Created
      BY <2>1 DEF PoolInv, PlaceInv
    <3>2. t \in Counted
      BY <2>1, <3>1 DEF Counted
    <3>3. count # 0
      BY <3>2, CountedFinite DEF PoolInv, CountInv
    <3>4. count - 1 \in 0 .. MaxWorkers
      BY <3>3, ConstantFacts
    <3> QED
      BY <1>14, <2>1, <3>4 DEF Finish
  <2>2. CASE pc[t] = "insert"
    <3>1. t \in Created
      BY <2>2 DEF PoolInv, PlaceInv
    <3> QED
      BY <1>14, <2>2, <3>1 DEF Finish
  <2> QED
    BY <1>14, <2>1, <2>2 DEF Finish
<1>15. ASSUME NEW a \in Actors, TryCreateThread(a)
       PROVE  TypeOK'
  <2>1. created + 1 \in Threads /\ created \in Nat
    BY <1>15, RoomForThread DEF TryCreateThread, PoolInv
  <2>2. Cardinality(Threads) \in Nat /\ Threads = 1 .. Cardinality(Threads)
    BY ConstantFacts DEF Threads
  <2>3. locks' \subseteq Actors /\ told' \subseteq Permanent /\ implRef' \in BOOLEAN
    BY <1>15 DEF TryCreateThread, Release
  <2>4. pc' \in [Actors -> {"off", "idle", "create", "try", "job", "return", "private", "test",
                            "collect", "remove", "join", "finish", "insert", "end"}]
    BY <1>15 DEF TryCreateThread
  <2>5. /\ created' \in 0 .. Cardinality(Threads) /\ count' \in 0 .. MaxWorkers
        /\ group' \subseteq 1 .. created' /\ 1 .. created \subseteq 1 .. created'
    <3>1. CASE ThreadNeeded
      <4>1. created' = created + 1 /\ count' = count + 1 /\ group' = group \cup {created + 1}
        BY <1>15, <3>1 DEF TryCreateThread
      <4>2. count + 1 <= MaxWorkers
        BY <3>1 DEF ThreadNeeded
      <4> QED
        BY <2>1, <2>2, <4>1, <4>2, ConstantFacts
    <3>2. CASE ~ThreadNeeded
      BY <1>15, <3>2 DEF TryCreateThread
    <3> QED
      BY <3>1, <3>2
  <2>6. UNCHANGED <<queue, status, doneSet, joining, mutex, workVars, held, closing>>
    BY <1>15 DEF TryCreateThread
  <2> QED
    BY <2>3, <2>4, <2>5, <2>6
<1>16. CASE GetWorker
  BY <1>16 DEF GetWorker
<1>17. CASE ResetScheduler
  BY <1>17 DEF ResetScheduler, Release
<1>18. CASE JoinAll
  BY <1>18 DEF JoinAll
<1>19. CASE UNCHANGED vars
  BY <1>19
<1> QED
  BY <1>1, <1>2, <1>3, <1>4, <1>5, <1>6, <1>7, <1>8, <1>9, <1>10, <1>11, <1>12,
     <1>13, <1>14, <1>15, <1>16, <1>17, <1>18, <1>19
     DEF Next, Client, Thread, Terminated

-----------------------------------------------------------------------------
(* Threads and jobs                                                        *)

\* A thread that exists moves to a place where it may be.
LEMMA PlaceMove ==
  ASSUME TypeOK, PlaceInv, created' = created, draining' = draining,
         NEW t \in Threads, pc[t] # "off",
         NEW where, where \notin {"off", "idle"}, pc' = [pc EXCEPT ![t] = where],
         t \in Permanent => where \notin Leaving \cup {"test"},
         t \notin Permanent => where # "private"
  PROVE  PlaceInv'
<1>1. /\ pc'[t] = where
      /\ \A u \in Actors : u # t => pc'[u] = pc[u]
  BY DEF TypeOK, Actors
<1>2. /\ \A c \in Clients : c # t /\ c \in Actors
      /\ \A u \in Threads : u \in Actors
      /\ \A u \in Permanent : u \in Threads
  BY ConstantFacts DEF Actors
<1> QED
  BY <1>1, <1>2 DEF PlaceInv, Created

\* Every step keeps the threads in their places.
LEMMA PlaceStep ==
  ASSUME TypeOK, PlaceInv, CountInv, [Next]_vars
  PROVE  PlaceInv'
<1> USE DEF poolVars, workVars, ownerVars, vars, Goto
<1>1. ASSUME NEW c \in Clients, NEW j \in Jobs, ClientPost(c, j)
      PROVE  PlaceInv'
  BY <1>1 DEF ClientPost, PlaceInv, TypeOK, Actors, Created, Leaving
<1>2. ASSUME NEW c \in Clients, DropProxy(c)
      PROVE  PlaceInv'
  BY <1>2 DEF DropProxy, PlaceInv, TypeOK, Actors, Created, Leaving
<1>3. ASSUME NEW c \in Clients, ClientLock(c)
      PROVE  PlaceInv'
  BY <1>3 DEF ClientLock, PlaceInv, TypeOK, Actors, Created, Leaving
<1>4. ASSUME NEW c \in Clients, ClientUnlock(c)
      PROVE  PlaceInv'
  BY <1>4 DEF ClientUnlock, Release, PlaceInv, TypeOK, Actors, Created, Leaving
<1>5. ASSUME NEW t \in Threads, TryPopHit(t)
      PROVE  PlaceInv'
  BY <1>5 DEF TryPopHit, PlaceInv, TypeOK, Actors, Created, Leaving
<1>6. ASSUME NEW t \in Threads, TryPopMiss(t)
      PROVE  PlaceInv'
  BY <1>6 DEF TryPopMiss, After, PlaceInv, TypeOK, Actors, Created, Leaving
<1>7. ASSUME NEW t \in Threads, Fork(t)
      PROVE  PlaceInv'
  <2>1. /\ pc[t] # "off" /\ created' = created /\ draining' = draining
        /\ \/ pc' = [pc EXCEPT ![t] = "create"]
           \/ pc' = [pc EXCEPT ![t] = "return"]
    BY <1>7 DEF Fork
  <2> QED
    BY <2>1, PlaceMove DEF Leaving
<1>8. ASSUME NEW t \in Threads, JobEnds(t)
      PROVE  PlaceInv'
  BY <1>8 DEF JobEnds, After, PlaceInv, TypeOK, Actors, Created, Leaving
<1>9. ASSUME NEW t \in Threads, Private(t)
      PROVE  PlaceInv'
  BY <1>9 DEF Private, PlaceInv, TypeOK, Actors, Created, Leaving
<1>10. ASSUME NEW t \in Threads, TestWorkerLoop(t)
       PROVE  PlaceInv'
  BY <1>10 DEF TestWorkerLoop, PlaceInv, TypeOK, Actors, Created, Leaving
<1>11. ASSUME NEW t \in Threads, Collect(t)
       PROVE  PlaceInv'
  BY <1>11 DEF Collect, PlaceInv, TypeOK, Actors, Created, Leaving
<1>12. ASSUME NEW t \in Threads, Remove(t)
       PROVE  PlaceInv'
  <2>1. /\ pc[t] = "remove" /\ created' = created /\ draining' = draining
        /\ \/ pc' = [pc EXCEPT ![t] = "finish"]
           \/ pc' = [pc EXCEPT ![t] = "join"]
    BY <1>12 DEF Remove
  <2>2. t \notin Permanent
    BY <2>1 DEF PlaceInv, Leaving
  <2> QED
    BY <2>1, <2>2, PlaceMove
<1>13. ASSUME NEW t \in Threads, JoinOlder(t)
       PROVE  PlaceInv'
  BY <1>13 DEF JoinOlder, PlaceInv, TypeOK, Actors, Created, Leaving
<1>14. ASSUME NEW t \in Threads, Finish(t)
       PROVE  PlaceInv'
  <2>1. /\ pc[t] \in {"finish", "insert"} /\ created' = created /\ draining' = draining
        /\ \/ pc' = [pc EXCEPT ![t] = "insert"]
           \/ pc' = [pc EXCEPT ![t] = "end"]
    BY <1>14 DEF Finish
  <2>2. t \notin Permanent
    BY <2>1 DEF PlaceInv, Leaving
  <2> QED
    BY <2>1, <2>2, PlaceMove
<1>15. ASSUME NEW a \in Actors, TryCreateThread(a)
       PROVE  PlaceInv'
  <2>1. created + 1 \in Threads /\ created \in Nat
    BY <1>15, RoomForThread DEF TryCreateThread
  <2>2. created + 1 \notin Created /\ created + 1 \notin Permanent
    BY <2>1, ConstantFacts DEF Created, Permanent, CountInv
  <2>3. pc[a] = "create" /\ draining' = draining
    BY <1>15 DEF TryCreateThread
  <2>4. a # created + 1 /\ (a \in Clients => a \notin Threads)
    BY <2>1, <2>2, <2>3, ConstantFacts DEF PlaceInv
  <2>5. /\ pc'[a] = IF a \in Threads THEN "return" ELSE "idle"
        /\ \/ /\ created' = created + 1 /\ pc'[created + 1] = "try"
              /\ \A b \in Actors : b # a /\ b # created + 1 => pc'[b] = pc[b]
           \/ /\ created' = created
              /\ \A b \in Actors : b # a => pc'[b] = pc[b]
    <3>1. CASE ThreadNeeded
      BY <1>15, <2>1, <2>4, <3>1 DEF TryCreateThread, TypeOK, Actors
    <3>2. CASE ~ThreadNeeded
      BY <1>15, <3>2 DEF TryCreateThread, TypeOK
    <3> QED
      BY <3>1, <3>2
  <2>6. \A t \in Threads : t \in 1 .. created' <=> t \in Created \/ (t = created + 1 /\ created' = created + 1)
    BY <2>1, <2>5, ConstantFacts DEF Created, Threads
  <2>7. \A c \in Clients : c \notin Threads
    BY ConstantFacts
  <2>8. \A c \in Clients : pc'[c] \in {"idle", "create"}
    BY <2>1, <2>5, <2>7 DEF PlaceInv, Actors
  <2>9. \A t \in Threads : pc'[t] # "idle" /\ (pc'[t] = "off" <=> t \notin 1 .. created')
    BY <2>1, <2>3, <2>4, <2>5, <2>6 DEF PlaceInv, Actors
  <2>10. /\ \A t \in Permanent : pc'[t] \notin Leaving \cup {"test"}
         /\ \A t \in Threads \ Permanent : pc'[t] # "private" /\ ~draining'[t]
    BY <2>2, <2>3, <2>5, ConstantFacts DEF PlaceInv, Actors, Leaving
  <2> QED
    BY <2>8, <2>9, <2>10 DEF PlaceInv, Created
<1>16. CASE GetWorker
  BY <1>16 DEF GetWorker, PlaceInv, TypeOK, Actors, Created, Leaving
<1>17. CASE ResetScheduler
  BY <1>17 DEF ResetScheduler, Release, PlaceInv, TypeOK, Actors, Created, Leaving
<1>18. CASE JoinAll
  BY <1>18 DEF JoinAll, PlaceInv, TypeOK, Actors, Created, Leaving
<1>19. CASE UNCHANGED vars
  BY <1>19 DEF PlaceInv, Created
<1> QED
  BY <1>1, <1>2, <1>3, <1>4, <1>5, <1>6, <1>7, <1>8, <1>9, <1>10, <1>11, <1>12,
     <1>13, <1>14, <1>15, <1>16, <1>17, <1>18, <1>19
     DEF Next, Client, Thread, Terminated

\* Every step keeps a posted job in the queue once.
LEMMA QueueStep ==
  ASSUME TypeOK, PlaceInv, QueueInv, RunInv, ForkInv, [Next]_vars
  PROVE  QueueInv'
<1> USE DEF QueueInv, poolVars, workVars, ownerVars, vars, Goto
<1>1. ASSUME NEW c \in Clients, NEW j \in Jobs, ClientPost(c, j)
      PROVE  QueueInv'
  BY <1>1, HoldsAppend DEF ClientPost, TypeOK
<1>2. ASSUME NEW t \in Threads, TryPopHit(t)
      PROVE  QueueInv'
  BY <1>2, HoldsTail DEF TryPopHit, TypeOK
<1>3. ASSUME NEW t \in Threads, Fork(t)
      PROVE  QueueInv'
  <2> DEFINE s == Subtask[job[t]]
  <2>1. job[t] \in Jobs /\ job[t] \in Unforked
    BY <1>3 DEF Fork, RunInv, HasJob, TypeOK, Unforked
  <2>2. s \in Jobs /\ status[s] = "new"
    BY <1>3, <2>1, WorkersAssumption DEF Fork, ForkInv
  <2>3. \/ queue' = Append(queue, s) /\ status' = [status EXCEPT ![s] = "queued"]
        \/ queue' = queue /\ status' = [status EXCEPT ![s] = "refused"]
    BY <1>3 DEF Fork
  <2>4. queue \in Seq(Jobs) /\ status \in [Jobs -> {"new", "queued", "running", "ended", "refused"}]
    BY DEF TypeOK
  <2> HIDE DEF s
  <2>5. CASE queue' = Append(queue, s) /\ status' = [status EXCEPT ![s] = "queued"]
    BY <2>2, <2>4, <2>5, HoldsAppend
  <2>6. CASE queue' = queue /\ status' = [status EXCEPT ![s] = "refused"]
    BY <2>2, <2>4, <2>6, HoldsOther
  <2> QED
    BY <2>3, <2>5, <2>6
<1>4. ASSUME NEW t \in Threads, JobEnds(t)
      PROVE  QueueInv'
  <2>1. job[t] \in Jobs /\ status[job[t]] = "running"
    BY <1>4 DEF JobEnds, RunInv, HasJob, TypeOK
  <2>2. queue' = queue /\ status' = [status EXCEPT ![job[t]] = "ended"]
    BY <1>4 DEF JobEnds
  <2> QED
    BY <2>1, <2>2, HoldsOther DEF TypeOK
<1>5. CASE UNCHANGED vars
  BY <1>5
<1> QED
  BY <1>1, <1>2, <1>3, <1>4, <1>5
     DEF Next, Client, Thread, Terminated, DropProxy, ClientLock, ClientUnlock,
         TryPopMiss, Private, TestWorkerLoop, Collect, Remove, JoinOlder, Finish,
         TryCreateThread, GetWorker, ResetScheduler, JoinAll

\* Every step keeps a running job with one thread.
LEMMA RunStep ==
  ASSUME TypeOK, PlaceInv, QueueInv, RunInv, ForkInv, CountInv, [Next]_vars
  PROVE  RunInv'
<1> USE DEF poolVars, workVars, ownerVars, vars, Goto
<1>1. ASSUME NEW c \in Clients, NEW j \in Jobs, ClientPost(c, j)
      PROVE  RunInv'
  <2>1. /\ pc[c] = "idle" /\ job' = job /\ status[j] = "new"
        /\ \A u \in Threads : pc'[u] = pc[u]
        /\ \A x \in Jobs : status'[x] = IF x = j THEN "queued" ELSE status[x]
    BY <1>1, ConstantFacts DEF ClientPost, TypeOK, Actors
  <2> QED
    BY <2>1, ConstantFacts DEF RunInv, HasJob, TypeOK
<1>2. ASSUME NEW c \in Clients, DropProxy(c)
      PROVE  RunInv'
  BY <1>2 DEF DropProxy, RunInv, HasJob, TypeOK, Actors
<1>3. ASSUME NEW c \in Clients, ClientLock(c)
      PROVE  RunInv'
  BY <1>3 DEF ClientLock, RunInv, HasJob, TypeOK, Actors
<1>4. ASSUME NEW c \in Clients, ClientUnlock(c)
      PROVE  RunInv'
  BY <1>4 DEF ClientUnlock, Release, RunInv, HasJob, TypeOK, Actors
<1>5. ASSUME NEW t \in Threads, TryPopHit(t)
      PROVE  RunInv'
  <2> DEFINE h == Head(queue)
  <2>1. /\ h \in Jobs /\ status[h] = "queued" /\ pc[t] = "try"
        /\ job' = [job EXCEPT ![t] = h] /\ status' = [status EXCEPT ![h] = "running"]
        /\ pc' = [pc EXCEPT ![t] = "job"]
    BY <1>5, HoldsTail DEF TryPopHit, TypeOK, QueueInv
  <2> HIDE DEF h
  <2>2. /\ \A u \in Threads : /\ job'[u] = IF u = t THEN h ELSE job[u]
                              /\ pc'[u] = IF u = t THEN "job" ELSE pc[u]
        /\ \A x \in Jobs : status'[x] = IF x = h THEN "running" ELSE status[x]
    BY <2>1 DEF TypeOK, Actors
  <2>3. /\ \A u \in Threads : job[u] # h /\ job[u] \in Jobs \cup {None}
        /\ h # None /\ job[t] = None
    BY <2>1, ConstantFacts DEF RunInv, HasJob, TypeOK
  <2>4. \A u \in Threads : pc'[u] \in {"job", "create", "return"} <=> job'[u] # None
    BY <2>2, <2>3 DEF RunInv, HasJob
  <2>5. \A u \in Threads : job'[u] # None => status'[job'[u]] = "running"
    BY <2>1, <2>2, <2>3 DEF RunInv
  <2>6. \A u, v \in Threads : u # v /\ job'[u] # None => job'[u] # job'[v]
    BY <2>2, <2>3 DEF RunInv
  <2>7. ASSUME NEW j \in Jobs, status'[j] = "running"
        PROVE  \E u \in Threads : job'[u] = j
    <3>1. CASE j = h
      BY <2>2, <3>1
    <3>2. CASE j # h
      <4>1. PICK u \in Threads : job[u] = j
        BY <2>2, <2>7, <3>2 DEF RunInv
      <4>2. u # t
        BY <2>3, <4>1, ConstantFacts
      <4> QED
        BY <2>2, <4>1, <4>2
    <3> QED
      BY <3>1, <3>2
  <2> QED
    BY <2>4, <2>5, <2>6, <2>7 DEF RunInv, HasJob
<1>6. ASSUME NEW t \in Threads, TryPopMiss(t)
      PROVE  RunInv'
  BY <1>6 DEF TryPopMiss, After, RunInv, HasJob, TypeOK, Actors
<1>7. ASSUME NEW t \in Threads, Fork(t)
      PROVE  RunInv'
  <2> DEFINE s == Subtask[job[t]]
  <2>1. job[t] \in Jobs /\ job[t] \in Unforked
    BY <1>7 DEF Fork, RunInv, HasJob, TypeOK, Unforked
  <2>2. s \in Jobs /\ status[s] = "new"
    BY <1>7, <2>1, WorkersAssumption DEF Fork, ForkInv
  <2>3. /\ \/ status' = [status EXCEPT ![s] = "queued"] /\ pc' = [pc EXCEPT ![t] = "create"]
           \/ status' = [status EXCEPT ![s] = "refused"] /\ pc' = [pc EXCEPT ![t] = "return"]
        /\ pc[t] = "job" /\ job' = job
    BY <1>7 DEF Fork
  <2> HIDE DEF s
  <2>4. /\ \A u \in Threads : HasJob(u) <=> pc'[u] \in {"job", "create", "return"}
        /\ \A x \in Jobs : status'[x] = "running" <=> status[x] = "running"
    BY <2>2, <2>3 DEF HasJob, TypeOK, Actors
  <2> QED
    BY <2>3, <2>4 DEF RunInv, HasJob, TypeOK
<1>8. ASSUME NEW t \in Threads, JobEnds(t)
      PROVE  RunInv'
  BY <1>8 DEF JobEnds, After, RunInv, HasJob, TypeOK, Actors
<1>9. ASSUME NEW t \in Threads, Private(t)
      PROVE  RunInv'
  BY <1>9 DEF Private, RunInv, HasJob, TypeOK, Actors
<1>10. ASSUME NEW t \in Threads, TestWorkerLoop(t)
       PROVE  RunInv'
  BY <1>10 DEF TestWorkerLoop, RunInv, HasJob, TypeOK, Actors
<1>11. ASSUME NEW t \in Threads, Collect(t)
       PROVE  RunInv'
  BY <1>11 DEF Collect, RunInv, HasJob, TypeOK, Actors
<1>12. ASSUME NEW t \in Threads, Remove(t)
       PROVE  RunInv'
  BY <1>12 DEF Remove, GroupFree, RunInv, HasJob, TypeOK, Actors
<1>13. ASSUME NEW t \in Threads, JoinOlder(t)
       PROVE  RunInv'
  BY <1>13 DEF JoinOlder, RunInv, HasJob, TypeOK, Actors
<1>14. ASSUME NEW t \in Threads, Finish(t)
       PROVE  RunInv'
  BY <1>14 DEF Finish, RunInv, HasJob, TypeOK, Actors
<1>15. ASSUME NEW a \in Actors, TryCreateThread(a)
       PROVE  RunInv'
  <2>1. created + 1 \in Threads /\ created \in Nat
    BY <1>15, RoomForThread DEF TryCreateThread
  <2>2. pc[created + 1] = "off" /\ pc[a] = "create" /\ job' = job /\ status' = status
    BY <1>15, <2>1 DEF TryCreateThread, PlaceInv, Created
  <2>3. \A u \in Threads : HasJob(u) <=> pc'[u] \in {"job", "create", "return"}
    BY <1>15, <2>1, <2>2 DEF TryCreateThread, HasJob, TypeOK, Actors
  <2> QED
    BY <2>2, <2>3 DEF RunInv, HasJob
<1>16. CASE GetWorker
  BY <1>16 DEF GetWorker, RunInv, HasJob, TypeOK, Actors
<1>17. CASE ResetScheduler
  BY <1>17 DEF ResetScheduler, Release, RunInv, HasJob, TypeOK, Actors
<1>18. CASE JoinAll
  BY <1>18 DEF JoinAll, RunInv, HasJob, TypeOK, Actors
<1>19. CASE UNCHANGED vars
  BY <1>19 DEF RunInv, HasJob
<1> QED
  BY <1>1, <1>2, <1>3, <1>4, <1>5, <1>6, <1>7, <1>8, <1>9, <1>10, <1>11, <1>12,
     <1>13, <1>14, <1>15, <1>16, <1>17, <1>18, <1>19
     DEF Next, Client, Thread, Terminated

\* Subtasks stay new that no step posts.
LEMMA ForkKept ==
  ASSUME ForkInv, Unforked' \cap Jobs \subseteq Unforked,
         \A p \in Unforked' \cap Jobs : \A s \in Jobs :
           Subtask[p] = s /\ status[s] = "new" => status'[s] = "new"
  PROVE  ForkInv'
<1> SUFFICES ASSUME NEW p \in Unforked' \cap Jobs, Subtask[p] # None
             PROVE  status'[Subtask[p]] = "new"
  BY DEF ForkInv
<1>1. Subtask[p] \in Jobs /\ status[Subtask[p]] = "new"
  BY WorkersAssumption DEF ForkInv
<1> QED
  BY <1>1

\* Every step keeps subtasks new that are not posted.
LEMMA ForkStep ==
  ASSUME TypeOK, PlaceInv, QueueInv, RunInv, ForkInv, CountInv, [Next]_vars
  PROVE  ForkInv'
<1> USE DEF poolVars, workVars, ownerVars, vars, Goto
<1>1. ASSUME NEW c \in Clients, NEW j \in Jobs, ClientPost(c, j)
      PROVE  ForkInv'
  <2>1. /\ j \in Roots /\ status[j] = "new" /\ job' = job
        /\ \A u \in Threads : pc'[u] = "job" => pc[u] = "job"
        /\ status' = [status EXCEPT ![j] = "queued"]
    BY <1>1 DEF ClientPost, TypeOK, Actors
  <2>2. Unforked' \subseteq Unforked
    BY <2>1 DEF Unforked, TypeOK
  <2>3. \A p \in Jobs : Subtask[p] # j
    BY <2>1 DEF Roots
  <2> QED
    BY <2>1, <2>2, <2>3, ForkKept DEF TypeOK
<1>2. ASSUME NEW c \in Clients, DropProxy(c)
      PROVE  ForkInv'
  <2>1. status' = status /\ job' = job /\ \A u \in Threads : pc'[u] = "job" => pc[u] = "job"
    BY <1>2 DEF DropProxy, TypeOK, Actors
  <2>2. Unforked' \subseteq Unforked
    BY <2>1 DEF Unforked
  <2> QED
    BY <2>1, <2>2, ForkKept
<1>3. ASSUME NEW c \in Clients, ClientLock(c)
      PROVE  ForkInv'
  <2>1. status' = status /\ job' = job /\ \A u \in Threads : pc'[u] = "job" => pc[u] = "job"
    BY <1>3 DEF ClientLock, TypeOK, Actors
  <2>2. Unforked' \subseteq Unforked
    BY <2>1 DEF Unforked
  <2> QED
    BY <2>1, <2>2, ForkKept
<1>4. ASSUME NEW c \in Clients, ClientUnlock(c)
      PROVE  ForkInv'
  <2>1. status' = status /\ job' = job /\ \A u \in Threads : pc'[u] = "job" => pc[u] = "job"
    BY <1>4 DEF ClientUnlock, Release, TypeOK, Actors
  <2>2. Unforked' \subseteq Unforked
    BY <2>1 DEF Unforked
  <2> QED
    BY <2>1, <2>2, ForkKept
<1>5. ASSUME NEW t \in Threads, TryPopHit(t)
      PROVE  ForkInv'
  <2> DEFINE h == Head(queue)
  <2>1. /\ h \in Jobs /\ status[h] = "queued"
        /\ job' = [job EXCEPT ![t] = h] /\ status' = [status EXCEPT ![h] = "running"]
        /\ pc' = [pc EXCEPT ![t] = "job"]
    BY <1>5, HoldsTail DEF TryPopHit, TypeOK, QueueInv
  <2> HIDE DEF h
  <2>2. \A u \in Threads : (job'[u] = job[u] /\ pc'[u] = pc[u]) \/ job'[u] = h
    BY <2>1 DEF TypeOK, Actors
  <2>3. /\ \A x \in Jobs : status'[x] \in {"new", "queued"} => status[x] \in {"new", "queued"}
        /\ \A x \in Jobs : status[x] = "new" => status'[x] = "new"
    BY <2>1 DEF TypeOK
  <2>4. h \in Unforked
    BY <2>1 DEF Unforked
  <2>5. Unforked' \subseteq Unforked
    BY <2>2, <2>3, <2>4 DEF Unforked
  <2> QED
    BY <2>3, <2>5, ForkKept
<1>6. ASSUME NEW t \in Threads, TryPopMiss(t)
      PROVE  ForkInv'
  <2>1. status' = status /\ job' = job /\ \A u \in Threads : pc'[u] = "job" => pc[u] = "job"
    BY <1>6 DEF TryPopMiss, After, TypeOK, Actors
  <2>2. Unforked' \subseteq Unforked
    BY <2>1 DEF Unforked
  <2> QED
    BY <2>1, <2>2, ForkKept
<1>7. ASSUME NEW t \in Threads, Fork(t)
      PROVE  ForkInv'
  <2> DEFINE s == Subtask[job[t]]
  <2>1. job[t] \in Jobs /\ job[t] \in Unforked /\ status[job[t]] = "running"
    BY <1>7 DEF Fork, RunInv, HasJob, TypeOK, Unforked
  <2>2. s \in Jobs /\ status[s] = "new"
    BY <1>7, <2>1, WorkersAssumption DEF Fork, ForkInv
  <2>3. /\ \/ status' = [status EXCEPT ![s] = "queued"] /\ pc' = [pc EXCEPT ![t] = "create"]
           \/ status' = [status EXCEPT ![s] = "refused"] /\ pc' = [pc EXCEPT ![t] = "return"]
        /\ pc[t] = "job" /\ job' = job
    BY <1>7 DEF Fork
  <2>4. \A p \in Jobs : p # job[t] => Subtask[p] # s
    BY <2>1, <2>2, WorkersAssumption, ConstantFacts
  <2> HIDE DEF s
  <2>5. /\ \A x \in Jobs : x # s => status'[x] = status[x]
        /\ pc'[t] # "job" /\ \A u \in Threads : pc'[u] = "job" => pc[u] = "job"
    BY <2>3 DEF TypeOK, Actors
  <2>6. Unforked' \subseteq Unforked
    BY <2>2, <2>3, <2>5 DEF Unforked
  <2>7. job[t] \notin Unforked'
    <3>1. \A u \in Threads : pc'[u] = "job" => job[u] # job[t]
      BY <2>1, <2>5, ConstantFacts DEF RunInv
    <3>2. status'[job[t]] = "running"
      BY <2>1, <2>2, <2>5
    <3> QED
      BY <2>3, <3>1, <3>2 DEF Unforked
  <2> QED
    BY <2>4, <2>5, <2>6, <2>7, ForkKept
<1>8. ASSUME NEW t \in Threads, JobEnds(t)
      PROVE  ForkInv'
  <2>1. job[t] \in Jobs /\ status[job[t]] = "running"
    BY <1>8 DEF JobEnds, RunInv, HasJob, TypeOK
  <2>2. /\ status' = [status EXCEPT ![job[t]] = "ended"]
        /\ pc'[t] # "job" /\ \A u \in Threads : u # t => job'[u] = job[u] /\ pc'[u] = pc[u]
    BY <1>8 DEF JobEnds, After, TypeOK, Actors
  <2>3. /\ \A x \in Jobs : status'[x] \in {"new", "queued"} => status[x] \in {"new", "queued"}
        /\ \A x \in Jobs : status[x] = "new" => status'[x] = "new"
    BY <2>1, <2>2 DEF TypeOK
  <2>4. Unforked' \subseteq Unforked
    BY <2>2, <2>3 DEF Unforked
  <2> QED
    BY <2>3, <2>4, ForkKept
<1>9. ASSUME NEW t \in Threads, Private(t)
      PROVE  ForkInv'
  <2>1. status' = status /\ job' = job /\ \A u \in Threads : pc'[u] = "job" => pc[u] = "job"
    BY <1>9 DEF Private, TypeOK, Actors
  <2>2. Unforked' \subseteq Unforked
    BY <2>1 DEF Unforked
  <2> QED
    BY <2>1, <2>2, ForkKept
<1>10. ASSUME NEW t \in Threads, TestWorkerLoop(t)
       PROVE  ForkInv'
  <2>1. status' = status /\ job' = job /\ \A u \in Threads : pc'[u] = "job" => pc[u] = "job"
    BY <1>10 DEF TestWorkerLoop, TypeOK, Actors
  <2>2. Unforked' \subseteq Unforked
    BY <2>1 DEF Unforked
  <2> QED
    BY <2>1, <2>2, ForkKept
<1>11. ASSUME NEW t \in Threads, Collect(t)
       PROVE  ForkInv'
  <2>1. status' = status /\ job' = job /\ \A u \in Threads : pc'[u] = "job" => pc[u] = "job"
    BY <1>11 DEF Collect, TypeOK, Actors
  <2>2. Unforked' \subseteq Unforked
    BY <2>1 DEF Unforked
  <2> QED
    BY <2>1, <2>2, ForkKept
<1>12. ASSUME NEW t \in Threads, Remove(t)
       PROVE  ForkInv'
  <2>1. status' = status /\ job' = job /\ \A u \in Threads : pc'[u] = "job" => pc[u] = "job"
    BY <1>12 DEF Remove, GroupFree, TypeOK, Actors
  <2>2. Unforked' \subseteq Unforked
    BY <2>1 DEF Unforked
  <2> QED
    BY <2>1, <2>2, ForkKept
<1>13. ASSUME NEW t \in Threads, JoinOlder(t)
       PROVE  ForkInv'
  <2>1. status' = status /\ job' = job /\ \A u \in Threads : pc'[u] = "job" => pc[u] = "job"
    BY <1>13 DEF JoinOlder, TypeOK, Actors
  <2>2. Unforked' \subseteq Unforked
    BY <2>1 DEF Unforked
  <2> QED
    BY <2>1, <2>2, ForkKept
<1>14. ASSUME NEW t \in Threads, Finish(t)
       PROVE  ForkInv'
  <2>1. status' = status /\ job' = job /\ \A u \in Threads : pc'[u] = "job" => pc[u] = "job"
    BY <1>14 DEF Finish, TypeOK, Actors
  <2>2. Unforked' \subseteq Unforked
    BY <2>1 DEF Unforked
  <2> QED
    BY <2>1, <2>2, ForkKept
<1>15. ASSUME NEW a \in Actors, TryCreateThread(a)
       PROVE  ForkInv'
  <2>1. created + 1 \in Threads
    BY <1>15, RoomForThread DEF TryCreateThread
  <2>2. status' = status /\ job' = job /\ \A u \in Threads : pc'[u] = "job" => pc[u] = "job"
    BY <1>15, <2>1 DEF TryCreateThread, TypeOK, Actors
  <2>3. Unforked' \subseteq Unforked
    BY <2>2 DEF Unforked
  <2> QED
    BY <2>2, <2>3, ForkKept
<1>16. CASE GetWorker
  <2>1. status' = status /\ job' = job /\ \A u \in Threads : pc'[u] = "job" => pc[u] = "job"
    BY <1>16 DEF GetWorker, TypeOK, Actors
  <2>2. Unforked' \subseteq Unforked
    BY <2>1 DEF Unforked
  <2> QED
    BY <2>1, <2>2, ForkKept
<1>17. CASE ResetScheduler
  <2>1. status' = status /\ job' = job /\ \A u \in Threads : pc'[u] = "job" => pc[u] = "job"
    BY <1>17 DEF ResetScheduler, Release, TypeOK, Actors
  <2>2. Unforked' \subseteq Unforked
    BY <2>1 DEF Unforked
  <2> QED
    BY <2>1, <2>2, ForkKept
<1>18. CASE JoinAll
  <2>1. status' = status /\ job' = job /\ \A u \in Threads : pc'[u] = "job" => pc[u] = "job"
    BY <1>18 DEF JoinAll, TypeOK, Actors
  <2>2. Unforked' \subseteq Unforked
    BY <2>1 DEF Unforked
  <2> QED
    BY <2>1, <2>2, ForkKept
<1>19. CASE UNCHANGED vars
  BY <1>19 DEF ForkInv, Unforked
<1> QED
  BY <1>1, <1>2, <1>3, <1>4, <1>5, <1>6, <1>7, <1>8, <1>9, <1>10, <1>11, <1>12,
     <1>13, <1>14, <1>15, <1>16, <1>17, <1>18, <1>19
     DEF Next, Client, Thread, Terminated

-----------------------------------------------------------------------------
(* Counting                                                                *)

\* Bounds of the counted sets.
LEMMA CountBounds ==
  /\ TypeOK => Created \subseteq Threads /\ Created \subseteq Actors
  /\ IsFiniteSet(Accepted) /\ Cardinality(Accepted) \in Nat
<1>1. TypeOK => Created \subseteq Threads /\ Created \subseteq Actors
  BY ConstantFacts DEF TypeOK, Created, Threads, Actors
<1>2. Accepted \subseteq Jobs
  BY DEF Accepted
<1> QED
  BY <1>1, <1>2, WorkersAssumption, FS_Subset, FS_CardinalityType

\* A step that neither posts nor creates nor ends a thread.
LEMMA CountKept ==
  ASSUME CountInv, created' = created, count' = count, Accepted' = Accepted,
         \A a \in Actors : pc'[a] = "create" <=> pc[a] = "create",
         \A t \in Created \ Permanent : pc'[t] \in {"insert", "end"} <=> pc[t] \in {"insert", "end"}
  PROVE  CountInv'
<1>1. Creating' = Creating
  BY DEF Creating
<1>2. Counted' = Counted
  BY DEF Counted, Created
<1> QED
  BY <1>1, <1>2 DEF CountInv

\* A job is accepted, and whoever posted it may create a thread.
LEMMA CountPost ==
  ASSUME TypeOK, CountInv, created' = created, count' = count, Counted' = Counted,
         NEW j \in Jobs, status[j] = "new", NEW to, to # "new", status' = [status EXCEPT ![j] = to],
         NEW a \in Actors, Creating' \in {Creating, Creating \cup {a}}
  PROVE  CountInv'
<1>1. Accepted' = Accepted \cup {j} /\ j \notin Accepted
  BY DEF Accepted, TypeOK
<1>2. IsFiniteSet(Accepted)
  <2>1. Accepted \subseteq Jobs
    BY DEF Accepted
  <2> QED
    BY <2>1, WorkersAssumption, FS_Subset
<1>3. Cardinality(Accepted') = Cardinality(Accepted) + 1 /\ Cardinality(Accepted) \in Nat
  BY <1>1, <1>2, FS_AddElement, FS_CardinalityType
<1>4. IsFiniteSet(Creating) /\ Cardinality(Creating) \in Nat
  BY FS_CardinalityType DEF CountInv
<1>5. /\ IsFiniteSet(Creating')
      /\ Cardinality(Creating') \in {Cardinality(Creating), Cardinality(Creating) + 1}
  <2>1. /\ IsFiniteSet(Creating \cup {a})
        /\ Cardinality(Creating \cup {a}) \in {Cardinality(Creating), Cardinality(Creating) + 1}
    BY <1>4, FS_AddElement
  <2>2. CASE Creating' = Creating
    BY <1>4, <2>2
  <2>3. CASE Creating' = Creating \cup {a}
    BY <2>1, <2>3
  <2> QED
    BY <2>2, <2>3
<1>6. created \in Nat
  BY ConstantFacts DEF TypeOK
<1> QED
  BY <1>3, <1>4, <1>5, <1>6, ConstantFacts DEF CountInv

\* Every step keeps the count, and the bound on the threads.
LEMMA CountStep ==
  ASSUME TypeOK, PlaceInv, QueueInv, RunInv, ForkInv, CountInv, [Next]_vars
  PROVE  CountInv'
<1> USE DEF poolVars, workVars, ownerVars, vars, Goto
<1>1. ASSUME NEW c \in Clients, NEW j \in Jobs, ClientPost(c, j)
      PROVE  CountInv'
  <2>1. /\ created' = created /\ count' = count
        /\ status[j] = "new" /\ status' = [status EXCEPT ![j] = "queued"]
    BY <1>1 DEF ClientPost
  <2>2. c \in Actors /\ c \notin Threads
    BY ConstantFacts DEF Actors
  <2>3. /\ \A b \in Actors : pc'[b] = "create" <=> pc[b] = "create" \/ b = c
        /\ \A u \in Threads : pc'[u] = pc[u]
    BY <1>1, <2>2 DEF ClientPost, TypeOK, Actors
  <2>4. Creating' = Creating \cup {c}
    BY <2>2, <2>3 DEF Creating
  <2>5. Counted' = Counted
    BY <2>1, <2>3, CountBounds DEF Counted, Created
  <2> QED
    BY <2>1, <2>2, <2>4, <2>5, CountPost
<1>2. ASSUME NEW c \in Clients, DropProxy(c)
      PROVE  CountInv'
  <2>1. /\ created' = created /\ count' = count /\ Accepted' = Accepted
        /\ \A b \in Actors : pc'[b] = "create" <=> pc[b] = "create"
        /\ \A u \in Created \ Permanent : pc'[u] \in {"insert", "end"} <=> pc[u] \in {"insert", "end"}
    BY <1>2 DEF DropProxy, TypeOK, Actors, Created, PlaceInv, Accepted
  <2> QED
    BY <2>1, CountKept
<1>3. ASSUME NEW c \in Clients, ClientLock(c)
      PROVE  CountInv'
  <2>1. /\ created' = created /\ count' = count /\ Accepted' = Accepted
        /\ \A b \in Actors : pc'[b] = "create" <=> pc[b] = "create"
        /\ \A u \in Created \ Permanent : pc'[u] \in {"insert", "end"} <=> pc[u] \in {"insert", "end"}
    BY <1>3 DEF ClientLock, TypeOK, Actors, Created, PlaceInv, Accepted
  <2> QED
    BY <2>1, CountKept
<1>4. ASSUME NEW c \in Clients, ClientUnlock(c)
      PROVE  CountInv'
  <2>1. /\ created' = created /\ count' = count /\ Accepted' = Accepted
        /\ \A b \in Actors : pc'[b] = "create" <=> pc[b] = "create"
        /\ \A u \in Created \ Permanent : pc'[u] \in {"insert", "end"} <=> pc[u] \in {"insert", "end"}
    BY <1>4 DEF ClientUnlock, Release, TypeOK, Actors, Created, PlaceInv, Accepted
  <2> QED
    BY <2>1, CountKept
<1>5. ASSUME NEW t \in Threads, TryPopHit(t)
      PROVE  CountInv'
  <2>1. Head(queue) \in Jobs /\ status[Head(queue)] = "queued"
    BY <1>5, HoldsTail DEF TryPopHit, TypeOK, QueueInv
  <2>2. /\ created' = created /\ count' = count
        /\ \A b \in Actors : pc'[b] = "create" <=> pc[b] = "create"
        /\ \A u \in Created \ Permanent : pc'[u] \in {"insert", "end"} <=> pc[u] \in {"insert", "end"}
    BY <1>5 DEF TryPopHit, TypeOK, Actors, Created
  <2>3. Accepted' = Accepted
    BY <1>5, <2>1 DEF TryPopHit, TypeOK, Accepted
  <2> QED
    BY <2>2, <2>3, CountKept
<1>6. ASSUME NEW t \in Threads, TryPopMiss(t)
      PROVE  CountInv'
  <2>1. /\ created' = created /\ count' = count /\ Accepted' = Accepted
        /\ \A b \in Actors : pc'[b] = "create" <=> pc[b] = "create"
        /\ \A u \in Created \ Permanent : pc'[u] \in {"insert", "end"} <=> pc[u] \in {"insert", "end"}
    BY <1>6 DEF TryPopMiss, After, TypeOK, Actors, Created, PlaceInv, Accepted
  <2> QED
    BY <2>1, CountKept
<1>7. ASSUME NEW t \in Threads, Fork(t)
      PROVE  CountInv'
  <2> DEFINE s == Subtask[job[t]]
  <2>1. job[t] \in Jobs /\ job[t] \in Unforked
    BY <1>7 DEF Fork, RunInv, HasJob, TypeOK, Unforked
  <2>2. s \in Jobs /\ status[s] = "new"
    BY <1>7, <2>1, WorkersAssumption DEF Fork, ForkInv
  <2>3. /\ \/ status' = [status EXCEPT ![s] = "queued"] /\ pc' = [pc EXCEPT ![t] = "create"]
           \/ status' = [status EXCEPT ![s] = "refused"] /\ pc' = [pc EXCEPT ![t] = "return"]
        /\ pc[t] = "job" /\ created' = created /\ count' = count
    BY <1>7 DEF Fork
  <2>4. t \in Actors
    BY DEF Actors
  <2> HIDE DEF s
  <2>5. Creating' = Creating \cup {t} \/ Creating' = Creating
    BY <2>3, <2>4 DEF Creating, TypeOK
  <2>6. Counted' = Counted
    <3>1. \A u \in Created : u # t => pc'[u] = pc[u]
      BY <2>3, CountBounds DEF TypeOK
    <3>2. pc[t] = "job" /\ pc'[t] \in {"create", "return"}
      BY <2>3, <2>4 DEF TypeOK
    <3> QED
      BY <2>3, <3>1, <3>2 DEF Counted, Created
  <2> QED
    BY <2>2, <2>3, <2>4, <2>5, <2>6, CountPost
<1>8. ASSUME NEW t \in Threads, JobEnds(t)
      PROVE  CountInv'
  <2>1. job[t] \in Jobs /\ status[job[t]] = "running"
    BY <1>8 DEF JobEnds, RunInv, HasJob, TypeOK
  <2>2. /\ created' = created /\ count' = count
        /\ \A b \in Actors : pc'[b] = "create" <=> pc[b] = "create"
        /\ \A u \in Created \ Permanent : pc'[u] \in {"insert", "end"} <=> pc[u] \in {"insert", "end"}
    BY <1>8 DEF JobEnds, After, TypeOK, Actors, Created
  <2>3. Accepted' = Accepted
    BY <1>8, <2>1 DEF JobEnds, TypeOK, Accepted
  <2> QED
    BY <2>2, <2>3, CountKept
<1>9. ASSUME NEW t \in Threads, Private(t)
      PROVE  CountInv'
  <2>1. /\ created' = created /\ count' = count /\ Accepted' = Accepted
        /\ \A b \in Actors : pc'[b] = "create" <=> pc[b] = "create"
        /\ \A u \in Created \ Permanent : pc'[u] \in {"insert", "end"} <=> pc[u] \in {"insert", "end"}
    BY <1>9 DEF Private, TypeOK, Actors, Created, PlaceInv, Accepted
  <2> QED
    BY <2>1, CountKept
<1>10. ASSUME NEW t \in Threads, TestWorkerLoop(t)
       PROVE  CountInv'
  <2>1. /\ created' = created /\ count' = count /\ Accepted' = Accepted
        /\ \A b \in Actors : pc'[b] = "create" <=> pc[b] = "create"
        /\ \A u \in Created \ Permanent : pc'[u] \in {"insert", "end"} <=> pc[u] \in {"insert", "end"}
    BY <1>10 DEF TestWorkerLoop, TypeOK, Actors, Created, PlaceInv, Accepted
  <2> QED
    BY <2>1, CountKept
<1>11. ASSUME NEW t \in Threads, Collect(t)
       PROVE  CountInv'
  <2>1. /\ created' = created /\ count' = count /\ Accepted' = Accepted
        /\ \A b \in Actors : pc'[b] = "create" <=> pc[b] = "create"
        /\ \A u \in Created \ Permanent : pc'[u] \in {"insert", "end"} <=> pc[u] \in {"insert", "end"}
    BY <1>11 DEF Collect, TypeOK, Actors, Created, PlaceInv, Accepted
  <2> QED
    BY <2>1, CountKept
<1>12. ASSUME NEW t \in Threads, Remove(t)
       PROVE  CountInv'
  <2>1. /\ created' = created /\ count' = count /\ status' = status /\ pc[t] = "remove"
        /\ \/ pc' = [pc EXCEPT ![t] = "finish"]
           \/ pc' = [pc EXCEPT ![t] = "join"]
    BY <1>12 DEF Remove
  <2>2. /\ \A b \in Actors : pc'[b] = "create" <=> pc[b] = "create"
        /\ \A u \in Created \ Permanent : pc'[u] \in {"insert", "end"} <=> pc[u] \in {"insert", "end"}
    BY <2>1, CountBounds DEF TypeOK
  <2>3. Accepted' = Accepted
    BY <2>1 DEF Accepted
  <2> QED
    BY <2>1, <2>2, <2>3, CountKept
<1>13. ASSUME NEW t \in Threads, JoinOlder(t)
       PROVE  CountInv'
  <2>1. /\ created' = created /\ count' = count /\ Accepted' = Accepted
        /\ \A b \in Actors : pc'[b] = "create" <=> pc[b] = "create"
        /\ \A u \in Created \ Permanent : pc'[u] \in {"insert", "end"} <=> pc[u] \in {"insert", "end"}
    BY <1>13 DEF JoinOlder, TypeOK, Actors, Created, PlaceInv, Accepted
  <2> QED
    BY <2>1, CountKept
<1>14. ASSUME NEW t \in Threads, Finish(t)
       PROVE  CountInv'
  <2>1. CASE pc[t] = "finish"
    <3>1. /\ count' = count - 1 /\ created' = created /\ status' = status
          /\ pc' = [pc EXCEPT ![t] = "insert"]
      BY <1>14, <2>1 DEF Finish
    <3>2. t \in Created /\ t \notin Permanent /\ t \in Counted
      BY <2>1 DEF PlaceInv, Leaving, Counted
    <3>3. Counted' = Counted \ {t}
      BY <3>1, <3>2 DEF Counted, Created, TypeOK, Actors
    <3>4. Cardinality(Counted') = Cardinality(Counted) - 1
      BY <3>2, <3>3, CountedFinite, FS_RemoveElement
    <3>5. Creating' = Creating /\ Accepted' = Accepted
      BY <2>1, <3>1 DEF Creating, Accepted, TypeOK
    <3> QED
      BY <3>1, <3>4, <3>5 DEF CountInv
  <2>2. CASE pc[t] = "insert"
    <3>1. /\ created' = created /\ count' = count /\ status' = status
          /\ pc' = [pc EXCEPT ![t] = "end"]
      BY <1>14, <2>2 DEF Finish
    <3>2. /\ \A b \in Actors : pc'[b] = "create" <=> pc[b] = "create"
          /\ \A u \in Created \ Permanent : pc'[u] \in {"insert", "end"} <=> pc[u] \in {"insert", "end"}
      BY <2>2, <3>1 DEF TypeOK, Actors
    <3>3. Accepted' = Accepted
      BY <3>1 DEF Accepted
    <3> QED
      BY <3>1, <3>2, <3>3, CountKept
  <2> QED
    BY <1>14, <2>1, <2>2 DEF Finish
<1>15. ASSUME NEW a \in Actors, TryCreateThread(a)
       PROVE  CountInv'
  <2>1. created + 1 \in Threads /\ created \in Nat
    BY <1>15, RoomForThread DEF TryCreateThread
  <2>2. created + 1 \notin Created /\ created + 1 \notin Permanent /\ created + 1 # a
    BY <1>15, <2>1, ConstantFacts DEF TryCreateThread, Created, Permanent, CountInv, PlaceInv
  <2>3. pc[a] = "create" /\ status' = status
    BY <1>15 DEF TryCreateThread
  <2>4. \A b \in Actors : pc'[b] = "create" <=> pc[b] = "create" /\ b # a
    BY <1>15, <2>1, <2>2 DEF TryCreateThread, TypeOK, Actors, PlaceInv, Created
  <2>5. Creating' = Creating \ {a} /\ a \in Creating
    BY <2>3, <2>4 DEF Creating
  <2>6. /\ IsFiniteSet(Creating') /\ Cardinality(Creating') = Cardinality(Creating) - 1
        /\ Cardinality(Creating) \in Nat
    BY <2>5, FS_RemoveElement, FS_CardinalityType DEF CountInv
  <2>7. Accepted' = Accepted
    BY <2>3 DEF Accepted
  <2>8. CASE ThreadNeeded
    <3>1. created' = created + 1 /\ count' = count + 1
      BY <1>15, <2>8 DEF TryCreateThread
    <3>2. /\ pc'[created + 1] = "try"
          /\ \A b \in Threads : b # created + 1 =>
               pc'[b] = IF b = a THEN "return" ELSE pc[b]
      BY <1>15, <2>1, <2>2, <2>8 DEF TryCreateThread, TypeOK, Actors
    <3>3. 1 .. created + 1 = Created \cup {created + 1} /\ Created \subseteq Threads
      BY <2>1, ConstantFacts DEF Created, Threads, TypeOK
    <3>4. Counted' = Counted \cup {created + 1} /\ created + 1 \notin Counted
      BY <2>1, <2>2, <2>3, <3>1, <3>2, <3>3 DEF Counted, Created
    <3>5. Cardinality(Counted') = Cardinality(Counted) + 1
      BY <3>4, CountedFinite, FS_AddElement
    <3> QED
      BY <2>1, <2>6, <2>7, <3>1, <3>5, ConstantFacts, FS_CardinalityType, WorkersAssumption
         DEF CountInv
  <2>9. CASE ~ThreadNeeded
    <3>1. created' = created /\ count' = count
      BY <1>15, <2>9 DEF TryCreateThread
    <3>2. \A b \in Threads : pc'[b] = IF b = a THEN "return" ELSE pc[b]
      BY <1>15, <2>9 DEF TryCreateThread, TypeOK, Actors
    <3>3. Created \subseteq Threads
      BY <2>1, ConstantFacts DEF Created, Threads, TypeOK
    <3>4. Counted' = Counted
      BY <2>3, <3>1, <3>2, <3>3 DEF Counted, Created
    <3> QED
      BY <2>1, <2>6, <2>7, <3>1, <3>4, ConstantFacts, CountBounds DEF CountInv
  <2> QED
    BY <2>8, <2>9
<1>16. CASE GetWorker
  <2>1. /\ created' = created /\ count' = count /\ Accepted' = Accepted
        /\ \A b \in Actors : pc'[b] = "create" <=> pc[b] = "create"
        /\ \A u \in Created \ Permanent : pc'[u] \in {"insert", "end"} <=> pc[u] \in {"insert", "end"}
    BY <1>16 DEF GetWorker, TypeOK, Actors, Created, PlaceInv, Accepted
  <2> QED
    BY <2>1, CountKept
<1>17. CASE ResetScheduler
  <2>1. /\ created' = created /\ count' = count /\ Accepted' = Accepted
        /\ \A b \in Actors : pc'[b] = "create" <=> pc[b] = "create"
        /\ \A u \in Created \ Permanent : pc'[u] \in {"insert", "end"} <=> pc[u] \in {"insert", "end"}
    BY <1>17 DEF ResetScheduler, Release, TypeOK, Actors, Created, PlaceInv, Accepted
  <2> QED
    BY <2>1, CountKept
<1>18. CASE JoinAll
  <2>1. /\ created' = created /\ count' = count /\ Accepted' = Accepted
        /\ \A b \in Actors : pc'[b] = "create" <=> pc[b] = "create"
        /\ \A u \in Created \ Permanent : pc'[u] \in {"insert", "end"} <=> pc[u] \in {"insert", "end"}
    BY <1>18 DEF JoinAll, TypeOK, Actors, Created, PlaceInv, Accepted
  <2> QED
    BY <2>1, CountKept
<1>19. CASE UNCHANGED vars
  BY <1>19 DEF CountInv, Counted, Creating, Accepted, Created
<1> QED
  BY <1>1, <1>2, <1>3, <1>4, <1>5, <1>6, <1>7, <1>8, <1>9, <1>10, <1>11, <1>12,
     <1>13, <1>14, <1>15, <1>16, <1>17, <1>18, <1>19
     DEF Next, Client, Thread, Terminated

-----------------------------------------------------------------------------
(* The thread group                                                        *)

\* A step that leaves the group alone and moves no thread that joins or has ended.
LEMMA GroupKept ==
  ASSUME TypeOK, GroupInv, UNCHANGED <<created, group, doneSet, toJoin>>,
         \A t \in Threads : pc[t] \in {"remove", "join", "end"} => pc'[t] = pc[t],
         \A t \in Threads : pc'[t] \in {"remove", "join"} => pc'[t] = pc[t]
  PROVE  GroupInv'
<1>1. doneSet \subseteq Threads /\ \A t \in Threads : toJoin[t] \subseteq Threads
  BY CountBounds DEF TypeOK
<1>2. /\ Permanent \subseteq group' /\ doneSet' \subseteq group'
      /\ \A t \in 1 .. created' : pc'[t] # "end" => t \in group'
  BY CountBounds DEF GroupInv, Created
<1>3. \A t \in doneSet' : pc'[t] = "end" /\ t \notin Permanent
  BY <1>1 DEF GroupInv
<1>4. \A t \in Threads : toJoin'[t] # {} => pc'[t] \in {"remove", "join"}
  BY DEF GroupInv
<1>5. \A t \in Threads : \A u \in toJoin'[t] :
        pc'[u] = "end" /\ u \notin Permanent \cup doneSet' /\ (pc'[t] = "remove" => u \in group')
  BY <1>1 DEF GroupInv
<1> QED
  BY <1>2, <1>3, <1>4, <1>5 DEF GroupInv, Created

\* Every step keeps the threads in the group until they are joined.
LEMMA GroupStep ==
  ASSUME TypeOK, PlaceInv, RunInv, CountInv, GroupInv, [Next]_vars
  PROVE  GroupInv'
<1> USE DEF poolVars, workVars, ownerVars, vars, Goto
<1>1. ASSUME NEW c \in Clients, NEW j \in Jobs, ClientPost(c, j)
      PROVE  GroupInv'
  <2>1. /\ UNCHANGED <<created, group, doneSet, toJoin>>
        /\ \A u \in Threads : pc[u] \in {"remove", "join", "end"} => pc'[u] = pc[u]
        /\ \A u \in Threads : pc'[u] \in {"remove", "join"} => pc'[u] = pc[u]
    BY <1>1 DEF ClientPost, TypeOK, Actors
  <2> QED
    BY <2>1, GroupKept
<1>2. ASSUME NEW c \in Clients, DropProxy(c)
      PROVE  GroupInv'
  <2>1. /\ UNCHANGED <<created, group, doneSet, toJoin>>
        /\ \A u \in Threads : pc[u] \in {"remove", "join", "end"} => pc'[u] = pc[u]
        /\ \A u \in Threads : pc'[u] \in {"remove", "join"} => pc'[u] = pc[u]
    BY <1>2 DEF DropProxy, TypeOK, Actors
  <2> QED
    BY <2>1, GroupKept
<1>3. ASSUME NEW c \in Clients, ClientLock(c)
      PROVE  GroupInv'
  <2>1. /\ UNCHANGED <<created, group, doneSet, toJoin>>
        /\ \A u \in Threads : pc[u] \in {"remove", "join", "end"} => pc'[u] = pc[u]
        /\ \A u \in Threads : pc'[u] \in {"remove", "join"} => pc'[u] = pc[u]
    BY <1>3 DEF ClientLock, TypeOK, Actors
  <2> QED
    BY <2>1, GroupKept
<1>4. ASSUME NEW c \in Clients, ClientUnlock(c)
      PROVE  GroupInv'
  <2>1. /\ UNCHANGED <<created, group, doneSet, toJoin>>
        /\ \A u \in Threads : pc[u] \in {"remove", "join", "end"} => pc'[u] = pc[u]
        /\ \A u \in Threads : pc'[u] \in {"remove", "join"} => pc'[u] = pc[u]
    BY <1>4 DEF ClientUnlock, Release, TypeOK, Actors
  <2> QED
    BY <2>1, GroupKept
<1>5. ASSUME NEW t \in Threads, TryPopHit(t)
      PROVE  GroupInv'
  <2>1. /\ UNCHANGED <<created, group, doneSet, toJoin>>
        /\ \A u \in Threads : pc[u] \in {"remove", "join", "end"} => pc'[u] = pc[u]
        /\ \A u \in Threads : pc'[u] \in {"remove", "join"} => pc'[u] = pc[u]
    BY <1>5 DEF TryPopHit, TypeOK, Actors
  <2> QED
    BY <2>1, GroupKept
<1>6. ASSUME NEW t \in Threads, TryPopMiss(t)
      PROVE  GroupInv'
  <2>1. /\ UNCHANGED <<created, group, doneSet, toJoin>>
        /\ \A u \in Threads : pc[u] \in {"remove", "join", "end"} => pc'[u] = pc[u]
        /\ \A u \in Threads : pc'[u] \in {"remove", "join"} => pc'[u] = pc[u]
    BY <1>6 DEF TryPopMiss, After, TypeOK, Actors
  <2> QED
    BY <2>1, GroupKept
<1>7. ASSUME NEW t \in Threads, Fork(t)
      PROVE  GroupInv'
  <2>1. /\ UNCHANGED <<created, group, doneSet, toJoin>>
        /\ \A u \in Threads : pc[u] \in {"remove", "join", "end"} => pc'[u] = pc[u]
        /\ \A u \in Threads : pc'[u] \in {"remove", "join"} => pc'[u] = pc[u]
    BY <1>7 DEF Fork, TypeOK, Actors
  <2> QED
    BY <2>1, GroupKept
<1>8. ASSUME NEW t \in Threads, JobEnds(t)
      PROVE  GroupInv'
  <2>1. /\ UNCHANGED <<created, group, doneSet, toJoin>>
        /\ \A u \in Threads : pc[u] \in {"remove", "join", "end"} => pc'[u] = pc[u]
        /\ \A u \in Threads : pc'[u] \in {"remove", "join"} => pc'[u] = pc[u]
    BY <1>8 DEF JobEnds, After, TypeOK, Actors
  <2> QED
    BY <2>1, GroupKept
<1>9. ASSUME NEW t \in Threads, Private(t)
      PROVE  GroupInv'
  <2>1. /\ UNCHANGED <<created, group, doneSet, toJoin>>
        /\ \A u \in Threads : pc[u] \in {"remove", "join", "end"} => pc'[u] = pc[u]
        /\ \A u \in Threads : pc'[u] \in {"remove", "join"} => pc'[u] = pc[u]
    BY <1>9 DEF Private, TypeOK, Actors
  <2> QED
    BY <2>1, GroupKept
<1>10. ASSUME NEW t \in Threads, TestWorkerLoop(t)
       PROVE  GroupInv'
  <2>1. /\ UNCHANGED <<created, group, doneSet, toJoin>>
        /\ \A u \in Threads : pc[u] \in {"remove", "join", "end"} => pc'[u] = pc[u]
        /\ \A u \in Threads : pc'[u] \in {"remove", "join"} => pc'[u] = pc[u]
    BY <1>10 DEF TestWorkerLoop, TypeOK, Actors
  <2> QED
    BY <2>1, GroupKept
<1>11. ASSUME NEW t \in Threads, Collect(t)
       PROVE  GroupInv'
  <2>1. /\ UNCHANGED <<created, group>> /\ doneSet' = {} /\ pc[t] = "collect"
        /\ toJoin' = [toJoin EXCEPT ![t] = doneSet] /\ pc' = [pc EXCEPT ![t] = "remove"]
    BY <1>11 DEF Collect
  <2>2. /\ \A u \in Threads : /\ pc'[u] = IF u = t THEN "remove" ELSE pc[u]
                              /\ toJoin'[u] = IF u = t THEN doneSet ELSE toJoin[u]
        /\ doneSet \subseteq Threads /\ \A u \in Threads : toJoin[u] \subseteq Threads
    BY <2>1, CountBounds DEF TypeOK, Actors
  <2>3. /\ Permanent \subseteq group' /\ doneSet' \subseteq group'
        /\ \A u \in 1 .. created' : pc'[u] # "end" => u \in group'
    BY <2>1, <2>2, CountBounds DEF GroupInv, Created
  <2>4. \A u \in Threads : toJoin'[u] # {} => pc'[u] \in {"remove", "join"}
    BY <2>2 DEF GroupInv
  <2>5. \A u \in Threads : \A x \in toJoin'[u] :
          pc'[x] = "end" /\ x \notin Permanent \cup doneSet' /\ (pc'[u] = "remove" => x \in group')
    BY <2>1, <2>2 DEF GroupInv
  <2>6. \A u, v \in Threads : u # v => toJoin'[u] \cap toJoin'[v] = {}
    BY <2>2 DEF GroupInv
  <2> QED
    BY <2>1, <2>3, <2>4, <2>5, <2>6 DEF GroupInv, Created
<1>12. ASSUME NEW t \in Threads, Remove(t)
       PROVE  GroupInv'
  <2>1. UNCHANGED <<created, doneSet>> /\ pc[t] = "remove"
    BY <1>12 DEF Remove
  <2>2. doneSet \subseteq Threads /\ \A u \in Threads : toJoin[u] \subseteq Threads
    BY CountBounds DEF TypeOK
  <2>3. CASE joining
    <3>1. group' = group /\ toJoin' = [toJoin EXCEPT ![t] = {}] /\ pc' = [pc EXCEPT ![t] = "finish"]
      BY <1>12, <2>3 DEF Remove
    <3>2. \A u \in Threads : /\ pc'[u] = IF u = t THEN "finish" ELSE pc[u]
                             /\ toJoin'[u] = IF u = t THEN {} ELSE toJoin[u]
      BY <3>1 DEF TypeOK, Actors
    <3>3. \A u \in 1 .. created' : pc'[u] # "end" => u \in group'
      BY <2>1, <3>1, <3>2, CountBounds DEF GroupInv, Created
    <3>4. \A u \in doneSet' : pc'[u] = "end" /\ u \notin Permanent
      BY <2>1, <2>2, <3>2 DEF GroupInv
    <3>5. \A u \in Threads : toJoin'[u] # {} => pc'[u] \in {"remove", "join"}
      BY <3>2 DEF GroupInv
    <3>6. \A u \in Threads : \A x \in toJoin'[u] :
            pc'[x] = "end" /\ x \notin Permanent \cup doneSet' /\ (pc'[u] = "remove" => x \in group')
      BY <2>1, <2>2, <3>1, <3>2 DEF GroupInv
    <3>7. \A u, v \in Threads : u # v => toJoin'[u] \cap toJoin'[v] = {}
      BY <3>2 DEF GroupInv
    <3> QED
      BY <2>1, <3>1, <3>3, <3>4, <3>5, <3>6, <3>7 DEF GroupInv, Created
  <2>4. CASE ~joining
    <3>1. group' = group \ toJoin[t] /\ toJoin' = toJoin /\ pc' = [pc EXCEPT ![t] = "join"]
      BY <1>12, <2>4 DEF Remove
    <3>2. \A u \in Threads : pc'[u] = IF u = t THEN "join" ELSE pc[u]
      BY <3>1 DEF TypeOK, Actors
    <3>3. /\ \A u \in toJoin[t] : pc[u] = "end" /\ u \notin Permanent \cup doneSet /\ u \in Threads
          /\ \A u \in Threads : u # t => toJoin[u] \cap toJoin[t] = {}
      BY <2>2 DEF GroupInv
    <3>4. Permanent \subseteq group' /\ doneSet' \subseteq group'
      BY <2>1, <3>1, <3>3 DEF GroupInv
    <3>5. \A u \in 1 .. created' : pc'[u] # "end" => u \in group'
      BY <2>1, <3>1, <3>2, <3>3, CountBounds DEF GroupInv, Created
    <3>6. \A u \in doneSet' : pc'[u] = "end" /\ u \notin Permanent
      BY <2>1, <2>2, <3>2 DEF GroupInv
    <3>7. \A u \in Threads : toJoin'[u] # {} => pc'[u] \in {"remove", "join"}
      BY <3>1, <3>2 DEF GroupInv
    <3>8. \A u \in Threads : \A x \in toJoin'[u] :
            pc'[x] = "end" /\ x \notin Permanent \cup doneSet' /\ (pc'[u] = "remove" => x \in group')
      BY <2>1, <2>2, <3>1, <3>2, <3>3 DEF GroupInv
    <3> QED
      BY <2>1, <3>1, <3>4, <3>5, <3>6, <3>7, <3>8 DEF GroupInv, Created
  <2> QED
    BY <2>3, <2>4
<1>13. ASSUME NEW t \in Threads, JoinOlder(t)
       PROVE  GroupInv'
  <2>1. /\ UNCHANGED <<created, group, doneSet>> /\ pc[t] = "join"
        /\ toJoin' = [toJoin EXCEPT ![t] = {}] /\ pc' = [pc EXCEPT ![t] = "finish"]
    BY <1>13 DEF JoinOlder
  <2>2. /\ \A u \in Threads : /\ pc'[u] = IF u = t THEN "finish" ELSE pc[u]
                              /\ toJoin'[u] = IF u = t THEN {} ELSE toJoin[u]
        /\ doneSet \subseteq Threads /\ \A u \in Threads : toJoin[u] \subseteq Threads
    BY <2>1, CountBounds DEF TypeOK, Actors
  <2>3. \A u \in 1 .. created' : pc'[u] # "end" => u \in group'
    BY <2>1, <2>2, CountBounds DEF GroupInv, Created
  <2>4. \A u \in doneSet' : pc'[u] = "end" /\ u \notin Permanent
    BY <2>1, <2>2 DEF GroupInv
  <2>5. \A u \in Threads : toJoin'[u] # {} => pc'[u] \in {"remove", "join"}
    BY <2>2 DEF GroupInv
  <2>6. \A u \in Threads : \A x \in toJoin'[u] :
          pc'[x] = "end" /\ x \notin Permanent \cup doneSet' /\ (pc'[u] = "remove" => x \in group')
    BY <2>1, <2>2 DEF GroupInv
  <2>7. \A u, v \in Threads : u # v => toJoin'[u] \cap toJoin'[v] = {}
    BY <2>2 DEF GroupInv
  <2> QED
    BY <2>1, <2>3, <2>4, <2>5, <2>6, <2>7 DEF GroupInv, Created
<1>14. ASSUME NEW t \in Threads, Finish(t)
       PROVE  GroupInv'
  <2>1. CASE pc[t] = "finish"
    <3>1. /\ UNCHANGED <<created, group, doneSet, toJoin>> /\ pc' = [pc EXCEPT ![t] = "insert"]
      BY <1>14, <2>1 DEF Finish
    <3> QED
      BY <2>1, <3>1, GroupKept DEF TypeOK, Actors
  <2>2. CASE pc[t] = "insert"
    <3>1. /\ UNCHANGED <<created, group, toJoin>> /\ pc' = [pc EXCEPT ![t] = "end"]
          /\ doneSet' = doneSet \cup {t}
      BY <1>14, <2>2 DEF Finish
    <3>2. \A u \in Threads : pc'[u] = IF u = t THEN "end" ELSE pc[u]
      BY <3>1 DEF TypeOK, Actors
    <3>3. t \in group /\ t \notin Permanent
      BY <2>2 DEF PlaceInv, Leaving, GroupInv
    <3>4. doneSet \subseteq Threads /\ \A u \in Threads : toJoin[u] \subseteq Threads /\ t \notin toJoin[u]
      BY <2>2, CountBounds DEF TypeOK, GroupInv
    <3>5. \A u \in 1 .. created' : pc'[u] # "end" => u \in group'
      BY <3>1, <3>2, CountBounds DEF GroupInv, Created
    <3>6. \A u \in doneSet' : pc'[u] = "end" /\ u \notin Permanent
      BY <3>1, <3>2, <3>3, <3>4 DEF GroupInv
    <3>7. \A u \in Threads : toJoin'[u] # {} => pc'[u] \in {"remove", "join"}
      BY <2>2, <3>1, <3>2 DEF GroupInv
    <3>8. \A u \in Threads : \A x \in toJoin'[u] :
            pc'[x] = "end" /\ x \notin Permanent \cup doneSet' /\ (pc'[u] = "remove" => x \in group')
      BY <3>1, <3>2, <3>4 DEF GroupInv
    <3> QED
      BY <3>1, <3>3, <3>5, <3>6, <3>7, <3>8 DEF GroupInv, Created
  <2> QED
    BY <1>14, <2>1, <2>2 DEF Finish
<1>15. ASSUME NEW a \in Actors, TryCreateThread(a)
       PROVE  GroupInv'
  <2>1. created + 1 \in Threads /\ created \in Nat
    BY <1>15, RoomForThread DEF TryCreateThread
  <2>2. pc[created + 1] = "off" /\ pc[a] = "create" /\ UNCHANGED <<doneSet, toJoin>>
    BY <1>15, <2>1 DEF TryCreateThread, PlaceInv, Created
  <2>3. /\ \A u \in Threads : pc[u] \notin {"off", "create"} => pc'[u] = pc[u]
        /\ \A u \in Threads : pc[u] \in {"off", "create"} => pc'[u] \in {"off", "create", "return", "try"}
    BY <1>15, <2>1, <2>2 DEF TryCreateThread, TypeOK, Actors
  <2>4. CASE ThreadNeeded
    <3>1. created' = created + 1 /\ group' = group \cup {created + 1}
      BY <1>15, <2>4 DEF TryCreateThread
    <3>2. \A u \in 1 .. created' : u \in Created \/ u = created + 1
      BY <2>1, <3>1 DEF Created
    <3>3. doneSet \subseteq Threads /\ \A u \in Threads : toJoin[u] \subseteq Threads
      BY CountBounds DEF TypeOK
    <3>4. \A u \in 1 .. created' : pc'[u] # "end" => u \in group'
      BY <2>1, <2>3, <3>1, <3>2, CountBounds DEF GroupInv
    <3>5. \A u \in Threads : \A x \in toJoin'[u] :
            pc'[x] = "end" /\ x \notin Permanent \cup doneSet' /\ (pc'[u] = "remove" => x \in group')
      BY <2>2, <2>3, <3>1, <3>3 DEF GroupInv
    <3>6. \A u \in Threads : toJoin'[u] # {} => pc'[u] \in {"remove", "join"}
      BY <2>2, <2>3 DEF GroupInv
    <3>7. \A u \in doneSet' : pc'[u] = "end" /\ u \notin Permanent
      BY <2>2, <2>3, <3>3 DEF GroupInv
    <3> QED
      BY <2>2, <3>1, <3>4, <3>5, <3>6, <3>7 DEF GroupInv, Created
  <2>5. CASE ~ThreadNeeded
    <3>1. created' = created /\ group' = group
      BY <1>15, <2>5 DEF TryCreateThread
    <3> QED
      BY <2>2, <2>3, <3>1, GroupKept
  <2> QED
    BY <2>4, <2>5
<1>16. CASE GetWorker
  <2>1. /\ UNCHANGED <<created, group, doneSet, toJoin>>
        /\ \A u \in Threads : pc[u] \in {"remove", "join", "end"} => pc'[u] = pc[u]
        /\ \A u \in Threads : pc'[u] \in {"remove", "join"} => pc'[u] = pc[u]
    BY <1>16 DEF GetWorker, TypeOK, Actors
  <2> QED
    BY <2>1, GroupKept
<1>17. CASE ResetScheduler
  <2>1. /\ UNCHANGED <<created, group, doneSet, toJoin>>
        /\ \A u \in Threads : pc[u] \in {"remove", "join", "end"} => pc'[u] = pc[u]
        /\ \A u \in Threads : pc'[u] \in {"remove", "join"} => pc'[u] = pc[u]
    BY <1>17 DEF ResetScheduler, Release, TypeOK, Actors
  <2> QED
    BY <2>1, GroupKept
<1>18. CASE JoinAll
  <2>1. /\ UNCHANGED <<created, group, doneSet, toJoin>>
        /\ \A u \in Threads : pc[u] \in {"remove", "join", "end"} => pc'[u] = pc[u]
        /\ \A u \in Threads : pc'[u] \in {"remove", "join"} => pc'[u] = pc[u]
    BY <1>18 DEF JoinAll, TypeOK, Actors
  <2> QED
    BY <2>1, GroupKept
<1>19. CASE UNCHANGED vars
  BY <1>19 DEF GroupInv, Created
<1> QED
  BY <1>1, <1>2, <1>3, <1>4, <1>5, <1>6, <1>7, <1>8, <1>9, <1>10, <1>11, <1>12,
     <1>13, <1>14, <1>15, <1>16, <1>17, <1>18, <1>19
     DEF Next, Client, Thread, Terminated

-----------------------------------------------------------------------------
(* Owners                                                                  *)

\* Every step keeps the owners, and what follows when none is left.
LEMMA OwnerStep ==
  ASSUME TypeOK, PlaceInv, RunInv, CountInv, GroupInv, OwnerInv, [Next]_vars
  PROVE  OwnerInv'
<1> USE DEF poolVars, workVars, ownerVars, vars, Goto
<1>1. ASSUME NEW c \in Clients, NEW j \in Jobs, ClientPost(c, j)
      PROVE  OwnerInv'
  BY <1>1, ConstantFacts DEF ClientPost, OwnerInv, Closed, TypeOK, Actors, PlaceInv, Leaving
<1>2. ASSUME NEW c \in Clients, DropProxy(c)
      PROVE  OwnerInv'
  BY <1>2, ConstantFacts DEF DropProxy, OwnerInv, Closed, TypeOK, Actors, PlaceInv, Leaving
<1>3. ASSUME NEW c \in Clients, ClientLock(c)
      PROVE  OwnerInv'
  BY <1>3, ConstantFacts DEF ClientLock, OwnerInv, Closed, TypeOK, Actors, PlaceInv, Leaving
<1>4. ASSUME NEW c \in Clients, ClientUnlock(c)
      PROVE  OwnerInv'
  BY <1>4, ConstantFacts DEF ClientUnlock, Release, OwnerInv, Closed, TypeOK, Actors, PlaceInv, Leaving
<1>5. ASSUME NEW t \in Threads, TryPopHit(t)
      PROVE  OwnerInv'
  BY <1>5, ConstantFacts DEF TryPopHit, OwnerInv, Closed, TypeOK, Actors, PlaceInv, Leaving
<1>6. ASSUME NEW t \in Threads, TryPopMiss(t)
      PROVE  OwnerInv'
  BY <1>6, ConstantFacts DEF TryPopMiss, After, OwnerInv, Closed, TypeOK, Actors, PlaceInv, Leaving
<1>7. ASSUME NEW t \in Threads, Fork(t)
      PROVE  OwnerInv'
  BY <1>7, ConstantFacts DEF Fork, OwnerInv, Closed, TypeOK, Actors, PlaceInv, Leaving
<1>8. ASSUME NEW t \in Threads, JobEnds(t)
      PROVE  OwnerInv'
  BY <1>8, ConstantFacts DEF JobEnds, After, OwnerInv, Closed, TypeOK, Actors, PlaceInv, Leaving
<1>9. ASSUME NEW t \in Threads, Private(t)
      PROVE  OwnerInv'
  BY <1>9, ConstantFacts DEF Private, OwnerInv, Closed, TypeOK, Actors, PlaceInv, Leaving
<1>10. ASSUME NEW t \in Threads, TestWorkerLoop(t)
       PROVE  OwnerInv'
  BY <1>10, ConstantFacts DEF TestWorkerLoop, OwnerInv, Closed, TypeOK, Actors, PlaceInv, Leaving
<1>11. ASSUME NEW t \in Threads, Collect(t)
       PROVE  OwnerInv'
  BY <1>11, ConstantFacts DEF Collect, OwnerInv, Closed, TypeOK, Actors, PlaceInv, Leaving
<1>12. ASSUME NEW t \in Threads, Remove(t)
       PROVE  OwnerInv'
  BY <1>12, ConstantFacts DEF Remove, GroupFree, OwnerInv, Closed, TypeOK, Actors, PlaceInv, Leaving
<1>13. ASSUME NEW t \in Threads, JoinOlder(t)
       PROVE  OwnerInv'
  BY <1>13, ConstantFacts DEF JoinOlder, OwnerInv, Closed, TypeOK, Actors, PlaceInv, Leaving
<1>14. ASSUME NEW t \in Threads, Finish(t)
       PROVE  OwnerInv'
  BY <1>14, ConstantFacts DEF Finish, OwnerInv, Closed, TypeOK, Actors, PlaceInv, Leaving
<1>15. ASSUME NEW a \in Actors, TryCreateThread(a)
       PROVE  OwnerInv'
  <2>1. created + 1 \in Threads /\ created \in Nat
    BY <1>15, RoomForThread DEF TryCreateThread
  <2>2. pc[created + 1] = "off" /\ pc[a] = "create"
    BY <1>15, <2>1 DEF TryCreateThread, PlaceInv, Created
  <2>3. UNCHANGED <<queue, implRef, held, closing, draining>>
    BY <1>15 DEF TryCreateThread, Release
  <2>4. created + 1 \notin Permanent /\ created + 1 \notin Clients
    BY <2>1, ConstantFacts DEF CountInv, Permanent
  <2>5. /\ \A c \in Clients : pc'[c] = "create" => pc[c] = "create" /\ c # a
        /\ \A t \in Permanent : pc[t] = "end" <=> pc'[t] = "end"
    BY <1>15, <2>1, <2>2, <2>4, ConstantFacts DEF TryCreateThread, TypeOK, Actors
  <2>6. /\ locks' \subseteq locks
        /\ \A c \in Clients : c \in locks => c \in locks'
        /\ told' # {} => Closed' \/ told # {}
        /\ locks = {} => locks' = {}
    <3>1. CASE a \in Threads
      BY <1>15, <3>1, ConstantFacts DEF TryCreateThread, Release, Closed
    <3>2. CASE a \notin Threads
      BY <1>15, <3>2 DEF TryCreateThread
    <3> QED
      BY <3>1, <3>2
  <2> QED
    BY <2>3, <2>5, <2>6 DEF OwnerInv, Closed
<1>16. CASE GetWorker
  BY <1>16, ConstantFacts DEF GetWorker, OwnerInv, Closed, TypeOK, Actors, PlaceInv, Leaving
<1>17. CASE ResetScheduler
  BY <1>17, ConstantFacts DEF ResetScheduler, Release, OwnerInv, Closed, TypeOK, Actors, PlaceInv, Leaving
<1>18. CASE JoinAll
  <2>1. /\ closing = "join" /\ closing' = "joined" /\ \A t \in Permanent : pc[t] = "end"
        /\ UNCHANGED <<queue, pc, draining, told, held, implRef, locks>>
    BY <1>18 DEF JoinAll, GroupInv
  <2> QED
    BY <2>1 DEF OwnerInv, Closed
<1>19. CASE UNCHANGED vars
  BY <1>19 DEF OwnerInv, Closed
<1> QED
  BY <1>1, <1>2, <1>3, <1>4, <1>5, <1>6, <1>7, <1>8, <1>9, <1>10, <1>11, <1>12,
     <1>13, <1>14, <1>15, <1>16, <1>17, <1>18, <1>19
     DEF Next, Client, Thread, Terminated

-----------------------------------------------------------------------------
(* Threads and jobs                                                        *)

\* The pool starts with its permanent workers, idle clients and new jobs.
LEMMA InitFacts == Init => TypeOK /\ PoolInv
<1> SUFFICES ASSUME Init
             PROVE  TypeOK /\ PoolInv
  OBVIOUS
<1>1. Created = Permanent /\ Permanent \subseteq Threads /\ IsFiniteSet(Permanent)
  <2>1. IsFiniteSet(1 .. MinWorkers)
    <3>1. MinWorkers \in Nat /\ 1 \in Int
      BY ConstantFacts
    <3> QED
      BY <3>1, FS_Interval
  <2> QED
    BY <2>1, ConstantFacts DEF Init, Created, Permanent
<1>2. /\ \A c \in Clients : pc[c] = "idle"
      /\ \A t \in Permanent : pc[t] = "try"
      /\ \A t \in Threads \ Permanent : pc[t] = "off"
  BY <1>1, ConstantFacts DEF Init, Actors
<1>3. TypeOK
  <2>1. created \in 0 .. Cardinality(Threads) /\ count \in 0 .. MaxWorkers
    BY ConstantFacts DEF Init
  <2>2. queue \in Seq(Jobs)
    BY DEF Init
  <2>3. group \subseteq Created /\ doneSet \subseteq Created
    BY <1>1 DEF Init
  <2> QED
    BY <2>1, <2>2, <2>3 DEF Init, TypeOK
<1>4. PlaceInv
  BY <1>1, <1>2, ConstantFacts DEF Init, PlaceInv, Leaving
<1>5. QueueInv
  BY DEF Init, QueueInv, Holds
<1>6. RunInv
  BY <1>2, ConstantFacts DEF Init, RunInv, HasJob
<1>7. ForkInv
  BY WorkersAssumption DEF Init, ForkInv
<1>8. CountInv
  <2>1. Counted = 1 .. MinWorkers
    BY <1>1 DEF Counted, Permanent
  <2>2. Cardinality(1 .. MinWorkers) = MinWorkers
    <3>1. MinWorkers \in Nat /\ 1 \in Int
      BY ConstantFacts
    <3> QED
      BY <3>1, FS_Interval
  <2>3. Creating = {}
    BY <1>2 DEF Creating, Actors
  <2>4. Accepted = {}
    BY DEF Accepted, Init
  <2>5. Cardinality({}) = 0 /\ IsFiniteSet({})
    BY FS_EmptySet
  <2> QED
    BY <2>1, <2>2, <2>3, <2>4, <2>5, ConstantFacts DEF Init, CountInv
<1>9. GroupInv
  BY <1>1, <1>2 DEF Init, GroupInv
<1>10. OwnerInv
  BY <1>2 DEF Init, OwnerInv, Closed
<1> QED
  BY <1>3, <1>4, <1>5, <1>6, <1>7, <1>8, <1>9, <1>10 DEF PoolInv

\* The types, and where threads and jobs are, in every reachable state.
THEOREM PoolCorrect == Spec => [](TypeOK /\ PoolInv)
<1>1. Init => TypeOK /\ PoolInv
  BY InitFacts
<1>2. TypeOK /\ PoolInv /\ [Next]_vars => (TypeOK /\ PoolInv)'
  BY TypeStep, PlaceStep, QueueStep, RunStep, ForkStep, CountStep, GroupStep, OwnerStep
  DEF PoolInv
<1> QED
  BY <1>1, <1>2, PTL DEF Spec

\* No more threads than the maximum execute jobs, and the one that takes ended
\* threads out of the group is their only owner (thread_finished, cleanup_threads).
THEOREM AllThreadsAccountedFor == Spec => []ThreadsAccountedFor
<1>1. TypeOK /\ PoolInv => ThreadsAccountedFor
  <2> SUFFICES ASSUME TypeOK, PoolInv
               PROVE  ThreadsAccountedFor
    OBVIOUS
  <2>1. WorkersBounded
    <3> DEFINE W == {t \in Created : pc[t] \notin {"insert", "end"}}
    <3>1. W \subseteq Counted
      BY DEF Counted
    <3>2. Cardinality(W) <= Cardinality(Counted) /\ Cardinality(W) \in Nat
      BY <3>1, CountedFinite, FS_Subset, FS_CardinalityType
    <3>3. Cardinality(Counted) = count /\ count \in 0 .. MaxWorkers
      BY DEF PoolInv, CountInv, TypeOK
    <3>4. Cardinality(W) <= MaxWorkers
      BY <3>2, <3>3, ConstantFacts
    <3> QED
      BY <3>4 DEF WorkersBounded
  <2>2. ThreadOwnedOnce
    BY CountBounds DEF ThreadOwnedOnce, PoolInv, GroupInv
  <2> QED
    BY <2>1, <2>2 DEF ThreadsAccountedFor
<1> QED
  BY <1>1, PoolCorrect, PTL

-----------------------------------------------------------------------------
(* The pool as a JobPool                                                   *)

\* The status of one job changes, and nothing else that the pool shows.
LEMMA OneJobMoves ==
  ASSUME TypeOK, NEW j \in Jobs, NEW to, NEW from,
         status' = [status EXCEPT ![j] = to], UNCHANGED <<Closed, AllEnded>>,
         IF status[j] = "queued" THEN from = "posted" ELSE from = status[j],
         NEW seen, IF to = "queued" THEN seen = "posted" ELSE seen = to
  PROVE  Pool!Move(j, from, seen)
<1>1. PoolState[j] = from
  BY DEF PoolState
<1>2. \A i \in Jobs : status'[i] = IF i = j THEN to ELSE status[i]
  BY DEF TypeOK
<1>3. PoolState' = [i \in Jobs |-> IF status'[i] = "queued" THEN "posted" ELSE status'[i]]
  BY DEF PoolState
<1>4. [PoolState EXCEPT ![j] = seen] =
        [i \in Jobs |-> IF i = j THEN seen
                        ELSE IF status[i] = "queued" THEN "posted" ELSE status[i]]
  BY DEF PoolState
<1>5. \A i \in Jobs : (IF status'[i] = "queued" THEN "posted" ELSE status'[i]) =
                      IF i = j THEN seen ELSE IF status[i] = "queued" THEN "posted" ELSE status[i]
  BY <1>2
<1>6. PoolState' = [PoolState EXCEPT ![j] = seen]
  BY <1>3, <1>4, <1>5
<1> QED
  BY <1>1, <1>6 DEF Pool!Move

\* A scheduler that nobody owns is never owned again.
LEMMA ClosedForEver == [Next]_vars /\ Closed => Closed'
<1> USE DEF Closed, Release, vars, ownerVars
<1> SUFFICES ASSUME [Next]_vars, Closed
             PROVE  Closed'
  OBVIOUS
<1>1. CASE \E c \in Clients : Client(c)
  BY <1>1 DEF Client, DropProxy, ClientLock, ClientUnlock, ClientPost
<1>2. CASE \E t \in Threads : Thread(t)
  <2> SUFFICES ASSUME NEW t \in Threads, Thread(t)
               PROVE  UNCHANGED <<implRef, locks>>
    BY <1>2
  <2>1. CASE Fork(t)
    BY <2>1 DEF Fork
  <2>2. CASE Private(t) \/ JobEnds(t) \/ TryPopHit(t) \/ TryPopMiss(t) \/ TestWorkerLoop(t)
    BY <2>2 DEF Private, JobEnds, TryPopHit, TryPopMiss, TestWorkerLoop
  <2>3. CASE Collect(t) \/ Remove(t) \/ JoinOlder(t) \/ Finish(t)
    BY <2>3 DEF Collect, Remove, JoinOlder, Finish
  <2> QED
    BY <2>1, <2>2, <2>3 DEF Thread
<1>3. CASE \E a \in Actors : TryCreateThread(a)
  BY <1>3 DEF TryCreateThread
<1>4. CASE GetWorker \/ ResetScheduler \/ JoinAll
  BY <1>4 DEF GetWorker, ResetScheduler, JoinAll
<1> QED
  BY <1>1, <1>2, <1>3, <1>4 DEF Next, Terminated

\* A step that changes no job and does not complete the shutdown.
LEMMA StepOfOwners ==
  ASSUME [Next]_vars, status' = status, AllEnded' = AllEnded
  PROVE  [Pool!Next]_Pool!vars
<1>1. PoolState' = PoolState
  BY DEF PoolState
<1>2. CASE Closed' <=> Closed
  <2>1. Closed' = Closed
    BY <1>2 DEF Closed
  <2> QED
    BY <1>1, <2>1 DEF Pool!vars
<1>3. CASE ~(Closed' <=> Closed)
  <2>1. ~Closed /\ Closed' = TRUE
    BY <1>3, ClosedForEver DEF Closed
  <2>2. Pool!Close
    BY <1>1, <2>1 DEF Pool!Close
  <2> QED
    BY <2>2 DEF Pool!Next
<1> QED
  BY <1>2, <1>3

\* When all threads have ended, or are about to be entered in m_done_threads,
\* nobody owns the scheduler and no job waits or runs.
LEMMA NothingLeft ==
  ASSUME TypeOK, PoolInv, MinWorkers >= 1, \A t \in Created : pc[t] \in {"insert", "end"}
  PROVE  Closed /\ \A j \in Jobs : status[j] \notin {"queued", "running"}
<1>1. 1 \in Permanent /\ 1 \in Created
  BY ConstantFacts DEF Permanent, Created, PoolInv, CountInv, TypeOK
<1>2. pc[1] = "end"
  BY <1>1 DEF PoolInv, PlaceInv, Leaving
<1>3. Closed /\ queue = <<>>
  BY <1>1, <1>2 DEF PoolInv, OwnerInv
<1>4. \A j \in Jobs : status[j] # "queued"
  BY <1>3 DEF PoolInv, QueueInv, Holds
<1>5. \A t \in Threads : ~HasJob(t)
  BY DEF PoolInv, PlaceInv, HasJob
<1>6. \A j \in Jobs : status[j] # "running"
  BY <1>5, WorkersAssumption DEF PoolInv, RunInv
<1> QED
  BY <1>3, <1>4, <1>6

\* The shutdown completes.
LEMMA StepOfJoin ==
  ASSUME TypeOK, PoolInv, MinWorkers >= 1, \A t \in Created : pc[t] \in {"insert", "end"},
         AllEnded', UNCHANGED <<status, implRef, locks>>
  PROVE  [Pool!Next]_Pool!vars
<1>1. Closed /\ \A j \in Jobs : PoolState[j] \notin {"posted", "running"}
  BY NothingLeft DEF PoolState, TypeOK
<1>2. PoolState' = PoolState /\ Closed' = Closed /\ AllEnded' = TRUE
  BY DEF PoolState, Closed, AllEnded
<1>3. Pool!Join
  BY <1>1, <1>2 DEF Pool!Join
<1> QED
  BY <1>3 DEF Pool!Next

\* A thread of the pool that runs after a step keeps the shutdown from having
\* completed.
LEMMA StillRunning ==
  ASSUME TypeOK, PlaceInv, NEW t \in Threads, pc[t] \notin {"off", "end"},
         pc'[t] # "end", created' = created
  PROVE  AllEnded' = AllEnded
  BY DEF PlaceInv, AllEnded, Created

\* Every step of the pool is one of JobPool, or changes nothing that it shows.
LEMMA PoolStep ==
  ASSUME MinWorkers >= 1, TypeOK, PoolInv, [Next]_vars
  PROVE  [Pool!Next]_Pool!vars
<1> USE DEF poolVars, workVars, ownerVars, vars, Goto
<1>1. ASSUME NEW c \in Clients, NEW j \in Jobs, ClientPost(c, j)
      PROVE  [Pool!Next]_Pool!vars
  <2>1. ~Closed /\ UNCHANGED <<Closed, AllEnded>>
    BY <1>1, ConstantFacts DEF ClientPost, Closed, AllEnded, Created, TypeOK, Actors, PoolInv, OwnerInv
  <2>2. Pool!Move(j, "new", "posted")
    BY <1>1, <2>1, OneJobMoves DEF ClientPost
  <2> QED
    BY <2>1, <2>2 DEF Pool!Post, Pool!Next
<1>2. ASSUME NEW c \in Clients, DropProxy(c)
      PROVE  [Pool!Next]_Pool!vars
  <2>1. AllEnded' = AllEnded
    BY <1>2 DEF DropProxy, AllEnded, Created, PoolInv, OwnerInv
  <2> QED
    BY <1>2, <2>1, StepOfOwners DEF DropProxy
<1>3. ASSUME NEW c \in Clients, ClientLock(c)
      PROVE  [Pool!Next]_Pool!vars
  <2>1. AllEnded' = AllEnded
    BY <1>3 DEF ClientLock, AllEnded, Created
  <2> QED
    BY <1>3, <2>1, StepOfOwners DEF ClientLock
<1>4. ASSUME NEW c \in Clients, ClientUnlock(c)
      PROVE  [Pool!Next]_Pool!vars
  <2>1. AllEnded' = AllEnded
    BY <1>4 DEF ClientUnlock, AllEnded, Created
  <2> QED
    BY <1>4, <2>1, StepOfOwners DEF ClientUnlock
<1>5. ASSUME NEW t \in Threads, TryPopHit(t)
      PROVE  [Pool!Next]_Pool!vars
  <2>1. Head(queue) \in Jobs /\ status[Head(queue)] = "queued"
    BY <1>5, HoldsTail DEF TryPopHit, TypeOK, PoolInv, QueueInv
  <2>2. UNCHANGED <<Closed, AllEnded>>
    BY <1>5, StillRunning DEF TryPopHit, Closed, TypeOK, Actors, PoolInv
  <2>3. Pool!Move(Head(queue), "posted", "running")
    BY <1>5, <2>1, <2>2, OneJobMoves DEF TryPopHit
  <2> QED
    BY <2>1, <2>3 DEF Pool!Start, Pool!Next
<1>6. ASSUME NEW t \in Threads, TryPopMiss(t)
      PROVE  [Pool!Next]_Pool!vars
  <2>1. closing = "joined" => t \notin Permanent
    BY <1>6 DEF TryPopMiss, PoolInv, OwnerInv
  <2>2. closing = "joined" => pc'[t] # "end"
    BY <1>6, <2>1 DEF TryPopMiss, After, TypeOK, Actors
  <2>3. AllEnded' = AllEnded
    <3>1. CASE closing = "joined"
      BY <1>6, <2>2, <3>1, StillRunning DEF TryPopMiss, PoolInv
    <3>2. CASE closing # "joined"
      BY <1>6, <3>2 DEF TryPopMiss, AllEnded
    <3> QED
      BY <3>1, <3>2
  <2> QED
    BY <1>6, <2>3, StepOfOwners DEF TryPopMiss
<1>7. ASSUME NEW t \in Threads, Fork(t)
      PROVE  [Pool!Next]_Pool!vars
  <2> DEFINE s == Subtask[job[t]]
  <2>1. job[t] \in Jobs /\ s \in Jobs
    <3>1. job[t] \in Jobs
      BY <1>7 DEF Fork, PoolInv, RunInv, HasJob, TypeOK
    <3> QED
      BY <1>7, <3>1, WorkersAssumption DEF Fork
  <2>2. status[s] = "new"
    <3>1. job[t] \in Unforked \cap Jobs
      BY <1>7, <2>1 DEF Fork, Unforked
    <3> QED
      BY <1>7, <3>1 DEF Fork, PoolInv, ForkInv
  <2>3. AllEnded' = AllEnded
    BY <1>7, StillRunning DEF Fork, TypeOK, Actors, PoolInv
  <2>4. CASE ~Closed
    <3>1. status' = [status EXCEPT ![s] = "queued"] /\ Closed' = Closed
      BY <1>7, <2>4 DEF Fork, Closed
    <3>2. Pool!Move(s, "new", "posted")
      BY <2>1, <2>2, <2>3, <3>1, OneJobMoves
    <3> QED
      BY <2>1, <2>4, <3>2 DEF Pool!Post, Pool!Next
  <2>5. CASE Closed
    <3>1. status' = [status EXCEPT ![s] = "refused"] /\ Closed' = Closed
      BY <1>7, <2>5 DEF Fork, Closed
    <3>2. {s} \in SUBSET {j \in Jobs : PoolState[j] = "new"}
      BY <2>1, <2>2 DEF PoolState
    <3>3. \A j \in Jobs : (IF status'[j] = "queued" THEN "posted" ELSE status'[j]) =
                          IF j \in {s} THEN "refused" ELSE PoolState[j]
      BY <3>1 DEF TypeOK, PoolState
    <3>4. PoolState' = [j \in Jobs |-> IF j \in {s} THEN "refused" ELSE PoolState[j]]
      BY <3>3 DEF PoolState
    <3>5. Pool!Refuse
      BY <2>3, <2>5, <3>1, <3>2, <3>4 DEF Pool!Refuse
    <3> QED
      BY <3>5 DEF Pool!Next
  <2> QED
    BY <2>4, <2>5
<1>8. ASSUME NEW t \in Threads, JobEnds(t)
      PROVE  [Pool!Next]_Pool!vars
  <2>1. job[t] \in Jobs /\ status[job[t]] = "running"
    BY <1>8 DEF JobEnds, PoolInv, RunInv, HasJob, TypeOK
  <2>2. UNCHANGED <<Closed, AllEnded>>
    BY <1>8, StillRunning DEF JobEnds, After, Closed, TypeOK, Actors, PoolInv
  <2>3. Pool!Move(job[t], "running", "ended")
    BY <1>8, <2>1, <2>2, OneJobMoves DEF JobEnds
  <2> QED
    BY <2>1, <2>3 DEF Pool!End, Pool!Next
<1>9. ASSUME NEW t \in Threads, Private(t)
      PROVE  [Pool!Next]_Pool!vars
  <2>1. AllEnded' = AllEnded
    BY <1>9, StillRunning DEF Private, TypeOK, Actors, PoolInv
  <2> QED
    BY <1>9, <2>1, StepOfOwners DEF Private
<1>10. ASSUME NEW t \in Threads, TestWorkerLoop(t)
       PROVE  [Pool!Next]_Pool!vars
  <2>1. AllEnded' = AllEnded
    BY <1>10, StillRunning DEF TestWorkerLoop, TypeOK, Actors, PoolInv
  <2> QED
    BY <1>10, <2>1, StepOfOwners DEF TestWorkerLoop
<1>11. ASSUME NEW t \in Threads, Collect(t)
       PROVE  [Pool!Next]_Pool!vars
  <2>1. AllEnded' = AllEnded
    BY <1>11, StillRunning DEF Collect, TypeOK, Actors, PoolInv
  <2> QED
    BY <1>11, <2>1, StepOfOwners DEF Collect
<1>12. ASSUME NEW t \in Threads, Remove(t)
       PROVE  [Pool!Next]_Pool!vars
  <2>1. AllEnded' = AllEnded
    BY <1>12, StillRunning DEF Remove, TypeOK, Actors, PoolInv
  <2> QED
    BY <1>12, <2>1, StepOfOwners DEF Remove
<1>13. ASSUME NEW t \in Threads, JoinOlder(t)
       PROVE  [Pool!Next]_Pool!vars
  <2>1. AllEnded' = AllEnded
    BY <1>13, StillRunning DEF JoinOlder, TypeOK, Actors, PoolInv
  <2> QED
    BY <1>13, <2>1, StepOfOwners DEF JoinOlder
<1>14. ASSUME NEW t \in Threads, Finish(t)
       PROVE  [Pool!Next]_Pool!vars
  <2>1. status' = status /\ created' = created
    BY <1>14 DEF Finish
  <2>2. CASE pc[t] = "finish"
    <3>1. AllEnded' = AllEnded
      BY <1>14, <2>1, <2>2, StillRunning DEF Finish, TypeOK, Actors, PoolInv
    <3> QED
      BY <2>1, <3>1, StepOfOwners
  <2>3. CASE pc[t] = "insert" /\ AllEnded'
    <3>1. \A u \in Created : pc[u] \in {"insert", "end"}
      BY <1>14, <2>1, <2>3, CountBounds DEF Finish, AllEnded, Created, TypeOK, Actors
    <3>2. UNCHANGED <<status, implRef, locks>>
      BY <1>14 DEF Finish
    <3> QED
      BY <2>3, <3>1, <3>2, StepOfJoin
  <2>4. CASE pc[t] = "insert" /\ ~AllEnded'
    <3>1. t \in Created
      BY <2>4 DEF PoolInv, PlaceInv
    <3>2. AllEnded' = AllEnded
      BY <2>4, <3>1 DEF AllEnded
    <3> QED
      BY <2>1, <3>2, StepOfOwners
  <2> QED
    BY <1>14, <2>2, <2>3, <2>4 DEF Finish
<1>15. ASSUME NEW a \in Actors, TryCreateThread(a)
       PROVE  [Pool!Next]_Pool!vars
  <2>1. created + 1 \in Threads /\ created \in Nat
    BY <1>15, RoomForThread DEF TryCreateThread, PoolInv
  <2>2. pc[a] = "create" /\ UNCHANGED <<status, closing, held>>
    BY <1>15 DEF TryCreateThread
  <2>3. ~AllEnded
    <3>1. SUFFICES ASSUME AllEnded
                   PROVE  FALSE
      OBVIOUS
    <3>2. Closed /\ held = {}
      BY <3>1, NothingLeft DEF AllEnded, PoolInv, OwnerInv
    <3>3. a \in Threads
      BY <2>2, <3>2 DEF Actors, PoolInv, OwnerInv, Closed
    <3> QED
      BY <2>2, <3>1, <3>3 DEF AllEnded, PoolInv, PlaceInv
  <2>4. ~AllEnded'
    <3>1. CASE ThreadNeeded
      <4>1. created' = created + 1 /\ created + 1 \in 1 .. created' /\ pc'[created + 1] = "try"
        BY <1>15, <2>1, <3>1 DEF TryCreateThread, TypeOK, Actors
      <4> QED
        BY <4>1 DEF AllEnded, Created
    <3>2. CASE ~ThreadNeeded
      <4>1. created' = created
            /\ pc' = [pc EXCEPT ![a] = IF a \in Threads THEN "return" ELSE "idle"]
        BY <1>15, <3>2 DEF TryCreateThread
      <4>2. \A u \in Created : pc'[u] = "end" => pc[u] = "end"
        BY <4>1, CountBounds DEF TypeOK
      <4> QED
        BY <2>2, <2>3, <4>1, <4>2 DEF AllEnded, Created
    <3> QED
      BY <3>1, <3>2
  <2>5. AllEnded' = AllEnded
    BY <2>3, <2>4 DEF AllEnded
  <2> QED
    BY <2>2, <2>5, StepOfOwners
<1>16. CASE GetWorker
  <2>1. AllEnded' = AllEnded
    BY <1>16 DEF GetWorker, AllEnded
  <2> QED
    BY <1>16, <2>1, StepOfOwners DEF GetWorker
<1>17. CASE ResetScheduler
  <2>1. AllEnded' = AllEnded
    BY <1>17 DEF ResetScheduler, AllEnded
  <2> QED
    BY <1>17, <2>1, StepOfOwners DEF ResetScheduler
<1>18. CASE JoinAll
  <2>1. UNCHANGED <<status, implRef, locks, pc, created>>
    BY <1>18 DEF JoinAll
  <2>2. CASE AllEnded'
    <3>1. \A u \in Created : pc[u] \in {"insert", "end"}
      BY <2>1, <2>2 DEF AllEnded, Created
    <3> QED
      BY <2>1, <2>2, <3>1, StepOfJoin
  <2>3. CASE ~AllEnded'
    <3>1. AllEnded' = AllEnded
      BY <1>18, <2>3 DEF JoinAll, AllEnded
    <3> QED
      BY <2>1, <3>1, StepOfOwners
  <2> QED
    BY <2>2, <2>3
<1>19. CASE UNCHANGED vars
  <2>1. status' = status /\ AllEnded' = AllEnded
    BY <1>19 DEF AllEnded, Created
  <2> QED
    BY <2>1, StepOfOwners
<1> QED
  BY <1>1, <1>2, <1>3, <1>4, <1>5, <1>6, <1>7, <1>8, <1>9, <1>10, <1>11, <1>12,
     <1>13, <1>14, <1>15, <1>16, <1>17, <1>18, <1>19
     DEF Next, Client, Thread, Terminated

\* With a permanent worker the pool keeps the promises of JobPool: in particular
\* every thread has ended when the last owner has joined them.  (Without one a
\* job may stay in the queue when the destructor returns.)
THEOREM ImplementsJobPool ==
  ASSUME MinWorkers >= 1
  PROVE  Spec => RefinesJobPool
<1>1. Init => Pool!Init
  BY DEF Init, Pool!Init, PoolState, Closed, AllEnded
<1>2. TypeOK /\ PoolInv /\ [Next]_vars => [Pool!Next]_Pool!vars
  BY PoolStep
<1> QED
  BY <1>1, <1>2, PoolCorrect, PTL DEF Spec, RefinesJobPool, Pool!Spec

-----------------------------------------------------------------------------
(* Pools that share their queues                                           *)

\* A subtask is created by one job, which posts it once.
SubtasksOwned ==
  \A p, r \in SharedJobs : \A i \in DOMAIN Subtasks[p], k \in DOMAIN Subtasks[r] :
    Subtasks[p][i] = Subtasks[r][k] => p = r /\ i = k

\* The draining loop of stealing_multiqueue_threadpool_scheduler stops early.
SharedConstants ==
  /\ Shared!PoolsAssumption
  /\ SubtasksOwned
  /\ \A p \in Shared!Pools : Kind[p] # "stealing_multiqueue"

\* A set of natural numbers has a least element.
LEMMA Least ==
  ASSUME NEW S \in SUBSET Nat, NEW k \in S
  PROVE  \E m \in S : \A n \in S : m <= n
<1> DEFINE R == StrictSubsetOrdering(Nat)
           F == FiniteSubsetsOf(Nat)
           T == {1 .. n : n \in S}
<1>1. IsWellFoundedOn(R, F)
  BY FS_StrictSubsetOrderingWellFounded
<1>2. \A n \in S : 1 .. n \in F
  <2> SUFFICES ASSUME NEW n \in S PROVE 1 .. n \in F
    OBVIOUS
  <2>1. IsFiniteSet(1 .. n)
    BY FS_Interval
  <2>2. 1 .. n \in SUBSET Nat
    OBVIOUS
  <2> QED
    BY <2>1, <2>2 DEF FiniteSubsetsOf
<1>3. T \subseteq F /\ 1 .. k \in T
  BY <1>2
<1> HIDE DEF R, F
<1>4. PICK x \in T : \A y \in T : ~(<<y, x>> \in R)
  BY <1>1, <1>3, WFMin
<1>5. PICK m \in S : x = 1 .. m
  BY <1>4
<1>6. ASSUME NEW n \in S, n < m PROVE FALSE
  <2>1. 1 .. n \in T /\ <<1 .. n, x>> \notin R
    BY <1>4
  <2>2. 1 .. n \subseteq 1 .. m /\ m \in 1 .. m /\ m \notin 1 .. n
    BY <1>6
  <2>3. 1 .. n \in SUBSET Nat /\ 1 .. m \in SUBSET Nat /\ 1 .. n # 1 .. m
    BY <2>2
  <2> QED
    BY <2>1, <2>2, <2>3, <1>5 DEF R, StrictSubsetOrdering
<1> QED
  BY <1>6

\* f appends the first m sequences of s one after the other.
Flattens(f, s, m) ==
  f = [i \in 1 .. m |-> IF i = 1 THEN s[i] ELSE f[i - 1] \o s[i]]

\* A function that does this for some of them can be extended.
LEMMA FlattensMore ==
  ASSUME NEW T, NEW s \in Seq(Seq(T)), NEW m \in 0 .. Len(s) - 1, NEW g, Flattens(g, s, m)
  PROVE  \E f : Flattens(f, s, m + 1)
<1> DEFINE f == [i \in 1 .. m + 1 |->
                   IF i <= m THEN g[i] ELSE IF i = 1 THEN s[i] ELSE g[m] \o s[i]]
<1>1. \A i \in 1 .. m : f[i] = g[i]
  OBVIOUS
<1>2. \A i \in 1 .. m + 1 : f[i] = IF i = 1 THEN s[i] ELSE f[i - 1] \o s[i]
  <2> SUFFICES ASSUME NEW i \in 1 .. m + 1
               PROVE  f[i] = IF i = 1 THEN s[i] ELSE f[i - 1] \o s[i]
    OBVIOUS
  <2>1. CASE i <= m
    <3>1. g[i] = IF i = 1 THEN s[i] ELSE g[i - 1] \o s[i]
      <4>1. i \in 1 .. m
        BY <2>1
      <4>2. g[i] = [k \in 1 .. m |-> IF k = 1 THEN s[k] ELSE g[k - 1] \o s[k]][i]
        BY DEF Flattens
      <4> QED
        BY <4>1, <4>2
    <3>2. i # 1 => i - 1 \in 1 .. m
      BY <2>1
    <3>3. i # 1 => f[i - 1] = g[i - 1]
      BY <1>1, <3>2
    <3> QED
      BY <1>1, <2>1, <3>1, <3>3
  <2>2. CASE i = m + 1 /\ i = 1
    BY <2>2
  <2>3. CASE i = m + 1 /\ i # 1
    <3>1. i - 1 = m /\ m \in 1 .. m /\ ~(i <= m)
      BY <2>3
    <3>2. f[i - 1] = g[m]
      BY <1>1, <3>1
    <3> QED
      BY <2>3, <3>1, <3>2
  <2> QED
    BY <2>1, <2>2, <2>3
<1>3. f = [i \in 1 .. m + 1 |-> f[i]]
  OBVIOUS
<1> HIDE DEF f
<1>4. f = [i \in 1 .. m + 1 |-> IF i = 1 THEN s[i] ELSE f[i - 1] \o s[i]]
  BY <1>2, <1>3
<1> QED
  BY <1>4 DEF Flattens

\* Sequences over T are flattened to a sequence over T.
LEMMA FlattenedSeq ==
  ASSUME NEW T, NEW s \in Seq(Seq(T))
  PROVE  Shared!FlattenSeq(s) \in Seq(T)
<1> DEFINE n == Len(s)
           Without == {m \in 0 .. n : ~ \E f : Flattens(f, s, m)}
<1>1. Without = {}
  <2> SUFFICES ASSUME Without # {} PROVE FALSE
    OBVIOUS
  <2>1. PICK m \in Without : \A k \in Without : m <= k
    <3>1. Without \in SUBSET Nat
      OBVIOUS
    <3> QED
      BY <3>1, Least
  <2>2. m # 0
    <3>1. Flattens(<<>>, s, 0)
      BY DEF Flattens
    <3> QED
      BY <3>1
  <2>3. m - 1 \in 0 .. n /\ m - 1 \in 0 .. n - 1 /\ (m - 1) + 1 = m /\ ~(m <= m - 1)
    BY <2>2
  <2>4. m - 1 \notin Without
    BY <2>1, <2>3
  <2>5. PICK g : Flattens(g, s, m - 1)
    BY <2>3, <2>4
  <2>6. \E f : Flattens(f, s, (m - 1) + 1)
    <3> DEFINE l == m - 1
    <3> HIDE DEF l
    <3>1. l \in 0 .. Len(s) - 1 /\ Flattens(g, s, l)
      BY <2>3, <2>5 DEF l
    <3>2. \E f : Flattens(f, s, l + 1)
      BY <3>1, FlattensMore
    <3> QED
      BY <3>2 DEF l
  <2> QED
    BY <2>3, <2>6
<1>2. CASE n = 0
  BY <1>2 DEF Shared!FlattenSeq
<1>3. CASE n # 0
  <2> DEFINE flatten == CHOOSE f : Flattens(f, s, n)
             Bad == {i \in 1 .. n : flatten[i] \notin Seq(T)}
  <2>1. Flattens(flatten, s, n)
    <3>1. n \in 0 .. n
      OBVIOUS
    <3> QED
      BY <1>1, <3>1
  <2>2. \A i \in 1 .. n : flatten[i] = IF i = 1 THEN s[i] ELSE flatten[i - 1] \o s[i]
    <3> HIDE DEF flatten, n
    <3> QED
      BY <2>1 DEF Flattens
  <2>3. Bad = {}
    <3> HIDE DEF flatten
    <3> SUFFICES ASSUME Bad # {} PROVE FALSE
      OBVIOUS
    <3>1. PICK i \in Bad : \A k \in Bad : i <= k
      <4>1. Bad \in SUBSET Nat
        OBVIOUS
      <4> QED
        BY <4>1, Least
    <3>2. s[i] \in Seq(T)
      OBVIOUS
    <3>3. i # 1
      BY <2>2, <3>2
    <3>4. i - 1 \in 1 .. n /\ ~(i <= i - 1)
      BY <3>3
    <3>5. flatten[i - 1] \in Seq(T)
      BY <3>1, <3>4
    <3>6. flatten[i] = flatten[i - 1] \o s[i]
      BY <2>2, <3>3
    <3>7. flatten[i - 1] \o s[i] \in Seq(T)
      BY <3>2, <3>5
    <3> QED
      BY <3>6, <3>7
  <2>4. Shared!FlattenSeq(s) = flatten[n]
    BY <1>3 DEF Shared!FlattenSeq, Flattens
  <2>5. n \in 1 .. n
    BY <1>3
  <2> QED
    BY <2>3, <2>4, <2>5
<1> QED
  BY <1>2, <1>3

\* The sets of pools, queues and workers.
LEMMA PoolSets ==
  ASSUME SharedConstants
  PROVE  /\ NumberOfPools \in Nat \ {0} /\ Shared!Pools = 1 .. NumberOfPools
         /\ None \notin SharedJobs /\ Subtasks \in [SharedJobs -> Seq(SharedJobs)]
         /\ \A p \in Shared!Pools : /\ Shared!NumberOfQueues(p) \in Nat \ {0}
                                    /\ Kind[p] \in {"multiqueue", "stealing"}
                                    /\ Shared!WorkersOf(p) # {}
         /\ \A p \in Shared!Pools : \A w \in Shared!WorkersOf(p) : w \in Shared!Workers /\ w[1] = p
         /\ \A w \in Shared!Workers : w[1] \in Shared!Pools /\ w \in Shared!WorkersOf(w[1])
<1>1. /\ NumberOfPools \in Nat \ {0} /\ Shared!Pools = 1 .. NumberOfPools
      /\ None \notin SharedJobs /\ Subtasks \in [SharedJobs -> Seq(SharedJobs)]
      /\ NumberOfWorkers \in [Shared!Pools -> Nat \ {0}] /\ Kind \in [Shared!Pools -> Shared!Kinds]
  BY DEF SharedConstants, Shared!PoolsAssumption, Shared!Pools
<1>2. \A p \in Shared!Pools : Kind[p] \in {"multiqueue", "stealing"}
  BY <1>1 DEF SharedConstants, Shared!Kinds
<1>3. \A p \in Shared!Pools : Shared!NumberOfQueues(p) \in Nat \ {0}
  BY <1>1 DEF Shared!NumberOfQueues
<1>4. \A p \in Shared!Pools : Shared!WorkersOf(p) # {} /\ \A w \in Shared!WorkersOf(p) : w[1] = p
  <2> SUFFICES ASSUME NEW p \in Shared!Pools
               PROVE  Shared!WorkersOf(p) # {} /\ \A w \in Shared!WorkersOf(p) : w[1] = p
    OBVIOUS
  <2>1. 1 \in 1 .. NumberOfWorkers[p]
    BY <1>1
  <2>2. <<p, 1>> \in Shared!WorkersOf(p)
    BY <2>1 DEF Shared!WorkersOf
  <2> QED
    BY <2>2 DEF Shared!WorkersOf
<1>5. \A p \in Shared!Pools : \A w \in Shared!WorkersOf(p) : w \in Shared!Workers
  BY DEF Shared!Workers
<1>6. \A w \in Shared!Workers : w[1] \in Shared!Pools /\ w \in Shared!WorkersOf(w[1])
  BY <1>4 DEF Shared!Workers
<1> QED
  BY <1>1, <1>2, <1>3, <1>4, <1>5, <1>6

\* Which queues there are, whose they are, and where post puts a job.
LEMMA QueueSets ==
  ASSUME SharedConstants
  PROVE  /\ \A p \in Shared!Pools : \A i \in 1 .. Shared!NumberOfQueues(p) : <<p, i>> \in Shared!Queues
         /\ \A w \in Shared!Workers : Shared!Own(w) \in Shared!Queues /\ Shared!Own(w)[1] = w[1]
         /\ \A q \in Shared!Queues : \E w \in Shared!Workers : Shared!Own(w) = q
         /\ \A prio \in Nat, n \in Nat \ {0} : Shared!FindPosition(prio, n) \subseteq 1 .. n
<1>1. \A p : Shared!ToSet(Shared!GetQueues(p)) = {<<p, i>> : i \in 1 .. Shared!NumberOfQueues(p)}
  BY DEF Shared!ToSet, Shared!GetQueues
<1>2. \A p \in Shared!Pools : \A i \in 1 .. Shared!NumberOfQueues(p) : <<p, i>> \in Shared!Queues
  BY <1>1 DEF Shared!Queues
<1>3. \A q \in Shared!Queues : \E p \in Shared!Pools : \E i \in 1 .. Shared!NumberOfQueues(p) : q = <<p, i>>
  BY <1>1 DEF Shared!Queues
<1>4. \A p \in Shared!Pools : Shared!NumberOfQueues(p) = IF Kind[p] = "stealing" THEN 1 ELSE NumberOfWorkers[p]
  BY DEF Shared!NumberOfQueues
<1>5. ASSUME NEW w \in Shared!Workers
      PROVE  Shared!Own(w) \in Shared!Queues /\ Shared!Own(w)[1] = w[1]
  <2>1. PICK p \in Shared!Pools : \E k \in 1 .. NumberOfWorkers[p] : w = <<p, k>>
    BY PoolSets DEF Shared!WorkersOf
  <2> PICK k \in 1 .. NumberOfWorkers[p] : w = <<p, k>>
    BY <2>1
  <2>2. CASE Kind[p] = "stealing"
    <3>1. 1 \in 1 .. Shared!NumberOfQueues(p)
      BY <1>4, <2>2
    <3>2. Shared!Own(w) = <<p, 1>> /\ w[1] = p
      BY <2>1, <2>2 DEF Shared!Own
    <3> QED
      BY <1>2, <3>1, <3>2
  <2>3. CASE Kind[p] # "stealing"
    <3>1. k \in 1 .. Shared!NumberOfQueues(p)
      BY <1>4, <2>3
    <3>2. Shared!Own(w) = <<p, k>> /\ w[1] = p
      BY <2>1, <2>3 DEF Shared!Own
    <3> QED
      BY <1>2, <3>1, <3>2
  <2> QED
    BY <2>2, <2>3
<1>6. ASSUME NEW q \in Shared!Queues
      PROVE  \E w \in Shared!Workers : Shared!Own(w) = q
  <2>1. PICK p \in Shared!Pools : \E i \in 1 .. Shared!NumberOfQueues(p) : q = <<p, i>>
    BY <1>3
  <2> PICK i \in 1 .. Shared!NumberOfQueues(p) : q = <<p, i>>
    BY <2>1
  <2>2. i \in 1 .. NumberOfWorkers[p] /\ (Kind[p] = "stealing" => i = 1)
    <3>1. NumberOfWorkers[p] \in Nat \ {0}
      BY DEF SharedConstants, Shared!PoolsAssumption
    <3> QED
      BY <1>4, <2>1, <3>1
  <2> DEFINE w == <<p, i>>
  <2>3. w \in Shared!Workers
    BY <2>2, PoolSets DEF Shared!WorkersOf
  <2>4. Shared!Own(w) = q
    BY <2>1, <2>2 DEF Shared!Own
  <2> QED
    BY <2>3, <2>4
<1>7. \A prio \in Nat, n \in Nat \ {0} : Shared!FindPosition(prio, n) \subseteq 1 .. n
  BY DEF Shared!FindPosition
<1> QED
  BY <1>2, <1>5, <1>6, <1>7

\* A worker tries its own queue first, and only queues.
LEMMA TriesQueues ==
  ASSUME SharedConstants, NEW w \in Shared!Workers
  PROVE  /\ Shared!Tries(w) \in Seq(Shared!Queues) /\ Len(Shared!Tries(w)) \in Nat \ {0}
         /\ Shared!Tries(w)[1] = Shared!Own(w)
<1> DEFINE p == w[1]
           n == Shared!NumberOfQueues(p)
<1>1. p \in Shared!Pools /\ n \in Nat \ {0}
  BY PoolSets
<1>2. Shared!Siblings(w) \in Seq(Shared!Queues)
  <2>1. CASE Kind[p] = "stealing"
    BY <2>1 DEF Shared!Siblings
  <2>2. CASE Kind[p] # "stealing"
    <3>1. w[2] \in 1 .. n
      <4>1. NumberOfWorkers[p] = n
        BY <2>2 DEF Shared!NumberOfQueues
      <4> QED
        BY <4>1, PoolSets DEF Shared!WorkersOf
    <3> DEFINE place(k) == ((w[2] - 1 + n - k) % n) + 1
    <3>2. \A k \in 1 .. n - 1 : place(k) \in 1 .. n
      <4> SUFFICES ASSUME NEW k \in 1 .. n - 1 PROVE place(k) \in 1 .. n
        OBVIOUS
      <4>1. w[2] - 1 + n - k \in Nat
        BY <1>1, <3>1
      <4>2. (w[2] - 1 + n - k) % n \in 0 .. n - 1
        BY <1>1, <4>1
      <4> QED
        BY <1>1, <4>2
    <3>3. \A k \in 1 .. n - 1 : <<p, place(k)>> \in Shared!Queues
      BY <1>1, <3>2, QueueSets
    <3> HIDE DEF place
    <3>4. [k \in 1 .. n - 1 |-> <<p, place(k)>>] \in Seq(Shared!Queues)
      BY <1>1, <3>3
    <3>5. Shared!Siblings(w) = [k \in 1 .. n - 1 |-> <<p, place(k)>>]
      BY <2>2 DEF Shared!Siblings, place
    <3> QED
      BY <3>4, <3>5
  <2> QED
    BY <2>1, <2>2
<1>3. Shared!Others(p) \in Seq(Shared!Queues)
  <2> DEFINE lent == [q \in Shared!Pools |-> IF q = p THEN <<>> ELSE Shared!GetQueues(q)]
  <2>1. \A q \in Shared!Pools : Shared!GetQueues(q) \in Seq(Shared!Queues)
    <3> SUFFICES ASSUME NEW q \in Shared!Pools PROVE Shared!GetQueues(q) \in Seq(Shared!Queues)
      OBVIOUS
    <3>1. Shared!NumberOfQueues(q) \in Nat
      BY PoolSets
    <3>2. \A i \in 1 .. Shared!NumberOfQueues(q) : <<q, i>> \in Shared!Queues
      BY QueueSets
    <3> QED
      BY <3>1, <3>2 DEF Shared!GetQueues
  <2>2. lent \in Seq(Seq(Shared!Queues))
    <3>1. \A q \in Shared!Pools : lent[q] \in Seq(Shared!Queues)
      BY <2>1
    <3>2. NumberOfPools \in Nat /\ lent \in [1 .. NumberOfPools -> Seq(Shared!Queues)]
      BY <3>1, PoolSets
    <3> HIDE DEF lent
    <3> QED
      BY <3>2
  <2>3. Shared!FlattenSeq(lent) \in Seq(Shared!Queues)
    <3> HIDE DEF lent
    <3> QED
      BY <2>2, FlattenedSeq
  <2> QED
    BY <2>3 DEF Shared!Others
<1>4. Shared!Own(w) \in Shared!Queues
  BY QueueSets
<1>5. /\ <<Shared!Own(w)>> \o Shared!Siblings(w) \in Seq(Shared!Queues)
      /\ Len(<<Shared!Own(w)>> \o Shared!Siblings(w)) >= 1
      /\ (<<Shared!Own(w)>> \o Shared!Siblings(w))[1] = Shared!Own(w)
  BY <1>2, <1>4
<1> DEFINE s == <<Shared!Own(w)>> \o Shared!Siblings(w)
           t == Shared!Others(p)
<1>6. Shared!Tries(w) = s \o t
  BY DEF Shared!Tries
<1> HIDE DEF s, t
<1> QED
  BY <1>3, <1>5, <1>6 DEF s, t

\* A job is queued once, in one queue.
Placed(qs, jobs) ==
  /\ \A q \in Shared!Queues : \A i \in DOMAIN qs[q] : qs[q][i] \in jobs
  /\ \A q, r \in Shared!Queues : \A i \in DOMAIN qs[q], k \in DOMAIN qs[r] :
       qs[q][i] = qs[r][k] => q = r /\ i = k
  /\ \A j \in jobs : \E q \in Shared!Queues : \E i \in DOMAIN qs[q] : qs[q][i] = j

With(st, s) == {j \in SharedJobs : st[j] = s}

\* The subtasks of j are new; so are those it has still to post.
SubtasksNew(j, st) == \A i \in DOMAIN Subtasks[j] : st[Subtasks[j][i]] = "new"

StillToPost(s, j, st) ==
  /\ \A i \in DOMAIN s : st[s[i]] = "new" /\ \E k \in DOMAIN Subtasks[j] : s[i] = Subtasks[j][k]
  /\ \A i, k \in DOMAIN s : s[i] = s[k] => i = k

\* Who owns the scheduler of pool p, and which workers have passed their own queue.
AliveIn(own, where, p) == p \in own \/ \E w \in Shared!WorkersOf(p) : where[w] = "fork"
Passed(where, k) == where \in {"scan", "done"} \/ (where = "try" /\ k > 1)

SharedType ==
  /\ queues \in [Shared!Queues -> Seq(SharedJobs)]
  /\ jobStatus \in [SharedJobs -> {"new", "queued", "running", "refused", "ok", "failed"}]
  /\ toldWorkers \subseteq Shared!Workers
  /\ loop \in [Shared!Workers -> {"try", "job", "fork", "forked", "scan", "private", "done"}]
  /\ try \in [Shared!Workers -> Nat]
  /\ \A w \in Shared!Workers : try[w] \in 1 .. Len(Shared!Tries(w))
  /\ current \in [Shared!Workers -> SharedJobs \cup {None}]
  /\ toPost \in [Shared!Workers -> Seq(SharedJobs)]
  /\ drains \in [Shared!Workers -> BOOLEAN]
  /\ owners \subseteq Clients /\ owned \subseteq Shared!Pools /\ joined \subseteq Shared!Pools

InQueues == Placed(queues, With(jobStatus, "queued"))

\* A worker that executes a job has it alone.
Executed ==
  /\ \A w \in Shared!Workers : current[w] # None <=> loop[w] \in {"job", "fork", "forked"}
  /\ \A w \in Shared!Workers : current[w] # None => jobStatus[current[w]] = "running"
  /\ \A v, w \in Shared!Workers : v # w /\ current[w] # None => current[v] # current[w]
  /\ \A j \in SharedJobs : jobStatus[j] = "running" => \E w \in Shared!Workers : current[w] = j

\* A job that may still create its continuation has new subtasks.
ForksReady ==
  /\ \A j \in SharedJobs : jobStatus[j] \in {"new", "queued", "refused"} =>
       SubtasksNew(j, jobStatus)
  /\ \A w \in Shared!Workers : loop[w] = "job" => SubtasksNew(current[w], jobStatus)
  /\ \A w \in Shared!Workers : loop[w] = "fork" => StillToPost(toPost[w], current[w], jobStatus)

\* Workers are told to end when their pool is owned by nobody; they leave when
\* their own queue is empty, and are joined.
ShutDown ==
  /\ owners # {} => owned = Shared!Pools
  /\ \A w \in Shared!Workers : w \in toldWorkers \/ drains[w] => ~AliveIn(owned, loop, w[1])
  /\ \A w \in Shared!Workers : loop[w] = "done" => drains[w]
  /\ \A w \in Shared!Workers : drains[w] /\ Passed(loop[w], try[w]) =>
       queues[Shared!Own(w)] = <<>>
  /\ \A p \in joined : p \notin owned /\ \A w \in Shared!WorkersOf(p) : loop[w] = "done"

SharedInv == SharedType /\ InQueues /\ Executed /\ ForksReady /\ ShutDown

\* A job is appended to a queue.
LEMMA PlacedAppend ==
  ASSUME NEW qs \in [Shared!Queues -> Seq(SharedJobs)], NEW jobs \in SUBSET SharedJobs,
         Placed(qs, jobs), NEW q \in Shared!Queues, NEW j \in SharedJobs \ jobs
  PROVE  Placed([qs EXCEPT ![q] = Append(@, j)], jobs \cup {j})
<1> DEFINE new == [qs EXCEPT ![q] = Append(@, j)]
           n == Len(qs[q]) + 1
<1>1. /\ \A r \in Shared!Queues : r # q => new[r] = qs[r]
      /\ new[q] = Append(qs[q], j)
  OBVIOUS
<1>2. /\ DOMAIN new[q] = DOMAIN qs[q] \cup {n} /\ n \notin DOMAIN qs[q] /\ new[q][n] = j
      /\ \A i \in DOMAIN qs[q] : new[q][i] = qs[q][i]
  <2>1. qs[q] \in Seq(SharedJobs)
    OBVIOUS
  <2> QED
    BY <1>1, <2>1
<1> HIDE DEF new, n
<1>3. \A r \in Shared!Queues : \A i \in DOMAIN qs[r] : qs[r][i] \in jobs /\ qs[r][i] # j
  BY DEF Placed
<1>4. \A r \in Shared!Queues : \A i \in DOMAIN new[r] :
        (r = q /\ i = n /\ new[r][i] = j) \/ (i \in DOMAIN qs[r] /\ new[r][i] = qs[r][i])
  BY <1>1, <1>2
<1>5. \A r \in Shared!Queues : \A i \in DOMAIN new[r] : new[r][i] \in jobs \cup {j}
  BY <1>3, <1>4
<1>6. ASSUME NEW r \in Shared!Queues, NEW p \in Shared!Queues, NEW i \in DOMAIN new[r],
             NEW k \in DOMAIN new[p], new[r][i] = new[p][k]
      PROVE  r = p /\ i = k
  BY <1>3, <1>4, <1>6 DEF Placed
<1>7. ASSUME NEW x \in jobs \cup {j}
      PROVE  \E r \in Shared!Queues : \E i \in DOMAIN new[r] : new[r][i] = x
  <2>1. CASE x = j
    BY <1>2, <2>1
  <2>2. CASE x # j
    <3>1. PICK r \in Shared!Queues : \E i \in DOMAIN qs[r] : qs[r][i] = x
      BY <1>7, <2>2 DEF Placed
    <3> QED
      BY <1>1, <1>2, <3>1
  <2> QED
    BY <2>1, <2>2
<1>8. Placed(new, jobs \cup {j})
  BY <1>5, <1>6, <1>7 DEF Placed
<1> QED
  BY <1>8 DEF new

\* The first job of a queue is taken.
LEMMA PlacedTail ==
  ASSUME NEW qs \in [Shared!Queues -> Seq(SharedJobs)], NEW jobs \in SUBSET SharedJobs,
         Placed(qs, jobs), NEW q \in Shared!Queues, qs[q] # <<>>
  PROVE  /\ Head(qs[q]) \in jobs /\ Tail(qs[q]) \in Seq(SharedJobs)
         /\ Placed([qs EXCEPT ![q] = Tail(@)], jobs \ {Head(qs[q])})
<1> DEFINE new == [qs EXCEPT ![q] = Tail(@)]
           h == Head(qs[q])
<1>1. /\ \A r \in Shared!Queues : r # q => new[r] = qs[r]
      /\ new[q] = Tail(qs[q]) /\ qs[q] \in Seq(SharedJobs)
  OBVIOUS
<1>2. /\ h = qs[q][1] /\ 1 \in DOMAIN qs[q] /\ Tail(qs[q]) \in Seq(SharedJobs)
      /\ \A i \in DOMAIN new[q] : i + 1 \in DOMAIN qs[q] /\ i + 1 # 1 /\ new[q][i] = qs[q][i + 1]
      /\ \A i \in DOMAIN qs[q] : i # 1 => i - 1 \in DOMAIN new[q] /\ new[q][i - 1] = qs[q][i]
  BY <1>1
<1>3. \A i, k \in DOMAIN new[q] : i + 1 = k + 1 => i = k
  BY <1>1, <1>2
<1> HIDE DEF new, h
<1>4. \A r \in Shared!Queues : \A i \in DOMAIN new[r] :
        \E k \in DOMAIN qs[r] : new[r][i] = qs[r][k] /\ (r = q => k = i + 1 /\ k # 1) /\ (r # q => k = i)
  BY <1>1, <1>2
<1>5. h \in jobs
  BY <1>2 DEF Placed
<1>6. \A r \in Shared!Queues : \A i \in DOMAIN new[r] : new[r][i] \in jobs \ {h}
  BY <1>2, <1>4 DEF Placed
<1>7. ASSUME NEW r \in Shared!Queues, NEW p \in Shared!Queues, NEW i \in DOMAIN new[r],
             NEW k \in DOMAIN new[p], new[r][i] = new[p][k]
      PROVE  r = p /\ i = k
  <2>1. PICK a \in DOMAIN qs[r] : new[r][i] = qs[r][a] /\ (r = q => a = i + 1) /\ (r # q => a = i)
    BY <1>4
  <2>2. PICK b \in DOMAIN qs[p] : new[p][k] = qs[p][b] /\ (p = q => b = k + 1) /\ (p # q => b = k)
    BY <1>4
  <2>3. qs[r][a] = qs[p][b]
    BY <1>7, <2>1, <2>2
  <2>4. r = p /\ a = b
    BY <2>3 DEF Placed
  <2> QED
    BY <1>3, <2>1, <2>2, <2>4
<1>8. ASSUME NEW x \in jobs \ {h}
      PROVE  \E r \in Shared!Queues : \E i \in DOMAIN new[r] : new[r][i] = x
  <2>1. PICK r \in Shared!Queues : \E i \in DOMAIN qs[r] : qs[r][i] = x
    BY <1>8 DEF Placed
  <2>2. PICK i \in DOMAIN qs[r] : qs[r][i] = x
    BY <2>1
  <2>3. CASE r = q
    <3>1. i # 1
      BY <1>2, <2>2, <2>3
    <3> QED
      BY <1>2, <2>2, <2>3, <3>1
  <2>4. CASE r # q
    BY <1>1, <2>2, <2>4
  <2> QED
    BY <2>3, <2>4
<1>9. Placed(new, jobs \ {h})
  BY <1>6, <1>7, <1>8 DEF Placed
<1> QED
  BY <1>2, <1>5, <1>9 DEF new, h

\* The queue that is tried.
LEMMA TriedQueue ==
  ASSUME SharedConstants, SharedType, NEW w \in Shared!Workers
  PROVE  /\ Shared!Tried(w) \in Shared!Queues
         /\ try[w] = 1 => Shared!Tried(w) = Shared!Own(w)
         /\ 1 \in 1 .. Len(Shared!Tries(w))
BY TriesQueues DEF SharedType, Shared!Tried

\* A step keeps the types.
LEMMA SharedTypeStep ==
  ASSUME SharedConstants, SharedType, Executed, Shared!Next
  PROVE  SharedType'
<1>1. ASSUME NEW c \in Clients, Shared!DropComposite(c)
      PROVE  SharedType'
  BY <1>1 DEF Shared!DropComposite, Shared!workerVars, SharedType
<1>2. ASSUME NEW c \in Clients, NEW j \in SharedJobs, Shared!Post(c, j)
      PROVE  SharedType'
  <2>1. PICK p \in Shared!FindPosition(Prio[j], NumberOfPools) :
          \E i \in Shared!FindPosition(Prio[j], Shared!NumberOfQueues(p)) :
            queues' = [queues EXCEPT ![<<p, i>>] = Append(@, j)]
    BY <1>2 DEF Shared!Post
  <2>2. PICK i \in Shared!FindPosition(Prio[j], Shared!NumberOfQueues(p)) :
          queues' = [queues EXCEPT ![<<p, i>>] = Append(@, j)]
    BY <2>1
  <2>3. <<p, i>> \in Shared!Queues
    <3>1. Prio[j] \in Nat
      BY DEF SharedConstants, Shared!PoolsAssumption
    <3>2. p \in Shared!Pools
      BY <3>1, PoolSets, QueueSets
    <3>3. i \in 1 .. Shared!NumberOfQueues(p)
      BY <3>1, <3>2, PoolSets, QueueSets
    <3> QED
      BY <3>2, <3>3, QueueSets
  <2>4. queues' \in [Shared!Queues -> Seq(SharedJobs)]
    BY <2>2, <2>3 DEF SharedType
  <2> QED
    BY <1>2, <2>4 DEF Shared!Post, Shared!workerVars, SharedType
<1>3. ASSUME NEW p \in Shared!Pools, Shared!ResetSubpool(p)
      PROVE  SharedType'
  <2>1. toldWorkers' \subseteq Shared!Workers
    BY <1>3, PoolSets DEF Shared!ResetSubpool, Shared!Release, SharedType
  <2> QED
    BY <1>3, <2>1 DEF Shared!ResetSubpool, SharedType, Shared!workerVars
<1>4. ASSUME NEW p \in Shared!Pools, Shared!JoinSubpool(p)
      PROVE  SharedType'
  BY <1>4 DEF Shared!JoinSubpool, SharedType, Shared!workerVars
<1>5. ASSUME NEW w \in Shared!Workers, Shared!TakeJob(w)
      PROVE  SharedType'
  <2> DEFINE q == Shared!Tried(w)
             j == Head(queues[q])
  <2>1. q \in Shared!Queues /\ 1 \in 1 .. Len(Shared!Tries(w))
    BY TriedQueue
  <2>2. queues[q] \in Seq(SharedJobs) /\ queues[q] # <<>>
    BY <1>5, <2>1 DEF Shared!TakeJob, SharedType
  <2>3. j \in SharedJobs /\ Tail(queues[q]) \in Seq(SharedJobs)
    BY <2>2
  <2>4. /\ current' = [current EXCEPT ![w] = j]
        /\ jobStatus' = [jobStatus EXCEPT ![j] = "running"]
        /\ queues' = [queues EXCEPT ![q] = Tail(@)]
        /\ loop' = [loop EXCEPT ![w] = "job"] /\ try' = [try EXCEPT ![w] = 1]
        /\ UNCHANGED <<toldWorkers, toPost, drains, owners, owned, joined>>
    BY <1>5 DEF Shared!TakeJob, Shared!Goto
  <2> HIDE DEF q, j
  <2>5. queues' \in [Shared!Queues -> Seq(SharedJobs)]
    BY <2>3, <2>4, <2>1 DEF SharedType
  <2>6. /\ current' \in [Shared!Workers -> SharedJobs \cup {None}]
        /\ jobStatus' \in [SharedJobs -> {"new", "queued", "running", "refused", "ok", "failed"}]
    BY <2>3, <2>4 DEF SharedType
  <2> QED
    BY <2>1, <2>4, <2>5, <2>6 DEF SharedType
<1>6. ASSUME NEW w \in Shared!Workers, Shared!NextQueue(w)
      PROVE  SharedType'
  <2>1. CASE try[w] < Len(Shared!Tries(w))
    <3>1. try' = [try EXCEPT ![w] = @ + 1] /\ loop' = loop
      BY <1>6, <2>1 DEF Shared!NextQueue
    <3>2. try[w] + 1 \in 1 .. Len(Shared!Tries(w)) /\ try[w] + 1 \in Nat
      BY <2>1, TriesQueues DEF SharedType
    <3> QED
      BY <1>6, <3>1, <3>2 DEF Shared!NextQueue, SharedType
  <2>2. CASE ~(try[w] < Len(Shared!Tries(w)))
    <3>1. loop' = [loop EXCEPT ![w] = "scan"] /\ try' = [try EXCEPT ![w] = 1]
      BY <1>6, <2>2 DEF Shared!NextQueue, Shared!Goto
    <3> QED
      BY <1>6, <3>1, TriedQueue DEF Shared!NextQueue, SharedType
  <2> QED
    BY <2>1, <2>2
<1>7. ASSUME NEW w \in Shared!Workers, NEW to \in {"try", "job", "fork", "forked", "private", "done"},
             Shared!Goto(w, to), UNCHANGED <<owners, owned, joined>>,
             queues' \in [Shared!Queues -> Seq(SharedJobs)],
             jobStatus' \in [SharedJobs -> {"new", "queued", "running", "refused", "ok", "failed"}],
             current' \in [Shared!Workers -> SharedJobs \cup {None}],
             toPost' \in [Shared!Workers -> Seq(SharedJobs)],
             drains' \in [Shared!Workers -> BOOLEAN], toldWorkers' \subseteq Shared!Workers
      PROVE  SharedType'
  BY <1>7, TriedQueue DEF Shared!Goto, SharedType
<1>8. ASSUME NEW w \in Shared!Workers, Shared!Scan(w)
      PROVE  SharedType'
  <2>1. Shared!Goto(w, Shared!AfterMiss(w)) /\ Shared!AfterMiss(w) \in {"private", "done"}
        /\ UNCHANGED <<queues, jobStatus, toldWorkers, current, toPost, drains, owners, owned, joined>>
    BY <1>8 DEF Shared!Scan, Shared!AfterMiss
  <2> QED
    BY <1>7, <2>1 DEF SharedType
<1>9. ASSUME NEW w \in Shared!Workers, Shared!ForkLock(w)
      PROVE  SharedType'
  <2>1. current[w] \in SharedJobs
    BY <1>9 DEF Shared!ForkLock, Executed, SharedType
  <2>2. Subtasks[current[w]] \in Seq(SharedJobs)
    BY <2>1, PoolSets
  <2>3. toPost' \in [Shared!Workers -> Seq(SharedJobs)]
    BY <1>9, <2>2 DEF Shared!ForkLock, SharedType
  <2>4. Shared!Goto(w, "fork")
        /\ UNCHANGED <<queues, jobStatus, toldWorkers, current, drains, owners, owned, joined>>
    BY <1>9 DEF Shared!ForkLock
  <2> QED
    BY <1>7, <2>3, <2>4 DEF SharedType
<1>10. ASSUME NEW w \in Shared!Workers, Shared!ForkRefused(w)
       PROVE  SharedType'
  <2>1. jobStatus' \in [SharedJobs -> {"new", "queued", "running", "refused", "ok", "failed"}]
    BY <1>10 DEF Shared!ForkRefused, SharedType
  <2>2. Shared!Goto(w, "forked")
        /\ UNCHANGED <<queues, toldWorkers, current, toPost, drains, owners, owned, joined>>
    BY <1>10 DEF Shared!ForkRefused
  <2> QED
    BY <1>7, <2>1, <2>2 DEF SharedType
<1>11. ASSUME NEW w \in Shared!Workers, Shared!ForkPost(w)
       PROVE  SharedType'
  <2>1. toPost[w] \in Seq(SharedJobs) /\ toPost[w] # <<>>
    BY <1>11 DEF Shared!ForkPost, SharedType
  <2> DEFINE j == Head(toPost[w])
  <2>2. j \in SharedJobs /\ Tail(toPost[w]) \in Seq(SharedJobs) /\ Shared!Own(w) \in Shared!Queues
    BY <2>1, QueueSets
  <2>3. /\ queues' = [queues EXCEPT ![Shared!Own(w)] = Append(@, j)]
        /\ jobStatus' = [jobStatus EXCEPT ![j] = "queued"]
        /\ toPost' = [toPost EXCEPT ![w] = Tail(@)]
        /\ UNCHANGED <<toldWorkers, loop, try, current, drains, owners, owned, joined>>
    BY <1>11 DEF Shared!ForkPost
  <2> HIDE DEF j
  <2>4. queues' \in [Shared!Queues -> Seq(SharedJobs)]
    BY <2>2, <2>3 DEF SharedType
  <2>5. toPost' \in [Shared!Workers -> Seq(SharedJobs)]
    BY <2>2, <2>3 DEF SharedType
  <2> QED
    BY <2>2, <2>3, <2>4, <2>5 DEF SharedType
<1>12. ASSUME NEW w \in Shared!Workers, Shared!ForkUnlock(w)
       PROVE  SharedType'
  <2>1. toldWorkers' \subseteq Shared!Workers
    <3>1. w[1] \in Shared!Pools
      BY PoolSets
    <3> QED
      BY <1>12, <3>1, PoolSets DEF Shared!ForkUnlock, Shared!Release, SharedType
  <2>2. Shared!Goto(w, "forked")
        /\ UNCHANGED <<queues, jobStatus, current, toPost, drains, owners, owned, joined>>
    BY <1>12 DEF Shared!ForkUnlock
  <2> QED
    BY <1>7, <2>1, <2>2 DEF SharedType
<1>13. ASSUME NEW w \in Shared!Workers, Shared!JobEnds(w)
       PROVE  SharedType'
  <2>1. PICK how \in {"ok", "failed"} : jobStatus' = [jobStatus EXCEPT ![current[w]] = how]
    BY <1>13 DEF Shared!JobEnds, Shared!Ended
  <2>2. /\ Shared!Goto(w, Shared!AfterHit(w)) /\ Shared!AfterHit(w) \in {"try", "private", "done"}
        /\ current' = [current EXCEPT ![w] = None]
        /\ UNCHANGED <<queues, toldWorkers, toPost, drains, owners, owned, joined>>
    BY <1>13 DEF Shared!JobEnds, Shared!AfterHit
  <2>3. jobStatus' \in [SharedJobs -> {"new", "queued", "running", "refused", "ok", "failed"}]
        /\ current' \in [Shared!Workers -> SharedJobs \cup {None}]
    BY <2>1, <2>2 DEF SharedType
  <2> QED
    BY <1>7, <2>2, <2>3 DEF SharedType
<1>14. ASSUME NEW w \in Shared!Workers, Shared!Private(w)
       PROVE  SharedType'
  <2> DEFINE b == w \in toldWorkers
  <2>1. b \in BOOLEAN /\ drains' = [drains EXCEPT ![w] = b]
    BY <1>14 DEF Shared!Private
  <2> HIDE DEF b
  <2>2. /\ Shared!Goto(w, "try") /\ toldWorkers' = toldWorkers \ {w}
        /\ UNCHANGED <<queues, jobStatus, current, toPost, owners, owned, joined>>
    BY <1>14 DEF Shared!Private
  <2>3. drains' \in [Shared!Workers -> BOOLEAN]
    BY <2>1 DEF SharedType
  <2> QED
    BY <1>7, <2>2, <2>3 DEF SharedType
<1>15. CASE Shared!Terminated
  BY <1>15 DEF Shared!Terminated, Shared!vars, Shared!workerVars, SharedType
<1> QED
  BY <1>1, <1>2, <1>3, <1>4, <1>5, <1>6, <1>8, <1>9, <1>10, <1>11, <1>12, <1>13, <1>14, <1>15
     DEF Shared!Next, Shared!Worker

\* A job of the clients goes from "new" to a queue.
LEMMA PostFacts ==
  ASSUME SharedConstants, SharedType, NEW c \in Clients, NEW j \in SharedJobs, Shared!Post(c, j)
  PROVE  /\ c \in owners /\ j \in Shared!Roots /\ jobStatus[j] = "new"
         /\ jobStatus' = [jobStatus EXCEPT ![j] = "queued"]
         /\ \E q \in Shared!Queues : queues' = [queues EXCEPT ![q] = Append(@, j)]
         /\ UNCHANGED <<toldWorkers, loop, try, current, toPost, drains, owners, owned, joined>>
<1>1. PICK p \in Shared!FindPosition(Prio[j], NumberOfPools) :
        \E i \in Shared!FindPosition(Prio[j], Shared!NumberOfQueues(p)) :
          queues' = [queues EXCEPT ![<<p, i>>] = Append(@, j)]
  BY DEF Shared!Post
<1>2. PICK i \in Shared!FindPosition(Prio[j], Shared!NumberOfQueues(p)) :
        queues' = [queues EXCEPT ![<<p, i>>] = Append(@, j)]
  BY <1>1
<1>3. Prio[j] \in Nat
  BY DEF SharedConstants, Shared!PoolsAssumption
<1>4. p \in Shared!Pools
  BY <1>3, PoolSets, QueueSets
<1>5. i \in 1 .. Shared!NumberOfQueues(p)
  BY <1>3, <1>4, PoolSets, QueueSets
<1>6. <<p, i>> \in Shared!Queues
  BY <1>4, <1>5, QueueSets
<1> QED
  BY <1>2, <1>6 DEF Shared!Post, Shared!workerVars

\* The first job of the queue that is tried is queued, and starts.
LEMMA TakeFacts ==
  ASSUME SharedConstants, SharedType, InQueues, NEW w \in Shared!Workers, Shared!TakeJob(w)
  PROVE  \E q \in Shared!Queues, j \in SharedJobs :
           /\ loop[w] = "try" /\ queues[q] # <<>> /\ j = Head(queues[q])
           /\ try[w] = 1 => q = Shared!Own(w)
           /\ jobStatus[j] = "queued"
           /\ Tail(queues[q]) \in Seq(SharedJobs)
           /\ Placed([queues EXCEPT ![q] = Tail(@)], With(jobStatus, "queued") \ {j})
           /\ current' = [current EXCEPT ![w] = j]
           /\ jobStatus' = [jobStatus EXCEPT ![j] = "running"]
           /\ queues' = [queues EXCEPT ![q] = Tail(@)]
           /\ loop' = [loop EXCEPT ![w] = "job"] /\ try' = [try EXCEPT ![w] = 1]
           /\ UNCHANGED <<toldWorkers, toPost, drains, owners, owned, joined>>
<1> DEFINE q == Shared!Tried(w)
           j == Head(queues[q])
<1>1. q \in Shared!Queues /\ (try[w] = 1 => q = Shared!Own(w))
  BY TriedQueue
<1>2. queues \in [Shared!Queues -> Seq(SharedJobs)] /\ queues[q] # <<>>
  BY DEF Shared!TakeJob, SharedType
<1>3. With(jobStatus, "queued") \in SUBSET SharedJobs /\ Placed(queues, With(jobStatus, "queued"))
  BY DEF With, InQueues
<1>4. /\ j \in With(jobStatus, "queued") /\ Tail(queues[q]) \in Seq(SharedJobs)
      /\ Placed([queues EXCEPT ![q] = Tail(@)], With(jobStatus, "queued") \ {j})
  BY <1>1, <1>2, <1>3, PlacedTail
<1>5. j \in SharedJobs /\ jobStatus[j] = "queued"
  BY <1>4 DEF With
<1>6. /\ current' = [current EXCEPT ![w] = j]
      /\ jobStatus' = [jobStatus EXCEPT ![j] = "running"]
      /\ queues' = [queues EXCEPT ![q] = Tail(@)]
      /\ loop' = [loop EXCEPT ![w] = "job"] /\ try' = [try EXCEPT ![w] = 1]
      /\ loop[w] = "try"
      /\ UNCHANGED <<toldWorkers, toPost, drains, owners, owned, joined>>
  BY DEF Shared!TakeJob, Shared!Goto
<1> HIDE DEF q
<1> QED
  BY <1>1, <1>2, <1>4, <1>5, <1>6

\* The subtask that is posted was new.
LEMMA ForkPostFacts ==
  ASSUME SharedConstants, SharedType, Executed, ForksReady, NEW w \in Shared!Workers,
         Shared!ForkPost(w)
  PROVE  \E j \in SharedJobs :
           /\ loop[w] = "fork" /\ jobStatus[j] = "new"
           /\ toPost[w] \in Seq(SharedJobs) /\ toPost[w] # <<>> /\ j = Head(toPost[w])
           /\ current[w] \in SharedJobs /\ \E k \in DOMAIN Subtasks[current[w]] :
                                             j = Subtasks[current[w]][k]
           /\ queues' = [queues EXCEPT ![Shared!Own(w)] = Append(@, j)]
           /\ jobStatus' = [jobStatus EXCEPT ![j] = "queued"]
           /\ toPost' = [toPost EXCEPT ![w] = Tail(@)]
           /\ UNCHANGED <<toldWorkers, loop, try, current, drains, owners, owned, joined>>
<1> DEFINE j == Head(toPost[w])
<1>1. loop[w] = "fork" /\ toPost[w] \in Seq(SharedJobs) /\ toPost[w] # <<>>
  BY DEF Shared!ForkPost, SharedType
<1>2. j \in SharedJobs /\ j = toPost[w][1] /\ 1 \in DOMAIN toPost[w]
  BY <1>1
<1>3. current[w] \in SharedJobs
  BY <1>1 DEF Executed, SharedType
<1>4. StillToPost(toPost[w], current[w], jobStatus)
  BY <1>1 DEF ForksReady
<1>5. /\ queues' = [queues EXCEPT ![Shared!Own(w)] = Append(@, j)]
      /\ jobStatus' = [jobStatus EXCEPT ![j] = "queued"]
      /\ toPost' = [toPost EXCEPT ![w] = Tail(@)]
      /\ UNCHANGED <<toldWorkers, loop, try, current, drains, owners, owned, joined>>
  BY DEF Shared!ForkPost
<1> HIDE DEF j
<1> QED
  BY <1>1, <1>2, <1>3, <1>4, <1>5 DEF j, StillToPost

\* The subtasks that are refused were new.
LEMMA RefusedFacts ==
  ASSUME SharedConstants, SharedType, Executed, ForksReady, NEW w \in Shared!Workers,
         Shared!ForkRefused(w)
  PROVE  /\ loop[w] = "job" /\ current[w] \in SharedJobs
         /\ \A s \in SharedJobs : jobStatus'[s] # jobStatus[s] =>
              /\ jobStatus[s] = "new" /\ jobStatus'[s] = "refused"
              /\ \E k \in DOMAIN Subtasks[current[w]] : s = Subtasks[current[w]][k]
         /\ loop' = [loop EXCEPT ![w] = "forked"] /\ try' = [try EXCEPT ![w] = 1]
         /\ UNCHANGED <<queues, toldWorkers, current, toPost, drains, owners, owned, joined>>
<1>1. loop[w] = "job" /\ current[w] \in SharedJobs
  BY DEF Shared!ForkRefused, Executed, SharedType
<1>2. SubtasksNew(current[w], jobStatus)
  BY <1>1 DEF ForksReady
<1>3. \A s \in SharedJobs : jobStatus'[s] =
        IF s \in Shared!ToSet(Subtasks[current[w]]) THEN "refused" ELSE jobStatus[s]
  BY DEF Shared!ForkRefused
<1>4. \A s \in Shared!ToSet(Subtasks[current[w]]) :
        \E k \in DOMAIN Subtasks[current[w]] : s = Subtasks[current[w]][k]
  BY DEF Shared!ToSet
<1>5. /\ loop' = [loop EXCEPT ![w] = "forked"] /\ try' = [try EXCEPT ![w] = 1]
      /\ UNCHANGED <<queues, toldWorkers, current, toPost, drains, owners, owned, joined>>
  BY DEF Shared!ForkRefused, Shared!Goto
<1> QED
  BY <1>1, <1>2, <1>3, <1>4, <1>5 DEF SubtasksNew

\* A job that was running ends.
LEMMA EndFacts ==
  ASSUME SharedConstants, SharedType, Executed, NEW w \in Shared!Workers, Shared!JobEnds(w)
  PROVE  \E how \in {"ok", "failed"} :
           /\ loop[w] \in {"job", "forked"}
           /\ current[w] \in SharedJobs /\ jobStatus[current[w]] = "running"
           /\ jobStatus' = [jobStatus EXCEPT ![current[w]] = how]
           /\ current' = [current EXCEPT ![w] = None]
           /\ loop' = [loop EXCEPT ![w] = IF drains[w] THEN "try" ELSE "private"]
           /\ try' = [try EXCEPT ![w] = 1]
           /\ UNCHANGED <<queues, toldWorkers, toPost, drains, owners, owned, joined>>
<1>1. PICK how \in {"ok", "failed"} : jobStatus' = [jobStatus EXCEPT ![current[w]] = how]
  BY DEF Shared!JobEnds, Shared!Ended
<1>2. loop[w] \in {"job", "forked"}
  BY DEF Shared!JobEnds
<1>3. current[w] \in SharedJobs /\ jobStatus[current[w]] = "running"
  BY <1>2 DEF Executed, SharedType
<1>4. Shared!AfterHit(w) = IF drains[w] THEN "try" ELSE "private"
  BY PoolSets DEF Shared!AfterHit, SharedConstants
<1>5. /\ current' = [current EXCEPT ![w] = None]
      /\ loop' = [loop EXCEPT ![w] = Shared!AfterHit(w)]
      /\ try' = [try EXCEPT ![w] = 1]
      /\ UNCHANGED <<queues, toldWorkers, toPost, drains, owners, owned, joined>>
  BY DEF Shared!JobEnds, Shared!Goto
<1> QED
  BY <1>1, <1>2, <1>3, <1>4, <1>5

\* The other steps leave the jobs alone.
JobsAlone ==
  \/ \E c \in Clients : Shared!DropComposite(c)
  \/ \E p \in Shared!Pools : Shared!ResetSubpool(p) \/ Shared!JoinSubpool(p)
  \/ \E w \in Shared!Workers : \/ Shared!NextQueue(w) \/ Shared!Scan(w) \/ Shared!ForkLock(w)
                               \/ Shared!ForkUnlock(w) \/ Shared!Private(w)
  \/ Shared!Terminated

\* They change neither queues nor jobs.
LEMMA JobsAloneFacts ==
  ASSUME JobsAlone
  PROVE  queues' = queues /\ jobStatus' = jobStatus /\ current' = current
<1>1. ASSUME NEW c \in Clients, Shared!DropComposite(c)
      PROVE  queues' = queues /\ jobStatus' = jobStatus /\ current' = current
  BY <1>1 DEF Shared!DropComposite, Shared!workerVars
<1>2. ASSUME NEW p \in Shared!Pools, Shared!ResetSubpool(p) \/ Shared!JoinSubpool(p)
      PROVE  queues' = queues /\ jobStatus' = jobStatus /\ current' = current
  BY <1>2 DEF Shared!ResetSubpool, Shared!JoinSubpool, Shared!workerVars
<1>3. ASSUME NEW w \in Shared!Workers, \/ Shared!NextQueue(w) \/ Shared!Scan(w) \/ Shared!ForkLock(w)
                                       \/ Shared!ForkUnlock(w) \/ Shared!Private(w)
      PROVE  queues' = queues /\ jobStatus' = jobStatus /\ current' = current
  BY <1>3 DEF Shared!NextQueue, Shared!Scan, Shared!ForkLock, Shared!ForkUnlock, Shared!Private
<1>4. CASE Shared!Terminated
  BY <1>4 DEF Shared!Terminated, Shared!vars, Shared!workerVars
<1> QED
  BY <1>1, <1>2, <1>3, <1>4 DEF JobsAlone

\* What a step does to the jobs.
LEMMA StepsOnJobs ==
  ASSUME Shared!Next
  PROVE  \/ \E c \in Clients, j \in SharedJobs : Shared!Post(c, j)
         \/ \E w \in Shared!Workers : \/ Shared!TakeJob(w) \/ Shared!ForkPost(w)
                                      \/ Shared!ForkRefused(w) \/ Shared!JobEnds(w)
         \/ JobsAlone
BY DEF Shared!Next, Shared!Worker, JobsAlone

\* Jobs stay in one place.
LEMMA PlacedStep ==
  ASSUME SharedConstants, SharedType, InQueues, Executed, ForksReady, Shared!Next
  PROVE  InQueues'
<1> DEFINE Q == With(jobStatus, "queued")
<1>1. Q \in SUBSET SharedJobs /\ Placed(queues, Q) /\ queues \in [Shared!Queues -> Seq(SharedJobs)]
  BY DEF With, InQueues, SharedType
<1>2. ASSUME NEW q \in Shared!Queues, NEW j \in SharedJobs, jobStatus[j] = "new",
             queues' = [queues EXCEPT ![q] = Append(@, j)],
             jobStatus' = [jobStatus EXCEPT ![j] = "queued"]
      PROVE  InQueues'
  <2>1. With(jobStatus', "queued") = Q \cup {j} /\ j \notin Q
    BY <1>2 DEF With, SharedType
  <2> HIDE DEF Q
  <2>2. Placed([queues EXCEPT ![q] = Append(@, j)], Q \cup {j})
    BY <1>1, <2>1, PlacedAppend
  <2> QED
    BY <1>2, <2>1, <2>2 DEF InQueues
<1>3. ASSUME queues' = queues, With(jobStatus', "queued") = Q
      PROVE  InQueues'
  BY <1>3 DEF InQueues
<1>4. ASSUME NEW c \in Clients, NEW j \in SharedJobs, Shared!Post(c, j)
      PROVE  InQueues'
  BY <1>2, <1>4, PostFacts
<1>5. ASSUME NEW w \in Shared!Workers, Shared!TakeJob(w)
      PROVE  InQueues'
  <2>1. PICK q \in Shared!Queues, j \in SharedJobs :
          /\ jobStatus[j] = "queued"
          /\ Placed([queues EXCEPT ![q] = Tail(@)], Q \ {j})
          /\ jobStatus' = [jobStatus EXCEPT ![j] = "running"]
          /\ queues' = [queues EXCEPT ![q] = Tail(@)]
    BY <1>5, TakeFacts
  <2>2. With(jobStatus', "queued") = Q \ {j}
    BY <2>1 DEF With, SharedType
  <2> QED
    BY <2>1, <2>2 DEF InQueues
<1>6. ASSUME NEW w \in Shared!Workers, Shared!ForkPost(w)
      PROVE  InQueues'
  <2>1. PICK j \in SharedJobs : /\ jobStatus[j] = "new"
                                /\ queues' = [queues EXCEPT ![Shared!Own(w)] = Append(@, j)]
                                /\ jobStatus' = [jobStatus EXCEPT ![j] = "queued"]
    BY <1>6, ForkPostFacts
  <2> QED
    BY <1>2, <2>1, QueueSets
<1>7. ASSUME NEW w \in Shared!Workers, Shared!ForkRefused(w)
      PROVE  InQueues'
  <2>1. queues' = queues /\ \A s \in SharedJobs : jobStatus'[s] # jobStatus[s] =>
                              jobStatus[s] = "new" /\ jobStatus'[s] = "refused"
    BY <1>7, RefusedFacts
  <2>2. With(jobStatus', "queued") = Q
    BY <2>1 DEF With
  <2> QED
    BY <1>3, <2>1, <2>2
<1>8. ASSUME NEW w \in Shared!Workers, Shared!JobEnds(w)
      PROVE  InQueues'
  <2>1. PICK how \in {"ok", "failed"} :
          /\ current[w] \in SharedJobs /\ jobStatus[current[w]] = "running"
          /\ jobStatus' = [jobStatus EXCEPT ![current[w]] = how] /\ queues' = queues
    BY <1>8, EndFacts
  <2>2. With(jobStatus', "queued") = Q
    BY <2>1 DEF With, SharedType
  <2> QED
    BY <1>3, <2>1, <2>2
<1>9. CASE JobsAlone
  BY <1>3, <1>9, JobsAloneFacts
<1> QED
  BY <1>4, <1>5, <1>6, <1>7, <1>8, <1>9, StepsOnJobs

\* Where the workers go meanwhile.
LEMMA JobsAloneLoops ==
  ASSUME SharedType, JobsAlone, NEW v \in Shared!Workers
  PROVE  \/ loop'[v] = loop[v] /\ toPost'[v] = toPost[v]
         \/ /\ loop[v] \notin {"job", "fork", "forked", "done"}
            /\ loop'[v] \notin {"job", "fork", "forked"}
         \/ /\ loop[v] = "job" /\ loop'[v] = "fork" /\ toPost'[v] = Subtasks[current[v]]
            /\ AliveIn(owned, loop, v[1])
         \/ loop[v] = "fork" /\ loop'[v] = "forked"
<1>1. ASSUME NEW w \in Shared!Workers, Shared!NextQueue(w)
      PROVE  /\ toPost' = toPost /\ loop[w] = "try"
             /\ loop' = loop \/ loop' = [loop EXCEPT ![w] = "scan"]
  BY <1>1 DEF Shared!NextQueue, Shared!Goto
<1>2. ASSUME NEW w \in Shared!Workers, Shared!Scan(w)
      PROVE  /\ toPost' = toPost /\ loop[w] = "scan"
             /\ \E to \in {"private", "done"} : loop' = [loop EXCEPT ![w] = to]
  BY <1>2 DEF Shared!Scan, Shared!Goto, Shared!AfterMiss
<1>3. ASSUME NEW w \in Shared!Workers, Shared!ForkLock(w)
      PROVE  /\ toPost' = [toPost EXCEPT ![w] = Subtasks[current[w]]] /\ loop[w] = "job"
             /\ loop' = [loop EXCEPT ![w] = "fork"] /\ AliveIn(owned, loop, w[1])
  BY <1>3 DEF Shared!ForkLock, Shared!Goto, Shared!Alive, Shared!Lockers, AliveIn
<1>4. ASSUME NEW w \in Shared!Workers, Shared!ForkUnlock(w)
      PROVE  toPost' = toPost /\ loop[w] = "fork" /\ loop' = [loop EXCEPT ![w] = "forked"]
  BY <1>4 DEF Shared!ForkUnlock, Shared!Goto
<1>5. ASSUME NEW w \in Shared!Workers, Shared!Private(w)
      PROVE  toPost' = toPost /\ loop[w] = "private" /\ loop' = [loop EXCEPT ![w] = "try"]
  BY <1>5 DEF Shared!Private, Shared!Goto
<1>6. ASSUME \/ \E c \in Clients : Shared!DropComposite(c)
             \/ \E p \in Shared!Pools : Shared!ResetSubpool(p) \/ Shared!JoinSubpool(p)
             \/ Shared!Terminated
      PROVE  toPost' = toPost /\ loop' = loop
  BY <1>6 DEF Shared!DropComposite, Shared!ResetSubpool, Shared!JoinSubpool, Shared!Terminated,
              Shared!vars, Shared!workerVars
<1>7. loop \in [Shared!Workers -> {"try", "job", "fork", "forked", "scan", "private", "done"}]
      /\ toPost \in [Shared!Workers -> Seq(SharedJobs)]
  BY DEF SharedType
<1> QED
  BY <1>1, <1>2, <1>3, <1>4, <1>5, <1>6, <1>7 DEF JobsAlone

\* A job that runs is with one worker.
LEMMA ExecutedStep ==
  ASSUME SharedConstants, SharedType, InQueues, Executed, ForksReady, Shared!Next
  PROVE  Executed'
<1>1. ASSUME NEW c \in Clients, NEW j \in SharedJobs, Shared!Post(c, j)
      PROVE  Executed'
  <2>1. /\ jobStatus[j] = "new" /\ jobStatus' = [jobStatus EXCEPT ![j] = "queued"]
        /\ loop' = loop /\ current' = current
    BY <1>1, PostFacts
  <2> QED
    BY <2>1 DEF Executed, SharedType
<1>2. ASSUME NEW w \in Shared!Workers, Shared!TakeJob(w)
      PROVE  Executed'
  <2>1. PICK q \in Shared!Queues, j \in SharedJobs :
           /\ loop[w] = "try" /\ queues[q] # <<>> /\ j = Head(queues[q])
           /\ try[w] = 1 => q = Shared!Own(w)
           /\ jobStatus[j] = "queued"
           /\ Tail(queues[q]) \in Seq(SharedJobs)
           /\ Placed([queues EXCEPT ![q] = Tail(@)], With(jobStatus, "queued") \ {j})
           /\ current' = [current EXCEPT ![w] = j]
           /\ jobStatus' = [jobStatus EXCEPT ![j] = "running"]
           /\ queues' = [queues EXCEPT ![q] = Tail(@)]
           /\ loop' = [loop EXCEPT ![w] = "job"] /\ try' = [try EXCEPT ![w] = 1]
           /\ UNCHANGED <<toldWorkers, toPost, drains, owners, owned, joined>>
    BY <1>2, TakeFacts
  <2>2. current[w] = None /\ j # None
    BY <2>1, PoolSets DEF Executed
  <2>3. \A v \in Shared!Workers : v # w => current'[v] = current[v] /\ loop'[v] = loop[v]
    BY <2>1 DEF SharedType
  <2>4. current'[w] = j /\ loop'[w] = "job"
    BY <2>1 DEF SharedType
  <2>5. \A s \in SharedJobs : jobStatus'[s] = IF s = j THEN "running" ELSE jobStatus[s]
    BY <2>1 DEF SharedType
  <2>6. \A v \in Shared!Workers : current[v] # None => current[v] # j /\ current[v] \in SharedJobs
    BY <2>1 DEF Executed, SharedType
  <2>7. \A v \in Shared!Workers : current'[v] # None <=> loop'[v] \in {"job", "fork", "forked"}
    BY <2>2, <2>3, <2>4 DEF Executed
  <2>8. \A v \in Shared!Workers : current'[v] # None => jobStatus'[current'[v]] = "running"
    BY <2>3, <2>4, <2>5, <2>6 DEF Executed
  <2>9. \A u, v \in Shared!Workers : u # v /\ current'[v] # None => current'[u] # current'[v]
    BY <2>2, <2>3, <2>4, <2>6 DEF Executed
  <2>10. \A s \in SharedJobs : jobStatus'[s] = "running" =>
           \E v \in Shared!Workers : current'[v] = s
    <3> SUFFICES ASSUME NEW s \in SharedJobs, s # j, jobStatus[s] = "running"
                 PROVE  \E v \in Shared!Workers : current'[v] = s
      BY <2>4, <2>5
    <3>1. PICK v \in Shared!Workers : current[v] = s
      BY DEF Executed
    <3>2. v # w
      BY <2>2, <3>1, PoolSets
    <3> QED
      BY <2>3, <3>1, <3>2
  <2> QED
    BY <2>7, <2>8, <2>9, <2>10 DEF Executed
<1>3. ASSUME NEW w \in Shared!Workers, Shared!ForkPost(w)
      PROVE  Executed'
  <2>1. PICK j \in SharedJobs : /\ jobStatus[j] = "new"
                                /\ jobStatus' = [jobStatus EXCEPT ![j] = "queued"]
                                /\ loop' = loop /\ current' = current
    BY <1>3, ForkPostFacts
  <2> QED
    BY <2>1 DEF Executed, SharedType
<1>4. ASSUME NEW w \in Shared!Workers, Shared!ForkRefused(w)
      PROVE  Executed'
  <2>1. /\ loop[w] = "job" /\ loop' = [loop EXCEPT ![w] = "forked"] /\ current' = current
        /\ \A s \in SharedJobs : jobStatus'[s] # jobStatus[s] =>
             jobStatus[s] = "new" /\ jobStatus'[s] = "refused"
    BY <1>4, RefusedFacts
  <2>2. \A v \in Shared!Workers : loop'[v] \in {"job", "fork", "forked"} <=>
                                  loop[v] \in {"job", "fork", "forked"}
    BY <2>1 DEF SharedType
  <2>3. \A s \in SharedJobs : jobStatus'[s] = "running" <=> jobStatus[s] = "running"
    BY <2>1
  <2>4. \A v \in Shared!Workers : current[v] # None => current[v] \in SharedJobs
    BY DEF SharedType
  <2> QED
    BY <2>1, <2>2, <2>3, <2>4 DEF Executed
<1>5. ASSUME NEW w \in Shared!Workers, Shared!JobEnds(w)
      PROVE  Executed'
  <2>1. PICK how \in {"ok", "failed"} :
           /\ loop[w] \in {"job", "forked"}
           /\ current[w] \in SharedJobs /\ jobStatus[current[w]] = "running"
           /\ jobStatus' = [jobStatus EXCEPT ![current[w]] = how]
           /\ current' = [current EXCEPT ![w] = None]
           /\ loop' = [loop EXCEPT ![w] = IF drains[w] THEN "try" ELSE "private"]
    BY <1>5, EndFacts
  <2>2. current'[w] = None /\ loop'[w] \in {"try", "private"}
    BY <2>1 DEF SharedType
  <2>3. \A v \in Shared!Workers : v # w => current'[v] = current[v] /\ loop'[v] = loop[v]
    BY <2>1 DEF SharedType
  <2>4. \A s \in SharedJobs : jobStatus'[s] = IF s = current[w] THEN how ELSE jobStatus[s]
    BY <2>1 DEF SharedType
  <2>5. /\ current[w] # None
        /\ \A v \in Shared!Workers : current[v] # None => current[v] \in SharedJobs
    BY <2>1, PoolSets DEF SharedType
  <2> QED
    BY <2>2, <2>3, <2>4, <2>5 DEF Executed
<1>6. CASE JobsAlone
  <2>1. jobStatus' = jobStatus /\ current' = current
    BY <1>6, JobsAloneFacts
  <2>2. \A v \in Shared!Workers : loop'[v] \in {"job", "fork", "forked"} <=>
                                  loop[v] \in {"job", "fork", "forked"}
    BY <1>6, JobsAloneLoops
  <2> QED
    BY <2>1, <2>2 DEF Executed
<1> QED
  BY <1>1, <1>2, <1>3, <1>4, <1>5, <1>6, StepsOnJobs

\* The subtasks of y are new as long as none of them is posted or refused.
LEMMA StayNew ==
  ASSUME NEW st, NEW st2, NEW y,
         \A i \in DOMAIN Subtasks[y] : st[Subtasks[y][i]] = "new" => st2[Subtasks[y][i]] = "new"
  PROVE  /\ SubtasksNew(y, st) => SubtasksNew(y, st2)
         /\ \A s : StillToPost(s, y, st) => StillToPost(s, y, st2)
BY DEF SubtasksNew, StillToPost

\* A job posts its subtasks when it creates the continuation.
LEMMA ForksStep ==
  ASSUME SharedConstants, SharedType, InQueues, Executed, ForksReady, Shared!Next
  PROVE  ForksReady'
<1>1. \A w \in Shared!Workers : loop[w] \in {"job", "fork"} =>
        current[w] \in SharedJobs /\ jobStatus[current[w]] = "running"
  BY DEF Executed, SharedType
<1>2. \A j \in SharedJobs : \A i \in DOMAIN Subtasks[j] : Subtasks[j][i] \in SharedJobs
  BY PoolSets
<1>3. \A j, p \in SharedJobs : \A i \in DOMAIN Subtasks[j], k \in DOMAIN Subtasks[p] :
        Subtasks[j][i] = Subtasks[p][k] => j = p /\ i = k
  BY DEF SharedConstants, SubtasksOwned
<1>4. ASSUME NEW c \in Clients, NEW j \in SharedJobs, Shared!Post(c, j)
      PROVE  ForksReady'
  <2>1. /\ j \in Shared!Roots /\ jobStatus[j] = "new"
        /\ jobStatus' = [jobStatus EXCEPT ![j] = "queued"]
        /\ loop' = loop /\ current' = current /\ toPost' = toPost
    BY <1>4, PostFacts
  <2>2. \A y \in SharedJobs : \A i \in DOMAIN Subtasks[y] : Subtasks[y][i] # j
    BY <2>1 DEF Shared!Roots, Shared!ToSet
  <2>3. \A s \in SharedJobs : jobStatus'[s] = IF s = j THEN "queued" ELSE jobStatus[s]
    BY <2>1 DEF SharedType
  <2>4. \A y \in SharedJobs : /\ SubtasksNew(y, jobStatus) => SubtasksNew(y, jobStatus')
                              /\ \A s : StillToPost(s, y, jobStatus) => StillToPost(s, y, jobStatus')
    BY <1>2, <2>2, <2>3, StayNew
  <2> QED
    BY <1>1, <2>1, <2>3, <2>4 DEF ForksReady
<1>5. ASSUME NEW w \in Shared!Workers, Shared!TakeJob(w)
      PROVE  ForksReady'
  <2>1. PICK q \in Shared!Queues, j \in SharedJobs :
           /\ loop[w] = "try" /\ queues[q] # <<>> /\ j = Head(queues[q])
           /\ try[w] = 1 => q = Shared!Own(w)
           /\ jobStatus[j] = "queued"
           /\ Tail(queues[q]) \in Seq(SharedJobs)
           /\ Placed([queues EXCEPT ![q] = Tail(@)], With(jobStatus, "queued") \ {j})
           /\ current' = [current EXCEPT ![w] = j]
           /\ jobStatus' = [jobStatus EXCEPT ![j] = "running"]
           /\ queues' = [queues EXCEPT ![q] = Tail(@)]
           /\ loop' = [loop EXCEPT ![w] = "job"] /\ try' = [try EXCEPT ![w] = 1]
           /\ UNCHANGED <<toldWorkers, toPost, drains, owners, owned, joined>>
    BY <1>5, TakeFacts
  <2>2. \A s \in SharedJobs : jobStatus'[s] = IF s = j THEN "running" ELSE jobStatus[s]
    BY <2>1 DEF SharedType
  <2>3. \A y \in SharedJobs : /\ SubtasksNew(y, jobStatus) => SubtasksNew(y, jobStatus')
                              /\ \A s : StillToPost(s, y, jobStatus) => StillToPost(s, y, jobStatus')
    BY <1>2, <2>1, <2>2, StayNew
  <2>4. \A v \in Shared!Workers : v # w => current'[v] = current[v] /\ loop'[v] = loop[v]
    BY <2>1 DEF SharedType
  <2>5. current'[w] = j /\ loop'[w] = "job"
    BY <2>1 DEF SharedType
  <2>6. SubtasksNew(j, jobStatus)
    BY <2>1 DEF ForksReady
  <2> QED
    BY <1>1, <2>1, <2>2, <2>3, <2>4, <2>5, <2>6 DEF ForksReady
<1>6. ASSUME NEW w \in Shared!Workers, Shared!ForkPost(w)
      PROVE  ForksReady'
  <2>1. PICK j \in SharedJobs :
           /\ loop[w] = "fork" /\ jobStatus[j] = "new"
           /\ toPost[w] \in Seq(SharedJobs) /\ toPost[w] # <<>> /\ j = Head(toPost[w])
           /\ current[w] \in SharedJobs /\ \E k \in DOMAIN Subtasks[current[w]] :
                                             j = Subtasks[current[w]][k]
           /\ jobStatus' = [jobStatus EXCEPT ![j] = "queued"]
           /\ toPost' = [toPost EXCEPT ![w] = Tail(@)]
           /\ loop' = loop /\ current' = current
    BY <1>6, ForkPostFacts
  <2>2. \A s \in SharedJobs : jobStatus'[s] = IF s = j THEN "queued" ELSE jobStatus[s]
    BY <2>1 DEF SharedType
  <2>3. \A y \in SharedJobs : y # current[w] =>
          /\ SubtasksNew(y, jobStatus) => SubtasksNew(y, jobStatus')
          /\ \A s : StillToPost(s, y, jobStatus) => StillToPost(s, y, jobStatus')
    <3> SUFFICES ASSUME NEW y \in SharedJobs, y # current[w]
                 PROVE  \A i \in DOMAIN Subtasks[y] : Subtasks[y][i] # j
      BY <1>2, <2>2, StayNew
    <3>1. PICK k \in DOMAIN Subtasks[current[w]] : j = Subtasks[current[w]][k]
      BY <2>1
    <3>2. current[w] \in SharedJobs
      BY <2>1
    <3> QED
      BY <1>3, <3>1, <3>2
  <2>4. StillToPost(Tail(toPost[w]), current[w], jobStatus')
    <3> DEFINE t == toPost[w]
               r == Tail(t)
    <3>1. StillToPost(t, current[w], jobStatus)
      BY <2>1 DEF ForksReady
    <3>2. /\ j = t[1] /\ 1 \in DOMAIN t
          /\ \A i \in DOMAIN r : i + 1 \in DOMAIN t /\ i + 1 # 1 /\ r[i] = t[i + 1] /\ t[i + 1] \in SharedJobs
      BY <2>1
    <3>3. \A i, k \in DOMAIN r : i + 1 = k + 1 => i = k
      BY <2>1
    <3> HIDE DEF t, r
    <3>4. \A i \in DOMAIN r : /\ r[i] # j /\ r[i] \in SharedJobs /\ jobStatus[r[i]] = "new"
                              /\ \E k \in DOMAIN Subtasks[current[w]] : r[i] = Subtasks[current[w]][k]
      BY <3>1, <3>2 DEF StillToPost
    <3>5. \A i, k \in DOMAIN r : r[i] = r[k] => i = k
      BY <3>1, <3>2, <3>3 DEF StillToPost
    <3>6. StillToPost(r, current[w], jobStatus')
      BY <2>2, <3>4, <3>5 DEF StillToPost
    <3> QED
      BY <3>6 DEF t, r
  <2>5. toPost'[w] = Tail(toPost[w]) /\ \A v \in Shared!Workers : v # w => toPost'[v] = toPost[v]
    BY <2>1 DEF SharedType
  <2>6. \A v \in Shared!Workers : v # w /\ loop[v] \in {"job", "fork"} => current[v] # current[w]
    BY <2>1 DEF Executed
  <2>7. jobStatus[current[w]] = "running"
    BY <1>1, <2>1
  <2>8. \A y \in SharedJobs : jobStatus'[y] \in {"new", "queued", "refused"} =>
          SubtasksNew(y, jobStatus')
    BY <2>1, <2>2, <2>3, <2>7 DEF ForksReady
  <2>9. \A v \in Shared!Workers : loop[v] = "job" => SubtasksNew(current[v], jobStatus')
    BY <1>1, <2>1, <2>3, <2>6 DEF ForksReady
  <2>10. \A v \in Shared!Workers : loop[v] = "fork" =>
           StillToPost(toPost'[v], current[v], jobStatus')
    BY <1>1, <2>3, <2>4, <2>5, <2>6 DEF ForksReady
  <2> QED
    BY <2>1, <2>8, <2>9, <2>10 DEF ForksReady
<1>7. ASSUME NEW w \in Shared!Workers, Shared!ForkRefused(w)
      PROVE  ForksReady'
  <2>1. /\ loop[w] = "job" /\ current[w] \in SharedJobs
        /\ \A s \in SharedJobs : jobStatus'[s] # jobStatus[s] =>
             /\ jobStatus[s] = "new" /\ jobStatus'[s] = "refused"
             /\ \E k \in DOMAIN Subtasks[current[w]] : s = Subtasks[current[w]][k]
        /\ loop' = [loop EXCEPT ![w] = "forked"] /\ current' = current /\ toPost' = toPost
    BY <1>7, RefusedFacts
  <2>2. \A y \in SharedJobs : y # current[w] =>
          /\ SubtasksNew(y, jobStatus) => SubtasksNew(y, jobStatus')
          /\ \A s : StillToPost(s, y, jobStatus) => StillToPost(s, y, jobStatus')
    <3> SUFFICES ASSUME NEW y \in SharedJobs, y # current[w]
                 PROVE  \A i \in DOMAIN Subtasks[y] : jobStatus'[Subtasks[y][i]] = jobStatus[Subtasks[y][i]]
      BY StayNew
    <3> QED
      BY <1>2, <1>3, <2>1
  <2>3. loop'[w] = "forked" /\ \A v \in Shared!Workers : v # w => loop'[v] = loop[v]
    BY <2>1 DEF SharedType
  <2>4. \A v \in Shared!Workers : v # w /\ loop[v] \in {"job", "fork"} => current[v] # current[w]
    BY <2>1 DEF Executed
  <2>5. jobStatus[current[w]] = "running"
    BY <1>1, <2>1
  <2>6. \A y \in SharedJobs : jobStatus'[y] \in {"new", "queued", "refused"} =>
          SubtasksNew(y, jobStatus')
    BY <2>1, <2>2, <2>5 DEF ForksReady
  <2>7. \A v \in Shared!Workers : loop'[v] = "job" => SubtasksNew(current[v], jobStatus')
    BY <1>1, <2>2, <2>3, <2>4 DEF ForksReady
  <2>8. \A v \in Shared!Workers : loop'[v] = "fork" => StillToPost(toPost[v], current[v], jobStatus')
    BY <1>1, <2>2, <2>3, <2>4 DEF ForksReady
  <2> QED
    BY <2>1, <2>6, <2>7, <2>8 DEF ForksReady
<1>8. ASSUME NEW w \in Shared!Workers, Shared!JobEnds(w)
      PROVE  ForksReady'
  <2>1. PICK how \in {"ok", "failed"} :
           /\ current[w] \in SharedJobs /\ jobStatus[current[w]] = "running"
           /\ jobStatus' = [jobStatus EXCEPT ![current[w]] = how]
           /\ current' = [current EXCEPT ![w] = None]
           /\ loop' = [loop EXCEPT ![w] = IF drains[w] THEN "try" ELSE "private"]
           /\ toPost' = toPost
    BY <1>8, EndFacts
  <2>2. \A s \in SharedJobs : jobStatus'[s] = IF s = current[w] THEN how ELSE jobStatus[s]
    BY <2>1 DEF SharedType
  <2>3. \A y \in SharedJobs : /\ SubtasksNew(y, jobStatus) => SubtasksNew(y, jobStatus')
                              /\ \A s : StillToPost(s, y, jobStatus) => StillToPost(s, y, jobStatus')
    BY <1>2, <2>1, <2>2, StayNew
  <2>4. /\ loop'[w] \in {"try", "private"}
        /\ \A v \in Shared!Workers : v # w => current'[v] = current[v] /\ loop'[v] = loop[v]
    BY <2>1 DEF SharedType
  <2> QED
    BY <1>1, <2>1, <2>2, <2>3, <2>4 DEF ForksReady
<1>9. CASE JobsAlone
  <2>1. jobStatus' = jobStatus /\ current' = current
    BY <1>9, JobsAloneFacts
  <2>2. \A v \in Shared!Workers : loop'[v] = "job" => loop[v] = "job"
    BY <1>9, JobsAloneLoops
  <2>3. ASSUME NEW v \in Shared!Workers, loop'[v] = "fork"
        PROVE  StillToPost(toPost'[v], current[v], jobStatus)
    <3>1. \/ loop[v] = "fork" /\ toPost'[v] = toPost[v]
          \/ loop[v] = "job" /\ toPost'[v] = Subtasks[current[v]]
      BY <1>9, <2>3, JobsAloneLoops
    <3>2. CASE loop[v] = "fork" /\ toPost'[v] = toPost[v]
      BY <3>2 DEF ForksReady
    <3>3. CASE loop[v] = "job" /\ toPost'[v] = Subtasks[current[v]]
      <4>1. SubtasksNew(current[v], jobStatus) /\ current[v] \in SharedJobs
        BY <1>1, <3>3 DEF ForksReady
      <4> QED
        BY <1>3, <3>3, <4>1 DEF SubtasksNew, StillToPost
    <3> QED
      BY <3>1, <3>2, <3>3
  <2> QED
    BY <2>1, <2>2, <2>3 DEF ForksReady
<1> QED
  BY <1>4, <1>5, <1>6, <1>7, <1>8, <1>9, StepsOnJobs

\* Who may own the scheduler after a step, and who has left.
LEMMA OwnersStep ==
  ASSUME SharedConstants, SharedInv, Shared!Next
  PROVE  /\ owned' \subseteq owned
         /\ \A v \in Shared!Workers : loop'[v] = "fork" =>
              loop[v] = "fork" \/ AliveIn(owned, loop, v[1])
         /\ \A v \in Shared!Workers : loop[v] = "done" => loop'[v] = "done"
<1>1. SharedType /\ InQueues /\ Executed /\ ForksReady
  BY DEF SharedInv
<1>2. ASSUME NEW c \in Clients, NEW j \in SharedJobs, Shared!Post(c, j)
      PROVE  owned' = owned /\ loop' = loop
  BY <1>1, <1>2, PostFacts
<1>3. ASSUME NEW w \in Shared!Workers, Shared!TakeJob(w)
      PROVE  owned' = owned /\ loop[w] = "try" /\ loop' = [loop EXCEPT ![w] = "job"]
  BY <1>3 DEF Shared!TakeJob, Shared!Goto
<1>4. ASSUME NEW w \in Shared!Workers, Shared!ForkPost(w)
      PROVE  owned' = owned /\ loop' = loop
  BY <1>4 DEF Shared!ForkPost
<1>5. ASSUME NEW w \in Shared!Workers, Shared!ForkRefused(w)
      PROVE  owned' = owned /\ loop[w] = "job" /\ loop' = [loop EXCEPT ![w] = "forked"]
  BY <1>5 DEF Shared!ForkRefused, Shared!Goto
<1>6. ASSUME NEW w \in Shared!Workers, Shared!JobEnds(w)
      PROVE  /\ owned' = owned /\ loop[w] # "done"
             /\ \E to \in {"try", "private"} : loop' = [loop EXCEPT ![w] = to]
  BY <1>1, <1>6, EndFacts
<1>7. ASSUME JobsAlone
      PROVE  owned' \subseteq owned
  BY <1>7 DEF JobsAlone, Shared!DropComposite, Shared!ResetSubpool, Shared!JoinSubpool,
              Shared!NextQueue, Shared!Scan, Shared!ForkLock, Shared!ForkUnlock, Shared!Private,
              Shared!Terminated, Shared!vars
<1>8. loop \in [Shared!Workers -> {"try", "job", "fork", "forked", "scan", "private", "done"}]
  BY <1>1 DEF SharedType
<1>9. CASE JobsAlone
  BY <1>1, <1>7, <1>9, JobsAloneLoops
<1> QED
  BY <1>2, <1>3, <1>4, <1>5, <1>6, <1>8, <1>9, StepsOnJobs

\* A pool that nobody owns stays so.
LEMMA DeadStays ==
  ASSUME SharedConstants, SharedInv, Shared!Next, NEW p \in Shared!Pools,
         ~AliveIn(owned, loop, p)
  PROVE  ~AliveIn(owned', loop', p)
<1>1. p \notin owned /\ \A w \in Shared!WorkersOf(p) : loop[w] # "fork"
  BY DEF AliveIn
<1>2. \A w \in Shared!WorkersOf(p) : w \in Shared!Workers /\ w[1] = p
  BY PoolSets
<1> QED
  BY <1>1, <1>2, OwnersStep DEF AliveIn

\* Only workers of a pool that nobody owns are told to end.
LEMMA ToldStep ==
  ASSUME SharedConstants, SharedInv, Shared!Next, NEW v \in Shared!Workers,
         v \in toldWorkers' \/ drains'[v]
  PROVE  ~AliveIn(owned', loop', v[1])
<1>1. SharedType /\ InQueues /\ Executed /\ ForksReady /\ ShutDown
  BY DEF SharedInv
<1>2. v[1] \in Shared!Pools /\ v \in Shared!WorkersOf(v[1])
  BY PoolSets
<1>3. v \in toldWorkers \/ drains[v] => ~AliveIn(owned', loop', v[1])
  BY <1>1, <1>2, DeadStays DEF ShutDown
<1>4. ASSUME toldWorkers' = toldWorkers, drains' = drains
      PROVE  ~AliveIn(owned', loop', v[1])
  BY <1>3, <1>4
<1>5. ASSUME NEW p \in Shared!Pools, Shared!ResetSubpool(p)
      PROVE  ~AliveIn(owned', loop', v[1])
  <2>1. /\ drains' = drains /\ loop' = loop
        /\ toldWorkers' = IF p \in owned' \/ Shared!Lockers(p) # {} THEN toldWorkers
                          ELSE toldWorkers \cup Shared!WorkersOf(p)
    BY <1>5 DEF Shared!ResetSubpool, Shared!Release, Shared!workerVars
  <2>2. CASE v \in toldWorkers \/ drains[v]
    BY <1>3, <2>2
  <2>3. CASE ~(v \in toldWorkers \/ drains[v])
    <3>1. p \notin owned' /\ Shared!Lockers(p) = {} /\ v \in Shared!WorkersOf(p)
      BY <2>1, <2>3
    <3>2. v[1] = p /\ \A w \in Shared!WorkersOf(p) : loop[w] # "fork"
      BY <3>1, PoolSets DEF Shared!Lockers
    <3> QED
      BY <2>1, <3>1, <3>2 DEF AliveIn
  <2> QED
    BY <2>2, <2>3
<1>6. ASSUME NEW w \in Shared!Workers, Shared!ForkUnlock(w)
      PROVE  ~AliveIn(owned', loop', v[1])
  <2> DEFINE p == w[1]
  <2>1. /\ drains' = drains /\ loop' = [loop EXCEPT ![w] = "forked"] /\ owned' = owned
        /\ toldWorkers' = IF p \in owned \/ Shared!Lockers(p) \ {w} # {} THEN toldWorkers
                          ELSE toldWorkers \cup Shared!WorkersOf(p)
    BY <1>6 DEF Shared!ForkUnlock, Shared!Release, Shared!Goto
  <2>2. CASE v \in toldWorkers \/ drains[v]
    BY <1>3, <2>2
  <2>3. CASE ~(v \in toldWorkers \/ drains[v])
    <3>1. p \notin owned /\ Shared!Lockers(p) \ {w} = {} /\ v \in Shared!WorkersOf(p)
      BY <2>1, <2>3
    <3>2. v[1] = p /\ \A u \in Shared!WorkersOf(p) : u # w => loop[u] # "fork"
      BY <3>1, PoolSets DEF Shared!Lockers
    <3>3. \A u \in Shared!WorkersOf(p) : loop'[u] # "fork"
      <4>1. \A u \in Shared!WorkersOf(p) : u \in Shared!Workers
        BY PoolSets
      <4> QED
        BY <1>1, <2>1, <3>2, <4>1 DEF SharedType
    <3> QED
      BY <2>1, <3>1, <3>2, <3>3 DEF AliveIn
  <2> QED
    BY <2>2, <2>3
<1>7. ASSUME NEW w \in Shared!Workers, Shared!Private(w)
      PROVE  ~AliveIn(owned', loop', v[1])
  <2>1. toldWorkers' = toldWorkers \ {w} /\ drains' = [drains EXCEPT ![w] = w \in toldWorkers]
    BY <1>7 DEF Shared!Private
  <2>2. CASE v # w
    <3>1. drains'[v] = drains[v]
      BY <1>1, <2>1, <2>2 DEF SharedType
    <3> QED
      BY <1>3, <2>1, <3>1
  <2>3. CASE v = w
    <3>1. drains'[v] <=> v \in toldWorkers
      BY <1>1, <2>1, <2>3 DEF SharedType
    <3> QED
      BY <1>3, <2>1, <2>3, <3>1
  <2> QED
    BY <2>2, <2>3
<1>8. ASSUME NEW w \in Shared!Workers,
             \/ Shared!TakeJob(w) \/ Shared!ForkPost(w) \/ Shared!ForkRefused(w) \/ Shared!JobEnds(w)
             \/ Shared!NextQueue(w) \/ Shared!Scan(w) \/ Shared!ForkLock(w)
      PROVE  toldWorkers' = toldWorkers /\ drains' = drains
  BY <1>8 DEF Shared!TakeJob, Shared!ForkPost, Shared!ForkRefused, Shared!JobEnds,
              Shared!NextQueue, Shared!Scan, Shared!ForkLock
<1>9. ASSUME \/ \E c \in Clients : Shared!DropComposite(c) \/ \E j \in SharedJobs : Shared!Post(c, j)
             \/ \E p \in Shared!Pools : Shared!JoinSubpool(p)
             \/ Shared!Terminated
      PROVE  toldWorkers' = toldWorkers /\ drains' = drains
  BY <1>9 DEF Shared!DropComposite, Shared!Post, Shared!JoinSubpool, Shared!Terminated,
              Shared!vars, Shared!workerVars
<1> QED
  BY <1>4, <1>5, <1>6, <1>7, <1>8, <1>9 DEF Shared!Next, Shared!Worker

\* Where a draining worker is that has passed its own queue.
LEMMA PassedStep ==
  ASSUME SharedConstants, SharedInv, Shared!Next, NEW v \in Shared!Workers
  PROVE  /\ loop'[v] = "done" => drains'[v]
         /\ drains'[v] /\ Passed(loop'[v], try'[v]) =>
              /\ drains[v]
              /\ Passed(loop[v], try[v]) \/ queues[Shared!Own(v)] = <<>>
<1>1. SharedType /\ InQueues /\ Executed /\ ForksReady /\ ShutDown
  BY DEF SharedInv
<1>2. loop[v] = "done" => drains[v]
  BY <1>1 DEF ShutDown
<1> DEFINE Goal == /\ loop'[v] = "done" => drains'[v]
                   /\ drains'[v] /\ Passed(loop'[v], try'[v]) =>
                        /\ drains[v]
                        /\ Passed(loop[v], try[v]) \/ queues[Shared!Own(v)] = <<>>
<1>3. ASSUME loop'[v] = loop[v], try'[v] = try[v], drains'[v] = drains[v]
      PROVE  Goal
  BY <1>2, <1>3
<1>4. ASSUME drains'[v] = drains[v], try'[v] = 1, loop'[v] \notin {"done", "scan"}
      PROVE  Goal
  BY <1>4 DEF Passed
<1>5. ASSUME NEW w \in Shared!Workers, NEW to, Shared!Goto(w, to), drains' = drains,
             to \notin {"done", "scan"}
      PROVE  Goal
  <2>1. v = w => loop'[v] = to /\ try'[v] = 1
    BY <1>1, <1>5 DEF Shared!Goto, SharedType
  <2>2. v # w => loop'[v] = loop[v] /\ try'[v] = try[v]
    BY <1>1, <1>5 DEF Shared!Goto, SharedType
  <2> HIDE DEF Goal
  <2> QED
    BY <1>3, <1>4, <1>5, <2>1, <2>2
<1>6. ASSUME NEW w \in Shared!Workers, Shared!NextQueue(w)
      PROVE  Goal
  <2>1. drains' = drains /\ loop[w] = "try" /\ queues[Shared!Tried(w)] = <<>>
    BY <1>6 DEF Shared!NextQueue
  <2>2. CASE v = w
    <3>1. Passed(loop[v], try[v]) \/ queues[Shared!Own(v)] = <<>>
      <4>1. try[v] \in Nat \ {0}
        BY <1>1 DEF SharedType
      <4>2. try[v] = 1 => Shared!Tried(v) = Shared!Own(v)
        BY <1>1, TriedQueue
      <4> QED
        BY <2>1, <2>2, <4>1, <4>2 DEF Passed
    <3>2. loop'[v] # "done"
      BY <1>1, <1>6, <2>1, <2>2 DEF Shared!NextQueue, Shared!Goto, SharedType
    <3> QED
      BY <2>1, <3>1, <3>2
  <2>3. CASE v # w
    <3>1. loop'[v] = loop[v] /\ try'[v] = try[v]
      BY <1>1, <1>6, <2>3 DEF Shared!NextQueue, Shared!Goto, SharedType
    <3> QED
      BY <1>3, <2>1, <3>1
  <2> QED
    BY <2>2, <2>3
<1>7. ASSUME NEW w \in Shared!Workers, Shared!Scan(w)
      PROVE  Goal
  <2>1. /\ drains' = drains /\ loop[w] = "scan" /\ Shared!Goto(w, Shared!AfterMiss(w))
    BY <1>7 DEF Shared!Scan
  <2>2. CASE v = w
    <3>1. Passed(loop[v], try[v])
      BY <2>1, <2>2 DEF Passed
    <3>2. loop'[v] = IF drains[v] THEN "done" ELSE "private"
      BY <1>1, <2>1, <2>2 DEF Shared!Goto, Shared!AfterMiss, SharedType
    <3> QED
      BY <2>1, <3>1, <3>2
  <2>3. CASE v # w
    <3>1. loop'[v] = loop[v] /\ try'[v] = try[v]
      BY <1>1, <2>1, <2>3 DEF Shared!Goto, SharedType
    <3> QED
      BY <1>3, <2>1, <3>1
  <2> QED
    BY <2>2, <2>3
<1>8. ASSUME NEW w \in Shared!Workers, Shared!Private(w)
      PROVE  Goal
  <2>1. Shared!Goto(w, "try") /\ drains' = [drains EXCEPT ![w] = w \in toldWorkers]
    BY <1>8 DEF Shared!Private
  <2>2. CASE v = w
    <3>1. loop'[v] = "try" /\ try'[v] = 1
      BY <1>1, <2>1, <2>2 DEF Shared!Goto, SharedType
    <3> QED
      BY <3>1 DEF Passed
  <2>3. CASE v # w
    <3>1. loop'[v] = loop[v] /\ try'[v] = try[v] /\ drains'[v] = drains[v]
      BY <1>1, <2>1, <2>3 DEF Shared!Goto, SharedType
    <3> QED
      BY <1>3, <3>1
  <2> QED
    BY <2>2, <2>3
<1>9. ASSUME NEW w \in Shared!Workers,
             Shared!TakeJob(w) \/ Shared!ForkRefused(w) \/ Shared!ForkLock(w) \/ Shared!ForkUnlock(w)
      PROVE  Goal
  <2>1. drains' = drains /\ \E to \in {"job", "fork", "forked"} : Shared!Goto(w, to)
    BY <1>9 DEF Shared!TakeJob, Shared!ForkRefused, Shared!ForkLock, Shared!ForkUnlock
  <2> QED
    BY <1>5, <2>1
<1>10. ASSUME NEW w \in Shared!Workers, Shared!JobEnds(w)
       PROVE  Goal
  <2>1. drains' = drains /\ Shared!Goto(w, Shared!AfterHit(w))
    BY <1>10 DEF Shared!JobEnds
  <2>2. Shared!AfterHit(w) \notin {"done", "scan"}
    BY PoolSets DEF Shared!AfterHit
  <2> QED
    BY <1>5, <2>1, <2>2
<1>11. ASSUME NEW w \in Shared!Workers, Shared!ForkPost(w)
       PROVE  Goal
  <2>1. loop' = loop /\ try' = try /\ drains' = drains
    BY <1>11 DEF Shared!ForkPost
  <2> QED
    BY <1>3, <2>1
<1>12. ASSUME \/ \E c \in Clients : Shared!DropComposite(c) \/ \E j \in SharedJobs : Shared!Post(c, j)
              \/ \E p \in Shared!Pools : Shared!ResetSubpool(p) \/ Shared!JoinSubpool(p)
              \/ Shared!Terminated
       PROVE  Goal
  <2>1. loop' = loop /\ try' = try /\ drains' = drains
    BY <1>12 DEF Shared!DropComposite, Shared!Post, Shared!JoinSubpool, Shared!ResetSubpool,
                 Shared!Terminated, Shared!vars, Shared!workerVars
  <2> QED
    BY <1>3, <2>1
<1> HIDE DEF Goal
<1>13. Goal
  BY <1>6, <1>7, <1>8, <1>9, <1>10, <1>11, <1>12 DEF Shared!Next, Shared!Worker
<1> QED
  BY <1>13 DEF Goal

\* An empty queue of a worker that drains stays empty: nobody posts to its pool.
LEMMA EmptyStays ==
  ASSUME SharedConstants, SharedInv, Shared!Next, NEW v \in Shared!Workers, drains[v],
         queues[Shared!Own(v)] = <<>>
  PROVE  queues'[Shared!Own(v)] = <<>>
<1>1. SharedType /\ InQueues /\ Executed /\ ForksReady /\ ShutDown
  BY DEF SharedInv
<1>2. ~AliveIn(owned, loop, v[1]) /\ v[1] \in Shared!Pools /\ Shared!Own(v) \in Shared!Queues
      /\ Shared!Own(v)[1] = v[1]
  BY <1>1, PoolSets, QueueSets DEF ShutDown
<1>3. ASSUME NEW c \in Clients, NEW j \in SharedJobs, Shared!Post(c, j)
      PROVE  FALSE
  <2>1. owned = Shared!Pools
    BY <1>1, <1>3, PostFacts DEF ShutDown
  <2> QED
    BY <1>2, <2>1 DEF AliveIn
<1>4. ASSUME NEW w \in Shared!Workers, Shared!TakeJob(w)
      PROVE  queues'[Shared!Own(v)] = <<>>
  <2>1. PICK q \in Shared!Queues, j \in SharedJobs :
           /\ loop[w] = "try" /\ queues[q] # <<>> /\ j = Head(queues[q])
           /\ try[w] = 1 => q = Shared!Own(w)
           /\ jobStatus[j] = "queued"
           /\ Tail(queues[q]) \in Seq(SharedJobs)
           /\ Placed([queues EXCEPT ![q] = Tail(@)], With(jobStatus, "queued") \ {j})
           /\ current' = [current EXCEPT ![w] = j]
           /\ jobStatus' = [jobStatus EXCEPT ![j] = "running"]
           /\ queues' = [queues EXCEPT ![q] = Tail(@)]
           /\ loop' = [loop EXCEPT ![w] = "job"] /\ try' = [try EXCEPT ![w] = 1]
           /\ UNCHANGED <<toldWorkers, toPost, drains, owners, owned, joined>>
    BY <1>1, <1>4, TakeFacts
  <2>2. q # Shared!Own(v)
    BY <2>1
  <2> QED
    BY <1>1, <1>2, <2>1, <2>2 DEF SharedType
<1>5. ASSUME NEW w \in Shared!Workers, Shared!ForkPost(w)
      PROVE  queues'[Shared!Own(v)] = <<>>
  <2>1. loop[w] = "fork" /\ queues' = [queues EXCEPT ![Shared!Own(w)] = Append(@, Head(toPost[w]))]
    BY <1>5 DEF Shared!ForkPost
  <2>2. Shared!Own(w) # Shared!Own(v)
    <3> SUFFICES ASSUME Shared!Own(w) = Shared!Own(v) PROVE FALSE
      OBVIOUS
    <3>1. w[1] = v[1] /\ w \in Shared!WorkersOf(w[1])
      BY PoolSets, QueueSets
    <3> QED
      BY <1>2, <2>1, <3>1 DEF AliveIn
  <2> QED
    BY <1>1, <1>2, <2>1, <2>2, QueueSets DEF SharedType
<1>6. ASSUME NEW w \in Shared!Workers, Shared!ForkRefused(w) \/ Shared!JobEnds(w)
      PROVE  queues' = queues
  BY <1>6 DEF Shared!ForkRefused, Shared!JobEnds
<1>7. JobsAlone => queues' = queues
  BY JobsAloneFacts
<1> QED
  BY <1>3, <1>4, <1>5, <1>6, <1>7, StepsOnJobs

\* The shutdown goes on as it should.
LEMMA ShutDownStep ==
  ASSUME SharedConstants, SharedInv, Shared!Next
  PROVE  ShutDown'
<1>1. SharedType /\ InQueues /\ Executed /\ ForksReady /\ ShutDown
  BY DEF SharedInv
<1>2. owners' # {} => owned' = Shared!Pools
  <2>1. owners' \subseteq owners /\ (owners # {} => owned' = owned)
    BY DEF Shared!Next, Shared!DropComposite, Shared!Post, Shared!ResetSubpool, Shared!JoinSubpool,
           Shared!Worker, Shared!TakeJob, Shared!NextQueue, Shared!Scan, Shared!ForkLock,
           Shared!ForkRefused, Shared!ForkPost, Shared!ForkUnlock, Shared!JobEnds, Shared!Private,
           Shared!Terminated, Shared!vars
  <2> QED
    BY <1>1, <2>1 DEF ShutDown
<1>3. \A w \in Shared!Workers : w \in toldWorkers' \/ drains'[w] => ~AliveIn(owned', loop', w[1])
  BY ToldStep
<1>4. \A w \in Shared!Workers : loop'[w] = "done" => drains'[w]
  BY PassedStep
<1>5. \A w \in Shared!Workers : drains'[w] /\ Passed(loop'[w], try'[w]) =>
        queues'[Shared!Own(w)] = <<>>
  <2> SUFFICES ASSUME NEW w \in Shared!Workers, drains'[w], Passed(loop'[w], try'[w])
               PROVE  queues'[Shared!Own(w)] = <<>>
    OBVIOUS
  <2>1. drains[w] /\ (Passed(loop[w], try[w]) \/ queues[Shared!Own(w)] = <<>>)
    BY PassedStep
  <2>2. queues[Shared!Own(w)] = <<>>
    BY <1>1, <2>1 DEF ShutDown
  <2> QED
    BY <2>1, <2>2, EmptyStays
<1>6. \A p \in joined' : p \notin owned' /\ \A w \in Shared!WorkersOf(p) : loop'[w] = "done"
  <2>1. \A p \in joined : p \notin owned' /\ \A w \in Shared!WorkersOf(p) : loop'[w] = "done"
    <3>1. joined \subseteq Shared!Pools
      BY <1>1 DEF SharedType
    <3>2. \A p \in joined : \A w \in Shared!WorkersOf(p) : w \in Shared!Workers
      BY <3>1, PoolSets
    <3> QED
      BY <1>1, <3>2, OwnersStep DEF ShutDown
  <2>2. ASSUME NEW p \in joined', p \notin joined
        PROVE  p \notin owned' /\ \A w \in Shared!WorkersOf(p) : loop'[w] = "done"
    <3>1. PICK r \in Shared!Pools : Shared!JoinSubpool(r)
      BY <2>2 DEF Shared!Next, Shared!DropComposite, Shared!Post, Shared!ResetSubpool,
           Shared!Worker, Shared!TakeJob, Shared!NextQueue, Shared!Scan, Shared!ForkLock,
           Shared!ForkRefused, Shared!ForkPost, Shared!ForkUnlock, Shared!JobEnds, Shared!Private,
           Shared!Terminated, Shared!vars
    <3> QED
      BY <2>2, <3>1 DEF Shared!JoinSubpool, Shared!workerVars
  <2> QED
    BY <2>1, <2>2
<1> QED
  BY <1>2, <1>3, <1>4, <1>5, <1>6 DEF ShutDown

\* At first no job is queued.
LEMMA SharedInit ==
  ASSUME SharedConstants, Shared!Init
  PROVE  SharedInv
<1>1. SharedType
  <2>1. \A w \in Shared!Workers : 1 \in 1 .. Len(Shared!Tries(w))
    BY TriesQueues
  <2> QED
    BY <2>1 DEF Shared!Init, SharedType
<1>2. InQueues
  <2>1. With(jobStatus, "queued") = {} /\ \A q \in Shared!Queues : queues[q] = <<>>
    BY DEF Shared!Init, With
  <2> QED
    BY <2>1 DEF InQueues, Placed
<1>3. Executed
  BY DEF Shared!Init, Executed
<1>4. ForksReady
  <2>1. \A j \in SharedJobs : \A i \in DOMAIN Subtasks[j] : Subtasks[j][i] \in SharedJobs
    BY PoolSets
  <2> QED
    BY <2>1 DEF Shared!Init, ForksReady, SubtasksNew
<1>5. ShutDown
  <2>1. \A w \in Shared!Workers : ~Passed("try", 1)
    BY DEF Passed
  <2> QED
    BY <2>1 DEF Shared!Init, ShutDown
<1> QED
  BY <1>1, <1>2, <1>3, <1>4, <1>5 DEF SharedInv

\* The invariant of the pools that share their queues.
LEMMA SharedStep ==
  ASSUME SharedConstants, SharedInv, [Shared!Next]_(Shared!vars)
  PROVE  SharedInv'
<1>1. SharedType /\ InQueues /\ Executed /\ ForksReady /\ ShutDown
  BY DEF SharedInv
<1>2. CASE Shared!Next
  BY <1>1, <1>2, SharedTypeStep, PlacedStep, ExecutedStep, ForksStep, ShutDownStep DEF SharedInv
<1>3. CASE UNCHANGED Shared!vars
  <2>1. /\ queues' = queues /\ jobStatus' = jobStatus /\ toldWorkers' = toldWorkers
        /\ loop' = loop /\ try' = try /\ current' = current /\ toPost' = toPost
        /\ drains' = drains /\ owners' = owners /\ owned' = owned /\ joined' = joined
    BY <1>3 DEF Shared!vars, Shared!workerVars
  <2>2. SharedType' /\ InQueues' /\ Executed'
    BY <1>1, <2>1 DEF SharedType, InQueues, Executed
  <2>3. ForksReady' /\ ShutDown'
    BY <1>1, <2>1 DEF ForksReady, ShutDown
  <2> QED
    BY <2>2, <2>3 DEF SharedInv
<1> QED
  BY <1>2, <1>3

\* The jobs as JobPool sees them.
Seen(st) ==
  [j \in SharedJobs |-> IF st[j] = "queued" THEN "posted" ELSE IF st[j] = "refused" THEN "new"
                        ELSE IF st[j] \in {"ok", "failed"} THEN "ended" ELSE st[j]]

SharedClosed == \A p \in Shared!Pools : ~AliveIn(owned, loop, p)

\* What the refinement mapping says of a state.
LEMMA SeenState ==
  ASSUME NEW st
  PROVE  [j \in SharedJobs |-> CASE st[j] = "queued"  -> "posted"
                                 [] st[j] = "refused" -> "new"
                                 [] st[j] \in {"ok", "failed"} -> "ended"
                                 [] OTHER             -> st[j]] = Seen(st)
BY DEF Seen

\* A job changes its state, or none does.
LEMMA SeenMoves ==
  ASSUME NEW st, NEW st2, NEW j \in SharedJobs,
         \A s \in SharedJobs : s # j => Seen(st2)[s] = Seen(st)[s]
  PROVE  Seen(st2) = [Seen(st) EXCEPT ![j] = Seen(st2)[j]]
BY DEF Seen

\* The steps of JobPool through the mapping.
LEMMA PoolActions ==
  /\ \A j \in SharedJobs :
       /\ Shared!Pool!Post(j) <=> /\ ~SharedClosed /\ Seen(jobStatus)[j] = "new"
                                  /\ Seen(jobStatus') = [Seen(jobStatus) EXCEPT ![j] = "posted"]
                                  /\ SharedClosed' = SharedClosed
                                  /\ (joined = Shared!Pools)' = (joined = Shared!Pools)
       /\ Shared!Pool!Start(j) <=> /\ Seen(jobStatus)[j] = "posted"
                                   /\ Seen(jobStatus') = [Seen(jobStatus) EXCEPT ![j] = "running"]
                                   /\ SharedClosed' = SharedClosed
                                   /\ (joined = Shared!Pools)' = (joined = Shared!Pools)
       /\ Shared!Pool!End(j) <=> /\ Seen(jobStatus)[j] = "running"
                                 /\ Seen(jobStatus') = [Seen(jobStatus) EXCEPT ![j] = "ended"]
                                 /\ SharedClosed' = SharedClosed
                                 /\ (joined = Shared!Pools)' = (joined = Shared!Pools)
  /\ Shared!Pool!Close <=> /\ ~SharedClosed /\ SharedClosed' = TRUE
                           /\ Seen(jobStatus') = Seen(jobStatus)
                           /\ (joined = Shared!Pools)' = (joined = Shared!Pools)
  /\ Shared!Pool!Join <=> /\ SharedClosed
                          /\ \A j \in SharedJobs : Seen(jobStatus)[j] \notin {"posted", "running"}
                          /\ (joined = Shared!Pools)' = TRUE
                          /\ Seen(jobStatus') = Seen(jobStatus) /\ SharedClosed' = SharedClosed
BY SeenState DEF Shared!Pool!Post, Shared!Pool!Start, Shared!Pool!End, Shared!Pool!Close,
     Shared!Pool!Join, Shared!Pool!Move, SharedClosed, AliveIn, Shared!Alive, Shared!Lockers,
     Shared!Ended

\* A step that changes nothing of this is a stutter of JobPool.
LEMMA PoolStutters ==
  ASSUME Seen(jobStatus') = Seen(jobStatus), SharedClosed' = SharedClosed, joined' = joined
  PROVE  UNCHANGED Shared!Pool!vars
BY SeenState DEF Shared!Pool!vars, SharedClosed, AliveIn, Shared!Alive, Shared!Lockers,
   Shared!Ended

\* As long as a pool is left to be joined.
LEMMA PoolUnjoined ==
  ASSUME jobStatus' = jobStatus, SharedClosed' = SharedClosed,
         joined # Shared!Pools, joined' # Shared!Pools
  PROVE  UNCHANGED Shared!Pool!vars
<1>1. (joined = Shared!Pools)' = (joined = Shared!Pools)
  OBVIOUS
<1> QED
  BY <1>1, SeenState DEF Shared!Pool!vars, SharedClosed, AliveIn, Shared!Alive, Shared!Lockers,
     Shared!Ended

\* Who owns the pools decides whether they are closed.
LEMMA ClosedSame ==
  ASSUME SharedConstants, owned' = owned,
         \A w \in Shared!Workers : loop'[w] = "fork" <=> loop[w] = "fork"
  PROVE  SharedClosed' = SharedClosed
<1>1. \A p \in Shared!Pools : AliveIn(owned', loop', p) <=> AliveIn(owned, loop, p)
  BY PoolSets DEF AliveIn
<1> QED
  BY <1>1 DEF SharedClosed

\* A job that is posted, started or ended is so in JobPool.
LEMMA JobMoves ==
  ASSUME SharedConstants, SharedInv, NEW j \in SharedJobs,
         owned' = owned, joined' = joined,
         \A w \in Shared!Workers : loop'[w] = "fork" <=> loop[w] = "fork",
         NEW to, jobStatus' = [jobStatus EXCEPT ![j] = to],
         \/ jobStatus[j] = "new" /\ to = "queued" /\ ~SharedClosed
         \/ jobStatus[j] = "queued" /\ to = "running"
         \/ jobStatus[j] = "running" /\ to \in {"ok", "failed"}
  PROVE  Shared!Pool!Next
<1>1. jobStatus \in [SharedJobs -> {"new", "queued", "running", "refused", "ok", "failed"}]
  BY DEF SharedInv, SharedType
<1>2. SharedClosed' = SharedClosed
  BY ClosedSame
<1>3. Seen(jobStatus') = [Seen(jobStatus) EXCEPT ![j] = Seen(jobStatus')[j]]
  <2>1. \A s \in SharedJobs : s # j => Seen(jobStatus')[s] = Seen(jobStatus)[s]
    BY <1>1 DEF Seen
  <2> QED
    <3> DEFINE st == jobStatus'
               old == jobStatus
    <3> HIDE DEF st, old
    <3>1. \A s \in SharedJobs : s # j => Seen(st)[s] = Seen(old)[s]
      BY <2>1 DEF st, old
    <3>2. Seen(st) = [Seen(old) EXCEPT ![j] = Seen(st)[j]]
      BY <3>1, SeenMoves
    <3> QED
      BY <3>2 DEF st, old
<1>4. jobStatus'[j] = to
  BY <1>1
<1>5. CASE jobStatus[j] = "new" /\ to = "queued" /\ ~SharedClosed
  <2>1. Seen(jobStatus)[j] = "new" /\ Seen(jobStatus')[j] = "posted"
    BY <1>4, <1>5 DEF Seen
  <2>2. Shared!Pool!Post(j)
    BY <1>2, <1>3, <1>5, <2>1, PoolActions
  <2> QED
    BY <2>2 DEF Shared!Pool!Next
<1>6. CASE jobStatus[j] = "queued" /\ to = "running"
  <2>1. Seen(jobStatus)[j] = "posted" /\ Seen(jobStatus')[j] = "running"
    BY <1>4, <1>6 DEF Seen
  <2>2. Shared!Pool!Start(j)
    BY <1>2, <1>3, <2>1, PoolActions
  <2> QED
    BY <2>2 DEF Shared!Pool!Next
<1>7. CASE jobStatus[j] = "running" /\ to \in {"ok", "failed"}
  <2>1. Seen(jobStatus)[j] = "running" /\ Seen(jobStatus')[j] = "ended"
    BY <1>4, <1>7 DEF Seen
  <2>2. Shared!Pool!End(j)
    BY <1>2, <1>3, <2>1, PoolActions
  <2> QED
    BY <2>2 DEF Shared!Pool!Next
<1> QED
  BY <1>5, <1>6, <1>7

\* The last reference to a pool may be the last one of all.
LEMMA OwnersMove ==
  ASSUME SharedConstants, SharedInv, Shared!Next, jobStatus' = jobStatus, joined' = joined,
         SharedClosed => SharedClosed'
  PROVE  [Shared!Pool!Next]_(Shared!Pool!vars)
<1>1. CASE SharedClosed' = SharedClosed
  BY <1>1, PoolStutters
<1>2. CASE SharedClosed' # SharedClosed
  <2>1. ~SharedClosed /\ SharedClosed' = TRUE
    BY <1>2 DEF SharedClosed
  <2>2. Shared!Pool!Close
    BY <2>1, PoolActions
  <2> QED
    BY <2>2 DEF Shared!Pool!Next
<1> QED
  BY <1>1, <1>2

\* When the last pool is joined no job is left: every queue is the own queue of a
\* worker that drained it.
LEMMA SharedNothingLeft ==
  ASSUME SharedConstants, SharedInv, NEW p \in Shared!Pools, Shared!JoinSubpool(p),
         joined' = Shared!Pools
  PROVE  /\ SharedClosed
         /\ \A j \in SharedJobs : Seen(jobStatus)[j] \notin {"posted", "running"}
<1>1. SharedType /\ InQueues /\ Executed /\ ForksReady /\ ShutDown
  BY DEF SharedInv
<1>2. joined' = joined \cup {p} /\ p \notin owned /\ \A w \in Shared!WorkersOf(p) : loop[w] = "done"
  BY DEF Shared!JoinSubpool
<1>3. \A r \in Shared!Pools : r \notin owned /\ \A w \in Shared!WorkersOf(r) : loop[w] = "done"
  BY <1>1, <1>2 DEF ShutDown
<1>4. \A w \in Shared!Workers : loop[w] = "done"
  BY <1>3, PoolSets
<1>5. SharedClosed
  BY <1>3 DEF SharedClosed, AliveIn
<1>6. \A w \in Shared!Workers : queues[Shared!Own(w)] = <<>>
  BY <1>1, <1>4 DEF ShutDown, Passed
<1>7. \A q \in Shared!Queues : queues[q] = <<>>
  BY <1>6, QueueSets
<1>8. \A j \in SharedJobs : jobStatus[j] # "queued"
  BY <1>1, <1>7 DEF InQueues, Placed, With
<1>9. \A j \in SharedJobs : jobStatus[j] # "running"
  BY <1>1, <1>4, PoolSets DEF Executed
<1>10. \A j \in SharedJobs : Seen(jobStatus)[j] \notin {"posted", "running"}
  BY <1>1, <1>8, <1>9 DEF Seen, SharedType
<1> QED
  BY <1>5, <1>10

\* Every step of the pools that share their queues is a step of JobPool or a stutter.
LEMMA SharedImplementsStep ==
  ASSUME SharedConstants, SharedInv, [Shared!Next]_(Shared!vars)
  PROVE  [Shared!Pool!Next]_(Shared!Pool!vars)
<1>1. SharedType /\ InQueues /\ Executed /\ ForksReady /\ ShutDown
  BY DEF SharedInv
<1>2. CASE UNCHANGED Shared!vars
  <2>1. jobStatus' = jobStatus /\ owned' = owned /\ loop' = loop /\ joined' = joined
    BY <1>2 DEF Shared!vars, Shared!workerVars
  <2>2. SharedClosed' = SharedClosed
    BY <2>1, ClosedSame
  <2> QED
    BY <2>1, <2>2, PoolStutters
<1>3. ASSUME NEW c \in Clients, NEW j \in SharedJobs, Shared!Post(c, j)
      PROVE  Shared!Pool!Next
  <2>1. /\ c \in owners /\ jobStatus[j] = "new"
        /\ jobStatus' = [jobStatus EXCEPT ![j] = "queued"]
        /\ loop' = loop /\ owned' = owned /\ joined' = joined
    BY <1>1, <1>3, PostFacts
  <2>2. ~SharedClosed
    <3>1. 1 \in Shared!Pools
      BY PoolSets
    <3> QED
      BY <1>1, <2>1, <3>1 DEF ShutDown, SharedClosed, AliveIn
  <2> QED
    BY <2>1, <2>2, JobMoves
<1>4. ASSUME NEW w \in Shared!Workers, Shared!TakeJob(w)
      PROVE  Shared!Pool!Next
  <2>1. PICK q \in Shared!Queues, j \in SharedJobs :
           /\ loop[w] = "try" /\ queues[q] # <<>> /\ j = Head(queues[q])
           /\ try[w] = 1 => q = Shared!Own(w)
           /\ jobStatus[j] = "queued"
           /\ Tail(queues[q]) \in Seq(SharedJobs)
           /\ Placed([queues EXCEPT ![q] = Tail(@)], With(jobStatus, "queued") \ {j})
           /\ current' = [current EXCEPT ![w] = j]
           /\ jobStatus' = [jobStatus EXCEPT ![j] = "running"]
           /\ queues' = [queues EXCEPT ![q] = Tail(@)]
           /\ loop' = [loop EXCEPT ![w] = "job"] /\ try' = [try EXCEPT ![w] = 1]
           /\ UNCHANGED <<toldWorkers, toPost, drains, owners, owned, joined>>
    BY <1>1, <1>4, TakeFacts
  <2>2. \A v \in Shared!Workers : loop'[v] = "fork" <=> loop[v] = "fork"
    BY <1>1, <2>1 DEF SharedType
  <2> QED
    BY <2>1, <2>2, JobMoves
<1>5. ASSUME NEW w \in Shared!Workers, Shared!ForkPost(w)
      PROVE  Shared!Pool!Next
  <2>1. PICK j \in SharedJobs :
           /\ loop[w] = "fork" /\ jobStatus[j] = "new"
           /\ toPost[w] \in Seq(SharedJobs) /\ toPost[w] # <<>> /\ j = Head(toPost[w])
           /\ current[w] \in SharedJobs /\ \E k \in DOMAIN Subtasks[current[w]] :
                                             j = Subtasks[current[w]][k]
           /\ queues' = [queues EXCEPT ![Shared!Own(w)] = Append(@, j)]
           /\ jobStatus' = [jobStatus EXCEPT ![j] = "queued"]
           /\ toPost' = [toPost EXCEPT ![w] = Tail(@)]
           /\ UNCHANGED <<toldWorkers, loop, try, current, drains, owners, owned, joined>>
    BY <1>1, <1>5, ForkPostFacts
  <2>2. ~SharedClosed
    BY <2>1, PoolSets DEF SharedClosed, AliveIn
  <2> QED
    BY <2>1, <2>2, JobMoves
<1>6. ASSUME NEW w \in Shared!Workers, Shared!JobEnds(w)
      PROVE  Shared!Pool!Next
  <2>1. PICK how \in {"ok", "failed"} :
           /\ loop[w] \in {"job", "forked"}
           /\ current[w] \in SharedJobs /\ jobStatus[current[w]] = "running"
           /\ jobStatus' = [jobStatus EXCEPT ![current[w]] = how]
           /\ current' = [current EXCEPT ![w] = None]
           /\ loop' = [loop EXCEPT ![w] = IF drains[w] THEN "try" ELSE "private"]
           /\ try' = [try EXCEPT ![w] = 1]
           /\ UNCHANGED <<queues, toldWorkers, toPost, drains, owners, owned, joined>>
    BY <1>1, <1>6, EndFacts
  <2>2. \A v \in Shared!Workers : loop'[v] = "fork" <=> loop[v] = "fork"
    BY <1>1, <2>1 DEF SharedType
  <2> QED
    BY <2>1, <2>2, JobMoves
<1>7. ASSUME NEW w \in Shared!Workers, Shared!ForkRefused(w)
      PROVE  UNCHANGED Shared!Pool!vars
  <2>1. /\ loop[w] = "job" /\ loop' = [loop EXCEPT ![w] = "forked"]
        /\ \A s \in SharedJobs : jobStatus'[s] # jobStatus[s] =>
             jobStatus[s] = "new" /\ jobStatus'[s] = "refused"
        /\ owned' = owned /\ joined' = joined
    BY <1>1, <1>7, RefusedFacts
  <2>2. \A v \in Shared!Workers : loop'[v] = "fork" <=> loop[v] = "fork"
    BY <1>1, <2>1 DEF SharedType
  <2>3. Seen(jobStatus') = Seen(jobStatus)
    BY <2>1 DEF Seen
  <2>4. SharedClosed' = SharedClosed
    BY <2>1, <2>2, ClosedSame
  <2> QED
    BY <2>1, <2>3, <2>4, PoolStutters
<1>8. ASSUME Shared!Next, JobsAlone, joined' = joined
      PROVE  [Shared!Pool!Next]_(Shared!Pool!vars)
  <2>1. SharedClosed => SharedClosed'
    BY <1>8, DeadStays DEF SharedClosed
  <2> QED
    BY <1>8, <2>1, JobsAloneFacts, OwnersMove
<1>9. ASSUME NEW p \in Shared!Pools, Shared!JoinSubpool(p)
      PROVE  [Shared!Pool!Next]_(Shared!Pool!vars)
  <2>1. /\ jobStatus' = jobStatus /\ owned' = owned /\ loop' = loop
        /\ p \notin joined /\ joined' = joined \cup {p}
    BY <1>9 DEF Shared!JoinSubpool, Shared!workerVars
  <2>2. SharedClosed' = SharedClosed
    BY <2>1, ClosedSame
  <2>3. CASE joined' = Shared!Pools
    <3>1. SharedClosed /\ \A j \in SharedJobs : Seen(jobStatus)[j] \notin {"posted", "running"}
      BY <1>9, <2>3, SharedNothingLeft
    <3>2. Shared!Pool!Join
      BY <2>1, <2>2, <2>3, <3>1, PoolActions
    <3> QED
      BY <3>2 DEF Shared!Pool!Next
  <2>4. CASE joined' # Shared!Pools
    <3>1. joined # Shared!Pools
      BY <2>1
    <3> QED
      BY <2>1, <2>2, <2>4, <3>1, PoolUnjoined
  <2> QED
    BY <2>3, <2>4
<1>10. CASE Shared!Next
  <2>1. CASE joined' = joined
    BY <1>3, <1>4, <1>5, <1>6, <1>7, <1>8, <1>10, <2>1, StepsOnJobs
  <2>2. CASE joined' # joined
    <3>1. PICK p \in Shared!Pools : Shared!JoinSubpool(p)
      BY <1>10, <2>2 DEF Shared!Next, Shared!DropComposite, Shared!Post, Shared!ResetSubpool,
         Shared!Worker, Shared!TakeJob, Shared!NextQueue, Shared!Scan, Shared!ForkLock,
         Shared!ForkRefused, Shared!ForkPost, Shared!ForkUnlock, Shared!JobEnds, Shared!Private,
         Shared!Terminated, Shared!vars
    <3> QED
      BY <1>9, <3>1
  <2> QED
    BY <2>1, <2>2
<1> QED
  BY <1>2, <1>10

\* The invariant of the pools that steal from each other holds in every behaviour:
\* a queued job is in one queue, a running job has one worker, and a worker is
\* told to end only when nobody can post to its pool.
THEOREM SharedInvariant ==
  ASSUME SharedConstants
  PROVE  Shared!Spec => []SharedInv
<1>1. Shared!Init => SharedInv
  BY SharedInit
<1>2. SharedInv /\ [Shared!Next]_(Shared!vars) => SharedInv'
  BY SharedStep
<1> QED
  BY <1>1, <1>2, PTL DEF Shared!Spec

\* At first JobPool has no posted job and an owner.
LEMMA SharedImplementsInit ==
  ASSUME SharedConstants, Shared!Init
  PROVE  Shared!Pool!Init
<1>1. jobStatus = [j \in SharedJobs |-> "new"] /\ owned = Shared!Pools /\ joined = {}
  BY DEF Shared!Init
<1>2. 1 \in Shared!Pools
  BY PoolSets
<1>3. Seen(jobStatus) = [j \in SharedJobs |-> "new"]
  BY <1>1 DEF Seen
<1>4. SharedClosed = FALSE /\ (joined = Shared!Pools) = FALSE
  BY <1>1, <1>2 DEF SharedClosed, AliveIn
<1> QED
  BY <1>3, <1>4, SeenState DEF Shared!Pool!Init, SharedClosed, AliveIn, Shared!Alive,
     Shared!Lockers, Shared!Ended

\* Pools that share their queues, by stealing inside a pool and between pools,
\* are together one JobPool, also while the composite destroys them one after
\* the other: no job is lost or started twice, none is accepted when nobody owns
\* a pool, and when the last one was joined no job is left
\* (composite_threadpool_scheduler, multiqueue_threadpool_scheduler,
\* stealing_threadpool_scheduler).
THEOREM SharedImplementsJobPool ==
  ASSUME SharedConstants
  PROVE  Shared!Spec => SharedRefinesJobPool
<1>1. Shared!Init => Shared!Pool!Init
  BY SharedImplementsInit
<1>2. SharedInv /\ [Shared!Next]_(Shared!vars) => [Shared!Pool!Next]_(Shared!Pool!vars)
  BY SharedImplementsStep
<1>3. Shared!Spec => []SharedInv
  BY SharedInvariant
<1> QED
  BY <1>1, <1>2, <1>3, PTL
     DEF Shared!Spec, SharedRefinesJobPool, Shared!RefinesJobPool, Shared!Pool!Spec
==============================================================================
