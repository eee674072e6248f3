-------------------- MODULE MultipleThreadSchedulerProofs --------------------
(***************************************************************************)
(* Type correctness of MultipleThreadScheduler and the protocol of m_taken *)
(* for any number of workers, worlds and jobs.                             *)
(***************************************************************************)
EXTENDS MultipleThreadScheduler, TLAPS

\* A worker that executes a job, or is about to destroy it, has one.
JobHeld == \A w \in Workers : pc[w] \in {"job", "body", "after"} => job[w] \in Jobs

\* Where a worker owns the flag of the world it is at.
Serving(w) == pc[w] \in {"pop", "untake", "job", "body"}

\* No two workers own the flag of one world.
ServeApart ==
  \A v, w \in Workers : v # w /\ Serving(v) /\ Serving(w) => cur[v] # cur[w]

\* The flag of a world is set iff a worker owns it.
TakenIffServed == \A k \in Worlds : taken[k] <=> \E w \in Workers : Serving(w) /\ cur[w] = k

WorldInv == ServeApart /\ TakenIffServed

\* Head and tail of a sequence that is not empty.
LEMMA HeadTail ==
  ASSUME NEW S, NEW s \in Seq(S), s # <<>>
  PROVE  Head(s) \in S /\ Tail(s) \in Seq(S)
  OBVIOUS

\* The world a worker looks at next is one.
LEMMA NextWorldIsWorld ==
  ASSUME NEW w \in Workers, cur \in [Workers -> Worlds]
  PROVE  NextWorld(w) \in Worlds
<1>1. cur[w] \in Nat /\ MaxNumberOfClients \in Nat /\ MaxNumberOfClients > 0
  BY ConstantsAssumption DEF Worlds
<1> DEFINE c == cur[w]
<1>2. ASSUME NEW a \in Nat, NEW b \in Nat, b > 0
      PROVE  (a + 1) % b \in 0 .. b - 1
  BY <1>2
<1>3. (c + 1) % MaxNumberOfClients \in 0 .. MaxNumberOfClients - 1
  BY <1>1, <1>2
<1> QED
  BY <1>3 DEF NextWorld, Worlds

\* Every step keeps the types, and a job with each worker inside one.
LEMMA TypeStep ==
  ASSUME TypeOK, JobHeld, [Next]_vars
  PROVE  TypeOK' /\ JobHeld'
<1> USE DEF TypeOK, JobHeld, Goto
<1>1. ASSUME NEW j \in Jobs, Post(j)
      PROVE  TypeOK' /\ JobHeld'
  <2>1. World(j) \in Worlds
    BY WorldsExist
  <2> QED
    BY <1>1, <2>1 DEF Post
<1>2. CASE Close
  BY <1>2 DEF Close
<1>3. CASE PushTermination
  BY <1>3, ConstantsAssumption DEF PushTermination, Workers
<1>4. ASSUME NEW w \in Workers, TakeFails(w)
      PROVE  TypeOK' /\ JobHeld'
  BY <1>4, NextWorldIsWorld, ConstantsAssumption DEF TakeFails
<1>5. ASSUME NEW w \in Workers, Take(w)
      PROVE  TypeOK' /\ JobHeld'
  BY <1>5, NextWorldIsWorld, ConstantsAssumption DEF Take
<1>6. ASSUME NEW w \in Workers, PopHit(w)
      PROVE  TypeOK' /\ JobHeld'
  <2> DEFINE q == queues[cur[w]]
  <2>1. q \in Seq(Jobs) /\ q # <<>>
    BY <1>6 DEF PopHit
  <2>2. Head(q) \in Jobs /\ Tail(q) \in Seq(Jobs)
    BY <2>1, HeadTail
  <2> QED
    BY <1>6, <2>2 DEF PopHit
<1>7. ASSUME NEW w \in Workers, PopMiss(w)
      PROVE  TypeOK' /\ JobHeld'
  BY <1>7 DEF PopMiss
<1>8. ASSUME NEW w \in Workers, Untake(w)
      PROVE  TypeOK' /\ JobHeld'
  BY <1>8 DEF Untake
<1>9. ASSUME NEW w \in Workers, ScanMiss(w)
      PROVE  TypeOK' /\ JobHeld'
  BY <1>9, ConstantsAssumption DEF ScanMiss, AfterMiss
<1>10. ASSUME NEW w \in Workers, Enter(w)
       PROVE  TypeOK' /\ JobHeld'
  BY <1>10 DEF Enter
<1>11. ASSUME NEW w \in Workers, pc[w] \in {"job", "body"}, BodyLeft(w)
       PROVE  TypeOK' /\ JobHeld'
  BY <1>11 DEF BodyLeft
<1>12. ASSUME NEW w \in Workers, Destroy(w)
       PROVE  TypeOK' /\ JobHeld'
  BY <1>12, ConstantsAssumption DEF Destroy, AfterHit
<1>13. ASSUME NEW w \in Workers, CheckShutdown(w)
       PROVE  TypeOK' /\ JobHeld'
  BY <1>13 DEF CheckShutdown
<1>14. CASE UNCHANGED vars
  BY <1>14 DEF vars
<1> QED
  BY <1>1, <1>2, <1>3, <1>4, <1>5, <1>6, <1>7, <1>8, <1>9, <1>10, <1>11, <1>12,
     <1>13, <1>14 DEF Next, Worker, Terminated, SkipDead, Return

\* Every variable keeps its type: the world a worker visits exists, and the
\* worker that leaves a body has a job to destroy.
THEOREM TypeCorrect == Spec => [](TypeOK /\ JobHeld)
<1>1. Init => TypeOK /\ JobHeld
  <2>1. 0 \in Worlds /\ 0 \in 0 .. MaxNumberOfClients /\ 0 \in 0 .. NumberOfWorkers
    BY ConstantsAssumption DEF Worlds
  <2>2. <<>> \in Seq(Jobs)
    OBVIOUS
  <2>3. ASSUME Init
        PROVE  TypeOK
    <3>1. queues \in [Worlds -> Seq(Jobs)] /\ posted \in [Worlds -> Seq(Jobs)]
          /\ completed \in [Worlds -> Seq(Jobs)]
      BY <2>2, <2>3, Zenon DEF Init
    <3>2. taken \in [Worlds -> BOOLEAN] /\ closing \in BOOLEAN
      BY <2>3 DEF Init
    <3>3. /\ cur \in [Workers -> Worlds]
          /\ tries \in [Workers -> 0 .. MaxNumberOfClients]
          /\ pushed \in 0 .. NumberOfWorkers
      BY <2>1, <2>3, Zenon DEF Init
    <3> QED
      BY <2>3, <3>1, <3>2, <3>3 DEF Init, TypeOK
  <2>4. Init => JobHeld
    BY DEF Init, JobHeld
  <2> QED
    BY <2>3, <2>4
<1>2. TypeOK /\ JobHeld /\ [Next]_vars => TypeOK' /\ JobHeld'
  BY TypeStep
<1> QED
  BY <1>1, <1>2, PTL DEF Spec

-----------------------------------------------------------------------------
(* The protocol of m_taken                                                 *)

\* A step that moves no flag and keeps who serves what.
LEMMA SameService ==
  ASSUME WorldInv, taken' = taken,
         \A w \in Workers : Serving(w)' = Serving(w),
         \A w \in Workers : Serving(w) => cur'[w] = cur[w]
  PROVE  WorldInv'
BY DEF WorldInv, ServeApart, TakenIffServed

\* A worker gives back the flag it owns.
LEMMA GiveBack ==
  ASSUME TypeOK, WorldInv, NEW w \in Workers, Serving(w), ~Serving(w)',
         taken' = [taken EXCEPT ![cur[w]] = FALSE], cur' = cur,
         \A v \in Workers \ {w} : Serving(v)' = Serving(v)
  PROVE  WorldInv'
<1>1. ServeApart'
  BY DEF WorldInv, ServeApart
<1>2. ASSUME NEW k \in Worlds
      PROVE  taken'[k] <=> \E v \in Workers : Serving(v)' /\ cur'[v] = k
  <2>1. CASE k = cur[w]
    <3>1. ~taken'[k]
      BY <2>1 DEF TypeOK
    <3>2. ASSUME NEW v \in Workers, Serving(v)', cur'[v] = k
          PROVE  FALSE
      <4>1. v # w /\ Serving(v)
        BY <3>2
      <4> QED
        BY <4>1, <2>1, <3>2 DEF WorldInv, ServeApart
    <3> QED
      BY <3>1, <3>2
  <2>2. CASE k # cur[w]
    <3>1. taken'[k] = taken[k]
      BY <2>2 DEF TypeOK
    <3>2. taken[k] <=> \E v \in Workers : Serving(v) /\ cur[v] = k
      BY DEF WorldInv, TakenIffServed
    <3> QED
      BY <2>2, <3>1, <3>2
  <2> QED
    BY <2>1, <2>2
<1> QED
  BY <1>1, <1>2 DEF WorldInv, TakenIffServed

\* compare_exchange_strong succeeds: nobody served that world.
LEMMA TakeKeepsWorldInv ==
  ASSUME TypeOK, WorldInv, NEW w \in Workers, Take(w)
  PROVE  WorldInv'
<1> DEFINE n == NextWorld(w)
<1>1. n \in Worlds /\ ~taken[n]
  BY NextWorldIsWorld DEF Take, TypeOK
<1>2. ~Serving(w) /\ Serving(w)' /\ cur'[w] = n
  BY DEF Take, Goto, Serving, TypeOK
<1>3. \A v \in Workers \ {w} : Serving(v)' = Serving(v) /\ cur'[v] = cur[v]
  BY DEF Take, Goto, Serving, TypeOK
<1>4. \A v \in Workers : Serving(v) => cur[v] # n
  BY <1>1 DEF WorldInv, TakenIffServed
<1>5. \A k \in Worlds : taken'[k] <=> k = n \/ taken[k]
  BY <1>1 DEF Take, TypeOK
<1> HIDE DEF n
<1>6. ServeApart'
  BY <1>2, <1>3, <1>4 DEF WorldInv, ServeApart
<1>7. TakenIffServed'
  BY <1>2, <1>3, <1>5 DEF WorldInv, TakenIffServed
<1> QED
  BY <1>6, <1>7 DEF WorldInv

\* Every step keeps workers apart and flags in agreement with who serves.
LEMMA WorldStep ==
  ASSUME TypeOK, WorldInv, [Next]_vars
  PROVE  WorldInv'
<1> USE DEF TypeOK, Goto, Serving
<1>1. ASSUME NEW j \in Jobs, Post(j)
      PROVE  WorldInv'
  BY <1>1, SameService DEF Post
<1>2. CASE Close
  BY <1>2, SameService DEF Close
<1>3. CASE PushTermination
  BY <1>3, SameService DEF PushTermination
<1>4. ASSUME NEW w \in Workers, TakeFails(w)
      PROVE  WorldInv'
  BY <1>4, SameService DEF TakeFails
<1>5. ASSUME NEW w \in Workers, Take(w)
      PROVE  WorldInv'
  BY <1>5, TakeKeepsWorldInv
<1>6. ASSUME NEW w \in Workers, PopHit(w)
      PROVE  WorldInv'
  BY <1>6, SameService DEF PopHit
<1>7. ASSUME NEW w \in Workers, PopMiss(w)
      PROVE  WorldInv'
  BY <1>7, SameService DEF PopMiss
<1>8. ASSUME NEW w \in Workers, Untake(w)
      PROVE  WorldInv'
  BY <1>8, GiveBack DEF Untake
<1>9. ASSUME NEW w \in Workers, ScanMiss(w)
      PROVE  WorldInv'
  BY <1>9, SameService DEF ScanMiss, AfterMiss
<1>10. ASSUME NEW w \in Workers, Enter(w)
       PROVE  WorldInv'
  BY <1>10, SameService DEF Enter
<1>11. ASSUME NEW w \in Workers, pc[w] \in {"job", "body"}, BodyLeft(w)
       PROVE  WorldInv'
  BY <1>11, GiveBack DEF BodyLeft
<1>12. ASSUME NEW w \in Workers, Destroy(w)
       PROVE  WorldInv'
  BY <1>12, SameService DEF Destroy, AfterHit
<1>13. ASSUME NEW w \in Workers, CheckShutdown(w)
       PROVE  WorldInv'
  BY <1>13, SameService DEF CheckShutdown
<1>14. CASE UNCHANGED vars
  BY <1>14, SameService DEF vars
<1> QED
  BY <1>1, <1>2, <1>3, <1>4, <1>5, <1>6, <1>7, <1>8, <1>9, <1>10, <1>11, <1>12,
     <1>13, <1>14 DEF Next, Worker, Terminated, SkipDead, Return

\* m_taken keeps workers apart: two that serve are in different worlds, and a
\* world is marked exactly while one serves it (execute_one_job).
THEOREM WorldCorrect == Spec => []WorldInv
<1>1. Init => WorldInv
  BY DEF Init, WorldInv, ServeApart, TakenIffServed, Serving
<1>2. TypeOK /\ WorldInv /\ [Next]_vars => WorldInv'
  BY WorldStep
<1> QED
  BY <1>1, <1>2, TypeCorrect, PTL DEF Spec

\* The flag of a world is set exactly while one worker serves or examines it.
THEOREM FlagFollowsOwner == Spec => []TakenByOne
<1>1. WorldInv => TakenByOne
  BY DEF WorldInv, TakenIffServed, TakenByOne, Serving
<1> QED
  BY <1>1, WorldCorrect, PTL

\* Two workers inside a job serve different worlds.
THEOREM WorldExclusion == Spec => []OneThreadPerWorld
<1>1. WorldInv => OneThreadPerWorld
  BY DEF WorldInv, ServeApart, OneThreadPerWorld, Serving
<1> QED
  BY <1>1, WorldCorrect, PTL
-----------------------------------------------------------------------------
(* The order of a world                                                    *)

\* The worker is about to execute the job it has taken, or executes it.
Executing(w) == pc[w] \in {"job", "body"}

\* What was posted to a world is what has completed, the job in hand and what
\* waits, in this order.
PostedSplits ==
  \A k \in Worlds :
    \/ /\ ~\E w \in Workers : Executing(w) /\ cur[w] = k
       /\ posted[k] = completed[k] \o queues[k]
    \/ \E w \in Workers :
         /\ Executing(w) /\ cur[w] = k
         /\ posted[k] = Append(completed[k], job[w]) \o queues[k]

\* A job waits in its world and is executed there.
JobsAtHome ==
  /\ \A k \in Worlds : \A i \in 1 .. Len(queues[k]) : World(queues[k][i]) = k
  /\ \A w \in Workers : Executing(w) => World(job[w]) = cur[w]

\* A job that was posted and has not ended is in a queue or in the hands of a worker.
Queued(j)   == \E i \in 1 .. Len(queues[World(j)]) : queues[World(j)][i] = j
Held(j)     == \E w \in Workers : Executing(w) /\ job[w] = j
Dying(j)    == \E w \in Workers : pc[w] = "after" /\ job[w] = j
JobsPlaced ==
  \A j \in Jobs :
    /\ status[j] = "queued" => Queued(j)
    /\ status[j] = "running" => Held(j)
    /\ status[j] = "ran" => Dying(j)

OrderInv == PostedSplits /\ JobsAtHome /\ JobsPlaced

\* Appending to the rest appends to the whole.
LEMMA AppendToRest ==
  ASSUME NEW S, NEW c \in Seq(S), NEW q \in Seq(S), NEW j \in S
  PROVE  c \o Append(q, j) = Append(c \o q, j)
OBVIOUS

\* The head of the rest goes to the end of what came before.
LEMMA TakeHead ==
  ASSUME NEW S, NEW c \in Seq(S), NEW q \in Seq(S), q # <<>>
  PROVE  c \o q = Append(c, Head(q)) \o Tail(q)
OBVIOUS

\* The first part of a concatenation is its prefix.
LEMMA PrefixOfSplit ==
  ASSUME NEW S, NEW c \in Seq(S), NEW q \in Seq(S)
  PROVE  Len(c) <= Len(c \o q) /\ c = SubSeq(c \o q, 1, Len(c))
OBVIOUS

\* The indices of a tail are those of the sequence, less one.
LEMMA TailIndices ==
  ASSUME NEW S, NEW q \in Seq(S), q # <<>>
  PROVE  /\ Tail(q) \in Seq(S)
         /\ \A i \in 1 .. Len(Tail(q)) : i + 1 \in 1 .. Len(q) /\ Tail(q)[i] = q[i + 1]
         /\ \A i \in 1 .. Len(q) :
              q[i] = Head(q) \/ (i - 1 \in 1 .. Len(Tail(q)) /\ Tail(q)[i - 1] = q[i])
OBVIOUS

\* Appending keeps every index and adds one.
LEMMA AppendIndices ==
  ASSUME NEW S, NEW q \in Seq(S), NEW j \in S
  PROVE  /\ Append(q, j) \in Seq(S)
         /\ \A i \in 1 .. Len(q) : i \in 1 .. Len(Append(q, j)) /\ Append(q, j)[i] = q[i]
         /\ Len(q) + 1 \in 1 .. Len(Append(q, j)) /\ Append(q, j)[Len(q) + 1] = j
         /\ \A i \in 1 .. Len(Append(q, j)) :
              Append(q, j)[i] = j \/ (i \in 1 .. Len(q) /\ Append(q, j)[i] = q[i])
OBVIOUS

\* A step that moves no job of any world and leaves who executes what.
LEMMA SameSplits ==
  ASSUME PostedSplits, UNCHANGED <<queues, posted, completed>>,
         \A w \in Workers : Executing(w)' = Executing(w),
         \A w \in Workers : Executing(w) => cur'[w] = cur[w] /\ job'[w] = job[w]
  PROVE  PostedSplits'
<1> SUFFICES ASSUME NEW k \in Worlds
             PROVE  \/ /\ ~\E w \in Workers : Executing(w)' /\ cur'[w] = k
                       /\ posted[k] = completed[k] \o queues[k]
                    \/ \E w \in Workers :
                         /\ Executing(w)' /\ cur'[w] = k
                         /\ posted[k] = Append(completed[k], job'[w]) \o queues[k]
  BY DEF PostedSplits
<1>1. CASE ~\E w \in Workers : Executing(w) /\ cur[w] = k
  BY <1>1 DEF PostedSplits
<1>2. CASE \E w \in Workers : Executing(w) /\ cur[w] = k
  <2>1. PICK w \in Workers : /\ Executing(w) /\ cur[w] = k
                             /\ posted[k] = Append(completed[k], job[w]) \o queues[k]
    BY <1>2 DEF PostedSplits
  <2>2. Executing(w)' /\ cur'[w] = k /\ job'[w] = job[w]
    BY <2>1
  <2> QED
    BY <2>1, <2>2
<1> QED
  BY <1>1, <1>2

\* A step that moves no job keeps the order.
LEMMA SameOrder ==
  ASSUME OrderInv, UNCHANGED <<queues, posted, completed, status>>,
         \A w \in Workers : Executing(w)' = Executing(w),
         \A w \in Workers : (pc'[w] = "after") = (pc[w] = "after"),
         \A w \in Workers :
           Executing(w) \/ pc[w] = "after" => cur'[w] = cur[w] /\ job'[w] = job[w]
  PROVE  OrderInv'
<1>1. PostedSplits'
  BY SameSplits DEF OrderInv
<1>2. JobsAtHome'
  BY DEF OrderInv, JobsAtHome
<1>3. JobsPlaced'
  BY DEF OrderInv, JobsPlaced, Queued, Held, Dying
<1> QED
  BY <1>1, <1>2, <1>3 DEF OrderInv

\* A posted job comes last in its world.
LEMMA PostKeepsOrder ==
  ASSUME TypeOK, OrderInv, NEW j \in Jobs, Post(j)
  PROVE  OrderInv'
<1> DEFINE h == World(j)
<1>1. h \in Worlds
  BY WorldsExist
<1>2. /\ queues[h] \in Seq(Jobs) /\ completed[h] \in Seq(Jobs)
      /\ \A w \in Workers : job[w] \in Jobs \cup {None}
  BY <1>1 DEF TypeOK
<1>3. /\ \A k \in Worlds : queues'[k] = IF k = h THEN Append(queues[h], j) ELSE queues[k]
      /\ \A k \in Worlds : posted'[k] = IF k = h THEN Append(posted[h], j) ELSE posted[k]
      /\ \A i \in Jobs : status'[i] = IF i = j THEN "queued" ELSE status[i]
      /\ UNCHANGED <<completed, pc, job, cur>>
  BY <1>1 DEF Post, TypeOK
<1>4. \A w \in Workers : Executing(w)' = Executing(w)
  BY <1>3 DEF Executing
<1> HIDE DEF h
<1>5. PostedSplits'
  <2> SUFFICES ASSUME NEW k \in Worlds
               PROVE  \/ /\ ~\E w \in Workers : Executing(w) /\ cur[w] = k
                         /\ posted'[k] = completed[k] \o queues'[k]
                      \/ \E w \in Workers :
                           /\ Executing(w) /\ cur[w] = k
                           /\ posted'[k] = Append(completed[k], job[w]) \o queues'[k]
    BY <1>3, <1>4 DEF PostedSplits
  <2>1. CASE k # h
    BY <2>1, <1>3 DEF OrderInv, PostedSplits
  <2>2. CASE k = h /\ ~\E w \in Workers : Executing(w) /\ cur[w] = k
    <3>1. posted[h] = completed[h] \o queues[h]
      BY <1>1, <2>2 DEF OrderInv, PostedSplits
    <3>2. posted'[h] = completed[h] \o queues'[h]
      <4> DEFINE c == completed[h]
                 q == queues[h]
      <4>1. c \in Seq(Jobs) /\ q \in Seq(Jobs)
        BY <1>2
      <4> HIDE DEF c, q
      <4>2. c \o Append(q, j) = Append(c \o q, j)
        BY <4>1, AppendToRest
      <4> QED
        BY <1>1, <1>3, <3>1, <4>2 DEF c, q
    <3> QED
      BY <2>2, <3>2
  <2>3. CASE k = h /\ \E w \in Workers : Executing(w) /\ cur[w] = k
    <3>1. PICK w \in Workers : /\ Executing(w) /\ cur[w] = h
                               /\ posted[h] = Append(completed[h], job[w]) \o queues[h]
      BY <1>1, <2>3 DEF OrderInv, PostedSplits
    <3>2. Append(completed[h], job[w]) \in Seq(Jobs \cup {None}) /\ queues[h] \in Seq(Jobs \cup {None})
      BY <1>2
    <3>3. posted'[h] = Append(completed[h], job[w]) \o queues'[h]
      <4> DEFINE c == Append(completed[h], job[w])
                 q == queues[h]
      <4>1. c \in Seq(Jobs \cup {None}) /\ q \in Seq(Jobs \cup {None})
        BY <3>2
      <4> HIDE DEF c, q
      <4>2. c \o Append(q, j) = Append(c \o q, j)
        BY <4>1, AppendToRest
      <4> QED
        BY <1>1, <1>3, <3>1, <4>2 DEF c, q
    <3> QED
      BY <2>3, <3>1, <3>3
  <2> QED
    BY <2>1, <2>2, <2>3
<1>6. JobsAtHome'
  <2>1. ASSUME NEW k \in Worlds, NEW i \in 1 .. Len(queues'[k])
        PROVE  World(queues'[k][i]) = k
    <3>1. CASE k # h
      BY <1>3, <2>1, <3>1 DEF OrderInv, JobsAtHome
    <3>2. CASE k = h
      <4> DEFINE q == queues[h]
      <4>1. queues'[h] = Append(q, j) /\ q \in Seq(Jobs)
        BY <1>1, <1>2, <1>3
      <4>2. \A n \in 1 .. Len(q) : World(q[n]) = h
        BY <1>1 DEF OrderInv, JobsAtHome
      <4> HIDE DEF q
      <4>3. Append(q, j)[i] = j \/ (i \in 1 .. Len(q) /\ Append(q, j)[i] = q[i])
        BY <2>1, <3>2, <4>1, AppendIndices
      <4> QED
        BY <3>2, <4>1, <4>2, <4>3 DEF h
    <3> QED
      BY <3>1, <3>2
  <2> QED
    BY <1>3, <1>4, <2>1 DEF OrderInv, JobsAtHome
<1>7. JobsPlaced'
  <2>1. ASSUME NEW i \in Jobs, Queued(i) \/ i = j
        PROVE  \E n \in 1 .. Len(queues'[World(i)]) : queues'[World(i)][n] = i
    <3>1. World(i) \in Worlds
      BY WorldsExist
    <3>2. CASE World(i) # h
      BY <1>3, <2>1, <3>1, <3>2 DEF Queued, h
    <3>3. CASE World(i) = h
      <4> DEFINE q == queues[h]
      <4>0. World(j) = h
        BY DEF h
      <4>1. queues'[h] = Append(q, j) /\ q \in Seq(Jobs)
        BY <1>1, <1>2, <1>3
      <4>5. i = j \/ \E n \in 1 .. Len(q) : q[n] = i
        BY <2>1, <3>3 DEF Queued
      <4> HIDE DEF q
      <4>2. \A n \in 1 .. Len(q) : n \in 1 .. Len(Append(q, j)) /\ Append(q, j)[n] = q[n]
        BY <4>1, AppendIndices
      <4>3. Len(q) + 1 \in 1 .. Len(Append(q, j)) /\ Append(q, j)[Len(q) + 1] = j
        BY <4>1, AppendIndices
      <4> QED
        BY <3>3, <4>0, <4>1, <4>2, <4>3, <4>5
    <3> QED
      BY <3>2, <3>3
  <2> QED
    BY <1>3, <1>4, <2>1 DEF OrderInv, JobsPlaced, Queued, Held, Dying
<1> QED
  BY <1>5, <1>6, <1>7 DEF OrderInv

\* A popped job is the oldest one left in its world.
LEMMA PopKeepsOrder ==
  ASSUME TypeOK, WorldInv, OrderInv, NEW w \in Workers, PopHit(w)
  PROVE  OrderInv'
<1> DEFINE h == cur[w]
<1> DEFINE j == Head(queues[h])
<1>1. h \in Worlds /\ pc[w] = "pop"
  BY DEF PopHit, TypeOK
<1>2. queues[h] \in Seq(Jobs) /\ queues[h] # <<>> /\ completed[h] \in Seq(Jobs) /\ j \in Jobs
  BY <1>1 DEF PopHit, TypeOK
<1>3. /\ \A k \in Worlds : queues'[k] = IF k = h THEN Tail(queues[h]) ELSE queues[k]
      /\ \A i \in Jobs : status'[i] = IF i = j THEN "running" ELSE status[i]
      /\ \A v \in Workers : job'[v] = IF v = w THEN j ELSE job[v]
      /\ \A v \in Workers : pc'[v] = IF v = w THEN "job" ELSE pc[v]
      /\ UNCHANGED <<completed, posted, cur>>
  BY <1>1, <1>2 DEF PopHit, TypeOK, Goto
<1>4. /\ ~Executing(w) /\ Executing(w)'
      /\ \A v \in Workers \ {w} : Executing(v)' = Executing(v)
  BY <1>1, <1>3 DEF Executing
<1>5. \A v \in Workers : Executing(v) => cur[v] # h
  BY <1>1, <1>4 DEF WorldInv, ServeApart, Serving, Executing
<1>6. World(j) = h
  <2>1. 1 \in 1 .. Len(queues[h]) /\ j = queues[h][1]
    BY <1>2
  <2> QED
    BY <1>1, <2>1 DEF OrderInv, JobsAtHome
<1> HIDE DEF j
<1>7. PostedSplits'
  <2> SUFFICES ASSUME NEW k \in Worlds
               PROVE  \/ /\ ~\E v \in Workers : Executing(v)' /\ cur[v] = k
                         /\ posted[k] = completed[k] \o queues'[k]
                      \/ \E v \in Workers :
                           /\ Executing(v)' /\ cur[v] = k
                           /\ posted[k] = Append(completed[k], job'[v]) \o queues'[k]
    BY <1>3 DEF PostedSplits
  <2>1. CASE k = h
    <3>1. posted[h] = completed[h] \o queues[h]
      BY <1>1, <1>5 DEF OrderInv, PostedSplits
    <3>2. posted[h] = Append(completed[h], j) \o queues'[h]
      <4>1. completed[h] \o queues[h] = Append(completed[h], j) \o Tail(queues[h])
        BY <1>2, TakeHead DEF j
      <4> QED
        BY <1>1, <1>3, <3>1, <4>1
    <3>3. job'[w] = j /\ cur[w] = h
      BY <1>3
    <3> QED
      BY <1>4, <2>1, <3>2, <3>3
  <2>2. CASE k # h
    <3>1. \A v \in Workers : cur[v] = k => Executing(v)' = Executing(v) /\ job'[v] = job[v]
      BY <1>3, <1>4, <2>2
    <3>2. queues'[k] = queues[k]
      BY <1>3, <2>2
    <3> QED
      BY <3>1, <3>2 DEF OrderInv, PostedSplits
  <2> QED
    BY <2>1, <2>2
<1>8. JobsAtHome'
  <2>1. ASSUME NEW k \in Worlds, NEW i \in 1 .. Len(queues'[k])
        PROVE  World(queues'[k][i]) = k
    <3>1. CASE k # h
      BY <1>3, <2>1, <3>1 DEF OrderInv, JobsAtHome
    <3>2. CASE k = h
      <4>1. queues'[h] = Tail(queues[h])
        BY <1>1, <1>3
      <4>2. i + 1 \in 1 .. Len(queues[h]) /\ queues'[h][i] = queues[h][i + 1]
        BY <1>2, <2>1, <3>2, <4>1, TailIndices
      <4> QED
        BY <1>1, <3>2, <4>2 DEF OrderInv, JobsAtHome
    <3> QED
      BY <3>1, <3>2
  <2>2. ASSUME NEW v \in Workers, Executing(v)'
        PROVE  World(job'[v]) = cur'[v]
    BY <1>3, <1>4, <1>6, <2>2 DEF OrderInv, JobsAtHome
  <2> QED
    BY <2>1, <2>2 DEF JobsAtHome
<1>9. JobsPlaced'
  <2>1. ASSUME NEW i \in Jobs, i # j, Queued(i)
        PROVE  \E n \in 1 .. Len(queues'[World(i)]) : queues'[World(i)][n] = i
    <3>1. World(i) \in Worlds
      BY WorldsExist
    <3>2. CASE World(i) # h
      BY <1>3, <2>1, <3>1, <3>2 DEF Queued
    <3>3. CASE World(i) = h
      <4> DEFINE q == queues[h]
      <4>1. queues'[h] = Tail(q)
        BY <1>1, <1>3
      <4>2. PICK n \in 1 .. Len(q) : q[n] = i
        BY <2>1, <3>3 DEF Queued
      <4>3. \A m \in 1 .. Len(q) :
              q[m] = Head(q) \/ (m - 1 \in 1 .. Len(Tail(q)) /\ Tail(q)[m - 1] = q[m])
        BY <1>2, TailIndices
      <4>4. n - 1 \in 1 .. Len(Tail(q)) /\ Tail(q)[n - 1] = i
        BY <2>1, <4>2, <4>3 DEF j
      <4> QED
        BY <3>3, <4>1, <4>4
    <3> QED
      BY <3>2, <3>3
  <2>2. \A i \in Jobs : (i # j /\ Held(i)) \/ i = j => Held(i)'
    BY <1>3, <1>4 DEF Held
  <2>3. \A i \in Jobs : Dying(i) => Dying(i)'
    BY <1>1, <1>3 DEF Dying
  <2> QED
    BY <1>3, <2>1, <2>2, <2>3 DEF OrderInv, JobsPlaced, Queued
<1> QED
  BY <1>7, <1>8, <1>9 DEF OrderInv

\* The job in hand is the next to complete.
LEMMA BodyKeepsOrder ==
  ASSUME TypeOK, JobHeld, WorldInv, OrderInv, NEW w \in Workers, Executing(w), BodyLeft(w)
  PROVE  OrderInv'
<1> DEFINE h == cur[w]
<1> DEFINE j == job[w]
<1>1. h \in Worlds /\ j \in Jobs /\ queues[h] \in Seq(Jobs) /\ completed[h] \in Seq(Jobs)
  BY DEF TypeOK, JobHeld, Executing
<1>2. /\ \A k \in Worlds : completed'[k] = IF k = h THEN Append(completed[h], j) ELSE completed[k]
      /\ \A i \in Jobs : status'[i] = IF i = j THEN "ran" ELSE status[i]
      /\ \A v \in Workers : pc'[v] = IF v = w THEN "after" ELSE pc[v]
      /\ UNCHANGED <<queues, posted, cur, job>>
  BY <1>1 DEF BodyLeft, TypeOK, Goto
<1>3. /\ ~Executing(w)'
      /\ \A v \in Workers \ {w} : Executing(v)' = Executing(v)
  BY <1>2 DEF Executing
<1>4. \A v \in Workers \ {w} : Executing(v) => cur[v] # h
  BY DEF WorldInv, ServeApart, Serving, Executing
<1>5. PostedSplits'
  <2> SUFFICES ASSUME NEW k \in Worlds
               PROVE  \/ /\ ~\E v \in Workers : Executing(v)' /\ cur[v] = k
                         /\ posted[k] = completed'[k] \o queues[k]
                      \/ \E v \in Workers :
                           /\ Executing(v)' /\ cur[v] = k
                           /\ posted[k] = Append(completed'[k], job[v]) \o queues[k]
    BY <1>2 DEF PostedSplits
  <2>1. CASE k = h
    <3>1. posted[h] = Append(completed[h], j) \o queues[h]
      BY <1>1, <1>4 DEF OrderInv, PostedSplits
    <3> QED
      BY <1>2, <1>3, <1>4, <2>1, <3>1
  <2>2. CASE k # h
    <3>1. \A v \in Workers : cur[v] = k => Executing(v)' = Executing(v)
      BY <1>3, <2>2
    <3>2. completed'[k] = completed[k]
      BY <1>2, <2>2
    <3> QED
      BY <3>1, <3>2 DEF OrderInv, PostedSplits
  <2> QED
    BY <2>1, <2>2
<1>6. JobsAtHome'
  BY <1>2, <1>3 DEF OrderInv, JobsAtHome
<1>7. JobsPlaced'
  <2>1. \A i \in Jobs : i # j /\ Held(i) => Held(i)'
    BY <1>2, <1>3 DEF Held
  <2>2. \A i \in Jobs : Dying(i) \/ i = j => Dying(i)'
    BY <1>2 DEF Dying, Executing
  <2> QED
    BY <1>2, <2>1, <2>2 DEF OrderInv, JobsPlaced, Queued
<1> QED
  BY <1>5, <1>6, <1>7 DEF OrderInv

\* The deleter's job is the next to complete, too.
LEMMA DestroyKeepsOrder ==
  ASSUME TypeOK, JobHeld, OrderInv, NEW w \in Workers, Destroy(w)
  PROVE  OrderInv'
<1> DEFINE j == job[w]
<1>1. pc[w] = "after" /\ j \in Jobs
  BY DEF Destroy, JobHeld
<1>2. /\ \A i \in Jobs : status'[i] = IF i = j THEN "ended" ELSE status[i]
      /\ \A v \in Workers \ {w} : job'[v] = job[v] /\ pc'[v] = pc[v]
      /\ pc'[w] \notin {"job", "body", "after"}
      /\ UNCHANGED <<queues, posted, completed, cur>>
  BY <1>1 DEF Destroy, TypeOK, Goto, AfterHit
<1>3. \A v \in Workers : Executing(v)' = Executing(v)
  BY <1>1, <1>2 DEF Executing
<1>4. \A v \in Workers : Executing(v) => job'[v] = job[v]
  BY <1>1, <1>2 DEF Executing
<1>5. PostedSplits'
  BY <1>2, <1>3, <1>4, SameSplits DEF OrderInv
<1>6. JobsAtHome'
  BY <1>2, <1>3, <1>4 DEF OrderInv, JobsAtHome
<1>7. JobsPlaced'
  <2>1. \A i \in Jobs : Held(i) => Held(i)'
    BY <1>3, <1>4 DEF Held
  <2>2. \A i \in Jobs : i # j /\ Dying(i) => Dying(i)'
    BY <1>2 DEF Dying
  <2> QED
    BY <1>2, <2>1, <2>2 DEF OrderInv, JobsPlaced, Queued
<1> QED
  BY <1>5, <1>6, <1>7 DEF OrderInv

\* Every step keeps the order of every world.
LEMMA OrderStep ==
  ASSUME TypeOK, JobHeld, WorldInv, OrderInv, [Next]_vars
  PROVE  OrderInv'
<1>1. ASSUME NEW j \in Jobs, Post(j)
      PROVE  OrderInv'
  BY <1>1, PostKeepsOrder
<1>2. CASE Close \/ PushTermination \/ UNCHANGED vars
  BY <1>2, SameOrder DEF Close, PushTermination, vars, Executing
<1>3. ASSUME NEW w \in Workers, PopHit(w)
      PROVE  OrderInv'
  BY <1>3, PopKeepsOrder
<1>4. ASSUME NEW w \in Workers, SkipDead(w) \/ Return(w)
      PROVE  OrderInv'
  BY <1>4, BodyKeepsOrder DEF SkipDead, Return, Executing
<1>5. ASSUME NEW w \in Workers, Destroy(w)
      PROVE  OrderInv'
  BY <1>5, DestroyKeepsOrder
<1>6. ASSUME NEW w \in Workers,
             TakeFails(w) \/ Take(w) \/ PopMiss(w) \/ Untake(w) \/ ScanMiss(w) \/ Enter(w)
             \/ CheckShutdown(w)
      PROVE  OrderInv'
  <2>1. UNCHANGED <<queues, posted, completed, status, job>>
    BY <1>6 DEF TakeFails, Take, PopMiss, Untake, ScanMiss, Enter, CheckShutdown
  <2>2. Executing(w)' = Executing(w) /\ (Executing(w) => cur'[w] = cur[w])
    BY <1>6 DEF TypeOK, Goto, Executing, AfterMiss, TakeFails, Take, PopMiss, Untake,
                ScanMiss, Enter, CheckShutdown
  <2>3. pc[w] # "after" /\ pc'[w] # "after"
    BY <1>6 DEF TypeOK, Goto, AfterMiss, TakeFails, Take, PopMiss, Untake,
                ScanMiss, Enter, CheckShutdown
  <2>4. \A v \in Workers \ {w} : pc'[v] = pc[v] /\ cur'[v] = cur[v]
    BY <1>6 DEF TypeOK, Goto, AfterMiss, TakeFails, Take, PopMiss, Untake,
                ScanMiss, Enter, CheckShutdown
  <2>5. \A v \in Workers : Executing(v)' = Executing(v)
    BY <2>2, <2>4 DEF Executing
  <2> QED
    BY <2>1, <2>2, <2>3, <2>4, <2>5, SameOrder
<1> QED
  BY <1>1, <1>2, <1>3, <1>4, <1>5, <1>6 DEF Next, Worker, Terminated

\* What was posted to a world has completed, is in the hand of the worker that
\* serves it, or waits there, in this order; no job is anywhere else.
THEOREM OrderCorrect == Spec => []OrderInv
<1>1. Init => OrderInv
  <2> SUFFICES ASSUME Init
               PROVE  OrderInv
    OBVIOUS
  <2>1. PostedSplits
    BY DEF Init, PostedSplits, Executing
  <2>2. JobsAtHome
    BY DEF Init, JobsAtHome, Executing
  <2>3. JobsPlaced
    BY DEF Init, JobsPlaced
  <2> QED
    BY <2>1, <2>2, <2>3 DEF OrderInv
<1>2. TypeOK /\ JobHeld /\ WorldInv /\ OrderInv /\ [Next]_vars => OrderInv'
  BY OrderStep
<1> QED
  BY <1>1, <1>2, TypeCorrect, WorldCorrect, PTL DEF Spec

-----------------------------------------------------------------------------
(* The shutdown                                                            *)

\* World k is among the next n worlds of a scan that is at c.
Within(c, n, k) == IF k > c THEN k <= c + n ELSE k + MaxNumberOfClients <= c + n

\* A worker that has not left run() and will look at world k before it may: it
\* is not draining yet, or has a job, after which it begins a new scan, or has
\* not passed k in the one it makes.
WillVisit(w, k) ==
  /\ pc[w] # "done"
  /\ \/ w \notin draining
     \/ pc[w] \in {"job", "body", "after"}
     \/ pc[w] = "pop" /\ cur[w] = k
     \/ Within(cur[w], MaxNumberOfClients - tries[w], k)

\* Nothing is posted once a worker drains; a scan begins with no world tried; a
\* draining worker leaves only an empty world.
ShutdownPhases ==
  /\ (stop # {} \/ draining # {}) => closing
  /\ \A w \in Workers : pc[w] = "done" => w \in draining
  /\ \A w \in Workers : pc[w] = "private" => tries[w] = 0 /\ w \notin draining
  /\ \A w \in draining : pc[w] = "untake" => queues[cur[w]] = <<>>

\* Somebody will come to a world that has jobs.
NoWorldForgotten ==
  \A k \in Worlds : queues[k] # <<>> => \E w \in Workers : WillVisit(w, k)

ShutdownInv == ShutdownPhases /\ NoWorldForgotten

\* A scan that has just begun has all worlds before it.
LEMMA WithinAll ==
  ASSUME NEW c \in Worlds, NEW k \in Worlds
  PROVE  Within(c, MaxNumberOfClients, k) /\ Within(c, MaxNumberOfClients - 0, k)
BY ConstantsAssumption DEF Within, Worlds

\* A scan that has been everywhere has no world before it.
LEMMA WithinNone ==
  ASSUME NEW c \in Worlds, NEW k \in Worlds
  PROVE  ~Within(c, MaxNumberOfClients - MaxNumberOfClients, k)
BY ConstantsAssumption DEF Within, Worlds

\* One world further: it is the next one, or among those that are left.
LEMMA WithinNext ==
  ASSUME NEW c \in Worlds, NEW k \in Worlds, NEW i \in 0 .. MaxNumberOfClients,
         i < MaxNumberOfClients, Within(c, MaxNumberOfClients - i, k)
  PROVE  LET d == IF c + 1 = MaxNumberOfClients THEN 0 ELSE c + 1
         IN k = d \/ Within(d, MaxNumberOfClients - (i + 1), k)
BY ConstantsAssumption DEF Within, Worlds

\* The world after the last one is the first.
LEMMA NextWorldWraps ==
  ASSUME NEW w \in Workers, cur \in [Workers -> Worlds]
  PROVE  NextWorld(w) = IF cur[w] + 1 = MaxNumberOfClients THEN 0 ELSE cur[w] + 1
<1> DEFINE c == cur[w]
<1>1. c \in Nat /\ MaxNumberOfClients \in Nat /\ MaxNumberOfClients > 0 /\ c < MaxNumberOfClients
  BY ConstantsAssumption DEF Worlds
<1>2. ASSUME NEW a \in Nat, NEW b \in Nat, b > 0, a < b
      PROVE  (a + 1) % b = IF a + 1 = b THEN 0 ELSE a + 1
  <2>1. CASE a + 1 = b
    BY <1>2, <2>1
  <2>2. CASE a + 1 < b
    BY <1>2, <2>2
  <2> QED
    BY <1>2, <2>1, <2>2
<1> HIDE DEF c
<1>3. (c + 1) % MaxNumberOfClients = IF c + 1 = MaxNumberOfClients THEN 0 ELSE c + 1
  BY <1>1, <1>2
<1> QED
  BY <1>3 DEF NextWorld, c

\* Every step keeps the phases of the shutdown.
LEMMA PhasesStep ==
  ASSUME TypeOK, JobHeld, WorldInv, ShutdownPhases, [Next]_vars
  PROVE  ShutdownPhases'
<1> USE DEF TypeOK, Goto, ShutdownPhases
<1>1. ASSUME NEW j \in Jobs, Post(j)
      PROVE  ShutdownPhases'
  BY <1>1 DEF Post
<1>2. CASE Close \/ PushTermination \/ UNCHANGED vars
  BY <1>2 DEF Close, PushTermination, vars
<1>3. ASSUME NEW w \in Workers, PopHit(w)
      PROVE  ShutdownPhases'
  <2>1. \A v \in Workers \ {w} : Serving(v) => cur[v] # cur[w]
    BY <1>3 DEF PopHit, WorldInv, ServeApart, Serving
  <2>2. \A v \in Workers \ {w} : pc[v] = "untake" => queues'[cur[v]] = queues[cur[v]]
    BY <1>3, <2>1 DEF PopHit, Serving
  <2> QED
    BY <1>3, <2>2 DEF PopHit
<1>4. ASSUME NEW w \in Workers,
             TakeFails(w) \/ Take(w) \/ PopMiss(w) \/ Untake(w) \/ Enter(w)
      PROVE  ShutdownPhases'
  BY <1>4 DEF TakeFails, Take, PopMiss, Untake, Enter
<1>5. ASSUME NEW w \in Workers, ScanMiss(w)
      PROVE  ShutdownPhases'
  BY <1>5 DEF ScanMiss, AfterMiss
<1>6. ASSUME NEW w \in Workers, pc[w] \in {"job", "body"}, BodyLeft(w)
      PROVE  ShutdownPhases'
  BY <1>6 DEF BodyLeft
<1>7. ASSUME NEW w \in Workers, Destroy(w)
      PROVE  ShutdownPhases'
  BY <1>7 DEF Destroy, AfterHit
<1>8. ASSUME NEW w \in Workers, CheckShutdown(w)
      PROVE  ShutdownPhases'
  BY <1>8 DEF CheckShutdown
<1> QED
  BY <1>1, <1>2, <1>3, <1>4, <1>5, <1>6, <1>7, <1>8
     DEF Next, Worker, Terminated, SkipDead, Return

\* No world gets jobs and nobody turns away from a world that has some.
LEMMA SameVisitors ==
  ASSUME NoWorldForgotten, \A k \in Worlds : queues'[k] # <<>> => queues[k] # <<>>,
         \A k \in Worlds : queues'[k] # <<>> =>
           \A w \in Workers : WillVisit(w, k) => WillVisit(w, k)'
  PROVE  NoWorldForgotten'
BY DEF NoWorldForgotten

\* The scan goes on: a worker that leaves out a world that another one serves
\* leaves it to that one.
LEMMA TakeFailsKeepsVisitors ==
  ASSUME TypeOK, WorldInv, ShutdownPhases, NoWorldForgotten,
         NEW w \in Workers, TakeFails(w)
  PROVE  NoWorldForgotten'
<1> SUFFICES ASSUME NEW k \in Worlds, queues[k] # <<>>
             PROVE  \E v \in Workers : WillVisit(v, k)'
  BY DEF NoWorldForgotten, TakeFails
<1>1. /\ \A v \in Workers \ {w} : cur'[v] = cur[v] /\ tries'[v] = tries[v]
      /\ pc[w] = "scan" /\ tries[w] < MaxNumberOfClients
      /\ cur'[w] = NextWorld(w) /\ tries'[w] = tries[w] + 1
      /\ UNCHANGED <<pc, draining, queues, taken>>
      /\ taken[NextWorld(w)]
  BY DEF TakeFails, TypeOK
<1>2. PICK v \in Workers : WillVisit(v, k)
  BY DEF NoWorldForgotten
<1>3. CASE v # w
  BY <1>1, <1>2, <1>3 DEF WillVisit
<1>4. CASE v = w /\ (w \notin draining \/ NextWorld(w) # k)
  <2>1. NextWorld(w) = IF cur[w] + 1 = MaxNumberOfClients THEN 0 ELSE cur[w] + 1
    BY NextWorldWraps DEF TypeOK
  <2>2. cur[w] \in Worlds /\ tries[w] \in 0 .. MaxNumberOfClients
    BY DEF TypeOK
  <2>3. w \notin draining \/ Within(cur[w], MaxNumberOfClients - tries[w], k)
    BY <1>1, <1>2, <1>4 DEF WillVisit
  <2>4. w \notin draining \/ Within(cur'[w], MaxNumberOfClients - tries'[w], k)
    BY <1>1, <1>4, <2>1, <2>2, <2>3, WithinNext
  <2> QED
    BY <1>1, <2>4 DEF WillVisit
<1>5. CASE NextWorld(w) = k
  <2>1. PICK u \in Workers : Serving(u) /\ cur[u] = k
    BY <1>1, <1>5 DEF WorldInv, TakenIffServed
  <2>2. u # w
    BY <1>1, <2>1 DEF Serving
  <2>3. WillVisit(u, k)
    BY <2>1 DEF ShutdownPhases, WillVisit, Serving
  <2> QED
    BY <1>1, <2>2, <2>3 DEF WillVisit
<1> QED
  BY <1>3, <1>4, <1>5

\* Who takes a world is the one who visits it.
LEMMA TakeKeepsVisitors ==
  ASSUME TypeOK, NoWorldForgotten, NEW w \in Workers, Take(w)
  PROVE  NoWorldForgotten'
<1>1. /\ \A v \in Workers \ {w} : cur'[v] = cur[v] /\ tries'[v] = tries[v] /\ pc'[v] = pc[v]
      /\ pc[w] = "scan" /\ pc'[w] = "pop" /\ tries[w] < MaxNumberOfClients
      /\ cur'[w] = NextWorld(w) /\ tries'[w] = tries[w] + 1
      /\ UNCHANGED <<draining, queues>>
  BY DEF Take, TypeOK, Goto
<1>2. ASSUME NEW k \in Worlds, WillVisit(w, k)
      PROVE  WillVisit(w, k)'
  <2>1. NextWorld(w) = IF cur[w] + 1 = MaxNumberOfClients THEN 0 ELSE cur[w] + 1
    BY NextWorldWraps DEF TypeOK
  <2>2. cur[w] \in Worlds /\ tries[w] \in 0 .. MaxNumberOfClients
    BY DEF TypeOK
  <2>3. w \notin draining \/ Within(cur[w], MaxNumberOfClients - tries[w], k)
    BY <1>1, <1>2 DEF WillVisit
  <2>4. w \notin draining \/ cur'[w] = k \/ Within(cur'[w], MaxNumberOfClients - tries'[w], k)
    BY <1>1, <2>1, <2>2, <2>3, WithinNext
  <2> QED
    BY <1>1, <2>4 DEF WillVisit
<1>3. \A k \in Worlds : \A v \in Workers \ {w} : WillVisit(v, k) => WillVisit(v, k)'
  BY <1>1 DEF WillVisit
<1> QED
  BY <1>1, <1>2, <1>3, SameVisitors

\* A new scan reaches every world.
LEMMA FreshScanVisits ==
  ASSUME TypeOK, NoWorldForgotten, NEW w \in Workers, UNCHANGED <<queues, cur>>,
         \A v \in Workers \ {w} :
           pc'[v] = pc[v] /\ tries'[v] = tries[v] /\ (v \in draining' <=> v \in draining),
         pc'[w] # "done", tries'[w] = 0
  PROVE  NoWorldForgotten'
<1>1. \A k \in Worlds : Within(cur[w], MaxNumberOfClients - tries'[w], k)
  BY WithinAll DEF TypeOK
<1>2. \A k \in Worlds : WillVisit(w, k)'
  BY <1>1 DEF WillVisit
<1>3. \A k \in Worlds : \A v \in Workers \ {w} : WillVisit(v, k) => WillVisit(v, k)'
  BY DEF WillVisit
<1> QED
  BY <1>2, <1>3, SameVisitors

\* A world with jobs is still to be visited after every step.
LEMMA VisitorsStep ==
  ASSUME TypeOK, JobHeld, WorldInv, ShutdownPhases, NoWorldForgotten, [Next]_vars
  PROVE  NoWorldForgotten'
<1> USE DEF Goto
<1>1. ASSUME NEW j \in Jobs, Post(j)
      PROVE  NoWorldForgotten'
  <2>1. 0 \in Workers
    BY ConstantsAssumption DEF Workers
  <2>2. draining = {} /\ UNCHANGED <<pc, draining>>
    BY <1>1 DEF Post, ShutdownPhases
  <2>3. \A k : WillVisit(0, k)'
    BY <2>1, <2>2 DEF WillVisit, ShutdownPhases
  <2> QED
    BY <2>1, <2>3 DEF NoWorldForgotten
<1>2. CASE Close \/ PushTermination \/ UNCHANGED vars
  BY <1>2, SameVisitors DEF Close, PushTermination, vars, WillVisit
<1>3. ASSUME NEW w \in Workers, TakeFails(w)
      PROVE  NoWorldForgotten'
  BY <1>3, TakeFailsKeepsVisitors
<1>4. ASSUME NEW w \in Workers, Take(w)
      PROVE  NoWorldForgotten'
  BY <1>4, TakeKeepsVisitors
<1>5. ASSUME NEW w \in Workers, PopHit(w)
      PROVE  NoWorldForgotten'
  <2>1. \A k \in Worlds : queues'[k] # <<>> => queues[k] # <<>>
    BY <1>5 DEF PopHit, TypeOK
  <2>2. \A k \in Worlds : \A v \in Workers : WillVisit(v, k) => WillVisit(v, k)'
    BY <1>5 DEF PopHit, TypeOK, WillVisit
  <2> QED
    BY <2>1, <2>2, SameVisitors
<1>6. ASSUME NEW w \in Workers, PopMiss(w) \/ Untake(w) \/ Enter(w) \/ (pc[w] \in {"job", "body"} /\ BodyLeft(w))
      PROVE  NoWorldForgotten'
  <2>1. UNCHANGED <<queues, cur, tries, draining>>
    BY <1>6 DEF PopMiss, Untake, Enter, BodyLeft
  <2>2. /\ \A v \in Workers \ {w} : pc'[v] = pc[v]
        /\ pc'[w] # "done"
    BY <1>6 DEF PopMiss, Untake, Enter, BodyLeft, TypeOK
  <2>3. pc[w] \in {"job", "body", "after"} => pc'[w] \in {"job", "body", "after"}
    BY <1>6 DEF PopMiss, Untake, Enter, BodyLeft, TypeOK
  <2>4. pc[w] = "pop" => queues[cur[w]] = <<>>
    BY <1>6 DEF PopMiss, Untake, Enter
  <2>5. \A k \in Worlds : queues[k] # <<>> => \A v \in Workers : WillVisit(v, k) => WillVisit(v, k)'
    BY <2>1, <2>2, <2>3, <2>4 DEF WillVisit
  <2> QED
    BY <2>1, <2>5, SameVisitors
<1>7. ASSUME NEW w \in Workers, ScanMiss(w)
      PROVE  NoWorldForgotten'
  <2>1. CASE w \in draining
    <3>1. \A k \in Worlds : ~WillVisit(w, k)
      BY <1>7, <2>1, WithinNone DEF ScanMiss, WillVisit, TypeOK
    <3>2. \A k \in Worlds : \A v \in Workers \ {w} : WillVisit(v, k) => WillVisit(v, k)'
      BY <1>7 DEF ScanMiss, WillVisit, TypeOK
    <3> QED
      BY <1>7, <3>1, <3>2, SameVisitors DEF ScanMiss
  <2>2. CASE w \notin draining
    <3>1. pc'[w] = "private" /\ tries'[w] = 0 /\ UNCHANGED <<queues, cur, draining>>
      BY <1>7, <2>2 DEF ScanMiss, AfterMiss, TypeOK
    <3>2. \A v \in Workers \ {w} : pc'[v] = pc[v] /\ tries'[v] = tries[v]
      BY <1>7 DEF ScanMiss, TypeOK
    <3> QED
      BY <3>1, <3>2, FreshScanVisits
  <2> QED
    BY <2>1, <2>2
<1>8. ASSUME NEW w \in Workers, Destroy(w)
      PROVE  NoWorldForgotten'
  <2>1. pc'[w] # "done" /\ tries'[w] = 0 /\ UNCHANGED <<queues, cur, draining>>
    BY <1>8 DEF Destroy, AfterHit, TypeOK
  <2>2. \A v \in Workers \ {w} : pc'[v] = pc[v] /\ tries'[v] = tries[v]
    BY <1>8 DEF Destroy, TypeOK
  <2> QED
    BY <2>1, <2>2, FreshScanVisits
<1>9. ASSUME NEW w \in Workers, CheckShutdown(w)
      PROVE  NoWorldForgotten'
  <2>1. pc'[w] # "done" /\ tries'[w] = 0 /\ UNCHANGED <<queues, cur>>
    BY <1>9 DEF CheckShutdown, TypeOK, ShutdownPhases
  <2>2. \A v \in Workers \ {w} :
          pc'[v] = pc[v] /\ tries'[v] = tries[v] /\ (v \in draining' <=> v \in draining)
    BY <1>9 DEF CheckShutdown, TypeOK
  <2> QED
    BY <2>1, <2>2, FreshScanVisits
<1> QED
  BY <1>1, <1>2, <1>3, <1>4, <1>5, <1>6, <1>7, <1>8, <1>9
     DEF Next, Worker, Terminated, SkipDead, Return

\* As long as a world has jobs, some worker that has not left run() will come to it.
THEOREM ShutdownCorrect == Spec => []ShutdownInv
<1>1. Init => ShutdownInv
  BY DEF Init, ShutdownInv, ShutdownPhases, NoWorldForgotten
<1>2. TypeOK /\ JobHeld /\ WorldInv /\ ShutdownInv /\ [Next]_vars => ShutdownInv'
  BY PhasesStep, VisitorsStep DEF ShutdownInv
<1> QED
  BY <1>1, <1>2, TypeCorrect, WorldCorrect, PTL DEF Spec

-----------------------------------------------------------------------------
(* What servants rely on                                                   *)

\* The jobs of a world complete in the order in which they were posted.
THEOREM CompletesInOrder == Spec => []CompletedInOrder
<1>1. TypeOK /\ JobHeld /\ OrderInv => CompletedInOrder
  <2> SUFFICES ASSUME TypeOK, JobHeld, OrderInv, NEW k \in Worlds
               PROVE  /\ Len(completed[k]) <= Len(posted[k])
                      /\ completed[k] = SubSeq(posted[k], 1, Len(completed[k]))
    BY DEF CompletedInOrder
  <2> DEFINE c == completed[k]
             q == queues[k]
             p == posted[k]
  <2>1. c \in Seq(Jobs) /\ q \in Seq(Jobs)
    BY DEF TypeOK
  <2>2. p = c \o q \/ \E j \in Jobs : p = Append(c, j) \o q
    BY DEF OrderInv, PostedSplits, JobHeld, Executing
  <2> HIDE DEF c, q, p
  <2>3. CASE p = c \o q
    BY <2>1, <2>3, PrefixOfSplit DEF c, p
  <2>4. ASSUME NEW j \in Jobs, p = Append(c, j) \o q
        PROVE  Len(c) <= Len(p) /\ c = SubSeq(p, 1, Len(c))
    BY <2>1, <2>4
  <2> QED
    BY <2>2, <2>3, <2>4 DEF c, p
<1> QED
  BY <1>1, TypeCorrect, OrderCorrect, PTL

\* When every worker has left run() every job that was posted has ended.
THEOREM ShutdownLeavesNothing == Spec => []NothingLeftBehind
<1>1. TypeOK /\ OrderInv /\ ShutdownInv => NothingLeftBehind
  <2> SUFFICES ASSUME TypeOK, OrderInv, ShutdownInv, \A w \in Workers : pc[w] = "done",
                      NEW j \in Jobs
               PROVE  status[j] \in {"new", "ended"}
    BY DEF NothingLeftBehind
  <2>1. World(j) \in Worlds
    BY WorldsExist
  <2>2. queues[World(j)] = <<>>
    BY <2>1 DEF ShutdownInv, NoWorldForgotten, WillVisit
  <2>3. ~Queued(j)
    BY <2>2 DEF Queued
  <2>4. ~Held(j) /\ ~Dying(j)
    BY DEF Held, Dying, Executing
  <2> QED
    BY <2>3, <2>4 DEF OrderInv, JobsPlaced, TypeOK
<1> QED
  BY <1>1, TypeCorrect, OrderCorrect, ShutdownCorrect, PTL

\* All members and callbacks of a servant are posted to one world.
OneWorldPerServant ==
  \A i, j \in {n \in Jobs : Kind[n] # "deleter"} :
    OffsetId[i] = OffsetId[j] => World(i) = World(j)

\* What README promises to servants, for those that have one world: posts to a
\* world complete in their order, nothing is left behind by the shutdown and no
\* two threads run members or callbacks of one servant.
THEOREM ServantsServed ==
  ASSUME OneWorldPerServant
  PROVE  Spec => []WorldsServeInOrder
<1>1. TypeOK /\ JobHeld /\ WorldInv /\ OrderInv => OneThreadPerServant
  <2> SUFFICES ASSUME TypeOK, JobHeld, WorldInv, OrderInv,
                      NEW v \in Workers, NEW w \in Workers, v # w,
                      pc[v] = "body", pc[w] = "body",
                      "deleter" \notin {Kind[job[v]], Kind[job[w]]},
                      OffsetId[job[v]] = OffsetId[job[w]]
               PROVE  FALSE
    BY DEF OneThreadPerServant
  <2>1. job[v] \in Jobs /\ job[w] \in Jobs
    BY DEF JobHeld
  <2>2. World(job[v]) = World(job[w])
    BY <2>1, OneWorldPerServant DEF OneWorldPerServant
  <2>3. World(job[v]) = cur[v] /\ World(job[w]) = cur[w]
    BY DEF OrderInv, JobsAtHome, Executing
  <2> QED
    BY <2>2, <2>3 DEF WorldInv, ServeApart, Serving
<1> QED
  BY <1>1, TypeCorrect, WorldCorrect, OrderCorrect, CompletesInOrder, ShutdownLeavesNothing,
     PTL DEF WorldsServeInOrder
=============================================================================
