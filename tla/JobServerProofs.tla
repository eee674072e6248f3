-------------------------- MODULE JobServerProofs --------------------------
(***************************************************************************)
(* JobServer for every number of jobs, clients and connections: a job is   *)
(* in one place until its result was delivered or it was lost, as long as  *)
(* no send failed inside send_first_job of the other thread.               *)
(***************************************************************************)
EXTENDS JobServer, FiniteSetTheorems, TLAPS

\* x occurs in sequence q; and not twice.
Within(x, q) == \E i \in DOMAIN q : q[i] = x
Once(x, q) == \A i, k \in DOMAIN q : q[i] = x /\ q[k] = x => i = k

-----------------------------------------------------------------------------
(* The answer to a request is in one place                                 *)

\* A request of connection c that was written and not answered yet: it is under
\* way, or its connection waits, or an answer is sent, or waits to be read.
Asked(c) == Within(Get, toServer[c])
Waits(c) == Within(c, waitingConns)
Sent(c) == \E m \in Jobs \cup {NoJob} : <<c, m>> \in outbox
Arrived(c) == toClient[c] # None

Idle(c) == c \notin used \/ \E k \in Clients : conn[k] = c /\ pc[k] \in {"check", "request"}

\* A connection belongs to one client, ...
OwnConn(k) ==
  /\ pc[k] \in {"request", "response"} => conn[k] # None
  /\ conn[k] \in used \cup {None}
  /\ \A l \in Clients : conn[k] # None /\ conn[k] = conn[l] => k = l

\* ... and at most one request of it is open, so that no response overwrites
\* another one that was not read.
OneAnswer(c) ==
  /\ Once(Get, toServer[c]) /\ Once(c, waitingConns)
  /\ \A m, n \in Jobs \cup {NoJob} : <<c, m>> \in outbox /\ <<c, n>> \in outbox => m = n
  /\ Asked(c) => ~Waits(c) /\ ~Sent(c) /\ ~Arrived(c)
  /\ Waits(c) => ~Sent(c) /\ ~Arrived(c)
  /\ Sent(c) => ~Arrived(c)
  /\ Idle(c) => ~Asked(c) /\ ~Waits(c) /\ ~Sent(c) /\ ~Arrived(c)

TokenInv ==
  /\ inserting => unprocessed # <<>>
  /\ \A k \in Clients : OwnConn(k)
  /\ \A c \in Conns : OneAnswer(c)

-----------------------------------------------------------------------------
(* A job is in one place                                                   *)

\* m_unprocessed_jobs without the job that send_first_job has sent.
Ready == IF inserting THEN Tail(unprocessed) ELSE unprocessed

\* A place is a kind and, with a connection or a client, which one.
InServer == {"queue", "serializing", "ready"}
OnConn == {"outbox", "arrived", "answered"}
AtClient == {"executing", "waits", "written"}

Place(s, o) ==
  \/ s \in InServer \cup {"ended"}
  \/ s \in OnConn /\ o \in Conns
  \/ s \in AtClient /\ o \in Clients

\* Place <<s, o>> is the only one of job j: in the server, ...
ServerAt(j, s) ==
  /\ j \in queue <=> s = "queue"
  /\ j \in serializing <=> s = "serializing"
  /\ Within(j, Ready) <=> s = "ready"
  /\ Once(j, Ready)

\* ... on a connection, ...
NetworkAt(j, s, o) ==
  \A c \in Conns :
    /\ <<c, j>> \in outbox <=> s = "outbox" /\ o = c
    /\ toClient[c] = j <=> s = "arrived" /\ o = c
    /\ Within(Result(j), toServer[c]) <=> s = "answered" /\ o = c
    /\ Once(Result(j), toServer[c])

\* ... with a client, ...
ClientAt(j, s, o) ==
  \A k \in Clients :
    /\ j \in executing[k] <=> s = "executing" /\ o = k
    /\ Within(j, waitingReqs[k]) <=> s = "waits" /\ o = k
    /\ Once(j, waitingReqs[k])
    /\ write[k] # <<>> /\ write[k][1] = j <=> s = "written" /\ o = k

\* ... or nowhere, because it is lost or its result came, once.
EndAt(j, s) ==
  /\ s = "ended" <=> j \in lost \/ results[j] > 0
  /\ results[j] <= 1

\* job_server remembers the jobs that it gave away.
Remembered(j, s) ==
  \/ s \in InServer \cup {"ended"}
  \/ j \in waiting
  \/ inserting /\ j = Head(unprocessed)

At(j, s, o) ==
  /\ Place(s, o)
  /\ ServerAt(j, s) /\ NetworkAt(j, s, o) /\ ClientAt(j, s, o)
  /\ EndAt(j, s) /\ Remembered(j, s)

Placed(j) ==
  \E s \in InServer \cup OnConn \cup AtClient \cup {"ended"},
     o \in Conns \cup Clients \cup {None} : At(j, s, o)

JobInv == ~raced => \A j \in Jobs : Placed(j)

IInv == TypeOK /\ TokenInv /\ JobInv

-----------------------------------------------------------------------------
(* Sequences                                                               *)

\* Appending y: everything else stays where it is.
LEMMA Appending ==
  ASSUME NEW S, NEW q \in Seq(S), NEW y \in S
  PROVE  /\ Append(q, y) \in Seq(S) /\ Append(q, y) # <<>>
         /\ \A x : Within(x, Append(q, y)) <=> Within(x, q) \/ x = y
         /\ \A x : Once(x, q) /\ (x = y => ~Within(x, q)) => Once(x, Append(q, y))
<1>1. /\ Append(q, y) \in Seq(S)
      /\ DOMAIN Append(q, y) = 1 .. Len(q) + 1
      /\ \A i \in 1 .. Len(q) : Append(q, y)[i] = q[i]
      /\ Append(q, y)[Len(q) + 1] = y
      /\ DOMAIN q = 1 .. Len(q)
      /\ Len(q) \in Nat
      /\ Append(q, y) # <<>>
  OBVIOUS
<1> DEFINE r == Append(q, y)
<1> HIDE DEF r
<1>2. ASSUME NEW x
      PROVE  Within(x, r) <=> Within(x, q) \/ x = y
  BY <1>1 DEF Within, r
<1>3. ASSUME NEW x, Once(x, q), x = y => ~Within(x, q)
      PROVE  Once(x, r)
  BY <1>1, <1>3 DEF Once, Within, r
<1> QED
  BY <1>1, <1>2, <1>3 DEF r

\* Taking the first element.
LEMMA TakingFirst ==
  ASSUME NEW S, NEW q \in Seq(S), q # <<>>
  PROVE  /\ Head(q) \in S /\ Tail(q) \in Seq(S)
         /\ Within(Head(q), q)
         /\ \A x : Within(x, q) <=> x = Head(q) \/ Within(x, Tail(q))
         /\ \A x : Once(x, q) => Once(x, Tail(q)) /\ (x = Head(q) => ~Within(x, Tail(q)))
<1>1. /\ Tail(q) \in Seq(S) /\ Head(q) \in S /\ Head(q) = q[1]
      /\ Len(q) \in Nat /\ Len(q) > 0
      /\ DOMAIN q = 1 .. Len(q)
      /\ DOMAIN Tail(q) = 1 .. Len(q) - 1
      /\ \A i \in 1 .. Len(q) - 1 : Tail(q)[i] = q[i + 1]
  OBVIOUS
<1> DEFINE r == Tail(q)
<1> HIDE DEF r
<1>2. Within(q[1], q)
  BY <1>1 DEF Within
<1>3. ASSUME NEW x
      PROVE  Within(x, q) <=> x = q[1] \/ Within(x, r)
  <2>1. ASSUME Within(x, r)
        PROVE  Within(x, q)
    <3>1. PICK i \in 1 .. Len(q) - 1 : r[i] = x
      BY <1>1, <2>1 DEF Within, r
    <3>2. q[i + 1] = x /\ i + 1 \in DOMAIN q
      BY <1>1, <3>1 DEF r
    <3> QED
      BY <3>2 DEF Within
  <2>2. ASSUME Within(x, q), x # q[1]
        PROVE  Within(x, r)
    <3>1. PICK i \in 1 .. Len(q) : q[i] = x
      BY <1>1, <2>2 DEF Within
    <3>2. i - 1 \in 1 .. Len(q) - 1 /\ r[i - 1] = q[i]
      BY <1>1, <2>2, <3>1 DEF r
    <3> QED
      BY <1>1, <3>1, <3>2 DEF Within, r
  <2> QED
    BY <1>2, <2>1, <2>2
<1>4. ASSUME NEW x, Once(x, q)
      PROVE  Once(x, r) /\ (x = q[1] => ~Within(x, r))
  <2>1. Once(x, r)
    <3> SUFFICES ASSUME NEW i \in 1 .. Len(q) - 1, NEW k \in 1 .. Len(q) - 1, r[i] = x, r[k] = x
                 PROVE  i = k
      BY <1>1 DEF Once, r
    <3>1. q[i + 1] = x /\ q[k + 1] = x /\ i + 1 \in DOMAIN q /\ k + 1 \in DOMAIN q
      BY <1>1 DEF r
    <3> QED
      BY <1>4, <3>1 DEF Once
  <2>2. ASSUME x = q[1], Within(x, r)
        PROVE  FALSE
    <3>1. PICK i \in 1 .. Len(q) - 1 : r[i] = x
      BY <1>1, <2>2 DEF Within, r
    <3>2. q[i + 1] = x /\ i + 1 \in DOMAIN q /\ 1 \in DOMAIN q /\ i + 1 # 1
      BY <1>1, <3>1 DEF r
    <3> QED
      BY <1>4, <2>2, <3>2 DEF Once
  <2> QED
    BY <2>1, <2>2
<1> QED
  BY <1>1, <1>2, <1>3, <1>4 DEF r

\* Putting y before the others.
LEMMA Prepending ==
  ASSUME NEW S, NEW q \in Seq(S), NEW y \in S
  PROVE  /\ <<y>> \o q \in Seq(S) /\ <<y>> \o q # <<>>
         /\ Tail(<<y>> \o q) = q
         /\ \A x : Within(x, <<y>> \o q) <=> Within(x, q) \/ x = y
         /\ \A x : Once(x, q) /\ (x = y => ~Within(x, q)) => Once(x, <<y>> \o q)
<1>1. /\ <<y>> \o q \in Seq(S) /\ <<y>> \o q # <<>>
      /\ DOMAIN (<<y>> \o q) = 1 .. Len(q) + 1
      /\ (<<y>> \o q)[1] = y
      /\ \A i \in 1 .. Len(q) : (<<y>> \o q)[i + 1] = q[i]
      /\ DOMAIN q = 1 .. Len(q)
      /\ Len(q) \in Nat
  OBVIOUS
<1>2. Tail(<<y>> \o q) = q
  OBVIOUS
<1> DEFINE r == <<y>> \o q
<1> HIDE DEF r
<1>3. \A i \in 2 .. Len(q) + 1 : r[i] = q[i - 1] /\ i - 1 \in 1 .. Len(q)
  BY <1>1 DEF r
<1>4. ASSUME NEW x
      PROVE  Within(x, r) <=> Within(x, q) \/ x = y
  <2>1. ASSUME Within(x, r), x # y
        PROVE  Within(x, q)
    <3>1. PICK i \in 1 .. Len(q) + 1 : r[i] = x
      BY <1>1, <2>1 DEF Within, r
    <3>2. i \in 2 .. Len(q) + 1
      BY <1>1, <2>1, <3>1 DEF r
    <3> QED
      BY <1>1, <1>3, <3>1, <3>2 DEF Within
  <2>2. ASSUME Within(x, q)
        PROVE  Within(x, r)
    <3>1. PICK i \in 1 .. Len(q) : q[i] = x
      BY <1>1, <2>2 DEF Within
    <3>2. i + 1 \in DOMAIN r /\ r[i + 1] = x
      BY <1>1, <3>1 DEF r
    <3> QED
      BY <3>2 DEF Within
  <2>3. Within(y, r)
    BY <1>1 DEF Within, r
  <2> QED
    BY <2>1, <2>2, <2>3
<1>5. ASSUME NEW x, Once(x, q), x = y => ~Within(x, q)
      PROVE  Once(x, r)
  <2> SUFFICES ASSUME NEW i \in 1 .. Len(q) + 1, NEW k \in 1 .. Len(q) + 1, r[i] = x, r[k] = x
               PROVE  i = k
    BY <1>1 DEF Once, r
  <2>1. CASE x = y
    <3>1. ASSUME NEW m \in 2 .. Len(q) + 1
          PROVE  r[m] # x
      BY <1>1, <1>3, <1>5, <2>1 DEF Within
    <3> QED
      BY <1>1, <3>1
  <2>2. CASE x # y
    <3>1. i \in 2 .. Len(q) + 1 /\ k \in 2 .. Len(q) + 1
      BY <1>1, <2>2 DEF r
    <3>2. q[i - 1] = x /\ q[k - 1] = x /\ i - 1 \in DOMAIN q /\ k - 1 \in DOMAIN q
      BY <1>1, <1>3, <3>1
    <3>3. i - 1 = k - 1
      BY <1>5, <3>2 DEF Once
    <3> QED
      BY <3>1, <3>3
  <2> QED
    BY <2>1, <2>2
<1> QED
  BY <1>1, <1>2, <1>4, <1>5 DEF r

\* Keeping the first n elements: an element that occurs once is kept or dropped.
LEMMA Cutting ==
  ASSUME NEW S, NEW q \in Seq(S), NEW n \in 0 .. Len(q)
  PROVE  /\ SubSeq(q, 1, n) \in Seq(S)
         /\ \A x : Within(x, SubSeq(q, 1, n)) => Within(x, q)
         /\ \A x : x \in ToSet(SubSeq(q, n + 1, Len(q))) => Within(x, q)
         /\ \A x : Once(x, q) =>
              /\ Once(x, SubSeq(q, 1, n))
              /\ Within(x, SubSeq(q, 1, n))
                   <=> Within(x, q) /\ x \notin ToSet(SubSeq(q, n + 1, Len(q)))
<1> DEFINE r == SubSeq(q, 1, n)
           s == SubSeq(q, n + 1, Len(q))
<1>1. /\ Len(q) \in Nat /\ DOMAIN q = 1 .. Len(q)
      /\ r \in Seq(S) /\ Len(r) = n /\ DOMAIN r = 1 .. n
      /\ \A i \in 1 .. n : r[i] = q[i]
  OBVIOUS
<1>2. /\ s \in Seq(S) /\ Len(s) = Len(q) - n /\ DOMAIN s = 1 .. Len(q) - n
      /\ \A i \in 1 .. Len(q) - n : s[i] = q[n + i]
  OBVIOUS
<1> HIDE DEF r, s
<1>3. \A x : x \in ToSet(s) <=> \E i \in n + 1 .. Len(q) : q[i] = x
  <2> SUFFICES ASSUME NEW x
               PROVE  x \in ToSet(s) <=> \E i \in n + 1 .. Len(q) : q[i] = x
    OBVIOUS
  <2>1. ASSUME x \in ToSet(s)
        PROVE  \E i \in n + 1 .. Len(q) : q[i] = x
    <3>1. PICK i \in 1 .. Len(q) - n : s[i] = x
      BY <1>2, <2>1 DEF ToSet
    <3>2. n + i \in n + 1 .. Len(q) /\ q[n + i] = x
      BY <1>1, <1>2, <3>1
    <3> QED
      BY <3>2
  <2>2. ASSUME NEW i \in n + 1 .. Len(q), q[i] = x
        PROVE  x \in ToSet(s)
    <3>1. i - n \in 1 .. Len(q) - n /\ n + (i - n) = i
      BY <1>1
    <3>2. s[i - n] = x
      BY <1>2, <2>2, <3>1
    <3> QED
      BY <1>2, <3>1, <3>2 DEF ToSet
  <2> QED
    BY <2>1, <2>2
<1>4. \A x : Within(x, r) <=> \E i \in 1 .. n : q[i] = x
  BY <1>1 DEF Within
<1>5. \A x : Within(x, q) <=> \E i \in 1 .. Len(q) : q[i] = x
  BY <1>1 DEF Within
<1>6. /\ \A i \in 1 .. n : i \in 1 .. Len(q)
      /\ \A i \in n + 1 .. Len(q) : i \in 1 .. Len(q)
      /\ \A i \in 1 .. Len(q) : i \in 1 .. n \/ i \in n + 1 .. Len(q)
      /\ \A i \in 1 .. n, k \in n + 1 .. Len(q) : i # k
  BY <1>1
<1>7. \A x : Once(x, q) => Once(x, r)
  BY <1>1, <1>6 DEF Once
<1>8. \A x : Once(x, q) => \A i, k \in 1 .. Len(q) : q[i] = x /\ q[k] = x => i = k
  BY <1>1 DEF Once
<1>9. \A x : Once(x, q) => (Within(x, r) <=> Within(x, q) /\ x \notin ToSet(s))
  BY <1>3, <1>4, <1>5, <1>6, <1>8
<1>10. \A x : (Within(x, r) => Within(x, q)) /\ (x \in ToSet(s) => Within(x, q))
  BY <1>3, <1>4, <1>5, <1>6
<1> QED
  BY <1>1, <1>7, <1>9, <1>10 DEF r, s

\* Nothing is in the empty sequence.
LEMMA EmptyWithin ==
  \A x : ~Within(x, <<>>) /\ Once(x, <<>>)
BY DEF Within, Once

\* ToSet of the community modules is Within.
LEMMA ToSetWithin ==
  ASSUME NEW q
  PROVE  \A x : x \in ToSet(q) <=> Within(x, q)
BY DEF ToSet, Within

-----------------------------------------------------------------------------
(* Types                                                                   *)

Messages == {Get} \cup {Result(j) : j \in Jobs}

\* Requests and results differ, and results of different jobs differ.
LEMMA MessageFacts ==
  /\ Get \in Messages /\ \A j \in Jobs : Result(j) \in Messages /\ Result(j) # Get
  /\ \A i, j \in Jobs : Result(i) = Result(j) => i = j
BY DEF Messages, Get, Result

\* The variables of job_server keep their types.
ServerType ==
  /\ stealing \in BOOLEAN /\ inserting \in BOOLEAN /\ raced \in BOOLEAN
  /\ queue \subseteq Jobs /\ serializing \subseteq Jobs /\ waiting \subseteq Jobs
  /\ lost \subseteq Jobs
  /\ unprocessed \in Seq(Jobs)
  /\ waitingConns \in Seq(Conns)
  /\ keepalive \subseteq Conns
  /\ results \in [Jobs -> Nat]

\* Those of the connections.
NetworkType ==
  /\ up \subseteq used /\ used \subseteq Conns
  /\ outbox \subseteq Conns \X (Jobs \cup {NoJob})
  /\ toServer \in [Conns -> Seq(Messages)]
  /\ toClient \in [Conns -> Jobs \cup {NoJob, None}]

\* Those of the clients.
ClientType ==
  /\ pc \in [Clients -> {"check", "request", "response", "dead"}]
  /\ conn \in [Clients -> Conns \cup {None}]
  /\ executing \in [Clients -> SUBSET Jobs]
  /\ write \in [Clients -> {<<>>} \cup (Jobs \X (Conns \cup {None}))]
  /\ waitingReqs \in [Clients -> Seq(Jobs)]

\* TypeOK is the three parts.
LEMMA TypeParts ==
  /\ TypeOK <=> ServerType /\ NetworkType /\ ClientType
  /\ TypeOK' <=> ServerType' /\ NetworkType' /\ ClientType'
BY DEF TypeOK, ServerType, NetworkType, ClientType, Messages

\* Every step keeps the types.
LEMMA TypesKept ==
  ASSUME ServerType, NetworkType, ClientType, TokenInv, Next
  PROVE  ServerType' /\ NetworkType' /\ ClientType'
<1>1. ASSUME NEW j \in Jobs, Forward(j)
      PROVE  ServerType' /\ NetworkType' /\ ClientType'
  BY <1>1 DEF Forward, ServerType, NetworkType, ClientType, network, client
<1>2. CASE NoJobs
  <2>1. ToSet(waitingConns) \subseteq Conns
    BY DEF ToSet, ServerType
  <2> QED
    BY <1>2, <2>1 DEF NoJobs, ServerType, NetworkType, ClientType, client
<1>3. CASE Insert
  <2>1. unprocessed # <<>>
    BY <1>3 DEF Insert, TokenInv
  <2>2. Head(unprocessed) \in Jobs /\ Tail(unprocessed) \in Seq(Jobs)
    BY <2>1, TakingFirst DEF ServerType
  <2>3. ServerType'
    BY <1>3, <2>2 DEF Insert, ServerType
  <2>4. NetworkType' /\ ClientType'
    BY <1>3 DEF Insert, NetworkType, ClientType, network, client
  <2> QED
    BY <2>3, <2>4
<1>4. ASSUME NEW j \in Jobs, AddTask(j)
      PROVE  ServerType' /\ NetworkType' /\ ClientType'
  <2>1. Append(unprocessed, j) \in Seq(Jobs) /\ Head(Append(unprocessed, j)) \in Jobs
    <3>1. Append(unprocessed, j) \in Seq(Jobs) /\ Append(unprocessed, j) # <<>>
      BY Appending DEF ServerType
    <3> QED
      BY <3>1, TakingFirst
  <2>2. waitingConns # <<>> => Head(waitingConns) \in Conns /\ Tail(waitingConns) \in Seq(Conns)
    BY TakingFirst DEF ServerType
  <2>3. ServerType'
    BY <1>4, <2>1, <2>2 DEF AddTask, Send, ServerType
  <2>4. NetworkType' /\ ClientType'
    BY <1>4, <2>1, <2>2 DEF AddTask, Send, NetworkType, ClientType, client
  <2> QED
    BY <2>3, <2>4
<1>5. ASSUME NEW c \in Conns, HandleGet(c)
      PROVE  ServerType' /\ NetworkType' /\ ClientType'
  <2>1. Tail(toServer[c]) \in Seq(Messages) /\ Append(waitingConns, c) \in Seq(Conns)
    BY <1>5, TakingFirst, Appending DEF HandleGet, ServerType, NetworkType
  <2>2. unprocessed # <<>> => Head(unprocessed) \in Jobs
    BY TakingFirst DEF ServerType
  <2>3. toServer' \in [Conns -> Seq(Messages)]
    <3>1. toServer' = [toServer EXCEPT ![c] = Tail(toServer[c])]
      BY <1>5 DEF HandleGet
    <3> QED
      BY <2>1, <3>1 DEF NetworkType
  <2>4. ServerType'
    BY <1>5, <2>1 DEF HandleGet, Send, ServerType
  <2>5. outbox' \subseteq Conns \X (Jobs \cup {NoJob})
    BY <1>5, <2>2 DEF HandleGet, Send, NetworkType
  <2>6. NetworkType' /\ ClientType'
    BY <1>5, <2>3, <2>5 DEF HandleGet, NetworkType, ClientType, client
  <2> QED
    BY <2>4, <2>6
<1>6. ASSUME NEW c \in Conns, HandleResult(c)
      PROVE  ServerType' /\ NetworkType' /\ ClientType'
  <2>1. Tail(toServer[c]) \in Seq(Messages)
    BY <1>6, TakingFirst DEF HandleResult, NetworkType
  <2>2. results' \in [Jobs -> Nat] /\ lost' \subseteq Jobs
    BY <1>6 DEF HandleResult, ServerType
  <2> QED
    BY <1>6, <2>1, <2>2 DEF HandleResult, ServerType, NetworkType, ClientType, client, server
<1>7. ASSUME NEW c \in Conns, HandleComError(c)
      PROVE  ServerType' /\ NetworkType' /\ ClientType'
  BY <1>7 DEF HandleComError, ServerType, NetworkType, ClientType, network, client
<1>8. ASSUME NEW c \in Conns, NEW m \in Jobs \cup {NoJob}, Written(c, m)
      PROVE  ServerType' /\ NetworkType' /\ ClientType'
  <2>1. m \in Jobs => <<m>> \o unprocessed \in Seq(Jobs)
    BY Prepending DEF ServerType
  <2>2. unprocessed' \in Seq(Jobs) /\ waiting' \subseteq Jobs
    BY <1>8, <2>1 DEF Written, TakeBack, ServerType
  <2>3. raced' \in BOOLEAN /\ lost' \subseteq Jobs
    BY <1>8 DEF Written, TakeBack, ServerType
  <2>4. ServerType'
    BY <1>8, <2>2, <2>3 DEF Written, ServerType
  <2>5. toClient' \in [Conns -> Jobs \cup {NoJob, None}]
    BY <1>8 DEF Written, NetworkType
  <2>6. NetworkType' /\ ClientType'
    BY <1>8, <2>5 DEF Written, NetworkType, ClientType, client
  <2> QED
    BY <2>4, <2>6
<1>9. ASSUME NEW k \in Clients, CheckForWork(k) \/ Connect(k) \/ RequestWritten(k)
      PROVE  ServerType' /\ NetworkType' /\ ClientType'
  <2>1. CASE CheckForWork(k)
    BY <2>1 DEF CheckForWork, ServerType, NetworkType, ClientType, server, network
  <2>2. CASE Connect(k)
    BY <2>2 DEF Connect, ServerType, NetworkType, ClientType
  <2>3. CASE RequestWritten(k)
    <3>1. ServerType' /\ ClientType'
      BY <2>3 DEF RequestWritten, ServerType, ClientType, server
    <3>2. \A c \in Conns : Append(toServer[c], Get) \in Seq(Messages)
      BY Appending, MessageFacts DEF NetworkType
    <3>3. toServer' \in [Conns -> Seq(Messages)]
      <4>1. CASE conn[k] \in up
        <5>1. conn[k] \in Conns
          BY <4>1 DEF NetworkType
        <5>2. toServer' = [toServer EXCEPT ![conn[k]] = Append(toServer[conn[k]], Get)]
          BY <2>3, <4>1 DEF RequestWritten
        <5>3. Append(toServer[conn[k]], Get) \in Seq(Messages) /\ toServer \in [Conns -> Seq(Messages)]
          BY <3>2, <5>1 DEF NetworkType
        <5> QED
          BY <5>2, <5>3
      <4>2. CASE conn[k] \notin up
        BY <2>3, <4>2 DEF RequestWritten, NetworkType
      <4> QED
        BY <4>1, <4>2
    <3>4. NetworkType'
      BY <2>3, <3>3 DEF RequestWritten, NetworkType
    <3> QED
      BY <3>1, <3>4
  <2> QED
    BY <1>9, <2>1, <2>2, <2>3
<1>10. ASSUME NEW k \in Clients, ResponseRead(k) \/ ReadFails(k)
       PROVE  ServerType' /\ NetworkType' /\ ClientType'
  <2>1. CASE ResponseRead(k)
    <3>1. ServerType' /\ ClientType'
      BY <2>1 DEF ResponseRead, ServerType, ClientType, server
    <3>2. NetworkType'
      BY <2>1 DEF ResponseRead, NetworkType
    <3> QED
      BY <3>1, <3>2
  <2>2. CASE ReadFails(k)
    BY <2>2 DEF ReadFails, ServerType, NetworkType, ClientType, server, network
  <2> QED
    BY <1>10, <2>1, <2>2
<1>11. ASSUME NEW k \in Clients, NEW j \in Jobs, SendTaskResult(k, j)
       PROVE  ServerType' /\ NetworkType' /\ ClientType'
  <2>1. ServerType' /\ NetworkType'
    BY <1>11 DEF SendTaskResult, ServerType, NetworkType, server, network
  <2>2. executing' \in [Clients -> SUBSET Jobs]
    BY <1>11 DEF SendTaskResult, ClientType
  <2>3. Append(waitingReqs[k], j) \in Seq(Jobs)
    BY Appending DEF ClientType
  <2>4. waitingReqs' \in [Clients -> Seq(Jobs)]
    BY <1>11, <2>3 DEF SendTaskResult, ClientType
  <2>5. write' \in [Clients -> {<<>>} \cup (Jobs \X (Conns \cup {None}))]
    <3>1. <<j, conn[k]>> \in Jobs \X (Conns \cup {None})
      BY DEF ClientType
    <3>2. write' = [write EXCEPT ![k] = <<j, conn[k]>>] \/ write' = write
      BY <1>11 DEF SendTaskResult
    <3>3. write \in [Clients -> {<<>>} \cup (Jobs \X (Conns \cup {None}))]
      BY DEF ClientType
    <3> QED
      BY <3>1, <3>2, <3>3
  <2>6. ClientType'
    BY <1>11, <2>2, <2>4, <2>5 DEF SendTaskResult, ClientType
  <2> QED
    BY <2>1, <2>6
<1>12. ASSUME NEW k \in Clients, ResultWritten(k)
       PROVE  ServerType' /\ NetworkType' /\ ClientType'
  <2>1. /\ write[k] # <<>> /\ write[k][1] \in Jobs
    BY <1>12 DEF ResultWritten, ClientType
  <2>2. \A c \in Conns : Append(toServer[c], Result(write[k][1])) \in Seq(Messages)
    BY <2>1, Appending, MessageFacts DEF NetworkType
  <2>3. toServer' \in [Conns -> Seq(Messages)]
    <3>1. CASE write[k][2] \in up
      <4>1. write[k][2] \in Conns
        BY <3>1 DEF NetworkType
      <4>2. toServer' = [toServer EXCEPT ![write[k][2]] =
                           Append(toServer[write[k][2]], Result(write[k][1]))]
        BY <1>12, <3>1 DEF ResultWritten
      <4>3. /\ Append(toServer[write[k][2]], Result(write[k][1])) \in Seq(Messages)
            /\ toServer \in [Conns -> Seq(Messages)]
        BY <2>2, <4>1 DEF NetworkType
      <4> QED
        BY <4>2, <4>3
    <3>2. CASE write[k][2] \notin up
      BY <1>12, <3>2 DEF ResultWritten, NetworkType
    <3> QED
      BY <3>1, <3>2
  <2>4. NetworkType'
    BY <1>12, <2>3 DEF ResultWritten, NetworkType
  <2>5. ServerType'
    BY <1>12, <2>1 DEF ResultWritten, ServerType, server
  <2>6. waitingReqs[k] # <<>> => Head(waitingReqs[k]) \in Jobs /\ Tail(waitingReqs[k]) \in Seq(Jobs)
    BY TakingFirst DEF ClientType
  <2>7. write' \in [Clients -> {<<>>} \cup (Jobs \X (Conns \cup {None}))]
    <3>1. waitingReqs[k] # <<>> =>
            <<Head(waitingReqs[k]), conn[k]>> \in Jobs \X (Conns \cup {None})
      BY <2>6 DEF ClientType
    <3>2. \/ /\ waitingReqs[k] # <<>>
             /\ write' = [write EXCEPT ![k] = <<Head(waitingReqs[k]), conn[k]>>]
          \/ write' = [write EXCEPT ![k] = <<>>]
      BY <1>12 DEF ResultWritten
    <3>3. write \in [Clients -> {<<>>} \cup (Jobs \X (Conns \cup {None}))]
      BY DEF ClientType
    <3> QED
      BY <3>1, <3>2, <3>3
  <2>8. waitingReqs' \in [Clients -> Seq(Jobs)]
    BY <1>12, <2>6 DEF ResultWritten, ClientType
  <2>9. ClientType'
    BY <1>12, <2>7, <2>8 DEF ResultWritten, ClientType
  <2> QED
    BY <2>4, <2>5, <2>9
<1>13. ASSUME NEW c \in Conns, Break(c)
       PROVE  ServerType' /\ NetworkType' /\ ClientType'
  <2>1. PICK n \in 0 .. Len(toServer[c]), keep \in BOOLEAN :
          /\ toServer' = [toServer EXCEPT ![c] = SubSeq(@, 1, n)]
          /\ toClient' = IF keep THEN toClient ELSE [toClient EXCEPT ![c] = None]
          /\ lost' = lost \cup Dropped(c, n) \cup (IF keep THEN {} ELSE {toClient[c]} \cap Jobs)
    BY <1>13 DEF Break
  <2>2. SubSeq(toServer[c], 1, n) \in Seq(Messages)
    BY Cutting DEF NetworkType
  <2>3. Dropped(c, n) \subseteq Jobs
    BY DEF Dropped
  <2> QED
    BY <1>13, <2>1, <2>2, <2>3 DEF Break, ServerType, NetworkType, ClientType, server, client
<1>14. ASSUME NEW k \in Clients, Crash(k)
       PROVE  ServerType' /\ NetworkType' /\ ClientType'
  <2>1. Held(k) \subseteq Jobs
    BY DEF Held, ClientType, ToSet
  <2> QED
    BY <1>14, <2>1 DEF Crash, ServerType, NetworkType, ClientType, server
<1>15. CASE UNCHANGED vars
  BY <1>15 DEF vars, server, network, client, ServerType, NetworkType, ClientType
<1> QED
  BY <1>1, <1>2, <1>3, <1>4, <1>5, <1>6, <1>7, <1>8, <1>9, <1>10, <1>11, <1>12, <1>13, <1>14, <1>15
  DEF Next, Scheduler, Handle, Write, Client, Ask, Execute, Terminated

-----------------------------------------------------------------------------
(* The answer to a request                                                 *)

Types == ServerType /\ NetworkType /\ ClientType

\* The steps of the clients that ask, and of the others.
LEMMA ConnsOwned ==
  ASSUME Types, \A k \in Clients : OwnConn(k), Next
  PROVE  \A k \in Clients : OwnConn(k)'
<1>1. CASE UNCHANGED <<pc, conn, used>>
  BY <1>1 DEF OwnConn
<1>2. ASSUME NEW k \in Clients, CheckForWork(k)
      PROVE  \A l \in Clients : OwnConn(l)'
  <2>1. /\ pc' = [pc EXCEPT ![k] = "request"] /\ conn[k] # None
        /\ UNCHANGED <<conn, used>> /\ pc \in [Clients -> {"check", "request", "response", "dead"}]
    BY <1>2 DEF CheckForWork, network, Types, ClientType
  <2> QED
    BY <2>1 DEF OwnConn
<1>3. ASSUME NEW k \in Clients, Connect(k)
      PROVE  \A l \in Clients : OwnConn(l)'
  <2>1. PICK c \in Conns \ used : conn' = [conn EXCEPT ![k] = c] /\ used' = used \cup {c}
    BY <1>3 DEF Connect
  <2>2. /\ pc' = [pc EXCEPT ![k] = "request"] \/ pc' = pc
        /\ conn[k] = None /\ c # None
        /\ pc \in [Clients -> {"check", "request", "response", "dead"}] /\ conn \in [Clients -> Conns \cup {None}]
    BY <1>3, ConnsAssumption DEF Connect, Types, ClientType
  <2>3. \A l \in Clients : conn[l] # c
    BY <2>1, <2>2 DEF OwnConn
  <2> QED
    BY <2>1, <2>2, <2>3 DEF OwnConn
<1>4. ASSUME NEW k \in Clients, RequestWritten(k)
      PROVE  \A l \in Clients : OwnConn(l)'
  <2>1. /\ pc[k] = "request" /\ UNCHANGED used
        /\ \/ pc' = [pc EXCEPT ![k] = "response"] /\ UNCHANGED conn
           \/ pc' = [pc EXCEPT ![k] = "check"] /\ conn' = [conn EXCEPT ![k] = None]
        /\ pc \in [Clients -> {"check", "request", "response", "dead"}] /\ conn \in [Clients -> Conns \cup {None}]
    BY <1>4 DEF RequestWritten, Types, ClientType
  <2> QED
    BY <2>1 DEF OwnConn
<1>5. ASSUME NEW k \in Clients, ResponseRead(k) \/ ReadFails(k)
      PROVE  \A l \in Clients : OwnConn(l)'
  <2>1. /\ UNCHANGED used /\ pc' = [pc EXCEPT ![k] = "check"]
        /\ conn' = conn \/ conn' = [conn EXCEPT ![k] = None]
        /\ pc \in [Clients -> {"check", "request", "response", "dead"}] /\ conn \in [Clients -> Conns \cup {None}]
    BY <1>5 DEF ResponseRead, ReadFails, network, Types, ClientType
  <2> QED
    BY <2>1 DEF OwnConn
<1>6. ASSUME NEW k \in Clients, Crash(k)
      PROVE  \A l \in Clients : OwnConn(l)'
  <2>1. /\ pc' = [pc EXCEPT ![k] = "dead"] /\ UNCHANGED <<conn, used>>
        /\ pc \in [Clients -> {"check", "request", "response", "dead"}]
    BY <1>6 DEF Crash, Types, ClientType
  <2> QED
    BY <2>1 DEF OwnConn
<1>7. \/ UNCHANGED <<pc, conn, used>>
      \/ \E k \in Clients :
           \/ CheckForWork(k) \/ Connect(k) \/ RequestWritten(k)
           \/ ResponseRead(k) \/ ReadFails(k) \/ Crash(k)
  <2>1. \A j \in Jobs : Forward(j) \/ AddTask(j) => UNCHANGED <<pc, conn, used>>
    BY DEF Forward, AddTask, network, client
  <2>2. NoJobs \/ Insert => UNCHANGED <<pc, conn, used>>
    BY DEF NoJobs, Insert, network, client
  <2>3. \A c \in Conns : Handle(c) => UNCHANGED <<pc, conn, used>>
    BY DEF Handle, HandleGet, HandleResult, HandleComError, network, client
  <2>4. \A c \in Conns : Write(c) \/ Break(c) => UNCHANGED <<pc, conn, used>>
    BY DEF Write, Written, Break, client
  <2>5. \A k \in Clients, j \in Jobs : SendTaskResult(k, j) => UNCHANGED <<pc, conn, used>>
    BY DEF SendTaskResult, network
  <2>6. \A k \in Clients : ResultWritten(k) => UNCHANGED <<pc, conn, used>>
    BY DEF ResultWritten
  <2>7. Terminated => UNCHANGED <<pc, conn, used>>
    BY DEF Terminated, vars, network, client
  <2> QED
    BY <2>1, <2>2, <2>3, <2>4, <2>5, <2>6, <2>7 DEF Next, Scheduler, Client, Ask, Execute
<1> QED
  BY <1>1, <1>2, <1>3, <1>4, <1>5, <1>6, <1>7

\* Connection c gets nothing new to answer.
Fewer(c) ==
  /\ Once(Get, toServer[c])' /\ (Asked(c)' => Asked(c))
  /\ Once(c, waitingConns)' /\ (Waits(c)' => Waits(c))
  /\ \A m \in Jobs \cup {NoJob} : <<c, m>> \in outbox' => <<c, m>> \in outbox
  /\ Arrived(c)' => Arrived(c)
  /\ Idle(c)' => Idle(c)

\* Then what it has is still one answer.
LEMMA FewerTokens ==
  ASSUME NEW c \in Conns, OneAnswer(c), Fewer(c)
  PROVE  OneAnswer(c)'
BY DEF OneAnswer, Fewer, Sent

\* An action that writes nothing of the exchange.
LEMMA NothingAsked ==
  ASSUME TokenInv, NEW c \in Conns,
         UNCHANGED <<waitingConns, outbox, used, toServer, toClient, pc, conn>>
  PROVE  OneAnswer(c)'
<1>1. OneAnswer(c)
  BY DEF TokenInv
<1> QED
  BY <1>1 DEF OneAnswer, Asked, Waits, Sent, Arrived, Idle, Within, Once

\* tcp_server_scheduler::run tells the clients that wait that there is nothing.
LEMMA TokensNoJobs ==
  ASSUME Types, TokenInv, NoJobs, NEW c \in Conns
  PROVE  OneAnswer(c)'
<1>1. /\ OneAnswer(c)
      /\ outbox' = outbox \cup {<<d, NoJob>> : d \in ToSet(waitingConns)}
      /\ waitingConns' = <<>>
      /\ UNCHANGED <<toServer, toClient, used, pc, conn>>
  BY DEF TokenInv, NoJobs, client
<1>2. \A m : <<c, m>> \in outbox' <=> <<c, m>> \in outbox \/ (m = NoJob /\ Waits(c))
  BY <1>1, ToSetWithin DEF Waits
<1>3. Once(c, waitingConns)' /\ ~Waits(c)'
  BY <1>1, EmptyWithin DEF Waits
<1>4. Asked(c)' = Asked(c) /\ Arrived(c)' = Arrived(c) /\ Idle(c)' = Idle(c) /\ Once(Get, toServer[c])'
  BY <1>1 DEF OneAnswer, Asked, Arrived, Idle, Within, Once
<1> QED
  BY <1>1, <1>2, <1>3, <1>4 DEF OneAnswer, Sent

\* The connection that waited first gets the job and waits no longer.
LEMMA TokensAddTask ==
  ASSUME Types, TokenInv, NEW j \in Jobs, AddTask(j), NEW c \in Conns
  PROVE  OneAnswer(c)'
<1>1. /\ OneAnswer(c)
      /\ UNCHANGED <<toServer, toClient, used, pc, conn>>
  BY DEF TokenInv, AddTask, client
<1>2. Asked(c)' = Asked(c) /\ Arrived(c)' = Arrived(c) /\ Idle(c)' = Idle(c) /\ Once(Get, toServer[c])'
  BY <1>1 DEF OneAnswer, Asked, Arrived, Idle, Within, Once
<1>3. CASE waitingConns # <<>>
  <2>1. PICK n : n = Head(Append(unprocessed, j))
    OBVIOUS
  <2>2. outbox' = outbox \cup {<<Head(waitingConns), n>>} /\ waitingConns' = Tail(waitingConns)
    BY <1>3, <2>1 DEF AddTask, Send
  <2>3. Waits(c) <=> c = Head(waitingConns) \/ Within(c, waitingConns')
    BY <1>3, <2>2, TakingFirst DEF Waits, Types, ServerType
  <2>4. Once(c, waitingConns') /\ (c = Head(waitingConns) => ~Within(c, waitingConns'))
    BY <1>1, <1>3, <2>2, TakingFirst DEF OneAnswer, Types, ServerType
  <2>5. \A m : <<c, m>> \in outbox' <=> <<c, m>> \in outbox \/ (m = n /\ c = Head(waitingConns))
    BY <2>2
  <2>6. Waits(c)' <=> Within(c, waitingConns')
    BY DEF Waits
  <2> QED
    BY <1>1, <1>2, <2>3, <2>4, <2>5, <2>6 DEF OneAnswer, Sent
<1>4. CASE waitingConns = <<>>
  <2>1. UNCHANGED <<outbox, waitingConns>>
    BY <1>4 DEF AddTask
  <2> QED
    BY <1>1, <2>1, NothingAsked
<1> QED
  BY <1>3, <1>4

\* A request is answered at once, or its connection waits.
LEMMA TokensHandleGet ==
  ASSUME Types, TokenInv, NEW d \in Conns, HandleGet(d), NEW c \in Conns
  PROVE  OneAnswer(c)'
<1>1. /\ OneAnswer(c)
      /\ UNCHANGED <<toClient, used, pc, conn>>
      /\ toServer[d] # <<>> /\ Head(toServer[d]) = Get
      /\ toServer' = [toServer EXCEPT ![d] = Tail(toServer[d])]
      /\ toServer \in [Conns -> Seq(Messages)]
      /\ \/ \E n : outbox' = outbox \cup {<<d, n>>} /\ UNCHANGED waitingConns
         \/ waitingConns' = Append(waitingConns, d) /\ UNCHANGED outbox
  BY DEF TokenInv, HandleGet, Send, client, Types, NetworkType
<1>2. Arrived(c)' = Arrived(c) /\ Idle(c)' = Idle(c)
  BY <1>1 DEF Arrived, Idle
<1>3. CASE c = d
  <2>1. toServer'[c] = Tail(toServer[c]) /\ toServer[c] \in Seq(Messages)
    BY <1>1, <1>3
  <2>2. Asked(c) /\ ~Asked(c)' /\ Once(Get, toServer[c])'
    <3>1. Once(Get, toServer[c]) /\ toServer[c] # <<>> /\ Get = Head(toServer[c])
      BY <1>1, <1>3 DEF OneAnswer
    <3>2. Within(Get, toServer[c]) /\ ~Within(Get, Tail(toServer[c])) /\ Once(Get, Tail(toServer[c]))
      BY <2>1, <3>1, TakingFirst
    <3> QED
      BY <2>1, <3>2 DEF Asked
  <2>3. ~Waits(c) /\ ~Sent(c) /\ ~Arrived(c) /\ ~Idle(c)
    BY <1>1, <2>2 DEF OneAnswer
  <2>4. CASE \E n : outbox' = outbox \cup {<<d, n>>} /\ UNCHANGED waitingConns
    <3>1. PICK n : outbox' = outbox \cup {<<d, n>>} /\ UNCHANGED waitingConns
      BY <2>4
    <3>2. \A m \in Jobs \cup {NoJob} : <<c, m>> \in outbox' => m = n
      BY <1>3, <2>3, <3>1 DEF Sent
    <3>3. Waits(c)' = Waits(c) /\ Once(c, waitingConns)'
      BY <1>1, <3>1 DEF Waits, OneAnswer
    <3> QED
      BY <1>2, <2>2, <2>3, <3>2, <3>3 DEF OneAnswer
  <2>5. CASE waitingConns' = Append(waitingConns, d) /\ UNCHANGED outbox
    <3>1. Once(c, waitingConns)'
      BY <1>1, <1>3, <2>3, <2>5, Appending DEF OneAnswer, Waits, Types, ServerType
    <3>2. ~Sent(c)'
      BY <2>3, <2>5 DEF Sent
    <3> QED
      BY <1>2, <2>2, <2>3, <3>1, <3>2 DEF OneAnswer, Sent
  <2> QED
    BY <1>1, <2>4, <2>5
<1>4. CASE c # d
  <2>1. toServer'[c] = toServer[c]
    BY <1>1, <1>4
  <2>2. Asked(c)' = Asked(c) /\ Once(Get, toServer[c])'
    BY <1>1, <2>1 DEF Asked, OneAnswer
  <2>3. Once(c, waitingConns)' /\ (Waits(c)' => Waits(c))
    <3>1. CASE UNCHANGED waitingConns
      BY <1>1, <3>1 DEF OneAnswer, Waits
    <3>2. CASE waitingConns' = Append(waitingConns, d)
      <4>1. Once(c, waitingConns) /\ waitingConns \in Seq(Conns)
        BY <1>1 DEF OneAnswer, Types, ServerType
      <4>2. Once(c, Append(waitingConns, d)) /\ (Within(c, Append(waitingConns, d)) => Within(c, waitingConns))
        BY <1>4, <4>1, Appending
      <4> QED
        BY <3>2, <4>2 DEF Waits
    <3> QED
      BY <1>1, <3>1, <3>2
  <2>4. \A m \in Jobs \cup {NoJob} : <<c, m>> \in outbox' => <<c, m>> \in outbox
    BY <1>1, <1>4
  <2> QED
    BY <1>1, <1>2, <2>2, <2>3, <2>4, FewerTokens DEF Fewer
<1> QED
  BY <1>3, <1>4

\* A result is no request.
LEMMA TokensHandleResult ==
  ASSUME Types, TokenInv, NEW d \in Conns, HandleResult(d), NEW c \in Conns
  PROVE  OneAnswer(c)'
<1>1. /\ OneAnswer(c)
      /\ UNCHANGED <<waitingConns, outbox, toClient, used, pc, conn>>
      /\ toServer[d] # <<>>
      /\ toServer' = [toServer EXCEPT ![d] = Tail(toServer[d])]
      /\ toServer \in [Conns -> Seq(Messages)]
  BY DEF TokenInv, HandleResult, server, client, Types, NetworkType
<1>2. Once(Get, toServer[c])' /\ (Asked(c)' => Asked(c))
  <2>1. CASE c = d
    <3>1. toServer'[c] = Tail(toServer[c]) /\ toServer[c] \in Seq(Messages) /\ toServer[c] # <<>>
      BY <1>1, <2>1
    <3> QED
      BY <1>1, <3>1, TakingFirst DEF OneAnswer, Asked
  <2>2. CASE c # d
    BY <1>1, <2>2 DEF OneAnswer, Asked
  <2> QED
    BY <2>1, <2>2
<1>3. /\ Once(c, waitingConns)' /\ (Waits(c)' => Waits(c))
      /\ Arrived(c)' => Arrived(c)
      /\ Idle(c)' => Idle(c)
  BY <1>1 DEF OneAnswer, Waits, Arrived, Idle
<1> QED
  BY <1>1, <1>2, <1>3, FewerTokens DEF Fewer

\* What was sent arrives, where nothing has arrived before, or is lost.
LEMMA TokensWritten ==
  ASSUME Types, TokenInv, NEW d \in Conns, NEW n \in Jobs \cup {NoJob}, Written(d, n), NEW c \in Conns
  PROVE  OneAnswer(c)'
<1>1. /\ OneAnswer(c)
      /\ <<d, n>> \in outbox
      /\ outbox' = outbox \ {<<d, n>>}
      /\ toClient' = [toClient EXCEPT ![d] = n] \/ toClient' = toClient
      /\ UNCHANGED <<waitingConns, toServer, used, pc, conn>>
      /\ toClient \in [Conns -> Jobs \cup {NoJob, None}]
  BY DEF TokenInv, Written, client, Types, NetworkType
<1>2. /\ Asked(c)' = Asked(c) /\ Waits(c)' = Waits(c) /\ Idle(c)' = Idle(c)
      /\ Once(Get, toServer[c])' /\ Once(c, waitingConns)'
  BY <1>1 DEF OneAnswer, Asked, Waits, Idle
<1>3. CASE c = d
  <2>1. Sent(c)
    BY <1>1, <1>3 DEF Sent
  <2>2. \A m \in Jobs \cup {NoJob} : <<c, m>> \notin outbox'
    BY <1>1, <1>3 DEF OneAnswer
  <2>3. ~Sent(c)'
    BY <2>2 DEF Sent
  <2>4. ~Asked(c) /\ ~Waits(c) /\ ~Idle(c)
    BY <1>1, <2>1 DEF OneAnswer
  <2> QED
    BY <1>2, <2>2, <2>3, <2>4 DEF OneAnswer
<1>4. CASE c # d
  <2>1. Arrived(c)' = Arrived(c)
    BY <1>1, <1>4 DEF Arrived
  <2>2. \A m \in Jobs \cup {NoJob} : <<c, m>> \in outbox' => <<c, m>> \in outbox
    BY <1>1
  <2> QED
    BY <1>1, <1>2, <2>1, <2>2, FewerTokens DEF Fewer
<1> QED
  BY <1>3, <1>4

\* The clients that ask.
LEMMA TokensAsk ==
  ASSUME Types, TokenInv, NEW k \in Clients, Ask(k), NEW c \in Conns
  PROVE  OneAnswer(c)'
<1>1. OneAnswer(c) /\ \A l \in Clients : OwnConn(l)
  BY DEF TokenInv
<1>2. CASE CheckForWork(k)
  <2>1. /\ UNCHANGED <<waitingConns, outbox, used, toServer, toClient, conn>>
        /\ pc[k] = "check" /\ pc' = [pc EXCEPT ![k] = "request"]
        /\ pc \in [Clients -> {"check", "request", "response", "dead"}]
    BY <1>2 DEF CheckForWork, server, network, Types, ClientType
  <2>2. Idle(c)' => Idle(c)
    BY <2>1 DEF Idle
  <2> QED
    BY <1>1, <2>1, <2>2, FewerTokens DEF Fewer, OneAnswer, Asked, Waits, Arrived
<1>3. CASE Connect(k)
  <2>1. PICK e \in Conns \ used : conn' = [conn EXCEPT ![k] = e] /\ used' = used \cup {e}
    BY <1>3 DEF Connect
  <2>2. /\ UNCHANGED <<waitingConns, outbox, toServer, toClient>>
        /\ pc[k] = "check"
        /\ pc' = [pc EXCEPT ![k] = "request"] \/ pc' = pc
        /\ pc \in [Clients -> {"check", "request", "response", "dead"}]
        /\ conn \in [Clients -> Conns \cup {None}]
    BY <1>3 DEF Connect, Types, ClientType
  <2>3. Idle(c)' => Idle(c)
    <3>1. CASE c = e
      BY <2>1, <3>1 DEF Idle
    <3>2. CASE c # e
      <4>1. ASSUME NEW l \in Clients, conn'[l] = c, pc'[l] \in {"check", "request"}
            PROVE  conn[l] = c /\ pc[l] \in {"check", "request"}
        BY <2>1, <2>2, <3>2, <4>1
      <4> QED
        BY <2>1, <3>2, <4>1 DEF Idle
    <3> QED
      BY <3>1, <3>2
  <2> QED
    BY <1>1, <2>2, <2>3, FewerTokens DEF Fewer, OneAnswer, Asked, Waits, Arrived
<1>4. CASE RequestWritten(k)
  <2>1. /\ UNCHANGED <<waitingConns, outbox, used, toClient>> /\ pc[k] = "request"
        /\ pc \in [Clients -> {"check", "request", "response", "dead"}]
        /\ conn \in [Clients -> Conns \cup {None}]
    BY <1>4 DEF RequestWritten, server, Types, ClientType
  <2>2. CASE conn[k] \in up
    <3>1. /\ toServer' = [toServer EXCEPT ![conn[k]] = Append(toServer[conn[k]], Get)]
          /\ pc' = [pc EXCEPT ![k] = "response"] /\ conn' = conn
      BY <1>4, <2>2 DEF RequestWritten
    <3>2. conn[k] \in Conns /\ conn[k] \in used /\ toServer \in [Conns -> Seq(Messages)]
      BY <2>2 DEF Types, NetworkType
    <3>3. CASE c = conn[k]
      <4>1. Idle(c)
        BY <2>1, <3>3 DEF Idle
      <4>2. ~Asked(c) /\ ~Waits(c) /\ ~Sent(c) /\ ~Arrived(c)
        BY <1>1, <4>1 DEF OneAnswer
      <4>3. ~Idle(c)'
        <5>1. \A l \in Clients : conn[l] = c => l = k
          BY <1>1, <3>3, <3>2, ConnsAssumption DEF OwnConn
        <5> QED
          BY <2>1, <3>1, <3>2, <3>3, <5>1 DEF Idle
      <4>4. Once(Get, toServer[c])'
        <5>1. toServer'[c] = Append(toServer[c], Get) /\ toServer[c] \in Seq(Messages)
          BY <3>1, <3>2, <3>3
        <5>2. Once(Get, toServer[c]) /\ ~Within(Get, toServer[c])
          BY <1>1, <4>2 DEF OneAnswer, Asked
        <5> QED
          BY <5>1, <5>2, Appending, MessageFacts
      <4>5. ~Waits(c)' /\ ~Sent(c)' /\ ~Arrived(c)' /\ Once(c, waitingConns)'
        BY <1>1, <2>1, <4>2 DEF OneAnswer, Waits, Sent, Arrived
      <4>6. \A m, n \in Jobs \cup {NoJob} : <<c, m>> \in outbox' /\ <<c, n>> \in outbox' => m = n
        BY <1>1, <2>1 DEF OneAnswer
      <4> QED
        BY <4>3, <4>4, <4>5, <4>6 DEF OneAnswer
    <3>4. CASE c # conn[k]
      <4>1. toServer'[c] = toServer[c]
        BY <3>1, <3>2, <3>4
      <4>2. Idle(c)' => Idle(c)
        BY <2>1, <3>1, <3>4 DEF Idle
      <4> QED
        BY <1>1, <2>1, <4>1, <4>2, FewerTokens DEF Fewer, OneAnswer, Asked, Waits, Arrived
    <3> QED
      BY <3>3, <3>4
  <2>3. CASE conn[k] \notin up
    <3>1. /\ UNCHANGED toServer
          /\ pc' = [pc EXCEPT ![k] = "check"] /\ conn' = [conn EXCEPT ![k] = None]
      BY <1>4, <2>3 DEF RequestWritten
    <3>2. Idle(c)' => Idle(c)
      BY <2>1, <3>1, ConnsAssumption DEF Idle
    <3> QED
      BY <1>1, <2>1, <3>1, <3>2, FewerTokens DEF Fewer, OneAnswer, Asked, Waits, Arrived
  <2> QED
    BY <2>2, <2>3
<1>5. CASE ResponseRead(k)
  <2>1. /\ UNCHANGED <<waitingConns, outbox, used, toServer, conn>>
        /\ pc[k] = "response" /\ pc' = [pc EXCEPT ![k] = "check"]
        /\ pc \in [Clients -> {"check", "request", "response", "dead"}]
        /\ toClient' = [toClient EXCEPT ![conn[k]] = None]
        /\ toClient[conn[k]] # None
        /\ toClient \in [Conns -> Jobs \cup {NoJob, None}]
        /\ conn \in [Clients -> Conns \cup {None}]
    BY <1>5 DEF ResponseRead, server, Types, NetworkType, ClientType
  <2>2. CASE c = conn[k]
    <3>1. Arrived(c) /\ ~Arrived(c)'
      BY <2>1, <2>2 DEF Arrived
    <3>2. ~Asked(c) /\ ~Waits(c) /\ ~Sent(c)
      BY <1>1, <3>1 DEF OneAnswer
    <3> QED
      BY <1>1, <2>1, <3>1, <3>2 DEF OneAnswer, Asked, Waits, Sent
  <2>3. CASE c # conn[k]
    <3>1. Idle(c)' => Idle(c)
      BY <2>1, <2>3 DEF Idle
    <3>2. Arrived(c)' = Arrived(c)
      BY <2>1, <2>3 DEF Arrived
    <3> QED
      BY <1>1, <2>1, <3>1, <3>2, FewerTokens DEF Fewer, OneAnswer, Asked, Waits
  <2> QED
    BY <2>2, <2>3
<1>6. CASE ReadFails(k)
  <2>1. /\ UNCHANGED <<waitingConns, outbox, used, toServer, toClient>>
        /\ pc' = [pc EXCEPT ![k] = "check"] /\ conn' = [conn EXCEPT ![k] = None]
        /\ pc \in [Clients -> {"check", "request", "response", "dead"}]
        /\ conn \in [Clients -> Conns \cup {None}]
    BY <1>6 DEF ReadFails, server, network, Types, ClientType
  <2>2. Idle(c)' => Idle(c)
    BY <2>1, ConnsAssumption DEF Idle
  <2> QED
    BY <1>1, <2>1, <2>2, FewerTokens DEF Fewer, OneAnswer, Asked, Waits, Arrived
<1> QED
  BY <1>2, <1>3, <1>4, <1>5, <1>6 DEF Ask

\* Writing a result asks for nothing.
LEMMA TokensResultWritten ==
  ASSUME Types, TokenInv, NEW k \in Clients, ResultWritten(k), NEW c \in Conns
  PROVE  OneAnswer(c)'
<1>1. OneAnswer(c) /\ UNCHANGED <<waitingConns, outbox, used, toClient, pc, conn>>
  BY DEF TokenInv, ResultWritten, server
<1>2. Once(Get, toServer[c])' /\ (Asked(c)' => Asked(c))
  <2>1. CASE write[k][2] \in up
    <3>1. PICK d, j : d = write[k][2] /\ j = write[k][1]
      OBVIOUS
    <3>2. toServer' = [toServer EXCEPT ![d] = Append(toServer[d], Result(j))]
      BY <2>1, <3>1 DEF ResultWritten
    <3>3. d \in Conns /\ j \in Jobs /\ toServer \in [Conns -> Seq(Messages)]
      BY <2>1, <3>1 DEF ResultWritten, Types, NetworkType, ClientType
    <3>4. CASE c = d
      <4>1. toServer'[c] = Append(toServer[c], Result(j)) /\ toServer[c] \in Seq(Messages)
        BY <3>2, <3>3, <3>4
      <4> QED
        BY <1>1, <3>3, <4>1, Appending, MessageFacts DEF OneAnswer, Asked
    <3>5. CASE c # d
      BY <1>1, <3>2, <3>3, <3>5 DEF OneAnswer, Asked
    <3> QED
      BY <3>4, <3>5
  <2>2. CASE write[k][2] \notin up
    <3>1. toServer' = toServer
      BY <2>2 DEF ResultWritten
    <3> QED
      BY <1>1, <3>1 DEF OneAnswer, Asked
  <2> QED
    BY <2>1, <2>2
<1>3. Idle(c)' => Idle(c)
  BY <1>1 DEF Idle
<1> QED
  BY <1>1, <1>2, <1>3, FewerTokens DEF Fewer, OneAnswer, Waits, Arrived

\* Faults only lose requests and responses.
LEMMA TokensFaults ==
  ASSUME Types, TokenInv, NEW c \in Conns,
         (\E d \in Conns : Break(d)) \/ (\E k \in Clients : Crash(k))
  PROVE  OneAnswer(c)'
<1>1. OneAnswer(c)
  BY DEF TokenInv
<1>2. ASSUME NEW d \in Conns, Break(d)
      PROVE  OneAnswer(c)'
  <2>1. PICK n \in 0 .. Len(toServer[d]), keep \in BOOLEAN :
          /\ toServer' = [toServer EXCEPT ![d] = SubSeq(toServer[d], 1, n)]
          /\ toClient' = IF keep THEN toClient ELSE [toClient EXCEPT ![d] = None]
    BY <1>2 DEF Break
  <2>2. /\ UNCHANGED <<waitingConns, outbox, used, pc, conn>>
        /\ toServer \in [Conns -> Seq(Messages)]
        /\ toClient \in [Conns -> Jobs \cup {NoJob, None}]
    BY <1>2 DEF Break, server, client, Types, NetworkType
  <2>3. Once(Get, toServer[c])' /\ (Asked(c)' => Asked(c))
    <3>1. CASE c = d
      <4>1. toServer'[c] = SubSeq(toServer[c], 1, n) /\ toServer[c] \in Seq(Messages)
        BY <2>1, <2>2, <3>1
      <4>2. n \in 0 .. Len(toServer[c])
        BY <3>1
      <4> QED
        BY <1>1, <4>1, <4>2, Cutting DEF OneAnswer, Asked
    <3>2. CASE c # d
      BY <1>1, <2>1, <2>2, <3>2 DEF OneAnswer, Asked
    <3> QED
      BY <3>1, <3>2
  <2>4. Arrived(c)' => Arrived(c)
    BY <2>1, <2>2 DEF Arrived
  <2>5. Idle(c)' => Idle(c)
    BY <2>2 DEF Idle
  <2> QED
    BY <1>1, <2>2, <2>3, <2>4, <2>5, FewerTokens DEF Fewer, OneAnswer, Waits
<1>3. ASSUME NEW k \in Clients, Crash(k)
      PROVE  OneAnswer(c)'
  <2>1. /\ UNCHANGED <<waitingConns, outbox, used, toServer, conn>>
        /\ pc' = [pc EXCEPT ![k] = "dead"]
        /\ pc \in [Clients -> {"check", "request", "response", "dead"}]
        /\ toClient' = [e \in Conns |-> IF e = conn[k] THEN None ELSE toClient[e]]
    BY <1>3 DEF Crash, server, Types, ClientType
  <2>2. Arrived(c)' => Arrived(c)
    BY <2>1 DEF Arrived
  <2>3. Idle(c)' => Idle(c)
    BY <2>1 DEF Idle
  <2> QED
    BY <1>1, <2>1, <2>2, <2>3, FewerTokens DEF Fewer, OneAnswer, Asked, Waits
<1> QED
  BY <1>2, <1>3

\* Every step keeps the exchange.
LEMMA TokensKept ==
  ASSUME Types, TokenInv, Next
  PROVE  TokenInv'
<1>1. inserting' => unprocessed' # <<>>
  <2>1. ASSUME NEW j \in Jobs, AddTask(j)
        PROVE  inserting' => unprocessed' # <<>>
    <3>1. Append(unprocessed, j) # <<>>
      BY Appending DEF Types, ServerType
    <3> QED
      BY <2>1, <3>1 DEF AddTask, Send
  <2>2. ASSUME NEW c \in Conns, HandleGet(c)
        PROVE  inserting' => unprocessed' # <<>>
    BY <2>2 DEF HandleGet, Send
  <2>3. ASSUME NEW c \in Conns, NEW m \in Jobs \cup {NoJob}, Written(c, m)
        PROVE  inserting' => unprocessed' # <<>>
    <3>1. m \in Jobs => <<m>> \o unprocessed # <<>>
      BY Prepending DEF Types, ServerType
    <3>2. m \in waiting => m \in Jobs
      BY DEF Types, ServerType
    <3> QED
      BY <2>3, <3>1, <3>2 DEF Written, TakeBack, TokenInv
  <2>4. CASE Insert
    BY <2>4 DEF Insert
  <2>5. CASE UNCHANGED <<inserting, unprocessed>>
    BY <2>5 DEF TokenInv
  <2>6. \/ UNCHANGED <<inserting, unprocessed>>
        \/ Insert \/ \E j \in Jobs : AddTask(j)
        \/ \E c \in Conns : HandleGet(c) \/ Write(c)
    <3>1. \A j \in Jobs : Forward(j) => UNCHANGED <<inserting, unprocessed>>
      BY DEF Forward
    <3>2. NoJobs => UNCHANGED <<inserting, unprocessed>>
      BY DEF NoJobs
    <3>3. \A c \in Conns : HandleResult(c) \/ HandleComError(c) \/ Break(c) =>
            UNCHANGED <<inserting, unprocessed>>
      BY DEF HandleResult, HandleComError, Break, server
    <3>4. \A k \in Clients : Ask(k) \/ ResultWritten(k) \/ Crash(k) =>
            UNCHANGED <<inserting, unprocessed>>
      BY DEF Ask, CheckForWork, Connect, RequestWritten, ResponseRead, ReadFails, ResultWritten,
             Crash, server
    <3>5. \A k \in Clients, j \in Jobs : SendTaskResult(k, j) => UNCHANGED <<inserting, unprocessed>>
      BY DEF SendTaskResult, server
    <3>6. Terminated => UNCHANGED <<inserting, unprocessed>>
      BY DEF Terminated, vars, server
    <3> QED
      BY <3>1, <3>2, <3>3, <3>4, <3>5, <3>6 DEF Next, Scheduler, Handle, Client, Execute
  <2> QED
    BY <2>1, <2>2, <2>3, <2>4, <2>5, <2>6 DEF Write
<1>2. \A k \in Clients : OwnConn(k)'
  BY ConnsOwned DEF TokenInv
<1>3. ASSUME NEW c \in Conns
      PROVE  OneAnswer(c)'
  <2> DEFINE Quiet == UNCHANGED <<waitingConns, outbox, used, toServer, toClient, pc, conn>>
  <2>1. \A j \in Jobs : Forward(j) => Quiet
    BY DEF Forward, network, client
  <2>2. Insert => Quiet
    BY DEF Insert, network, client
  <2>3. \A d \in Conns : HandleComError(d) => Quiet
    BY DEF HandleComError, network, client
  <2>4. \A k \in Clients, j \in Jobs : SendTaskResult(k, j) => Quiet
    BY DEF SendTaskResult, server, network
  <2>5. Terminated => Quiet
    BY DEF Terminated, vars, server, network, client
  <2>6. Quiet => OneAnswer(c)'
    BY NothingAsked
  <2> HIDE DEF Quiet
  <2>7. NoJobs \/ (\E j \in Jobs : AddTask(j)) => OneAnswer(c)'
    BY TokensNoJobs, TokensAddTask
  <2>8. \A d \in Conns : HandleGet(d) \/ HandleResult(d) \/ Write(d) => OneAnswer(c)'
    BY TokensHandleGet, TokensHandleResult, TokensWritten DEF Write
  <2>9. \A k \in Clients : Ask(k) \/ ResultWritten(k) => OneAnswer(c)'
    BY TokensAsk, TokensResultWritten
  <2>10. (\E d \in Conns : Break(d)) \/ (\E k \in Clients : Crash(k)) => OneAnswer(c)'
    BY TokensFaults
  <2> QED
    BY <2>1, <2>2, <2>3, <2>4, <2>5, <2>6, <2>7, <2>8, <2>9, <2>10
    DEF Next, Scheduler, Handle, Client, Execute
<1> QED
  BY <1>1, <1>2, <1>3 DEF TokenInv

-----------------------------------------------------------------------------
(* The place of a job                                                      *)

\* What a step leaves alone.
LEMMA Frame ==
  ASSUME NEW j, NEW s, NEW o
  PROVE  /\ UNCHANGED <<queue, serializing, unprocessed, inserting>> => (ServerAt(j, s)' <=> ServerAt(j, s))
         /\ UNCHANGED <<outbox, toClient, toServer>> => (NetworkAt(j, s, o)' <=> NetworkAt(j, s, o))
         /\ UNCHANGED <<executing, waitingReqs, write>> => (ClientAt(j, s, o)' <=> ClientAt(j, s, o))
         /\ UNCHANGED <<lost, results>> => (EndAt(j, s)' <=> EndAt(j, s))
         /\ UNCHANGED <<waiting, unprocessed, inserting>> => (Remembered(j, s)' <=> Remembered(j, s))
BY DEF ServerAt, Ready, NetworkAt, ClientAt, EndAt, Remembered

\* What is not said of a kind holds of each other one.
LEMMA Move ==
  ASSUME NEW j, NEW s, NEW o, NEW t, NEW p
  PROVE  /\ s \notin InServer /\ t \notin InServer /\ ServerAt(j, s) => ServerAt(j, t)
         /\ s \notin OnConn /\ t \notin OnConn /\ NetworkAt(j, s, o) => NetworkAt(j, t, p)
         /\ s \notin AtClient /\ t \notin AtClient /\ ClientAt(j, s, o) => ClientAt(j, t, p)
         /\ s # "ended" /\ t # "ended" /\ EndAt(j, s) => EndAt(j, t)
BY DEF ServerAt, NetworkAt, ClientAt, EndAt, InServer, OnConn, AtClient

\* The place of a job after a step.
LEMMA Found ==
  ASSUME NEW j, NEW s \in InServer \cup OnConn \cup AtClient \cup {"ended"},
         NEW o \in Conns \cup Clients \cup {None}, Place(s, o),
         ServerAt(j, s)', NetworkAt(j, s, o)', ClientAt(j, s, o)', EndAt(j, s)', Remembered(j, s)'
  PROVE  Placed(j)'
<1>1. Place(s, o)'
  BY DEF Place
<1>2. At(j, s, o)'
  BY <1>1 DEF At
<1> QED
  BY <1>2 DEF Placed

\* tcp_server_scheduler::run moves the job from the queue to the worker pool.
LEMMA PlaceForward ==
  ASSUME NEW i \in Jobs, Forward(i), NEW j \in Jobs, Placed(j)
  PROVE  Placed(j)'
<1>1. PICK s \in InServer \cup OnConn \cup AtClient \cup {"ended"},
           o \in Conns \cup Clients \cup {None} : At(j, s, o)
  BY DEF Placed
<1>2. /\ i \in queue /\ queue' = queue \ {i} /\ serializing' = serializing \cup {i}
      /\ UNCHANGED <<unprocessed, waiting, inserting, outbox, toClient, toServer, executing,
                     waitingReqs, write, lost, results>>
  BY DEF Forward, network, client
<1>3. CASE i = j
  <2>1. s = "queue"
    BY <1>1, <1>2, <1>3 DEF At, ServerAt
  <2>2. ServerAt(j, "serializing")'
    BY <1>1, <1>2, <1>3, <2>1 DEF At, ServerAt, Ready
  <2>3. /\ NetworkAt(j, "serializing", o) /\ ClientAt(j, "serializing", o)
        /\ EndAt(j, "serializing") /\ Remembered(j, "serializing")
    BY <1>1, <2>1, Move DEF At, InServer, OnConn, AtClient, Remembered
  <2>4. /\ NetworkAt(j, "serializing", o)' /\ ClientAt(j, "serializing", o)'
        /\ EndAt(j, "serializing")' /\ Remembered(j, "serializing")'
    BY <1>2, <2>3, Frame
  <2> QED
    BY <2>2, <2>4, Found DEF Place, InServer
<1>4. CASE i # j
  <2>1. ServerAt(j, s)'
    BY <1>1, <1>2, <1>4 DEF At, ServerAt, Ready
  <2> QED
    BY <1>1, <1>2, <2>1, Frame, Found DEF At
<1> QED
  BY <1>3, <1>4

\* The answer without a job moves no job.
LEMMA PlaceNoJobs ==
  ASSUME NoJobs, NEW j \in Jobs, Placed(j)
  PROVE  Placed(j)'
<1>1. PICK s \in InServer \cup OnConn \cup AtClient \cup {"ended"},
           o \in Conns \cup Clients \cup {None} : At(j, s, o)
  BY DEF Placed
<1>2. /\ outbox' = outbox \cup {<<c, NoJob>> : c \in ToSet(waitingConns)}
      /\ UNCHANGED <<queue, serializing, unprocessed, waiting, inserting, toClient, toServer,
                     executing, waitingReqs, write, lost, results>>
  BY DEF NoJobs, client
<1>3. \A c : <<c, j>> \in outbox' <=> <<c, j>> \in outbox
  BY <1>2, ConnsAssumption
<1>4. NetworkAt(j, s, o)'
  BY <1>1, <1>2, <1>3 DEF At, NetworkAt
<1> QED
  BY <1>1, <1>2, <1>4, Frame, Found DEF At

\* send_first_job, second half: the job is remembered.
LEMMA PlaceInsert ==
  ASSUME Insert, NEW j \in Jobs, Placed(j)
  PROVE  Placed(j)'
<1>1. PICK s \in InServer \cup OnConn \cup AtClient \cup {"ended"},
           o \in Conns \cup Clients \cup {None} : At(j, s, o)
  BY DEF Placed
<1>2. /\ inserting /\ inserting' = FALSE
      /\ waiting' = waiting \cup {Head(unprocessed)} /\ unprocessed' = Tail(unprocessed)
      /\ UNCHANGED <<queue, serializing, outbox, toClient, toServer,
                     executing, waitingReqs, write, lost, results>>
  BY DEF Insert, network, client
<1>3. Ready' = Ready
  BY <1>2 DEF Ready
<1>4. ServerAt(j, s)'
  BY <1>1, <1>2, <1>3 DEF At, ServerAt
<1>5. Remembered(j, s)'
  BY <1>1, <1>2 DEF At, Remembered
<1> QED
  BY <1>1, <1>2, <1>4, <1>5, Frame, Found DEF At

\* send_first_job, first half: the first job is on its way to connection c.
LEMMA PlaceSend ==
  ASSUME NEW j \in Jobs, NEW c \in Conns, NEW q \in Seq(Jobs), q # <<>>,
         NEW s \in InServer \cup OnConn \cup AtClient \cup {"ended"},
         NEW o \in Conns \cup Clients \cup {None}, Place(s, o),
         ~inserting, Send(c, q), UNCHANGED <<queue, waiting, toClient, executing,
                                             waitingReqs, write, lost, results>>,
         j \in queue <=> s = "queue", j \in serializing' <=> s = "serializing",
         Within(j, q) <=> s = "ready", Once(j, q),
         NetworkAt(j, s, o), ClientAt(j, s, o), EndAt(j, s), Remembered(j, s),
         \A d \in Conns : /\ Within(Result(j), toServer[d])' <=> Within(Result(j), toServer[d])
                          /\ Once(Result(j), toServer[d])'
  PROVE  Placed(j)'
<1>1. /\ outbox' = outbox \cup {<<c, Head(q)>>} /\ inserting' = TRUE /\ unprocessed' = q
  BY DEF Send
<1>2. Ready' = Tail(q)
  BY <1>1 DEF Ready
<1>3. /\ Within(j, q) <=> j = Head(q) \/ Within(j, Tail(q))
      /\ Once(j, Tail(q)) /\ (j = Head(q) => ~Within(j, Tail(q)))
  BY TakingFirst
<1>4. CASE j = Head(q)
  <2>1. s = "ready"
    BY <1>3, <1>4
  <2>2. ServerAt(j, "outbox")'
    BY <1>2, <1>3, <1>4, <2>1 DEF ServerAt
  <2>3. NetworkAt(j, "outbox", c)'
    <3>1. SUFFICES ASSUME NEW d \in Conns
                   PROVE  /\ <<d, j>> \in outbox' <=> d = c
                          /\ toClient'[d] # j
                          /\ ~Within(Result(j), toServer[d])'
                          /\ Once(Result(j), toServer[d])'
      BY DEF NetworkAt
    <3>2. <<d, j>> \notin outbox /\ toClient[d] # j /\ ~Within(Result(j), toServer[d])
      BY <2>1 DEF NetworkAt
    <3> QED
      BY <1>1, <1>4, <3>2
  <2>4. ClientAt(j, "outbox", c) /\ EndAt(j, "outbox")
    BY <2>1, Move DEF InServer, OnConn, AtClient
  <2>5. Remembered(j, "outbox")'
    BY <1>1, <1>4 DEF Remembered
  <2> QED
    BY <2>2, <2>3, <2>4, <2>5, Frame, Found DEF Place, OnConn
<1>5. CASE j # Head(q)
  <2>1. ServerAt(j, s)'
    BY <1>2, <1>3, <1>5 DEF ServerAt
  <2>2. NetworkAt(j, s, o)'
    <3>1. \A d : <<d, j>> \in outbox' <=> <<d, j>> \in outbox
      BY <1>1, <1>5
    <3> QED
      BY <3>1 DEF NetworkAt
  <2>3. Remembered(j, s)'
    BY DEF Remembered
  <2> QED
    BY <2>1, <2>2, <2>3, Frame, Found
<1> QED
  BY <1>4, <1>5

\* The callback of add_task.
LEMMA PlaceAddTask ==
  ASSUME Types, NEW i \in Jobs, AddTask(i), NEW j \in Jobs, Placed(j)
  PROVE  Placed(j)'
<1>1. PICK s \in InServer \cup OnConn \cup AtClient \cup {"ended"},
           o \in Conns \cup Clients \cup {None} : At(j, s, o)
  BY DEF Placed
<1>2. /\ ~inserting /\ i \in serializing /\ serializing' = serializing \ {i}
      /\ UNCHANGED <<queue, waiting, toClient, toServer, executing, waitingReqs, write, lost,
                     results>>
  BY DEF AddTask, client
<1>3. PICK q : q = Append(unprocessed, i)
  OBVIOUS
<1>4. /\ q \in Seq(Jobs) /\ q # <<>>
      /\ Within(j, q) <=> Within(j, unprocessed) \/ j = i
      /\ Once(j, unprocessed) /\ (j = i => ~Within(j, unprocessed)) => Once(j, q)
  BY <1>3, Appending DEF Types, ServerType
<1>5. Ready = unprocessed
  BY <1>2 DEF Ready
<1>6. /\ Within(j, unprocessed) <=> s = "ready"
      /\ j \in serializing <=> s = "serializing"
      /\ j \in queue <=> s = "queue"
      /\ Once(j, unprocessed)
  BY <1>1, <1>5 DEF At, ServerAt
\* The kind of place when the job is not sent at once.
<1>7. PICK t : t = IF j = i THEN "ready" ELSE s
  OBVIOUS
<1>8. /\ Within(j, q) <=> t = "ready"
      /\ Once(j, q)
      /\ j \in serializing' <=> t = "serializing"
      /\ j \in queue <=> t = "queue"
      /\ j = i => s = "serializing"
  BY <1>2, <1>4, <1>6, <1>7
<1>9. /\ t \in InServer \cup OnConn \cup AtClient \cup {"ended"} /\ Place(t, o)
      /\ NetworkAt(j, t, o) /\ ClientAt(j, t, o) /\ EndAt(j, t) /\ Remembered(j, t)
  <2>1. CASE j = i
    BY <1>1, <1>7, <1>8, <2>1, Move DEF At, Place, InServer, OnConn, AtClient, Remembered
  <2>2. CASE j # i
    BY <1>1, <1>7, <2>2 DEF At
  <2> QED
    BY <2>1, <2>2
<1>10. CASE waitingConns # <<>>
  <2>1. PICK c \in Conns : c = Head(waitingConns)
    BY <1>10, TakingFirst DEF Types, ServerType
  <2>2. Send(c, q)
    BY <1>3, <1>10, <2>1 DEF AddTask
  <2>3. \A d \in Conns : /\ Within(Result(j), toServer[d])' <=> Within(Result(j), toServer[d])
                         /\ Once(Result(j), toServer[d])'
    BY <1>2, <1>9 DEF NetworkAt
  <2> QED
    BY <1>2, <1>4, <1>8, <1>9, <2>2, <2>3, PlaceSend
<1>11. CASE waitingConns = <<>>
  <2>1. unprocessed' = q /\ UNCHANGED <<outbox, inserting>>
    BY <1>3, <1>11 DEF AddTask
  <2>2. Ready' = q
    BY <1>2, <2>1 DEF Ready
  <2>3. ServerAt(j, t)'
    BY <1>2, <1>8, <2>2 DEF ServerAt
  <2>4. Remembered(j, t)'
    BY <1>2, <1>9, <2>1 DEF Remembered
  <2> QED
    BY <1>2, <1>9, <2>1, <2>3, <2>4, Frame, Found
<1> QED
  BY <1>10, <1>11

\* A request for a job.
LEMMA PlaceHandleGet ==
  ASSUME Types, NEW c \in Conns, HandleGet(c), NEW j \in Jobs, Placed(j)
  PROVE  Placed(j)'
<1>1. PICK s \in InServer \cup OnConn \cup AtClient \cup {"ended"},
           o \in Conns \cup Clients \cup {None} : At(j, s, o)
  BY DEF Placed
<1>2. /\ ~inserting
      /\ toServer[c] # <<>> /\ Head(toServer[c]) = Get
      /\ toServer' = [toServer EXCEPT ![c] = Tail(toServer[c])]
      /\ toServer \in [Conns -> Seq(Messages)]
      /\ UNCHANGED <<queue, serializing, waiting, toClient, executing, waitingReqs, write, lost,
                     results>>
  BY DEF HandleGet, client, Types, NetworkType
<1>3. ASSUME NEW d \in Conns
      PROVE  /\ Within(Result(j), toServer[d])' <=> Within(Result(j), toServer[d])
             /\ Once(Result(j), toServer[d])'
  <2>1. Once(Result(j), toServer[d])
    BY <1>1 DEF At, NetworkAt
  <2>2. CASE d = c
    <3>1. toServer'[d] = Tail(toServer[d]) /\ toServer[d] \in Seq(Messages)
          /\ toServer[d] # <<>> /\ Head(toServer[d]) # Result(j)
      BY <1>2, <2>2, MessageFacts
    <3> QED
      BY <2>1, <3>1, TakingFirst
  <2>3. CASE d # c
    BY <1>2, <2>1, <2>3
  <2> QED
    BY <2>2, <2>3
<1>4. CASE unprocessed # <<>>
  <2>1. Send(c, unprocessed)
    BY <1>4 DEF HandleGet
  <2>2. Ready = unprocessed
    BY <1>2 DEF Ready
  <2>3. /\ unprocessed \in Seq(Jobs)
        /\ j \in queue <=> s = "queue"
        /\ j \in serializing' <=> s = "serializing"
        /\ Within(j, unprocessed) <=> s = "ready"
        /\ Once(j, unprocessed)
    BY <1>1, <1>2, <2>2 DEF At, ServerAt, Types, ServerType
  <2> QED
    BY <1>1, <1>2, <1>3, <1>4, <2>1, <2>3, PlaceSend DEF At
<1>5. CASE unprocessed = <<>>
  <2>1. /\ UNCHANGED <<unprocessed, inserting>>
        /\ outbox' = outbox \cup {<<c, NoJob>>} \/ outbox' = outbox
    BY <1>5 DEF HandleGet
  <2>2. \A d : <<d, j>> \in outbox' <=> <<d, j>> \in outbox
    BY <2>1, ConnsAssumption
  <2>3. NetworkAt(j, s, o)'
    BY <1>1, <1>2, <1>3, <2>2 DEF At, NetworkAt
  <2> QED
    BY <1>1, <1>2, <2>1, <2>3, Frame, Found DEF At
<1> QED
  BY <1>4, <1>5

\* A result comes: its job was waited for, or the result is dropped.
LEMMA PlaceHandleResult ==
  ASSUME Types, NEW c \in Conns, HandleResult(c), NEW j \in Jobs, Placed(j)
  PROVE  Placed(j)'
<1>1. PICK s \in InServer \cup OnConn \cup AtClient \cup {"ended"},
           o \in Conns \cup Clients \cup {None} : At(j, s, o)
  BY DEF Placed
<1>2. /\ toServer[c] # <<>>
      /\ toServer' = [toServer EXCEPT ![c] = Tail(toServer[c])]
      /\ toServer \in [Conns -> Seq(Messages)]
      /\ UNCHANGED <<queue, serializing, unprocessed, inserting, waiting, outbox, toClient,
                     executing, waitingReqs, write>>
  BY DEF HandleResult, server, client, Types, NetworkType
<1>3. PICK i \in Jobs :
        /\ Head(toServer[c]) = Result(i)
        /\ results' = IF i \in waiting THEN [results EXCEPT ![i] = @ + 1] ELSE results
        /\ lost' = IF i \in waiting THEN lost ELSE lost \cup {i}
  BY DEF HandleResult
<1>4. \A d \in Conns : d # c => toServer'[d] = toServer[d]
  BY <1>2
<1>5. /\ toServer'[c] = Tail(toServer[c])
      /\ \A x : Within(x, toServer[c]) <=> x = Result(i) \/ Within(x, Tail(toServer[c]))
      /\ \A x : Once(x, toServer[c]) => /\ Once(x, Tail(toServer[c]))
                                        /\ (x = Result(i) => ~Within(x, Tail(toServer[c])))
  <2>1. toServer'[c] = Tail(toServer[c]) /\ toServer[c] \in Seq(Messages)
    BY <1>2
  <2> QED
    BY <1>2, <1>3, <2>1, TakingFirst
<1>6. \A d \in Conns : Once(Result(j), toServer[d]) /\ Once(Result(j), toServer'[d])
  BY <1>1, <1>4, <1>5 DEF At, NetworkAt
<1>7. CASE i = j
  <2>1. s = "answered" /\ o = c
    BY <1>1, <1>5, <1>7 DEF At, NetworkAt
  <2>2. \A d \in Conns : ~Within(Result(j), toServer'[d])
    <3>1. \A d \in Conns : d # c => ~Within(Result(j), toServer[d])
      BY <1>1, <2>1 DEF At, NetworkAt
    <3>2. ~Within(Result(j), toServer'[c])
      BY <1>5, <1>6, <1>7
    <3> QED
      BY <1>4, <3>1, <3>2
  <2>3. NetworkAt(j, "ended", None)'
    BY <1>1, <1>2, <1>6, <2>1, <2>2 DEF At, NetworkAt
  <2>4. /\ ServerAt(j, "ended") /\ ClientAt(j, "ended", None)
        /\ Remembered(j, "ended")
    BY <1>1, <2>1, Move DEF At, InServer, OnConn, AtClient, Remembered
  <2>5. EndAt(j, "ended")'
    <3>1. results[j] \in Nat /\ j \notin lost /\ ~(results[j] > 0)
      BY <1>1, <2>1 DEF At, EndAt, Types, ServerType
    <3>2. results[j] = 0 /\ results \in [Jobs -> Nat]
      BY <3>1 DEF Types, ServerType
    <3> QED
      BY <1>3, <1>7, <3>1, <3>2 DEF EndAt
  <2> QED
    BY <1>2, <2>3, <2>4, <2>5, Frame, Found DEF Place
<1>8. CASE i # j
  <2>1. \A d \in Conns : Within(Result(j), toServer'[d]) <=> Within(Result(j), toServer[d])
    BY <1>4, <1>5, <1>8, MessageFacts
  <2>2. NetworkAt(j, s, o)'
    BY <1>1, <1>2, <1>6, <2>1 DEF At, NetworkAt
  <2>3. results'[j] = results[j] /\ (j \in lost' <=> j \in lost)
    BY <1>3, <1>8 DEF Types, ServerType
  <2>4. EndAt(j, s)'
    BY <1>1, <2>3 DEF At, EndAt
  <2> QED
    BY <1>1, <1>2, <2>2, <2>4, Frame, Found DEF At
<1> QED
  BY <1>7, <1>8

\* The write of a response ends: the job arrived, is lost, or is taken back.
LEMMA PlaceWritten ==
  ASSUME Types, TokenInv, NEW c \in Conns, NEW m \in Jobs \cup {NoJob}, Written(c, m), ~raced',
         NEW j \in Jobs, Placed(j)
  PROVE  Placed(j)'
<1>1. PICK s \in InServer \cup OnConn \cup AtClient \cup {"ended"},
           o \in Conns \cup Clients \cup {None} : At(j, s, o)
  BY DEF Placed
<1>2. /\ <<c, m>> \in outbox /\ outbox' = outbox \ {<<c, m>>}
      /\ UNCHANGED <<queue, serializing, inserting, toServer, executing, waitingReqs, write,
                     results>>
  BY DEF Written, client
<1>3. m = j => s = "outbox" /\ o = c
  BY <1>1, <1>2 DEF At, NetworkAt
<1>4. \A d : <<d, j>> \in outbox' <=> <<d, j>> \in outbox /\ ~(m = j /\ d = c)
  BY <1>2
\* The job leaves the connection for a place elsewhere.
<1>5. ASSUME m = j, UNCHANGED toClient
      PROVE  /\ \A t : t \notin OnConn => NetworkAt(j, t, None)'
             /\ ClientAt(j, "ended", None)' /\ ClientAt(j, "ready", None)'
  <2>1. \A d \in Conns : <<d, j>> \notin outbox'
    BY <1>1, <1>3, <1>4, <1>5 DEF At, NetworkAt
  <2>2. \A d \in Conns : /\ toClient[d] # j /\ ~Within(Result(j), toServer[d])
                         /\ Once(Result(j), toServer[d])
    BY <1>1, <1>3, <1>5 DEF At, NetworkAt
  <2>3. \A t : t \notin OnConn => NetworkAt(j, t, None)'
    BY <1>2, <1>5, <2>1, <2>2 DEF NetworkAt, OnConn
  <2>4. ClientAt(j, "ended", None) /\ ClientAt(j, "ready", None)
    BY <1>1, <1>3, <1>5, Move DEF At, AtClient
  <2> QED
    BY <1>2, <2>3, <2>4, Frame
<1>6. CASE toClient' = [toClient EXCEPT ![c] = m] /\ UNCHANGED <<unprocessed, waiting, lost>>
  <2>1. Sent(c)
    BY <1>2 DEF Sent
  <2>2. toClient[c] = None
    BY <2>1 DEF TokenInv, OneAnswer, Arrived
  <2>3. \A d \in Conns : toClient'[d] = j <=> toClient[d] = j \/ (m = j /\ d = c)
    BY <1>6, <2>2, ConnsAssumption DEF Types, NetworkType
  <2>4. CASE m = j
    <3>1. NetworkAt(j, "arrived", c)'
      BY <1>1, <1>2, <1>3, <1>4, <2>3, <2>4 DEF At, NetworkAt
    <3>2. ServerAt(j, "arrived") /\ ClientAt(j, "arrived", c) /\ EndAt(j, "arrived")
      BY <1>1, <1>3, <2>4, Move DEF At, InServer, AtClient
    <3>3. Remembered(j, "arrived")
      BY <1>1, <1>3, <2>4 DEF At, Remembered, InServer
    <3> QED
      BY <1>2, <1>6, <3>1, <3>2, <3>3, Frame, Found DEF Place, OnConn
  <2>5. CASE m # j
    <3>1. NetworkAt(j, s, o)'
      BY <1>1, <1>2, <1>4, <2>3, <2>5 DEF At, NetworkAt
    <3> QED
      BY <1>1, <1>2, <1>6, <3>1, Frame, Found DEF At
  <2> QED
    BY <2>4, <2>5
<1>7. CASE lost' = lost \cup ({m} \cap Jobs) /\ UNCHANGED <<toClient, unprocessed, waiting>>
  <2>1. CASE m = j
    <3>1. ServerAt(j, "ended") /\ Remembered(j, "ended")
      BY <1>1, <1>3, <2>1, Move DEF At, InServer, Remembered
    <3>2. EndAt(j, "ended")'
      BY <1>1, <1>2, <1>7, <2>1 DEF At, EndAt
    <3> QED
      BY <1>2, <1>5, <1>7, <2>1, <3>1, <3>2, Frame, Found DEF Place, OnConn
  <2>2. CASE m # j
    <3>1. NetworkAt(j, s, o)'
      BY <1>1, <1>2, <1>4, <1>7, <2>2 DEF At, NetworkAt
    <3>2. EndAt(j, s)'
      BY <1>1, <1>2, <1>7, <2>2 DEF At, EndAt
    <3> QED
      BY <1>1, <1>2, <1>7, <3>1, <3>2, Frame, Found DEF At
  <2> QED
    BY <2>1, <2>2
<1>8. CASE TakeBack(m) /\ UNCHANGED <<toClient, lost>>
  <2>1. m # NoJob => ~inserting
    BY <1>8 DEF TakeBack
  <2>2. CASE m \in waiting
    <3>1. /\ m \in Jobs /\ ~inserting
          /\ unprocessed' = <<m>> \o unprocessed /\ waiting' = waiting \ {m}
      BY <1>8, <2>1, <2>2, ConnsAssumption DEF TakeBack, Types, ServerType
    <3>2. Ready = unprocessed /\ Ready' = unprocessed'
      BY <1>2, <3>1 DEF Ready
    <3>3. /\ Within(j, unprocessed') <=> Within(j, unprocessed) \/ j = m
          /\ Once(j, unprocessed) /\ (j = m => ~Within(j, unprocessed)) => Once(j, unprocessed')
      BY <3>1, Prepending DEF Types, ServerType
    <3>4. CASE m = j
      <4>1. ServerAt(j, "ready")'
        BY <1>1, <1>2, <1>3, <3>2, <3>3, <3>4 DEF At, ServerAt
      <4>2. EndAt(j, "ready")
        BY <1>1, <1>3, <3>4, Move DEF At
      <4>3. Remembered(j, "ready")'
        BY DEF Remembered, InServer
      <4> QED
        BY <1>2, <1>5, <1>8, <3>4, <4>1, <4>2, <4>3, Frame, Found DEF Place, InServer, OnConn
    <3>5. CASE m # j
      <4>1. ServerAt(j, s)'
        BY <1>1, <1>2, <3>2, <3>3, <3>5 DEF At, ServerAt
      <4>2. NetworkAt(j, s, o)'
        BY <1>1, <1>2, <1>4, <1>8, <3>5 DEF At, NetworkAt
      <4>3. Remembered(j, s)'
        BY <1>1, <3>1, <3>5 DEF At, Remembered
      <4> QED
        BY <1>1, <1>2, <1>8, <4>1, <4>2, <4>3, Frame, Found DEF At
    <3> QED
      BY <3>4, <3>5
  <2>3. CASE m \notin waiting
    <3>1. UNCHANGED <<unprocessed, waiting>>
      BY <1>8, <2>3 DEF TakeBack
    <3>2. m # j
      <4>1. ASSUME m = j
            PROVE  FALSE
        <5>1. ~inserting /\ s = "outbox" /\ j \notin waiting
          BY <1>3, <2>1, <2>3, <4>1, ConnsAssumption
        <5> QED
          BY <1>1, <5>1 DEF At, Remembered, InServer
      <4> QED
        BY <4>1
    <3>3. NetworkAt(j, s, o)'
      BY <1>1, <1>2, <1>4, <1>8, <3>2 DEF At, NetworkAt
    <3> QED
      BY <1>1, <1>2, <1>8, <3>1, <3>3, Frame, Found DEF At
  <2> QED
    BY <2>2, <2>3
<1> QED
  BY <1>6, <1>7, <1>8 DEF Written

\* The clients that ask: only a response that is read moves a job.
LEMMA PlaceAsk ==
  ASSUME Types, TokenInv, NEW k \in Clients, Ask(k), NEW j \in Jobs, Placed(j)
  PROVE  Placed(j)'
<1>1. PICK s \in InServer \cup OnConn \cup AtClient \cup {"ended"},
           o \in Conns \cup Clients \cup {None} : At(j, s, o)
  BY DEF Placed
<1>2. CASE UNCHANGED <<queue, serializing, unprocessed, inserting, waiting, outbox, toClient,
                       toServer, executing, waitingReqs, write, lost, results>>
  BY <1>1, <1>2, Frame, Found DEF At
<1>3. CheckForWork(k) \/ Connect(k) \/ ReadFails(k) =>
        UNCHANGED <<queue, serializing, unprocessed, inserting, waiting, outbox, toClient,
                    toServer, executing, waitingReqs, write, lost, results>>
  BY DEF CheckForWork, Connect, ReadFails, server, network
<1>4. CASE RequestWritten(k)
  <2>1. /\ UNCHANGED <<queue, serializing, unprocessed, inserting, waiting, outbox, toClient,
                       executing, waitingReqs, write, lost, results>>
        /\ toServer \in [Conns -> Seq(Messages)]
    BY <1>4 DEF RequestWritten, server, Types, NetworkType
  <2>2. ASSUME NEW d \in Conns
        PROVE  /\ Within(Result(j), toServer[d])' <=> Within(Result(j), toServer[d])
               /\ Once(Result(j), toServer[d])'
    <3>1. Once(Result(j), toServer[d]) /\ toServer[d] \in Seq(Messages)
      BY <1>1, <2>1 DEF At, NetworkAt
    <3>2. \/ toServer'[d] = toServer[d]
          \/ toServer'[d] = Append(toServer[d], Get)
      BY <1>4, <2>1 DEF RequestWritten
    <3>3. CASE toServer'[d] = Append(toServer[d], Get)
      BY <3>1, <3>3, Appending, MessageFacts
    <3> QED
      BY <3>1, <3>2, <3>3
  <2>3. NetworkAt(j, s, o)'
    BY <1>1, <2>1, <2>2 DEF At, NetworkAt
  <2> QED
    BY <1>1, <2>1, <2>3, Frame, Found DEF At
<1>5. CASE ResponseRead(k)
  <2>1. /\ UNCHANGED <<queue, serializing, unprocessed, inserting, waiting, outbox, toServer,
                       waitingReqs, write, lost, results>>
        /\ toClient \in [Conns -> Jobs \cup {NoJob, None}]
        /\ executing \in [Clients -> SUBSET Jobs]
    BY <1>5 DEF ResponseRead, server, Types, NetworkType, ClientType
  <2>2. PICK c \in Conns : c = conn[k]
    BY <1>5, ConnsAssumption DEF ResponseRead, TokenInv, OwnConn, Types, ClientType
  <2>3. /\ toClient' = [toClient EXCEPT ![c] = None]
        /\ executing' = [executing EXCEPT ![k] = @ \cup ({toClient[c]} \cap Jobs)]
    BY <1>5, <2>2 DEF ResponseRead
  <2>4. \A d \in Conns : toClient'[d] = j <=> toClient[d] = j /\ d # c
    BY <2>1, <2>3, ConnsAssumption
  <2>5. \A l \in Clients : j \in executing'[l] <=> j \in executing[l] \/ (l = k /\ toClient[c] = j)
    BY <2>1, <2>3
  <2>6. CASE toClient[c] = j
    <3>1. s = "arrived" /\ o = c
      BY <1>1, <2>6 DEF At, NetworkAt
    <3>2. NetworkAt(j, "executing", k)'
      BY <1>1, <2>1, <2>4, <3>1 DEF At, NetworkAt
    <3>3. ClientAt(j, "executing", k)'
      BY <1>1, <2>1, <2>5, <2>6, <3>1 DEF At, ClientAt
    <3>4. ServerAt(j, "executing") /\ EndAt(j, "executing") /\ Remembered(j, "executing")
      BY <1>1, <3>1, Move DEF At, InServer, Remembered
    <3> QED
      BY <2>1, <3>2, <3>3, <3>4, Frame, Found DEF Place, AtClient
  <2>7. CASE toClient[c] # j
    <3>1. NetworkAt(j, s, o)'
      BY <1>1, <2>1, <2>4, <2>7 DEF At, NetworkAt
    <3>2. ClientAt(j, s, o)'
      BY <1>1, <2>1, <2>5, <2>7 DEF At, ClientAt
    <3> QED
      BY <1>1, <2>1, <3>1, <3>2, Frame, Found DEF At
  <2> QED
    BY <2>6, <2>7
<1> QED
  BY <1>2, <1>3, <1>4, <1>5 DEF Ask

\* A job was executed: its result is written, or waits.
LEMMA PlaceSendTaskResult ==
  ASSUME Types, NEW k \in Clients, NEW i \in Jobs, SendTaskResult(k, i), NEW j \in Jobs, Placed(j)
  PROVE  Placed(j)'
<1>1. PICK s \in InServer \cup OnConn \cup AtClient \cup {"ended"},
           o \in Conns \cup Clients \cup {None} : At(j, s, o)
  BY DEF Placed
<1>2. /\ i \in executing[k]
      /\ executing' = [executing EXCEPT ![k] = @ \ {i}]
      /\ UNCHANGED <<queue, serializing, unprocessed, inserting, waiting, outbox, toServer,
                     toClient, lost, results>>
      /\ executing \in [Clients -> SUBSET Jobs]
  BY DEF SendTaskResult, server, network, Types, ClientType
<1>3. \A l \in Clients : j \in executing'[l] <=> j \in executing[l] /\ ~(l = k /\ j = i)
  BY <1>2
<1>4. j = i => s = "executing" /\ o = k
  BY <1>1, <1>2 DEF At, ClientAt
<1>5. CASE Writing(k)
  <2>1. /\ waitingReqs' = [waitingReqs EXCEPT ![k] = Append(waitingReqs[k], i)] /\ UNCHANGED write
        /\ waitingReqs \in [Clients -> Seq(Jobs)]
    BY <1>5 DEF SendTaskResult, Types, ClientType
  <2>2. \A l \in Clients : l # k => waitingReqs'[l] = waitingReqs[l]
    BY <2>1
  <2>3. /\ Within(j, waitingReqs'[k]) <=> Within(j, waitingReqs[k]) \/ j = i
        /\ Once(j, waitingReqs[k]) /\ (j = i => ~Within(j, waitingReqs[k])) => Once(j, waitingReqs'[k])
    <3>1. waitingReqs'[k] = Append(waitingReqs[k], i) /\ waitingReqs[k] \in Seq(Jobs)
      BY <2>1
    <3> QED
      BY <3>1, Appending
  <2>4. CASE j = i
    <3>1. ClientAt(j, "waits", k)'
      BY <1>1, <1>3, <1>4, <2>1, <2>2, <2>3, <2>4 DEF At, ClientAt
    <3>2. /\ ServerAt(j, "waits") /\ NetworkAt(j, "waits", k)
          /\ EndAt(j, "waits") /\ Remembered(j, "waits")
      BY <1>1, <1>4, <2>4, Move DEF At, InServer, OnConn, Remembered
    <3> QED
      BY <1>2, <3>1, <3>2, Frame, Found DEF Place, AtClient
  <2>5. CASE j # i
    <3>1. ClientAt(j, s, o)'
      BY <1>1, <1>3, <2>1, <2>2, <2>3, <2>5 DEF At, ClientAt
    <3> QED
      BY <1>1, <1>2, <3>1, Frame, Found DEF At
  <2> QED
    BY <2>4, <2>5
<1>6. CASE ~Writing(k)
  <2>1. /\ write' = [write EXCEPT ![k] = <<i, conn[k]>>] /\ UNCHANGED waitingReqs
        /\ write \in [Clients -> {<<>>} \cup (Jobs \X (Conns \cup {None}))]
        /\ write[k] = <<>>
    BY <1>6 DEF SendTaskResult, Writing, Types, ClientType
  <2>2. /\ \A l \in Clients : l # k => write'[l] = write[l]
        /\ write'[k] # <<>> /\ write'[k][1] = i
    BY <2>1
  <2>3. CASE j = i
    <3>1. ClientAt(j, "written", k)'
      BY <1>1, <1>3, <1>4, <2>1, <2>2, <2>3 DEF At, ClientAt
    <3>2. /\ ServerAt(j, "written") /\ NetworkAt(j, "written", k)
          /\ EndAt(j, "written") /\ Remembered(j, "written")
      BY <1>1, <1>4, <2>3, Move DEF At, InServer, OnConn, Remembered
    <3> QED
      BY <1>2, <3>1, <3>2, Frame, Found DEF Place, AtClient
  <2>4. CASE j # i
    <3>1. ClientAt(j, s, o)'
      BY <1>1, <1>3, <2>1, <2>2, <2>4 DEF At, ClientAt
    <3> QED
      BY <1>1, <1>2, <3>1, Frame, Found DEF At
  <2> QED
    BY <2>3, <2>4
<1> QED
  BY <1>5, <1>6

\* The result is written, or lost, and the next one follows.
LEMMA PlaceResultWritten ==
  ASSUME Types, NEW k \in Clients, ResultWritten(k), NEW j \in Jobs, Placed(j)
  PROVE  Placed(j)'
<1>1. PICK s \in InServer \cup OnConn \cup AtClient \cup {"ended"},
           o \in Conns \cup Clients \cup {None} : At(j, s, o)
  BY DEF Placed
<1>2. /\ write[k] # <<>>
      /\ UNCHANGED <<queue, serializing, unprocessed, inserting, waiting, outbox, toClient,
                     executing, results>>
      /\ write \in [Clients -> {<<>>} \cup (Jobs \X (Conns \cup {None}))]
      /\ waitingReqs \in [Clients -> Seq(Jobs)]
      /\ toServer \in [Conns -> Seq(Messages)]
      /\ lost \subseteq Jobs
  BY DEF ResultWritten, server, Types, ServerType, NetworkType, ClientType
<1>3. PICK i, c : i \in Jobs /\ i = write[k][1] /\ c = write[k][2]
  BY <1>2
<1>4. j = i <=> s = "written" /\ o = k
  BY <1>1, <1>2, <1>3 DEF At, ClientAt
\* Where the result of i goes.
<1>5. \E t, p :
        /\ t \in {"answered", "ended"} /\ p \in Conns \cup {None}
        /\ t = "answered" => p \in Conns
        /\ \A d \in Conns : /\ Within(Result(j), toServer'[d]) <=>
                                 Within(Result(j), toServer[d]) \/ (j = i /\ t = "answered" /\ d = p)
                            /\ Once(Result(j), toServer'[d])
        /\ j \in lost' <=> j \in lost \/ (j = i /\ t = "ended")
  <2>1. \A d \in Conns : /\ Once(Result(j), toServer[d])
                         /\ j = i => ~Within(Result(j), toServer[d])
    BY <1>1, <1>4 DEF At, NetworkAt
  <2>2. CASE c \in up
    <3>1. /\ toServer' = [toServer EXCEPT ![c] = Append(toServer[c], Result(i))] /\ UNCHANGED lost
          /\ c \in Conns
      BY <1>3, <2>2 DEF ResultWritten, Types, NetworkType
    <3>2. ASSUME NEW d \in Conns
          PROVE  /\ Within(Result(j), toServer'[d]) <=>
                      Within(Result(j), toServer[d]) \/ (j = i /\ d = c)
                 /\ Once(Result(j), toServer'[d])
      <4>1. CASE d = c
        <5>1. toServer'[d] = Append(toServer[d], Result(i)) /\ toServer[d] \in Seq(Messages)
          BY <1>2, <3>1, <4>1
        <5>2. Result(i) \in Messages /\ (Result(j) = Result(i) <=> j = i)
          BY <1>3, MessageFacts
        <5>3. /\ Within(Result(j), toServer'[d]) <=>
                      Within(Result(j), toServer[d]) \/ Result(j) = Result(i)
              /\ Once(Result(j), toServer[d])
                   /\ (Result(j) = Result(i) => ~Within(Result(j), toServer[d]))
                 => Once(Result(j), toServer'[d])
          BY <5>1, <5>2, Appending
        <5> QED
          BY <2>1, <4>1, <5>2, <5>3
      <4>2. CASE d # c
        BY <1>2, <2>1, <3>1, <4>2
      <4> QED
        BY <4>1, <4>2
    <3>3. PICK t : t = "answered"
      OBVIOUS
    <3>4. /\ t \in {"answered", "ended"} /\ c \in Conns \cup {None}
          /\ t = "answered" => c \in Conns
          /\ \A d \in Conns : /\ Within(Result(j), toServer'[d]) <=>
                                   Within(Result(j), toServer[d])
                                     \/ (j = i /\ t = "answered" /\ d = c)
                              /\ Once(Result(j), toServer'[d])
          /\ j \in lost' <=> j \in lost \/ (j = i /\ t = "ended")
      BY <3>1, <3>2, <3>3
    <3> QED
      BY <3>4
  <2>3. CASE c \notin up
    <3>1. UNCHANGED toServer /\ lost' = lost \cup {i}
      BY <1>3, <2>3 DEF ResultWritten
    <3> QED
      BY <2>1, <3>1
  <2> QED
    BY <2>2, <2>3
<1>6. PICK t, p :
        /\ t \in {"answered", "ended"} /\ p \in Conns \cup {None}
        /\ t = "answered" => p \in Conns
        /\ \A d \in Conns : /\ Within(Result(j), toServer'[d]) <=>
                                 Within(Result(j), toServer[d]) \/ (j = i /\ t = "answered" /\ d = p)
                            /\ Once(Result(j), toServer'[d])
        /\ j \in lost' <=> j \in lost \/ (j = i /\ t = "ended")
  BY <1>5
\* What is written next.
<1>7. \E h : /\ \A l \in Clients :
                  /\ write'[l] # <<>> /\ write'[l][1] = j <=>
                       IF l = k THEN j = h ELSE write[l] # <<>> /\ write[l][1] = j
                  /\ Within(j, waitingReqs'[l]) <=> Within(j, waitingReqs[l]) /\ ~(l = k /\ j = h)
                  /\ Once(j, waitingReqs'[l])
             /\ j = h => Within(j, waitingReqs[k])
  <2>1. \A l \in Clients : Once(j, waitingReqs[l])
    BY <1>1 DEF At, ClientAt
  <2>2. CASE waitingReqs[k] # <<>>
    <3>1. PICK h : h = Head(waitingReqs[k])
      OBVIOUS
    <3>2. /\ write' = [write EXCEPT ![k] = <<h, conn[k]>>]
          /\ waitingReqs' = [waitingReqs EXCEPT ![k] = Tail(waitingReqs[k])]
      BY <2>2, <3>1 DEF ResultWritten
    <3>3. waitingReqs[k] \in Seq(Jobs)
      BY <1>2
    <3>4. /\ Within(j, waitingReqs[k]) <=> j = h \/ Within(j, Tail(waitingReqs[k]))
          /\ Once(j, Tail(waitingReqs[k])) /\ (j = h => ~Within(j, Tail(waitingReqs[k])))
      BY <2>1, <2>2, <3>1, <3>3, TakingFirst
    <3>5. /\ \A l \in Clients : l # k => write'[l] = write[l] /\ waitingReqs'[l] = waitingReqs[l]
          /\ write'[k] = <<h, conn[k]>> /\ waitingReqs'[k] = Tail(waitingReqs[k])
      BY <1>2, <3>2
    <3>6. write'[k] # <<>> /\ write'[k][1] = h
      BY <3>5
    <3>7. \A l \in Clients :
            /\ write'[l] # <<>> /\ write'[l][1] = j <=>
                 IF l = k THEN j = h ELSE write[l] # <<>> /\ write[l][1] = j
            /\ Within(j, waitingReqs'[l]) <=> Within(j, waitingReqs[l]) /\ ~(l = k /\ j = h)
            /\ Once(j, waitingReqs'[l])
      BY <2>1, <3>4, <3>5, <3>6
    <3>8. j = h => Within(j, waitingReqs[k])
      BY <3>4
    <3> QED
      BY <3>7, <3>8, Zenon
  <2>3. CASE waitingReqs[k] = <<>>
    <3>1. write' = [write EXCEPT ![k] = <<>>] /\ UNCHANGED waitingReqs
      BY <2>3 DEF ResultWritten
    <3>2. write'[k] = <<>> /\ \A l \in Clients : l # k => write'[l] = write[l]
      BY <1>2, <3>1
    <3>3. PICK h : h \notin Jobs
      BY ConnsAssumption
    <3> QED
      BY <2>1, <3>1, <3>2, <3>3
  <2> QED
    BY <2>2, <2>3
<1>8. PICK h : /\ \A l \in Clients :
                    /\ write'[l] # <<>> /\ write'[l][1] = j <=>
                         IF l = k THEN j = h ELSE write[l] # <<>> /\ write[l][1] = j
                    /\ Within(j, waitingReqs'[l]) <=> Within(j, waitingReqs[l]) /\ ~(l = k /\ j = h)
                    /\ Once(j, waitingReqs'[l])
               /\ j = h => Within(j, waitingReqs[k])
  BY <1>7
<1>9. j = h => s = "waits" /\ o = k
  BY <1>1, <1>8 DEF At, ClientAt
<1>10. CASE j = i
  <2>1. j # h
    BY <1>4, <1>9, <1>10
  <2>2. ClientAt(j, t, p)'
    BY <1>1, <1>2, <1>4, <1>6, <1>8, <1>10, <2>1 DEF At, ClientAt
  <2>3. NetworkAt(j, t, p)'
    BY <1>1, <1>2, <1>4, <1>6, <1>10 DEF At, NetworkAt
  <2>4. EndAt(j, t)'
    BY <1>1, <1>2, <1>4, <1>6, <1>10 DEF At, EndAt
  <2>5. ServerAt(j, t) /\ Remembered(j, t)
    BY <1>1, <1>4, <1>6, <1>10, Move DEF At, InServer, Remembered
  <2> QED
    BY <1>2, <1>6, <2>2, <2>3, <2>4, <2>5, Frame, Found DEF Place, OnConn
<1>11. CASE j # i /\ j = h
  <2>1. ClientAt(j, "written", k)'
    BY <1>1, <1>2, <1>4, <1>8, <1>9, <1>11 DEF At, ClientAt
  <2>2. NetworkAt(j, "written", k)'
    BY <1>1, <1>2, <1>6, <1>9, <1>11 DEF At, NetworkAt
  <2>3. EndAt(j, "written")'
    BY <1>1, <1>2, <1>6, <1>9, <1>11 DEF At, EndAt
  <2>4. ServerAt(j, "written") /\ Remembered(j, "written")
    BY <1>1, <1>9, <1>11, Move DEF At, InServer, Remembered
  <2> QED
    BY <1>2, <2>1, <2>2, <2>3, <2>4, Frame, Found DEF Place, AtClient
<1>12. CASE j # i /\ j # h
  <2>1. ClientAt(j, s, o)'
    BY <1>1, <1>2, <1>4, <1>8, <1>12 DEF At, ClientAt
  <2>2. NetworkAt(j, s, o)'
    BY <1>1, <1>2, <1>6, <1>12 DEF At, NetworkAt
  <2>3. EndAt(j, s)'
    BY <1>1, <1>2, <1>6, <1>12 DEF At, EndAt
  <2> QED
    BY <1>1, <1>2, <2>1, <2>2, <2>3, Frame, Found DEF At
<1> QED
  BY <1>10, <1>11, <1>12

\* A connection breaks: a result or the response on it may be lost.
LEMMA PlaceBreak ==
  ASSUME Types, NEW c \in Conns, Break(c), NEW j \in Jobs, Placed(j)
  PROVE  Placed(j)'
<1>1. PICK s \in InServer \cup OnConn \cup AtClient \cup {"ended"},
           o \in Conns \cup Clients \cup {None} : At(j, s, o)
  BY DEF Placed
<1>2. /\ UNCHANGED <<queue, serializing, unprocessed, inserting, waiting, outbox,
                     executing, waitingReqs, write, results>>
      /\ toServer \in [Conns -> Seq(Messages)]
      /\ toClient \in [Conns -> Jobs \cup {NoJob, None}]
  BY DEF Break, server, client, Types, NetworkType
<1>3. PICK n \in 0 .. Len(toServer[c]), keep \in BOOLEAN :
        /\ toServer' = [toServer EXCEPT ![c] = SubSeq(toServer[c], 1, n)]
        /\ toClient' = IF keep THEN toClient ELSE [toClient EXCEPT ![c] = None]
        /\ lost' = lost \cup Dropped(c, n) \cup (IF keep THEN {} ELSE {toClient[c]} \cap Jobs)
  BY DEF Break
<1>4. PICK dropped \in BOOLEAN : dropped <=> j \in Dropped(c, n)
  OBVIOUS
<1>5. /\ \A d \in Conns : Within(Result(j), toServer'[d]) <=>
                            Within(Result(j), toServer[d]) /\ ~(dropped /\ d = c)
      /\ \A d \in Conns : Once(Result(j), toServer'[d])
      /\ dropped => Within(Result(j), toServer[c])
  <2>1. \A d \in Conns : Once(Result(j), toServer[d])
    BY <1>1 DEF At, NetworkAt
  <2>2. \A d \in Conns : d # c => toServer'[d] = toServer[d]
    BY <1>2, <1>3
  <2>3. toServer'[c] = SubSeq(toServer[c], 1, n) /\ toServer[c] \in Seq(Messages)
    BY <1>2, <1>3
  <2>4. dropped <=> Result(j) \in ToSet(SubSeq(toServer[c], n + 1, Len(toServer[c])))
    BY <1>4 DEF Dropped
  <2>5. /\ Once(Result(j), toServer'[c])
        /\ Within(Result(j), toServer'[c]) <=> Within(Result(j), toServer[c]) /\ ~dropped
        /\ dropped => Within(Result(j), toServer[c])
    BY <2>1, <2>3, <2>4, Cutting
  <2> QED
    BY <2>1, <2>2, <2>5
<1>6. PICK cut \in BOOLEAN : cut <=> ~keep /\ toClient[c] = j
  OBVIOUS
<1>7. \A d \in Conns : toClient'[d] = j <=> toClient[d] = j /\ ~(cut /\ d = c)
  BY <1>2, <1>3, <1>6, ConnsAssumption
<1>8. j \in lost' <=> j \in lost \/ dropped \/ cut
  BY <1>3, <1>4, <1>6
<1>9. dropped => s = "answered" /\ o = c
  BY <1>1, <1>5 DEF At, NetworkAt
<1>10. cut => s = "arrived" /\ o = c
  BY <1>1, <1>6 DEF At, NetworkAt
<1>11. CASE dropped \/ cut
  <2>1. s \in {"answered", "arrived"} /\ o = c /\ (dropped <=> s = "answered") /\ (cut <=> s = "arrived")
    BY <1>9, <1>10, <1>11
  <2>2. NetworkAt(j, "ended", None)'
    BY <1>1, <1>2, <1>5, <1>7, <2>1 DEF At, NetworkAt
  <2>3. EndAt(j, "ended")'
    BY <1>1, <1>2, <1>8, <1>11 DEF At, EndAt
  <2>4. ServerAt(j, "ended") /\ ClientAt(j, "ended", None) /\ Remembered(j, "ended")
    BY <1>1, <2>1, Move DEF At, InServer, AtClient, Remembered
  <2> QED
    BY <1>2, <2>2, <2>3, <2>4, Frame, Found DEF Place
<1>12. CASE ~dropped /\ ~cut
  <2>1. NetworkAt(j, s, o)'
    BY <1>1, <1>2, <1>5, <1>7, <1>12 DEF At, NetworkAt
  <2>2. EndAt(j, s)'
    BY <1>1, <1>2, <1>8, <1>12 DEF At, EndAt
  <2> QED
    BY <1>1, <1>2, <2>1, <2>2, Frame, Found DEF At
<1> QED
  BY <1>11, <1>12

\* A client dies, and what it held is lost.
LEMMA PlaceCrash ==
  ASSUME Types, NEW k \in Clients, Crash(k), NEW j \in Jobs, Placed(j)
  PROVE  Placed(j)'
<1>1. PICK s \in InServer \cup OnConn \cup AtClient \cup {"ended"},
           o \in Conns \cup Clients \cup {None} : At(j, s, o)
  BY DEF Placed
<1>2. /\ UNCHANGED <<queue, serializing, unprocessed, inserting, waiting, outbox, toServer, results>>
      /\ lost' = lost \cup Held(k)
      /\ executing' = [executing EXCEPT ![k] = {}]
      /\ waitingReqs' = [waitingReqs EXCEPT ![k] = <<>>]
      /\ write' = [write EXCEPT ![k] = <<>>]
      /\ toClient' = [c \in Conns |-> IF c = conn[k] THEN None ELSE toClient[c]]
  BY DEF Crash, server
<1>3. /\ toClient \in [Conns -> Jobs \cup {NoJob, None}]
      /\ executing \in [Clients -> SUBSET Jobs]
      /\ write \in [Clients -> {<<>>} \cup (Jobs \X (Conns \cup {None}))]
      /\ waitingReqs \in [Clients -> Seq(Jobs)]
      /\ conn[k] \in Conns \cup {None}
      /\ None \notin Conns
  BY ConnsAssumption DEF Types, NetworkType, ClientType
<1>4. j \in Held(k) <=> \/ j \in executing[k]
                        \/ Within(j, waitingReqs[k])
                        \/ write[k] # <<>> /\ write[k][1] = j
                        \/ conn[k] # None /\ toClient[conn[k]] = j
  BY ToSetWithin DEF Held
<1>5. \A c \in Conns : toClient'[c] = j <=> toClient[c] = j /\ c # conn[k]
  BY <1>2, <1>3, ConnsAssumption
<1>6. \A l \in Clients :
        /\ j \in executing'[l] <=> j \in executing[l] /\ l # k
        /\ Within(j, waitingReqs'[l]) <=> Within(j, waitingReqs[l]) /\ l # k
        /\ Once(j, waitingReqs[l]) => Once(j, waitingReqs'[l])
        /\ write'[l] # <<>> /\ write'[l][1] = j <=> write[l] # <<>> /\ write[l][1] = j /\ l # k
  <2>1. \A l \in Clients : l # k => /\ executing'[l] = executing[l]
                                    /\ waitingReqs'[l] = waitingReqs[l]
                                    /\ write'[l] = write[l]
    BY <1>2, <1>3
  <2>2. executing'[k] = {} /\ waitingReqs'[k] = <<>> /\ write'[k] = <<>>
    BY <1>2, <1>3
  <2> QED
    BY <2>1, <2>2, EmptyWithin
<1>7. CASE j \in Held(k)
  <2>1. \/ s \in AtClient /\ o = k
        \/ s = "arrived" /\ o = conn[k]
    BY <1>1, <1>3, <1>4, <1>7 DEF At, NetworkAt, ClientAt, AtClient
  <2>2. NetworkAt(j, "ended", None)'
    BY <1>1, <1>2, <1>5, <2>1 DEF At, NetworkAt, AtClient
  <2>3. ClientAt(j, "ended", None)'
    BY <1>1, <1>6, <2>1 DEF At, ClientAt, AtClient
  <2>4. EndAt(j, "ended")'
    BY <1>1, <1>2, <1>7 DEF At, EndAt
  <2>5. ServerAt(j, "ended") /\ Remembered(j, "ended")
    BY <1>1, <2>1, Move DEF At, InServer, AtClient, Remembered
  <2> QED
    BY <1>2, <2>2, <2>3, <2>4, <2>5, Frame, Found DEF Place
<1>8. CASE j \notin Held(k)
  <2>1. NetworkAt(j, s, o)'
    BY <1>1, <1>2, <1>3, <1>4, <1>5, <1>8 DEF At, NetworkAt
  <2>2. ClientAt(j, s, o)'
    BY <1>1, <1>4, <1>6, <1>8 DEF At, ClientAt
  <2>3. EndAt(j, s)'
    BY <1>1, <1>2, <1>8 DEF At, EndAt
  <2> QED
    BY <1>1, <1>2, <2>1, <2>2, <2>3, Frame, Found DEF At
<1> QED
  BY <1>7, <1>8

\* Every step keeps the places of the jobs, unless a send failed inside send_first_job.
LEMMA PlacesKept ==
  ASSUME Types, TokenInv, JobInv, Next
  PROVE  JobInv'
<1> SUFFICES ASSUME ~raced', NEW j \in Jobs
             PROVE  Placed(j)'
  BY DEF JobInv
<1>1. raced' = raced \/ \E c \in Conns : Write(c)
  <2>1. \A i \in Jobs : Forward(i) \/ AddTask(i) => raced' = raced
    BY DEF Forward, AddTask
  <2>2. NoJobs \/ Insert => raced' = raced
    BY DEF NoJobs, Insert
  <2>3. \A c \in Conns : Handle(c) \/ Break(c) => raced' = raced
    BY DEF Handle, HandleGet, HandleResult, HandleComError, Break
  <2>4. \A k \in Clients : Ask(k) \/ ResultWritten(k) \/ Crash(k) => raced' = raced
    BY DEF Ask, CheckForWork, Connect, RequestWritten, ResponseRead, ReadFails, ResultWritten, Crash
  <2>5. \A k \in Clients, i \in Jobs : SendTaskResult(k, i) => raced' = raced
    BY DEF SendTaskResult
  <2>6. Terminated => raced' = raced
    BY DEF Terminated, vars
  <2> QED
    BY <2>1, <2>2, <2>3, <2>4, <2>5, <2>6 DEF Next, Scheduler, Client, Execute
<1>2. ~raced
  <2>1. \A c \in Conns, m \in Jobs \cup {NoJob} : Written(c, m) /\ ~raced' => ~raced
    BY DEF Written, TakeBack
  <2> QED
    BY <1>1, <2>1 DEF Write
<1>3. Placed(j)
  BY <1>2 DEF JobInv
<1>4. \A i \in Jobs : Forward(i) \/ AddTask(i) => Placed(j)'
  BY <1>3, PlaceForward, PlaceAddTask
<1>5. NoJobs \/ Insert => Placed(j)'
  BY <1>3, PlaceNoJobs, PlaceInsert
<1>6. \A c \in Conns : HandleGet(c) \/ HandleResult(c) \/ Write(c) \/ Break(c) => Placed(j)'
  BY <1>3, PlaceHandleGet, PlaceHandleResult, PlaceWritten, PlaceBreak DEF Write
<1>7. \A k \in Clients : Ask(k) \/ ResultWritten(k) \/ Crash(k) => Placed(j)'
  BY <1>3, PlaceAsk, PlaceResultWritten, PlaceCrash
<1>8. \A k \in Clients, i \in Jobs : SendTaskResult(k, i) => Placed(j)'
  BY <1>3, PlaceSendTaskResult
<1>9. ASSUME (\E c \in Conns : HandleComError(c)) \/ Terminated
      PROVE  Placed(j)'
  <2>1. PICK s \in InServer \cup OnConn \cup AtClient \cup {"ended"},
             o \in Conns \cup Clients \cup {None} : At(j, s, o)
    BY <1>3 DEF Placed
  <2>2. UNCHANGED <<queue, serializing, unprocessed, inserting, waiting, outbox, toClient,
                    toServer, executing, waitingReqs, write, lost, results>>
    BY <1>9 DEF HandleComError, Terminated, vars, server, network, client
  <2> QED
    BY <2>1, <2>2, Frame, Found DEF At
<1> QED
  BY <1>4, <1>5, <1>6, <1>7, <1>8, <1>9 DEF Next, Scheduler, Handle, Client, Execute

-----------------------------------------------------------------------------
(* Counting the places                                                     *)

\* A set of at most one element, which is there when s is kind t.
Only(S, x, s, t) == \A y : y \in S <=> s = t /\ y = x

\* The count of such a set.
LEMMA CountOne ==
  ASSUME NEW S, NEW x, NEW s, NEW t, Only(S, x, s, t)
  PROVE  Cardinality(S) = IF s = t THEN 1 ELSE 0
<1>1. CASE s = t
  <2>1. S = {x}
    BY <1>1 DEF Only
  <2> QED
    BY <1>1, <2>1, FS_Singleton
<1>2. CASE s # t
  <2>1. S = {}
    BY <1>2 DEF Only
  <2> QED
    BY <1>2, <2>1, FS_EmptySet
<1> QED
  BY <1>1, <1>2

\* The invariant says of job j what JobInOnePlace counts.
LEMMA OnePlace ==
  ASSUME Types, TokenInv, NEW j \in Jobs, Placed(j)
  PROVE  In(j) + Out(j) = IF j \in lost \/ results[j] > 0 THEN 0 ELSE 1
<1>1. PICK s \in InServer \cup OnConn \cup AtClient \cup {"ended"},
           o \in Conns \cup Clients \cup {None} : At(j, s, o)
  BY DEF Placed
<1>2. Cardinality({c \in Conns : <<c, j>> \in outbox}) = IF s = "outbox" THEN 1 ELSE 0
  <2>1. PICK S : S = {c \in Conns : <<c, j>> \in outbox}
    OBVIOUS
  <2>2. Only(S, o, s, "outbox")
    BY <1>1, <2>1 DEF Only, At, NetworkAt, Place, InServer, OnConn, AtClient
  <2>3. Cardinality(S) = IF s = "outbox" THEN 1 ELSE 0
    BY <2>2, CountOne
  <2> QED
    BY <2>1, <2>3
<1>3. Cardinality({c \in Conns : toClient[c] = j}) = IF s = "arrived" THEN 1 ELSE 0
  <2>1. PICK S : S = {c \in Conns : toClient[c] = j}
    OBVIOUS
  <2>2. Only(S, o, s, "arrived")
    BY <1>1, <2>1 DEF Only, At, NetworkAt, Place, InServer, OnConn, AtClient
  <2>3. Cardinality(S) = IF s = "arrived" THEN 1 ELSE 0
    BY <2>2, CountOne
  <2> QED
    BY <2>1, <2>3
<1>4. Cardinality({k \in Clients : j \in executing[k]}) = IF s = "executing" THEN 1 ELSE 0
  <2>1. PICK S : S = {k \in Clients : j \in executing[k]}
    OBVIOUS
  <2>2. Only(S, o, s, "executing")
    BY <1>1, <2>1 DEF Only, At, ClientAt, Place, InServer, OnConn, AtClient
  <2>3. Cardinality(S) = IF s = "executing" THEN 1 ELSE 0
    BY <2>2, CountOne
  <2> QED
    BY <2>1, <2>3
<1>5. Cardinality({k \in Clients : j \in ToSet(waitingReqs[k])}) = IF s = "waits" THEN 1 ELSE 0
  <2>1. PICK S : S = {k \in Clients : j \in ToSet(waitingReqs[k])}
    OBVIOUS
  <2>2. Only(S, o, s, "waits")
    BY <1>1, <2>1, ToSetWithin DEF Only, At, ClientAt, Place, InServer, OnConn, AtClient
  <2>3. Cardinality(S) = IF s = "waits" THEN 1 ELSE 0
    BY <2>2, CountOne
  <2> QED
    BY <2>1, <2>3
<1>6. Cardinality({k \in Clients : write[k] # <<>> /\ write[k][1] = j}) = IF s = "written" THEN 1 ELSE 0
  <2>1. PICK S : S = {k \in Clients : write[k] # <<>> /\ write[k][1] = j}
    OBVIOUS
  <2>2. Only(S, o, s, "written")
    BY <1>1, <2>1 DEF Only, At, ClientAt, Place, InServer, OnConn, AtClient
  <2>3. Cardinality(S) = IF s = "written" THEN 1 ELSE 0
    BY <2>2, CountOne
  <2> QED
    BY <2>1, <2>3
<1>7. Cardinality({c \in Conns : Result(j) \in ToSet(toServer[c])}) = IF s = "answered" THEN 1 ELSE 0
  <2>1. PICK S : S = {c \in Conns : Result(j) \in ToSet(toServer[c])}
    OBVIOUS
  <2>2. Only(S, o, s, "answered")
    BY <1>1, <2>1, ToSetWithin DEF Only, At, NetworkAt, Place, InServer, OnConn, AtClient
  <2>3. Cardinality(S) = IF s = "answered" THEN 1 ELSE 0
    BY <2>2, CountOne
  <2> QED
    BY <2>1, <2>3
<1>8. Cardinality({i \in DOMAIN unprocessed : unprocessed[i] = j /\ ~(inserting /\ i = 1)})
        = IF s = "ready" THEN 1 ELSE 0
  <2> DEFINE T == {i \in DOMAIN unprocessed : unprocessed[i] = j /\ ~(inserting /\ i = 1)}
  <2>0. PICK S : S = T
    OBVIOUS
  <2>1. PICK q : q = Ready
    OBVIOUS
  <2>2. (Within(j, q) <=> s = "ready") /\ Once(j, q)
    BY <1>1, <2>1 DEF At, ServerAt
  <2>3. unprocessed \in Seq(Jobs)
    BY DEF Types, ServerType
  <2>4. ASSUME inserting
        PROVE  Cardinality(S) = IF s = "ready" THEN 1 ELSE 0
    <3>1. q = Tail(unprocessed) /\ unprocessed # <<>>
      BY <2>1, <2>4 DEF Ready, TokenInv
    <3>2. /\ Len(unprocessed) \in Nat /\ Len(unprocessed) > 0
          /\ DOMAIN unprocessed = 1 .. Len(unprocessed)
          /\ DOMAIN q = 1 .. Len(unprocessed) - 1
          /\ \A i \in 1 .. Len(unprocessed) - 1 : q[i] = unprocessed[i + 1]
      BY <2>3, <3>1
    <3>3. PICK x : s = "ready" => x \in DOMAIN q /\ q[x] = j
      BY <2>2 DEF Within
    <3>4. s = "ready" => x \in 1 .. Len(unprocessed) - 1
      BY <3>2, <3>3
    <3>5. ASSUME NEW y, y \in S
          PROVE  s = "ready" /\ y = x + 1
      <4>1. y \in 2 .. Len(unprocessed) /\ unprocessed[y] = j
        BY <2>0, <2>4, <3>2, <3>5
      <4>2. y - 1 \in DOMAIN q /\ q[y - 1] = j
        BY <3>2, <4>1
      <4>3. s = "ready"
        BY <2>2, <4>2 DEF Within
      <4>4. y - 1 = x
        BY <2>2, <3>3, <4>2, <4>3 DEF Once
      <4> QED
        BY <3>2, <4>1, <4>3, <4>4
    <3>6. s = "ready" => x + 1 \in S
      BY <2>0, <3>2, <3>3, <3>4
    <3>7. Only(S, x + 1, s, "ready")
      BY <3>5, <3>6 DEF Only
    <3> QED
      BY <3>7, CountOne
  <2>5. ASSUME ~inserting
        PROVE  Cardinality(S) = IF s = "ready" THEN 1 ELSE 0
    <3>1. q = unprocessed
      BY <2>1, <2>5 DEF Ready
    <3>2. PICK x : s = "ready" => x \in DOMAIN q /\ q[x] = j
      BY <2>2 DEF Within
    <3>3. Only(S, x, s, "ready")
      BY <2>0, <2>2, <2>5, <3>1, <3>2 DEF Only, Within, Once
    <3> QED
      BY <3>3, CountOne
  <2>6. Cardinality(S) = IF s = "ready" THEN 1 ELSE 0
    BY <2>4, <2>5
  <2> QED
    BY <2>0, <2>6
<1>9. In(j) = IF s \in InServer THEN 1 ELSE 0
  BY <1>1, <1>8 DEF In, At, ServerAt, InServer
<1>10. Out(j) = IF s \in OnConn \cup AtClient THEN 1 ELSE 0
  BY <1>2, <1>3, <1>4, <1>5, <1>6, <1>7 DEF Out, OnConn, AtClient
<1>11. j \in lost \/ results[j] > 0 <=> s = "ended"
  BY <1>1 DEF At, EndAt
<1> QED
  BY <1>9, <1>10, <1>11 DEF InServer, OnConn, AtClient

-----------------------------------------------------------------------------
(* The theorems                                                            *)

\* All jobs are in the queue at first.
LEMMA InitInv == Init => IInv
<1> SUFFICES ASSUME Init
             PROVE  IInv
  OBVIOUS
<1>1. TypeOK
  <2>1. <<>> \in Seq(Jobs) /\ <<>> \in Seq(Conns) /\ <<>> \in Seq({Get} \cup {Result(j) : j \in Jobs})
    OBVIOUS
  <2> QED
    BY <2>1 DEF Init, TypeOK
<1>2. TokenInv
  <2>1. \A k \in Clients : OwnConn(k)
    BY DEF Init, OwnConn
  <2>2. \A c \in Conns : OneAnswer(c)
    BY EmptyWithin DEF Init, OneAnswer, Asked, Waits, Sent, Arrived
  <2> QED
    BY <2>1, <2>2 DEF TokenInv, Init
<1>3. ASSUME NEW j \in Jobs
      PROVE  Placed(j)
  <2>1. ServerAt(j, "queue")
    BY EmptyWithin DEF Init, ServerAt, Ready
  <2>2. NetworkAt(j, "queue", None)
    BY EmptyWithin, ConnsAssumption DEF Init, NetworkAt
  <2>3. ClientAt(j, "queue", None)
    BY EmptyWithin DEF Init, ClientAt
  <2>4. EndAt(j, "queue")
    BY DEF Init, EndAt
  <2>5. At(j, "queue", None)
    BY <2>1, <2>2, <2>3, <2>4 DEF At, Place, Remembered, InServer
  <2> QED
    BY <2>5 DEF Placed, InServer
<1> QED
  BY <1>1, <1>2, <1>3 DEF IInv, JobInv

\* The invariant is inductive.
LEMMA StepInv == IInv /\ [Next]_vars => IInv'
<1> SUFFICES ASSUME IInv, [Next]_vars
             PROVE  IInv'
  OBVIOUS
<1>1. Types
  BY TypeParts DEF IInv, Types
<1>2. CASE Next
  <2>1. TypeOK'
    BY <1>1, <1>2, TypeParts, TypesKept DEF IInv, Types
  <2>2. TokenInv'
    BY <1>1, <1>2, TokensKept DEF IInv
  <2>3. JobInv'
    BY <1>1, <1>2, PlacesKept DEF IInv
  <2> QED
    BY <2>1, <2>2, <2>3 DEF IInv
<1>3. CASE UNCHANGED vars
  <2>1. TypeOK'
    BY <1>3 DEF vars, server, network, client, IInv, TypeOK
  <2>2. TokenInv'
    BY <1>3 DEF vars, server, network, client, IInv, TokenInv, OwnConn, OneAnswer, Asked, Waits,
      Sent, Arrived, Idle
  <2>3. raced' = raced /\ \A j \in Jobs : Placed(j)' = Placed(j)
    BY <1>3 DEF vars, server, network, client, Placed, At, Place, ServerAt, Ready, NetworkAt,
      ClientAt, EndAt, Remembered
  <2>4. JobInv'
    BY <2>3 DEF IInv, JobInv
  <2> QED
    BY <2>1, <2>2, <2>4 DEF IInv
<1> QED
  BY <1>2, <1>3

\* The inductive invariant: a request has one answer, a job has one place.
THEOREM JobServerInvariant == Spec => []IInv
<1>1. Init => IInv
  BY InitInv
<1>2. IInv /\ [Next]_vars => IInv'
  BY StepInv
<1> QED
  BY <1>1, <1>2, PTL DEF Spec

\* The variables of the distribution of jobs keep their types.
THEOREM JobServerTypes == Spec => []TypeOK
<1>1. IInv => TypeOK
  BY DEF IInv
<1> QED
  BY <1>1, JobServerInvariant, PTL

\* job_server, its connections and its clients hold every job in one place until
\* its result was delivered or it was lost, and deliver no result twice.
THEOREM JobsStayInOnePlace == Spec => []JobInOnePlace
<1>1. IInv => JobInOnePlace
  <2> SUFFICES ASSUME IInv, ~raced, NEW j \in Jobs
               PROVE  In(j) + Out(j) = IF j \in lost \/ results[j] > 0 THEN 0 ELSE 1
    BY DEF JobInOnePlace
  <2>1. Types
    BY TypeParts DEF IInv, Types
  <2> QED
    BY <2>1, OnePlace DEF IInv, JobInv
<1> QED
  BY <1>1, JobServerInvariant, PTL

\* An answer is not overwritten, and does not go to two connections: at most one
\* request of a connection is open, and each client has a connection of its own.
THEOREM RequestsHaveOneAnswer == Spec => []TokenInv
<1>1. IInv => TokenInv
  BY DEF IInv
<1> QED
  BY <1>1, JobServerInvariant, PTL
=============================================================================
