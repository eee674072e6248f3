-------------------------- MODULE ServantsProofs --------------------------
(***************************************************************************)
(* Servants for every number of clients, tasks and ways of posting them:   *)
(* a checked callback runs while its servant is alive, and the layers die  *)
(* in order, each in its own thread.  Then, of Notification: the loops     *)
(* over the subscribers of a thread keep their entries, and the schedulers *)
(* on the bus learn of each other's subscriptions.                         *)
(***************************************************************************)
EXTENDS MCServants, FiniteSetTheorems, FunctionTheorems, WellFoundedInduction, TLAPS

\* The jobs that come to the thread of each servant.
JobsOf(w) ==
  IF w = "S"
  THEN {<<"create", None>>} \cup ({"member", "self", "callback"} \X Tasks)
         \cup ({"delete"} \X Clients)
  ELSE ({"task"} \X Tasks) \cup {<<"delete", "S">>}

Within(x, q) == \E i \in DOMAIN q : q[i] = x
NoneTwice(q) == \A i, k \in DOMAIN q : i # k => q[i] # q[k]

\* The queues of the worlds hold jobs of their own, and none twice.
Good(q) ==
  /\ q \in [Worlds -> Seq(Jobs)]
  /\ \A w \in Worlds : q[w] \in Seq(JobsOf(w)) /\ NoneTwice(q[w])

WorldType ==
  /\ Good(queue)
  /\ \A w \in Worlds : cur[w] \in JobsOf(w) \cup {None}
  /\ life["L"] \in {"unborn", "alive", "dead"}

\* What a queued job says of its task or of its client.
QueueInv ==
  /\ \A t \in Tasks :
       /\ Within(<<"member", t>>, queue["S"]) => task[t] = "called"
       /\ Within(<<"self", t>>, queue["S"]) => /\ task[t] = "posted"
                                                     /\ Way[way[t]].executor = "S"
       /\ Within(<<"callback", t>>, queue["S"]) => task[t] = "returned"
       /\ Within(<<"task", t>>, queue["L"]) => /\ task[t] = "posted"
                                                     /\ Way[way[t]].executor = "L"
  /\ \A c \in Clients :
       Within(<<"delete", c>>, queue["S"]) => client[c] \in {"leaving", "gone"}
  /\ Within(<<"delete", "S">>, queue["L"]) => life["S"] \in {"closing", "joining", "dead"}

\* Where a task may be, given how it was posted.
TaskInv ==
  \A t \in Tasks :
    /\ task[t] \in {"new", "called"} <=> way[t] = None
    /\ task[t] \in {"ran", "locked", "returned"} => Way[way[t]].answer = "callback"
    /\ cur["S"] = <<"callback", t>> => way[t] # None /\ Way[way[t]].answer = "callback"
    /\ callbacks[t] # 0 => task[t] = "done"
    /\ way[t] = "direct_callback" => task[t] = "done"

\* Before the constructor of S has run, and after it.
BirthInv ==
  /\ IF made = "empty"
     THEN /\ queue["L"] = <<>> /\ cur["L"] = None /\ cur["S"] = None
          /\ IF \A c \in Clients : client[c] = "new"
             THEN queue["S"] = <<>>
             ELSE queue["S"] = <<<<"create", None>>>>
     ELSE /\ \E c \in Clients : client[c] # "new"
          /\ ~Within(<<"create", None>>, queue["S"])
  /\ \A w \in Worlds : life[w] = "unborn" <=> made \in {"empty", "failed"}
  /\ made # "taken" => /\ \A t \in Tasks : task[t] = "new"
                       /\ \A c \in Clients : client[c] # "ready"
  /\ \A c \in Clients : client[c] \in {"creating", "timedout"} =>
       /\ made # "taken"
       /\ \A d \in Clients : d # c => client[d] = "new"

\* S is alive as long as somebody holds it, and its destructor runs in its own
\* thread, or in that of the client that no longer waited for it.
DeathInv ==
  /\ life["S"] = "alive" <=> Held("S")
  /\ life["S"] \in {"unborn", "alive"} \/ diedIn["S"] \in {"S", "client"}
  /\ diedIn["S"] \in {None, "S", "client"}
  /\ diedIn["S"] = "client" =>
       /\ made = "set"
       /\ \A c \in Clients : client[c] \notin {"creating", "timedout"}

\* The destructor of S gives up the proxy of L and waits for its thread.
OwnerInv ==
  /\ owns <=> life["S"] \in {"alive", "dying"}
  /\ life["S"] \in {"joining", "dead"} => "L" \in stopped
  /\ "L" \in stopped => /\ ~owns /\ life["L"] # "unborn"
                        /\ queue["L"] = <<>> /\ cur["L"] = None

\* No functor that holds L goes back to the thread of S.
NoneCarried ==
  \A t \in Tasks : way[t] # None => ~(Way[way[t]].holds /\ Way[way[t]].answer = "callback")

\* L is destroyed by its own thread, when nobody holds it any more.
LowInv ==
  NoneCarried => /\ life["L"] = "alive" => Held("L")
                 /\ diedIn["L"] \in {None, "L"}

IInv ==
  /\ TypeOK /\ WorldType /\ QueueInv /\ TaskInv
  /\ BirthInv /\ DeathInv /\ OwnerInv /\ LowInv

-----------------------------------------------------------------------------
(* Ways and queues                                                         *)

\* What the proofs need to know of the ways of posting.
LEMMA WayFacts ==
  /\ \A n \in DOMAIN Way :
       /\ Way[n].answer \in {"future", "callback", "direct"}
       /\ Way[n].guarded => Way[n].answer # "direct"
       /\ Way[n].executor \in {"pool", "remote"} => Way[n].answer # "direct"
       /\ Way[n].answer = "direct" => n \in {"unsafe_callback", "direct_callback"}
  /\ {"future_member", "post_self", "direct_callback", "unsafe_callback"} \subseteq DOMAIN Way
  /\ Way["future_member"].answer = "future" /\ Way["future_member"].executor = "S"
  /\ Way["post_self"].executor = "S"
  /\ Way["direct_callback"].answer = "direct" /\ Way["direct_callback"].executor = "S"
  /\ Way["unsafe_callback"].checked = FALSE
<1>1. DOMAIN Way = {"post_callback", "callback_continuation", "post_future",
                    "future_continuation", "post_self", "call_callback", "callback_member",
                    "unsafe_callback", "safe_callback", "direct_callback", "future_member",
                    "remote_callback", "remote_future"}
  BY DEF Way
<1>2. ASSUME NEW n \in DOMAIN Way
      PROVE  /\ Way[n].answer \in {"future", "callback", "direct"}
             /\ Way[n].guarded => Way[n].answer # "direct"
             /\ Way[n].executor \in {"pool", "remote"} => Way[n].answer # "direct"
             /\ Way[n].answer = "direct" => n \in {"unsafe_callback", "direct_callback"}
  <2>1. CASE n = "unsafe_callback"
    BY <2>1 DEF Way, Posting, UnsafeCallback
  <2>2. CASE n = "direct_callback"
    BY <2>2 DEF Way, Posting, DirectCallback
  <2>3. CASE n \in {"post_callback", "callback_continuation", "safe_callback", "remote_callback",
                    "call_callback", "callback_member"}
    <3>1. /\ Way["post_callback"] = PostCallback
          /\ Way["callback_continuation"] = PostCallbackContinuation
          /\ Way["safe_callback"] = SafeCallback
          /\ Way["remote_callback"] = RemoteCallback
          /\ Way["call_callback"] = CallCallback
          /\ Way["callback_member"] = PostCallbackMember
      BY DEF Way
    <3>2. /\ PostCallback.answer = "callback" /\ SafeCallback.answer = "callback"
          /\ CallCallback.answer = "callback" /\ PostCallbackMember.answer = "callback"
      BY DEF Posting, PostCallback, SafeCallback, CallCallback, PostCallbackMember
    <3>3. /\ PostCallbackContinuation.answer = "callback" /\ RemoteCallback.answer = "callback"
      BY DEF Posting, PostCallback, PostCallbackContinuation, RemoteCallback
    <3> QED
      BY <2>3, <3>1, <3>2, <3>3
  <2>4. CASE n \in {"post_future", "future_continuation", "post_self", "future_member",
                    "remote_future"}
    <3>1. /\ Way["post_future"] = PostFuture
          /\ Way["future_continuation"] = PostFutureContinuation
          /\ Way["post_self"] = PostSelf
          /\ Way["future_member"] = FutureMember
          /\ Way["remote_future"] = RemoteFuture
      BY DEF Way
    <3>2. /\ PostFuture.answer = "future" /\ PostSelf.answer = "future"
          /\ FutureMember.answer = "future"
      BY DEF Posting, PostFuture, PostSelf, FutureMember
    <3>3. /\ PostFutureContinuation.answer = "future" /\ RemoteFuture.answer = "future"
      BY DEF Posting, PostFuture, PostFutureContinuation, RemoteFuture
    <3> QED
      BY <2>4, <3>1, <3>2, <3>3
  <2> QED
    BY <1>1, <2>1, <2>2, <2>3, <2>4
<1>3. /\ Way["future_member"].answer = "future" /\ Way["future_member"].executor = "S"
      /\ Way["post_self"].executor = "S"
      /\ Way["direct_callback"].answer = "direct" /\ Way["direct_callback"].executor = "S"
      /\ Way["unsafe_callback"].checked = FALSE
  BY DEF Way, Posting, FutureMember, PostSelf, DirectCallback, UnsafeCallback
<1> QED
  BY <1>1, <1>2, <1>3

\* Appending an element that a sequence does not have.
LEMMA AppendNew ==
  ASSUME NEW S, NEW q \in Seq(S), NEW x \in S, NoneTwice(q), ~Within(x, q)
  PROVE  /\ Append(q, x) \in Seq(S)
         /\ NoneTwice(Append(q, x))
         /\ \A j : Within(j, Append(q, x)) <=> Within(j, q) \/ j = x
<1>1. /\ Append(q, x) \in Seq(S)
      /\ DOMAIN Append(q, x) = 1 .. Len(q) + 1
      /\ \A i \in 1 .. Len(q) : Append(q, x)[i] = q[i]
      /\ Append(q, x)[Len(q) + 1] = x
      /\ DOMAIN q = 1 .. Len(q)
      /\ Len(q) \in Nat
  OBVIOUS
<1> DEFINE r == Append(q, x)
<1> HIDE DEF r
<1>2. NoneTwice(r)
  BY <1>1 DEF NoneTwice, Within, r
<1>3. ASSUME NEW j
      PROVE  Within(j, r) <=> Within(j, q) \/ j = x
  BY <1>1 DEF Within, r
<1> QED
  BY <1>1, <1>2, <1>3 DEF r

\* Taking the first element of a sequence.
LEMMA TakeFirst ==
  ASSUME NEW S, NEW q \in Seq(S), q # <<>>, NoneTwice(q)
  PROVE  /\ Head(q) \in S /\ Tail(q) \in Seq(S)
         /\ Within(Head(q), q)
         /\ NoneTwice(Tail(q))
         /\ \A j : Within(j, Tail(q)) <=> Within(j, q) /\ j # Head(q)
<1>1. /\ Tail(q) \in Seq(S) /\ Head(q) \in S /\ Head(q) = q[1]
      /\ Len(q) \in Nat /\ Len(q) > 0
      /\ DOMAIN q = 1 .. Len(q)
      /\ DOMAIN Tail(q) = 1 .. Len(q) - 1
      /\ \A i \in 1 .. Len(q) - 1 : Tail(q)[i] = q[i + 1]
  OBVIOUS
<1> DEFINE r == Tail(q)
<1> HIDE DEF r
<1>2. NoneTwice(r)
  BY <1>1 DEF NoneTwice, r
<1>3. Within(q[1], q)
  BY <1>1 DEF Within
<1>4. ASSUME NEW j
      PROVE  Within(j, r) <=> Within(j, q) /\ j # q[1]
  <2>1. ASSUME Within(j, r)
        PROVE  Within(j, q) /\ j # q[1]
    <3>1. PICK i \in 1 .. Len(q) - 1 : r[i] = j
      BY <1>1, <2>1 DEF Within, r
    <3>2. q[i + 1] = j /\ i + 1 \in DOMAIN q /\ i + 1 # 1 /\ 1 \in DOMAIN q
      BY <1>1, <3>1 DEF r
    <3> QED
      BY <3>2 DEF Within, NoneTwice
  <2>2. ASSUME Within(j, q), j # q[1]
        PROVE  Within(j, r)
    <3>1. PICK i \in 1 .. Len(q) : q[i] = j
      BY <1>1, <2>2 DEF Within
    <3>2. i - 1 \in 1 .. Len(q) - 1 /\ r[i - 1] = q[i]
      BY <1>1, <2>2, <3>1 DEF r
    <3> QED
      BY <1>1, <3>1, <3>2 DEF Within, r
  <2> QED
    BY <2>1, <2>2
<1> QED
  BY <1>1, <1>2, <1>3, <1>4 DEF r

\* The jobs of each world are jobs.
LEMMA JobsOfWorlds ==
  /\ \A w \in Worlds : JobsOf(w) \subseteq Jobs
  /\ JobsOf("S") = {<<"create", None>>} \cup ({"member", "self", "callback"} \X Tasks)
                     \cup ({"delete"} \X Clients)
  /\ JobsOf("L") = ({"task"} \X Tasks) \cup {<<"delete", "S">>}
BY DEF JobsOf, Jobs, Worlds

\* A sequence over a set is one over a larger set.
LEMMA SeqOfMore ==
  ASSUME NEW S, NEW T, S \subseteq T, NEW q \in Seq(S)
  PROVE  q \in Seq(T)
OBVIOUS

\* A job is posted, and popped.
Posted(q, w, x) == [q EXCEPT ![w] = Append(@, x)]
First(q, w) == [q EXCEPT ![w] = Tail(@)]

\* Posting a new job to world w.
LEMMA Posts ==
  ASSUME NEW q, Good(q), NEW w \in Worlds, NEW x \in JobsOf(w), ~Within(x, q[w])
  PROVE  /\ Good(Posted(q, w, x))
         /\ \A v \in Worlds : v # w => Posted(q, w, x)[v] = q[v]
         /\ \A j : Within(j, Posted(q, w, x)[w]) <=> Within(j, q[w]) \/ j = x
<1> DEFINE r == Posted(q, w, x)
<1>1. /\ q \in [Worlds -> Seq(Jobs)]
      /\ \A v \in Worlds : q[v] \in Seq(JobsOf(v)) /\ NoneTwice(q[v])
      /\ r[w] = Append(q[w], x)
      /\ \A v \in Worlds : v # w => r[v] = q[v]
  BY DEF Good, Posted
<1>2. /\ r[w] \in Seq(JobsOf(w)) /\ NoneTwice(r[w])
      /\ \A j : Within(j, r[w]) <=> Within(j, q[w]) \/ j = x
  BY <1>1, AppendNew
<1>3. r \in [Worlds -> Seq(Jobs)]
  BY <1>1, <1>2, JobsOfWorlds, SeqOfMore DEF Posted
<1> HIDE DEF r
<1>4. Good(r)
  BY <1>1, <1>2, <1>3 DEF Good
<1> QED
  BY <1>1, <1>2, <1>4 DEF r

\* Popping the first job of world w.
LEMMA PopsFirst ==
  ASSUME NEW q, Good(q), NEW w \in Worlds, q[w] # <<>>
  PROVE  /\ Good(First(q, w))
         /\ Head(q[w]) \in JobsOf(w) /\ Head(q[w]) \in Jobs
         /\ Within(Head(q[w]), q[w])
         /\ \A v \in Worlds : v # w => First(q, w)[v] = q[v]
         /\ \A j : Within(j, First(q, w)[w]) <=> Within(j, q[w]) /\ j # Head(q[w])
<1> DEFINE r == First(q, w)
<1>1. /\ q \in [Worlds -> Seq(Jobs)]
      /\ \A v \in Worlds : q[v] \in Seq(JobsOf(v)) /\ NoneTwice(q[v])
      /\ r[w] = Tail(q[w])
      /\ \A v \in Worlds : v # w => r[v] = q[v]
  BY DEF Good, First
<1>2. /\ Head(q[w]) \in JobsOf(w) /\ Within(Head(q[w]), q[w])
      /\ r[w] \in Seq(JobsOf(w)) /\ NoneTwice(r[w])
      /\ \A j : Within(j, r[w]) <=> Within(j, q[w]) /\ j # Head(q[w])
  BY <1>1, TakeFirst
<1>3. r \in [Worlds -> Seq(Jobs)]
  BY <1>1, <1>2, JobsOfWorlds, SeqOfMore DEF First
<1> HIDE DEF r
<1>4. Good(r)
  BY <1>1, <1>2, <1>3 DEF Good
<1> QED
  BY <1>1, <1>2, <1>4, JobsOfWorlds DEF r

\* Queued, in terms of Within.
LEMMA QueuedIsWithin ==
  \A w, j : /\ Queued(w, j) <=> Within(j, queue[w])
            /\ Queued(w, j)' <=> Within(j, queue'[w])
BY DEF Queued, Within

\* Who holds S, and who holds L, before and after a step.
LEMMA HeldParts ==
  /\ Held("S") <=>
       \/ \E c \in Clients : \/ client[c] = "ready"
                             \/ Within(<<"delete", c>>, queue["S"])
                             \/ cur["S"] = <<"delete", c>>
       \/ \E t \in Tasks : \/ Within(<<"member", t>>, queue["S"])
                           \/ cur["S"] = <<"member", t>>
                           \/ /\ way[t] = "future_member"
                              /\ \/ Within(<<"self", t>>, queue["S"])
                                 \/ cur["S"] = <<"self", t>>
       \/ /\ made = "set"
          /\ \/ Within(<<"create", None>>, queue["S"])
             \/ cur["S"] = <<"create", None>>
             \/ \E c \in Clients : client[c] \in {"creating", "timedout"}
  /\ Held("S")' <=>
       \/ \E c \in Clients : \/ client'[c] = "ready"
                             \/ Within(<<"delete", c>>, queue'["S"])
                             \/ cur'["S"] = <<"delete", c>>
       \/ \E t \in Tasks : \/ Within(<<"member", t>>, queue'["S"])
                           \/ cur'["S"] = <<"member", t>>
                           \/ /\ way'[t] = "future_member"
                              /\ \/ Within(<<"self", t>>, queue'["S"])
                                 \/ cur'["S"] = <<"self", t>>
       \/ /\ made' = "set"
          /\ \/ Within(<<"create", None>>, queue'["S"])
             \/ cur'["S"] = <<"create", None>>
             \/ \E c \in Clients : client'[c] \in {"creating", "timedout"}
BY DEF Held, InWorld, Queued, Within

\* The same for L.
LEMMA HeldLow ==
  /\ Held("L") <=>
       \/ owns \/ Within(<<"delete", "S">>, queue["L"]) \/ cur["L"] = <<"delete", "S">>
       \/ \E t \in Tasks :
            /\ way[t] # None /\ Way[way[t]].holds
            /\ \/ Within(<<"task", t>>, queue["L"])
               \/ cur["L"] = <<"task", t>> /\ task[t] # "returned"
               \/ Within(<<"callback", t>>, queue["S"])
               \/ cur["S"] = <<"callback", t>>
  /\ Held("L")' <=>
       \/ owns' \/ Within(<<"delete", "S">>, queue'["L"]) \/ cur'["L"] = <<"delete", "S">>
       \/ \E t \in Tasks :
            /\ way'[t] # None /\ Way[way'[t]].holds
            /\ \/ Within(<<"task", t>>, queue'["L"])
               \/ cur'["L"] = <<"task", t>> /\ task'[t] # "returned"
               \/ Within(<<"callback", t>>, queue'["S"])
               \/ cur'["S"] = <<"callback", t>>
BY DEF Held, HoldsLow, InWorld, Queued, Within

\* A job that a thread pops is still in its world.
LEMMA PoppedStays ==
  ASSUME NEW w \in Worlds, cur[w] = None, queue[w] # <<>>, cur'[w] = Head(queue[w]),
         Within(Head(queue[w]), queue[w]),
         \A j : Within(j, queue'[w]) <=> Within(j, queue[w]) /\ j # Head(queue[w])
  PROVE  \A j \in Jobs : InWorld(w, j)' <=> InWorld(w, j)
<1>1. \A j : j \in Jobs => j # None
  BY NoneAssumption
<1>2. /\ \A j : InWorld(w, j) <=> Within(j, queue[w]) \/ cur[w] = j
      /\ \A j : InWorld(w, j)' <=> Within(j, queue'[w]) \/ cur'[w] = j
  BY DEF InWorld, Queued, Within
<1> QED
  BY <1>1, <1>2

\* S is held by its clients and by the jobs in its world.
LEMMA HoldersKept ==
  ASSUME UNCHANGED <<client, way, made>>
  PROVE  /\ (\A j \in Jobs : InWorld("S", j) => InWorld("S", j)') => (Held("S") => Held("S")')
         /\ (\A j \in Jobs : InWorld("S", j)' => InWorld("S", j)) => (Held("S")' => Held("S"))
<1>1. /\ <<"create", None>> \in Jobs
      /\ \A c \in Clients : <<"delete", c>> \in Jobs
      /\ \A t \in Tasks : <<"member", t>> \in Jobs /\ <<"self", t>> \in Jobs
  BY DEF Jobs
<1> QED
  BY <1>1 DEF Held

\* L is held by S and by the functors that have a shared_ptr to it.
LEMMA LowHoldersKept ==
  ASSUME UNCHANGED <<owns, way>>,
         \A j \in Jobs : InWorld("S", j) => InWorld("S", j)',
         \A j \in Jobs : InWorld("L", j) => InWorld("L", j)',
         \A t \in Tasks : task'[t] = "returned"
                           => task[t] = "returned" /\ ~Queued("L", <<"task", t>>)
  PROVE  /\ NoneCarried' <=> NoneCarried
         /\ Held("L") => Held("L")'
<1>1. /\ <<"delete", "S">> \in Jobs
      /\ \A t \in Tasks : <<"task", t>> \in Jobs /\ <<"callback", t>> \in Jobs
  BY DEF Jobs
<1>2. NoneCarried' <=> NoneCarried
  BY DEF NoneCarried
<1>3. ASSUME NEW t \in Tasks, HoldsLow(t)
      PROVE  HoldsLow(t)'
  BY <1>1, <1>3 DEF HoldsLow, InWorld
<1> QED
  BY <1>1, <1>2, <1>3 DEF Held

-----------------------------------------------------------------------------
(* The steps of the clients                                                *)

\* The first client posts the constructor of S into an empty queue.
LEMMA CreateKeeps ==
  ASSUME IInv, NEW c \in Clients, Create(c)
  PROVE  IInv'
<1> DEFINE x == <<"create", None>>
<1>1. /\ \A d \in Clients : client[d] = "new"
      /\ client' = [client EXCEPT ![c] = "creating"]
      /\ queue' = Posted(queue, "S", x)
      /\ UNCHANGED <<cur, life, diedIn, owns, made, stopped, way, task, future, callbacks,
                     interrupted>>
  BY DEF Create, tasks, Posted
<1>2. made = "empty" /\ queue["S"] = <<>>
  BY <1>1 DEF IInv, BirthInv
<1>3. Good(queue) /\ x \in JobsOf("S") /\ ~Within(x, queue["S"])
  BY <1>2, JobsOfWorlds DEF IInv, WorldType, Within
<1>4. /\ Good(queue') /\ queue'["L"] = queue["L"]
      /\ \A j : Within(j, queue'["S"]) <=> Within(j, queue["S"]) \/ j = x
  BY <1>1, <1>3, Posts DEF Worlds
<1>5. TypeOK'
  BY <1>1, <1>4 DEF IInv, TypeOK, Good
<1>6. WorldType'
  BY <1>1, <1>4 DEF IInv, WorldType
<1>7. QueueInv'
  BY <1>1, <1>4 DEF IInv, QueueInv, TypeOK, Worlds
<1>8. TaskInv'
  BY <1>1 DEF IInv, TaskInv
<1>9. BirthInv'
  <2>1. queue'["S"] = <<x>>
    BY <1>1, <1>2, <1>3 DEF Good, Posted, Worlds
  <2> QED
    BY <1>1, <1>2, <1>4, <2>1 DEF IInv, BirthInv, TypeOK, Worlds
<1>10. DeathInv'
  BY <1>1, <1>2, <1>4, HeldParts DEF IInv, DeathInv, BirthInv, TypeOK, Worlds
<1>11. OwnerInv'
  BY <1>1, <1>4 DEF IInv, OwnerInv, TypeOK, Worlds
<1>12. LowInv'
  BY <1>1, <1>4, HeldLow DEF IInv, LowInv, NoneCarried, TypeOK, Worlds
<1> QED
  BY <1>5, <1>6, <1>7, <1>8, <1>9, <1>10, <1>11, <1>12 DEF IInv

\* The client that waited takes the proxy, which holds S from now on.
LEMMA CreatedKeeps ==
  ASSUME IInv, NEW c \in Clients, Created(c)
  PROVE  IInv'
<1>1. /\ client[c] = "creating" /\ made \in {"set", "failed"}
      /\ client' = [client EXCEPT ![c] = IF made = "set" THEN "ready" ELSE "leaving"]
      /\ made' = IF made = "set" THEN "taken" ELSE made
      /\ UNCHANGED <<queue, cur, life, diedIn, owns, stopped, way, task, future, callbacks,
                     interrupted>>
  BY DEF Created, tasks
<1>2. TypeOK'
  BY <1>1 DEF IInv, TypeOK, Good
<1>3. WorldType'
  BY <1>1 DEF IInv, WorldType, Worlds
<1>4. QueueInv'
  BY <1>1 DEF IInv, QueueInv, TypeOK, Worlds
<1>5. TaskInv'
  BY <1>1 DEF IInv, TaskInv, TypeOK
<1>6. BirthInv'
  BY <1>1 DEF IInv, BirthInv, TypeOK, Worlds
<1>7. DeathInv'
  BY <1>1, HeldParts DEF IInv, DeathInv, BirthInv, TypeOK, Worlds
<1>8. OwnerInv'
  BY <1>1 DEF IInv, OwnerInv, TypeOK, Worlds
<1>9. LowInv'
  BY <1>1, HeldLow DEF IInv, LowInv, NoneCarried, TypeOK, Worlds
<1> QED
  BY <1>2, <1>3, <1>4, <1>5, <1>6, <1>7, <1>8, <1>9 DEF IInv

\* A client gives up before the constructor has run.
LEMMA TimeOutKeeps ==
  ASSUME IInv, NEW c \in Clients, TimeOut(c)
  PROVE  IInv'
<1>1. /\ client[c] = "creating" /\ made = "empty"
      /\ client' = [client EXCEPT ![c] = "timedout"]
      /\ UNCHANGED <<queue, cur, life, diedIn, owns, made, stopped, way, task, future, callbacks,
                     interrupted>>
  BY DEF TimeOut, tasks, worlds
<1>2. TypeOK'
  BY <1>1 DEF IInv, TypeOK, Good
<1>3. WorldType'
  BY <1>1 DEF IInv, WorldType, Worlds
<1>4. QueueInv'
  BY <1>1 DEF IInv, QueueInv, TypeOK, Worlds
<1>5. TaskInv'
  BY <1>1 DEF IInv, TaskInv, TypeOK
<1>6. BirthInv'
  BY <1>1 DEF IInv, BirthInv, TypeOK, Worlds
<1>7. DeathInv'
  BY <1>1, HeldParts DEF IInv, DeathInv, BirthInv, TypeOK, Worlds
<1>8. OwnerInv'
  BY <1>1 DEF IInv, OwnerInv, TypeOK, Worlds
<1>9. LowInv'
  BY <1>1, HeldLow DEF IInv, LowInv, NoneCarried, TypeOK, Worlds
<1> QED
  BY <1>2, <1>3, <1>4, <1>5, <1>6, <1>7, <1>8, <1>9 DEF IInv

\* A second client holds S.
LEMMA CopyKeeps ==
  ASSUME IInv, NEW c \in Clients, NEW d \in Clients, Copy(c, d)
  PROVE  IInv'
<1>1. /\ client[c] = "ready" /\ client[d] = "new"
      /\ client' = [client EXCEPT ![d] = "ready"]
      /\ UNCHANGED <<queue, cur, life, diedIn, owns, made, stopped, way, task, future, callbacks,
                     interrupted>>
  BY DEF Copy, tasks, worlds
<1>2. TypeOK'
  BY <1>1 DEF IInv, TypeOK, Good
<1>3. WorldType'
  BY <1>1 DEF IInv, WorldType, Worlds
<1>4. QueueInv'
  BY <1>1 DEF IInv, QueueInv, TypeOK, Worlds
<1>5. TaskInv'
  BY <1>1 DEF IInv, TaskInv, TypeOK
<1>6. BirthInv'
  BY <1>1 DEF IInv, BirthInv, TypeOK, Worlds
<1>7. DeathInv'
  BY <1>1, HeldParts DEF IInv, DeathInv, BirthInv, TypeOK, Worlds
<1>8. OwnerInv'
  BY <1>1 DEF IInv, OwnerInv, TypeOK, Worlds
<1>9. LowInv'
  BY <1>1, HeldLow DEF IInv, LowInv, NoneCarried, TypeOK, Worlds
<1> QED
  BY <1>2, <1>3, <1>4, <1>5, <1>6, <1>7, <1>8, <1>9 DEF IInv

\* A client that has posted its deleter holds nothing.
LEMMA ReleaseKeeps ==
  ASSUME IInv, NEW c \in Clients, Release(c)
  PROVE  IInv'
<1>1. /\ client[c] = "leaving"
      /\ client' = [client EXCEPT ![c] = "gone"]
      /\ UNCHANGED <<queue, cur, life, diedIn, owns, made, stopped, way, task, future, callbacks,
                     interrupted>>
  BY DEF Release, tasks, worlds
<1>2. TypeOK'
  BY <1>1 DEF IInv, TypeOK, Good
<1>3. WorldType'
  BY <1>1 DEF IInv, WorldType, Worlds
<1>4. QueueInv'
  BY <1>1 DEF IInv, QueueInv, TypeOK, Worlds
<1>5. TaskInv'
  BY <1>1 DEF IInv, TaskInv, TypeOK
<1>6. BirthInv'
  BY <1>1 DEF IInv, BirthInv, TypeOK, Worlds
<1>7. DeathInv'
  BY <1>1, HeldParts DEF IInv, DeathInv, BirthInv, TypeOK, Worlds
<1>8. OwnerInv'
  BY <1>1 DEF IInv, OwnerInv, TypeOK, Worlds
<1>9. LowInv'
  BY <1>1, HeldLow DEF IInv, LowInv, NoneCarried, TypeOK, Worlds
<1> QED
  BY <1>2, <1>3, <1>4, <1>5, <1>6, <1>7, <1>8, <1>9 DEF IInv

\* The promise goes: if it was set, the client was the last to hold S.
LEMMA UnwindKeeps ==
  ASSUME IInv, NEW c \in Clients, Unwind(c)
  PROVE  IInv'
<1>1. /\ client[c] = "timedout"
      /\ client' = [client EXCEPT ![c] = "leaving"]
      /\ UNCHANGED <<queue, cur, owns, made, stopped, way, task, future, callbacks, interrupted>>
  BY DEF Unwind, tasks
<1>2. \A w \in Worlds :
        LET dies == life[w] = "alive" /\ ~Held(w)' IN
        /\ life'[w] = IF ~dies THEN life[w] ELSE IF w = "S" THEN "dying" ELSE "dead"
        /\ diedIn'[w] = IF dies THEN "client" ELSE diedIn[w]
  BY DEF Unwind, DestroyedBy
<1>3. life' \in [Worlds -> {"unborn", "alive", "dying", "closing", "joining", "dead"}]
      /\ diedIn' \in [Worlds -> Worlds \cup {"client", None}]
  BY DEF Unwind, DestroyedBy, IInv, TypeOK
<1>4. TypeOK'
  BY <1>1, <1>2, <1>3 DEF IInv, TypeOK, Good
<1>5. WorldType'
  BY <1>1, <1>2, <1>3 DEF IInv, WorldType, Worlds
<1>6. QueueInv'
  BY <1>1, <1>2, <1>3 DEF IInv, QueueInv, TypeOK, Worlds
<1>7. TaskInv'
  BY <1>1, <1>2, <1>3 DEF IInv, TaskInv, TypeOK
<1>8. BirthInv'
  BY <1>1, <1>2, <1>3 DEF IInv, BirthInv, TypeOK, Worlds
<1>9. DeathInv'
  BY <1>1, <1>2, <1>3, HeldParts DEF IInv, DeathInv, BirthInv, TypeOK, Worlds
<1>10. OwnerInv'
  BY <1>1, <1>2, <1>3 DEF IInv, OwnerInv, TypeOK, Worlds
<1>11. LowInv'
  BY <1>1, <1>2, <1>3, HeldLow DEF IInv, LowInv, NoneCarried, TypeOK, Worlds
<1> QED
  BY <1>4, <1>5, <1>6, <1>7, <1>8, <1>9, <1>10, <1>11 DEF IInv

\* The job of the member holds S.
LEMMA CallKeeps ==
  ASSUME IInv, NEW c \in Clients, NEW t \in Tasks, Call(c, t)
  PROVE  IInv'
<1> DEFINE x == <<"member", t>>
<1>1. /\ client[c] = "ready" /\ task[t] = "new"
      /\ task' = [task EXCEPT ![t] = "called"]
      /\ queue' = Posted(queue, "S", x)
      /\ UNCHANGED <<cur, life, diedIn, owns, client, made, stopped, way, future, callbacks,
                     interrupted>>
  BY DEF Call, Posted
<1>2. Good(queue) /\ x \in JobsOf("S") /\ ~Within(x, queue["S"])
  BY <1>1, JobsOfWorlds DEF IInv, WorldType, QueueInv, TaskInv
<1>3. /\ Good(queue') /\ queue'["L"] = queue["L"]
      /\ \A j : Within(j, queue'["S"]) <=> Within(j, queue["S"]) \/ j = x
  BY <1>1, <1>2, Posts DEF Worlds
<1>4. TypeOK'
  BY <1>1, <1>3 DEF IInv, TypeOK, Good
<1>5. WorldType'
  BY <1>1, <1>3 DEF IInv, WorldType, Worlds
<1>6. QueueInv'
  BY <1>1, <1>3 DEF IInv, QueueInv, TypeOK, Worlds
<1>7. TaskInv'
  BY <1>1, <1>3 DEF IInv, TaskInv, TypeOK
<1>8. BirthInv'
  <2>1. made = "taken"
    BY <1>1 DEF IInv, BirthInv
  <2> QED
    BY <1>1, <1>3, <2>1 DEF IInv, BirthInv, TypeOK, Worlds
<1>9. DeathInv'
  BY <1>1, <1>3, HeldParts DEF IInv, DeathInv, BirthInv, TypeOK, Worlds
<1>10. OwnerInv'
  BY <1>1, <1>3 DEF IInv, OwnerInv, TypeOK, Worlds
<1>11. LowInv'
  BY <1>1, <1>3, HeldLow DEF IInv, LowInv, NoneCarried, TypeOK, Worlds
<1> QED
  BY <1>4, <1>5, <1>6, <1>7, <1>8, <1>9, <1>10, <1>11 DEF IInv

\* So does that of a member with a future.
LEMMA CallFutureKeeps ==
  ASSUME IInv, NEW c \in Clients, NEW t \in Tasks, CallFuture(c, t)
  PROVE  IInv'
<1> DEFINE x == <<"self", t>>
<1>1. /\ client[c] = "ready" /\ task[t] = "new"
      /\ way' = [way EXCEPT ![t] = "future_member"]
      /\ task' = [task EXCEPT ![t] = "posted"]
      /\ future' = [future EXCEPT ![t] = "waiting"]
      /\ queue' = Posted(queue, "S", x)
      /\ UNCHANGED <<cur, life, diedIn, owns, client, made, stopped, callbacks, interrupted>>
  BY DEF CallFuture, PostedFuture, Posted
<1>2. Good(queue) /\ x \in JobsOf("S") /\ ~Within(x, queue["S"])
  BY <1>1, JobsOfWorlds DEF IInv, WorldType, QueueInv, TaskInv
<1>3. /\ Good(queue') /\ queue'["L"] = queue["L"]
      /\ \A j : Within(j, queue'["S"]) <=> Within(j, queue["S"]) \/ j = x
  BY <1>1, <1>2, Posts DEF Worlds
<1>4. /\ "future_member" \in DOMAIN Way /\ None # "future_member"
      /\ Way["future_member"].answer = "future" /\ Way["future_member"].executor = "S"
  BY WayFacts, NoneAssumption
<1>5. TypeOK'
  BY <1>1, <1>3, <1>4 DEF IInv, TypeOK, Good
<1>6. WorldType'
  BY <1>1, <1>3, <1>4 DEF IInv, WorldType, Worlds
<1>7. QueueInv'
  BY <1>1, <1>3, <1>4 DEF IInv, QueueInv, TypeOK, Worlds
<1>8. TaskInv'
  BY <1>1, <1>3, <1>4 DEF IInv, TaskInv, TypeOK
<1>9. BirthInv'
  <2>1. made = "taken"
    BY <1>1 DEF IInv, BirthInv
  <2> QED
    BY <1>1, <1>3, <2>1 DEF IInv, BirthInv, TypeOK, Worlds
<1>10. DeathInv'
  BY <1>1, <1>3, <1>4, HeldParts DEF IInv, DeathInv, BirthInv, TypeOK, Worlds
<1>11. OwnerInv'
  BY <1>1, <1>3, <1>4 DEF IInv, OwnerInv, TypeOK, Worlds
<1>12. LowInv'
  <2>1. way[t] = None
    BY <1>1 DEF IInv, TaskInv
  <2>2. NoneCarried' => NoneCarried
    BY <1>1, <2>1 DEF NoneCarried, IInv, TypeOK
  <2>3. Held("L") => Held("L")'
    BY <1>1, <1>3, <2>1, HeldLow DEF IInv, TypeOK
  <2> QED
    BY <1>1, <1>3, <2>2, <2>3 DEF IInv, LowInv, Worlds
<1> QED
  BY <1>5, <1>6, <1>7, <1>8, <1>9, <1>10, <1>11, <1>12 DEF IInv

\* The deleter takes over the shared_ptr of the proxy.
LEMMA DropKeeps ==
  ASSUME IInv, NEW c \in Clients, Drop(c)
  PROVE  IInv'
<1> DEFINE x == <<"delete", c>>
<1>1. /\ client[c] = "ready"
      /\ client' = [client EXCEPT ![c] = "leaving"]
      /\ queue' = Posted(queue, "S", x)
      /\ UNCHANGED <<cur, life, diedIn, owns, made, stopped, way, task, future, callbacks,
                     interrupted>>
  BY DEF Drop, tasks, Posted
<1>2. Good(queue) /\ x \in JobsOf("S") /\ ~Within(x, queue["S"])
  BY <1>1, JobsOfWorlds DEF IInv, WorldType, QueueInv, TaskInv
<1>3. /\ Good(queue') /\ queue'["L"] = queue["L"]
      /\ \A j : Within(j, queue'["S"]) <=> Within(j, queue["S"]) \/ j = x
  BY <1>1, <1>2, Posts DEF Worlds
<1>4. TypeOK'
  BY <1>1, <1>3 DEF IInv, TypeOK, Good
<1>5. WorldType'
  BY <1>1, <1>3 DEF IInv, WorldType, Worlds
<1>6. QueueInv'
  BY <1>1, <1>3 DEF IInv, QueueInv, TypeOK, Worlds
<1>7. TaskInv'
  BY <1>1, <1>3 DEF IInv, TaskInv, TypeOK
<1>8. BirthInv'
  <2>1. made = "taken"
    BY <1>1 DEF IInv, BirthInv
  <2> QED
    BY <1>1, <1>3, <2>1 DEF IInv, BirthInv, TypeOK, Worlds
<1>9. DeathInv'
  BY <1>1, <1>3, HeldParts DEF IInv, DeathInv, BirthInv, TypeOK, Worlds
<1>10. OwnerInv'
  BY <1>1, <1>3 DEF IInv, OwnerInv, TypeOK, Worlds
<1>11. LowInv'
  BY <1>1, <1>3, HeldLow DEF IInv, LowInv, NoneCarried, TypeOK, Worlds
<1> QED
  BY <1>4, <1>5, <1>6, <1>7, <1>8, <1>9, <1>10, <1>11 DEF IInv

-----------------------------------------------------------------------------
(* The threads of the worlds                                               *)

\* The constructor runs once, before any member.
LEMMA RunCreateKeeps ==
  ASSUME IInv, RunCreate
  PROVE  IInv'
<1> DEFINE x == <<"create", None>>
<1>1. /\ "S" \notin stopped /\ cur["S"] = None /\ queue["S"] # <<>>
      /\ diedIn["S"] = "S" => life["S"] = "dead"
      /\ cur' = [cur EXCEPT !["S"] = Head(queue["S"])]
      /\ Head(queue["S"])[1] = "create"
      /\ queue' = First(queue, "S")
      /\ \/ /\ made' = "set"
            /\ life' = [w \in Worlds |-> "alive"]
            /\ owns' = TRUE
         \/ made' = "failed" /\ UNCHANGED <<life, owns>>
      /\ UNCHANGED <<diedIn, client, stopped, way, task, future, callbacks, interrupted>>
  BY DEF RunCreate, Pops, Popped, Idle, First, tasks
<1>2. Good(queue)
  BY DEF IInv, WorldType
<1>3. /\ Good(queue') /\ queue'["L"] = queue["L"]
      /\ Head(queue["S"]) \in JobsOf("S") /\ Head(queue["S"]) \in Jobs
      /\ Within(Head(queue["S"]), queue["S"])
      /\ \A j : Within(j, queue'["S"]) <=> Within(j, queue["S"]) /\ j # Head(queue["S"])
      /\ cur'["S"] = Head(queue["S"]) /\ cur'["L"] = cur["L"]
  <2>1. /\ Good(queue') /\ queue'["L"] = queue["L"]
        /\ Head(queue["S"]) \in JobsOf("S") /\ Head(queue["S"]) \in Jobs
        /\ Within(Head(queue["S"]), queue["S"])
        /\ \A j : Within(j, queue'["S"]) <=> Within(j, queue["S"]) /\ j # Head(queue["S"])
    BY <1>1, <1>2, PopsFirst DEF Worlds
  <2>2. cur \in [Worlds -> Jobs \cup {None}]
    BY DEF IInv, TypeOK
  <2> QED
    BY <1>1, <2>1, <2>2 DEF Worlds
<1>4. /\ Head(queue["S"]) = x
      /\ made = "empty" /\ queue["S"] = <<x>> /\ queue["L"] = <<>>
  BY <1>1, <1>3, JobsOfWorlds DEF IInv, BirthInv
<1>5. \A j : ~Within(j, queue'["S"])
  <2>1. \A j : Within(j, <<x>>) => j = x
    BY DEF Within
  <2> QED
    BY <1>3, <1>4, <2>1
<1>6. TypeOK'
  <2>1. /\ cur' \in [Worlds -> Jobs \cup {None}]
        /\ queue' \in [Worlds -> Seq(Jobs)]
    BY <1>1, <1>3 DEF IInv, TypeOK, Good
  <2>2. /\ life' \in [Worlds -> {"unborn", "alive", "dying", "closing", "joining", "dead"}]
        /\ made' \in {"empty", "set", "failed", "taken"}
        /\ owns' \in BOOLEAN
    BY <1>1 DEF IInv, TypeOK
  <2> QED
    BY <1>1, <2>1, <2>2 DEF IInv, TypeOK
<1>7. WorldType'
  BY <1>1, <1>3, <1>4, <1>5 DEF IInv, WorldType, Worlds
<1>8. QueueInv'
  BY <1>1, <1>3, <1>4, <1>5 DEF IInv, QueueInv, TypeOK, Worlds, BirthInv
<1>9. TaskInv'
  BY <1>1, <1>3, <1>4, <1>5 DEF IInv, TaskInv, TypeOK
<1>10. BirthInv'
  BY <1>1, <1>3, <1>4, <1>5 DEF IInv, BirthInv, TypeOK, Worlds
<1>11. DeathInv'
  <2>1. /\ life["S"] = "unborn" /\ diedIn["S"] # "client" /\ ~Held("S")
        /\ \A c \in Clients : client[c] # "ready"
    BY <1>4 DEF IInv, BirthInv, DeathInv, Worlds
  <2>2. cur'["S"] = x
    BY <1>1, <1>4 DEF IInv, TypeOK, Worlds
  <2>3. CASE made' = "set"
    <3>1. Held("S")'
      BY <2>2, <2>3, HeldParts
    <3>2. life'["S"] = "alive"
      BY <1>1, <2>3 DEF Worlds
    <3> QED
      BY <1>1, <2>1, <3>1, <3>2 DEF IInv, DeathInv
  <2>4. CASE made' = "failed"
    <3>1. /\ \A c \in Clients : cur'["S"] # <<"delete", c>>
          /\ \A t \in Tasks : cur'["S"] # <<"member", t>> /\ cur'["S"] # <<"self", t>>
      BY <2>2
    <3>2. \A c \in Clients : client'[c] # "ready"
      BY <1>1, <2>1
    <3>3. ~Held("S")'
      BY <1>5, <2>4, <3>1, <3>2, HeldParts
    <3> QED
      BY <1>1, <2>1, <2>4, <3>3 DEF IInv, DeathInv
  <2> QED
    BY <1>1, <2>3, <2>4
<1>12. OwnerInv'
  BY <1>1, <1>3, <1>4, <1>5 DEF IInv, OwnerInv, TypeOK, Worlds, BirthInv
<1>13. LowInv'
  BY <1>1, <1>3, <1>4, <1>5, HeldLow DEF IInv, LowInv, NoneCarried, TypeOK, Worlds, BirthInv
<1> QED
  BY <1>6, <1>7, <1>8, <1>9, <1>10, <1>11, <1>12, <1>13 DEF IInv

\* A member of S runs while S is alive, and posts its task.
LEMMA RunMemberKeeps ==
  ASSUME IInv, NEW t \in Tasks, RunMember(t)
  PROVE  IInv'
<1> DEFINE m == <<"member", t>>
<1>1. /\ "S" \notin stopped /\ cur["S"] = None /\ queue["S"] # <<>>
      /\ diedIn["S"] = "S" => life["S"] = "dead"
      /\ cur' = [cur EXCEPT !["S"] = Head(queue["S"])]
      /\ Head(queue["S"])[1] = "member" /\ Head(queue["S"])[2] = t
      /\ UNCHANGED <<life, diedIn, owns, client, made, stopped, interrupted>>
  BY DEF RunMember, Pops, Idle
<1>2. Good(queue)
  BY DEF IInv, WorldType
<1>3. /\ Good(First(queue, "S")) /\ First(queue, "S")["L"] = queue["L"]
      /\ Head(queue["S"]) \in JobsOf("S") /\ Head(queue["S"]) \in Jobs
      /\ Within(Head(queue["S"]), queue["S"])
      /\ \A j : Within(j, First(queue, "S")["S"])
               <=> Within(j, queue["S"]) /\ j # Head(queue["S"])
  BY <1>1, <1>2, PopsFirst DEF Worlds
<1>4. /\ Head(queue["S"]) = m
      /\ task[t] = "called" /\ way[t] = None /\ callbacks[t] = 0
  <2>1. Head(queue["S"]) = m
    BY <1>1, <1>3, JobsOfWorlds
  <2> QED
    BY <1>3, <2>1 DEF IInv, QueueInv, TaskInv
<1>5. life["S"] = "alive" /\ owns /\ made \notin {"empty", "failed"}
  BY <1>3, <1>4, HeldParts DEF IInv, DeathInv, OwnerInv, BirthInv, Worlds
<1>6. made = "taken" /\ "L" \notin stopped
  BY <1>4, <1>5 DEF IInv, BirthInv, OwnerInv
<1>7. PICK name \in Ways[t] \ {"future_member"} :
        /\ way' = [way EXCEPT ![t] = name]
        /\ queue' = CASE Way[name].executor = "L" -> Posted(First(queue, "S"), "L", <<"task", t>>)
                      [] name = "post_self" -> Posted(First(queue, "S"), "S", <<"self", t>>)
                      [] OTHER -> First(queue, "S")
        /\ \/ Way[name].answer = "future" /\ PostedFuture(t)
           \/ Way[name].answer = "callback" /\ PostedCallback(t)
           \/ name = "unsafe_callback" /\ PostedCallback(t)
           \/ name = "direct_callback" /\ CalledInPlace(t)
  BY DEF RunMember, Popped, First, Posted
<1>8. /\ name \in DOMAIN Way /\ name # None /\ name # "future_member"
      /\ name \in {"post_self", "direct_callback"} => Way[name].executor = "S"
  BY <1>7, WayFacts, WaysAssumption, NoneAssumption
<1>9. /\ Good(queue')
      /\ \A j : Within(j, queue'["S"]) <=>
           \/ Within(j, queue["S"]) /\ j # m
           \/ name = "post_self" /\ j = <<"self", t>>
      /\ \A j : Within(j, queue'["L"]) <=>
           \/ Within(j, queue["L"])
           \/ Way[name].executor = "L" /\ j = <<"task", t>>
  <2>1. /\ <<"task", t>> \in JobsOf("L") /\ <<"self", t>> \in JobsOf("S")
        /\ ~Within(<<"task", t>>, First(queue, "S")["L"])
        /\ ~Within(<<"self", t>>, First(queue, "S")["S"])
    BY <1>3, <1>4, JobsOfWorlds DEF IInv, QueueInv
  <2>2. CASE Way[name].executor = "L"
    <3>1. name # "post_self" /\ queue' = Posted(First(queue, "S"), "L", <<"task", t>>)
      BY <1>7, <1>8, <2>2
    <3> QED
      BY <1>3, <1>4, <2>1, <2>2, <3>1, Posts DEF Worlds
  <2>3. CASE name = "post_self"
    <3>1. Way[name].executor # "L" /\ queue' = Posted(First(queue, "S"), "S", <<"self", t>>)
      BY <1>7, <1>8, <2>3
    <3>2. /\ Good(queue') /\ queue'["L"] = First(queue, "S")["L"]
          /\ \A j : Within(j, queue'["S"]) <=> Within(j, First(queue, "S")["S"]) \/ j = <<"self", t>>
      BY <1>3, <2>1, <3>1, Posts DEF Worlds
    <3> QED
      BY <1>3, <1>4, <2>3, <3>1, <3>2
  <2>4. CASE Way[name].executor # "L" /\ name # "post_self"
    <3>1. queue' = First(queue, "S")
      BY <1>7, <2>4
    <3> QED
      BY <1>3, <1>4, <2>4, <3>1
  <2> QED
    BY <2>2, <2>3, <2>4
<1>10. /\ task' \in [Tasks -> {"new", "called", "posted", "running", "continued", "ran", "locked",
                              "returned", "done", "skipped", "dropped"}]
       /\ future' \in [Tasks -> {"waiting", "ready", "broken", None}]
       /\ callbacks' \in [Tasks -> 0 .. 2]
       /\ \A u \in Tasks : u # t => /\ task'[u] = task[u]
                                   /\ callbacks'[u] = callbacks[u]
                                   /\ way'[u] = way[u]
       /\ way'[t] = name /\ way' \in [Tasks -> DOMAIN Way \cup {None}]
       /\ IF name = "direct_callback" THEN task'[t] = "done"
                                      ELSE task'[t] = "posted" /\ callbacks'[t] = 0
  <2>1. /\ task \in [Tasks -> {"new", "called", "posted", "running", "continued", "ran", "locked",
                           "returned", "done", "skipped", "dropped"}]
        /\ future \in [Tasks -> {"waiting", "ready", "broken", None}]
        /\ callbacks \in [Tasks -> 0 .. 2]
        /\ way \in [Tasks -> DOMAIN Way \cup {None}]
    BY DEF IInv, TypeOK
  <2>2. \/ /\ name = "direct_callback"
           /\ task' = [task EXCEPT ![t] = "done"]
           /\ callbacks' = [callbacks EXCEPT ![t] = @ + 1]
           /\ UNCHANGED future
        \/ /\ name # "direct_callback"
           /\ task' = [task EXCEPT ![t] = "posted"]
           /\ future' \in {future, [future EXCEPT ![t] = "waiting"]}
           /\ UNCHANGED callbacks
    BY <1>7, <1>8, WayFacts DEF PostedFuture, PostedCallback, CalledInPlace
  <2> QED
    BY <1>4, <1>7, <1>8, <2>1, <2>2
<1>11. TypeOK'
  BY <1>1, <1>3, <1>9, <1>10 DEF IInv, TypeOK, Good
<1>12. WorldType'
  <2>1. \A w \in Worlds : cur'[w] \in JobsOf(w) \cup {None}
    BY <1>1, <1>3 DEF IInv, WorldType, TypeOK, Worlds
  <2> QED
    BY <1>1, <1>9, <2>1 DEF IInv, WorldType
<1>13. QueueInv'
  BY <1>1, <1>4, <1>8, <1>9, <1>10 DEF IInv, QueueInv
<1>14. TaskInv'
  BY <1>1, <1>4, <1>8, <1>10 DEF IInv, TaskInv, TypeOK, Worlds
<1>15. BirthInv'
  BY <1>1, <1>4, <1>5, <1>6, <1>8, <1>9, <1>10 DEF IInv, BirthInv, TypeOK, Worlds
<1>16. DeathInv'
  BY <1>1, <1>4, <1>5, <1>6, <1>8, <1>9, <1>10, HeldParts DEF IInv, DeathInv, BirthInv,
    TypeOK, Worlds
<1>17. OwnerInv'
  BY <1>1, <1>4, <1>5, <1>6, <1>8, <1>9, <1>10 DEF IInv, OwnerInv, TypeOK, Worlds
<1>18. LowInv'
  BY <1>1, <1>4, <1>5, <1>6, <1>8, <1>9, <1>10, HeldLow DEF IInv, LowInv, NoneCarried,
    TypeOK, Worlds
<1> QED
  BY <1>11, <1>12, <1>13, <1>14, <1>15, <1>16, <1>17, <1>18 DEF IInv

\* The callback of a task runs once.
LEMMA RunCallbackKeeps ==
  ASSUME IInv, NEW t \in Tasks, RunCallback(t)
  PROVE  IInv'
<1> DEFINE m == <<"callback", t>>
<1>1. /\ "S" \notin stopped /\ cur["S"] = None /\ queue["S"] # <<>>
      /\ diedIn["S"] = "S" => life["S"] = "dead"
      /\ cur' = [cur EXCEPT !["S"] = Head(queue["S"])]
      /\ Head(queue["S"])[1] = "callback" /\ Head(queue["S"])[2] = t
      /\ queue' = First(queue, "S")
      /\ \/ /\ task' = [task EXCEPT ![t] = "skipped"]
            /\ UNCHANGED callbacks
         \/ /\ task' = [task EXCEPT ![t] = "done"]
            /\ callbacks' = [callbacks EXCEPT ![t] = @ + 1]
      /\ UNCHANGED <<life, diedIn, owns, client, made, stopped, way, future, interrupted>>
  BY DEF RunCallback, Pops, Popped, Idle, First
<1>2. Good(queue)
  BY DEF IInv, WorldType
<1>3. /\ Good(queue') /\ queue'["L"] = queue["L"]
      /\ Head(queue["S"]) \in JobsOf("S") /\ Head(queue["S"]) \in Jobs
      /\ Within(Head(queue["S"]), queue["S"])
      /\ \A j : Within(j, queue'["S"]) <=> Within(j, queue["S"]) /\ j # Head(queue["S"])
      /\ cur'["S"] = Head(queue["S"]) /\ cur'["L"] = cur["L"]
  <2>1. /\ Good(queue') /\ queue'["L"] = queue["L"]
        /\ Head(queue["S"]) \in JobsOf("S") /\ Head(queue["S"]) \in Jobs
        /\ Within(Head(queue["S"]), queue["S"])
        /\ \A j : Within(j, queue'["S"]) <=> Within(j, queue["S"]) /\ j # Head(queue["S"])
    BY <1>1, <1>2, PopsFirst DEF Worlds
  <2>2. cur \in [Worlds -> Jobs \cup {None}]
    BY DEF IInv, TypeOK
  <2> QED
    BY <1>1, <2>1, <2>2 DEF Worlds
<1>4. /\ Head(queue["S"]) = m
      /\ task[t] = "returned" /\ way[t] # None /\ Way[way[t]].answer = "callback"
      /\ callbacks[t] = 0 /\ made = "taken"
  <2>1. Head(queue["S"]) = m
    BY <1>1, <1>3, JobsOfWorlds
  <2>2. task[t] = "returned"
    BY <1>3, <2>1 DEF IInv, QueueInv
  <2> QED
    BY <2>1, <2>2 DEF IInv, TaskInv, BirthInv, TypeOK
<1>5. /\ task' \in [Tasks -> {"new", "called", "posted", "running", "continued", "ran", "locked",
                             "returned", "done", "skipped", "dropped"}]
      /\ callbacks' \in [Tasks -> 0 .. 2]
      /\ task'[t] \in {"skipped", "done"}
      /\ \A u \in Tasks : u # t => task'[u] = task[u]
  <2>1. /\ task \in [Tasks -> {"new", "called", "posted", "running", "continued", "ran", "locked",
                           "returned", "done", "skipped", "dropped"}]
        /\ callbacks \in [Tasks -> 0 .. 2]
    BY DEF IInv, TypeOK
  <2>2. callbacks[t] = 0
    BY <1>4
  <2> QED
    BY <1>1, <2>1, <2>2
<1>6. TypeOK'
  BY <1>1, <1>3, <1>5 DEF IInv, TypeOK, Good
<1>7. WorldType'
  BY <1>1, <1>3, <1>4, <1>5 DEF IInv, WorldType, Worlds
<1>8. QueueInv'
  BY <1>1, <1>3, <1>4, <1>5 DEF IInv, QueueInv
<1>9. TaskInv'
  BY <1>1, <1>3, <1>4, <1>5 DEF IInv, TaskInv, TypeOK
<1>10. BirthInv'
  BY <1>1, <1>3, <1>4, <1>5 DEF IInv, BirthInv, TypeOK, Worlds
<1>11. DeathInv'
  <2>1. \A j \in Jobs : InWorld("S", j)' <=> InWorld("S", j)
    BY <1>1, <1>3, PoppedStays DEF Worlds
  <2>2. Held("S")' <=> Held("S")
    BY <1>1, <2>1, HoldersKept
  <2> QED
    BY <1>1, <2>2 DEF IInv, DeathInv
<1>12. OwnerInv'
  BY <1>1, <1>3, <1>4, <1>5 DEF IInv, OwnerInv, TypeOK, Worlds
<1>13. LowInv'
  <2>1. \A j \in Jobs : InWorld("S", j) => InWorld("S", j)'
    BY <1>1, <1>3, PoppedStays DEF Worlds
  <2>2. \A j \in Jobs : InWorld("L", j) => InWorld("L", j)'
    BY <1>3 DEF InWorld, Queued
  <2>3. \A u \in Tasks : task'[u] = "returned"
                        => task[u] = "returned" /\ ~Queued("L", <<"task", u>>)
    BY <1>1, <1>4, <1>5, QueuedIsWithin DEF IInv, QueueInv, TypeOK
  <2> QED
    BY <1>1, <2>1, <2>2, <2>3, LowHoldersKept DEF IInv, LowInv
<1> QED
  BY <1>6, <1>7, <1>8, <1>9, <1>10, <1>11, <1>12, <1>13 DEF IInv

\* The deleter of a client runs in the thread of S.
LEMMA RunDeleteSKeeps ==
  ASSUME IInv, RunDelete("S")
  PROVE  IInv'
<1>1. /\ "S" \notin stopped /\ cur["S"] = None /\ queue["S"] # <<>>
      /\ diedIn["S"] = "S" => life["S"] = "dead"
      /\ cur' = [cur EXCEPT !["S"] = Head(queue["S"])]
      /\ Head(queue["S"])[1] = "delete"
      /\ queue' = First(queue, "S")
      /\ UNCHANGED <<life, diedIn, owns, client, made, stopped, way, task, future, callbacks,
                     interrupted>>
  BY DEF RunDelete, Pops, Popped, Idle, First, tasks
<1>2. Good(queue)
  BY DEF IInv, WorldType
<1>3. /\ Good(queue') /\ queue'["L"] = queue["L"]
      /\ Head(queue["S"]) \in JobsOf("S") /\ Head(queue["S"]) \in Jobs
      /\ Within(Head(queue["S"]), queue["S"])
      /\ \A j : Within(j, queue'["S"]) <=> Within(j, queue["S"]) /\ j # Head(queue["S"])
      /\ cur'["S"] = Head(queue["S"]) /\ cur'["L"] = cur["L"]
  <2>1. /\ Good(queue') /\ queue'["L"] = queue["L"]
        /\ Head(queue["S"]) \in JobsOf("S") /\ Head(queue["S"]) \in Jobs
        /\ Within(Head(queue["S"]), queue["S"])
        /\ \A j : Within(j, queue'["S"]) <=> Within(j, queue["S"]) /\ j # Head(queue["S"])
    BY <1>1, <1>2, PopsFirst DEF Worlds
  <2>2. cur \in [Worlds -> Jobs \cup {None}]
    BY DEF IInv, TypeOK
  <2> QED
    BY <1>1, <2>1, <2>2 DEF Worlds
<1>4. /\ made # "empty"
      /\ \A t \in Tasks : Head(queue["S"]) # <<"callback", t>>
  <2>1. Within(Head(queue["S"]), queue["S"]) /\ Head(queue["S"]) # <<"create", None>>
    BY <1>1, <1>3
  <2>2. \A j : Within(j, <<<<"create", None>>>>) => j = <<"create", None>>
    BY DEF Within
  <2> QED
    BY <1>1, <2>1, <2>2 DEF IInv, BirthInv
<1>5. TypeOK'
  BY <1>1, <1>3, <1>4 DEF IInv, TypeOK, Good
<1>6. WorldType'
  BY <1>1, <1>3, <1>4 DEF IInv, WorldType, Worlds
<1>7. QueueInv'
  BY <1>1, <1>3, <1>4 DEF IInv, QueueInv, TypeOK, Worlds
<1>8. TaskInv'
  BY <1>1, <1>3, <1>4 DEF IInv, TaskInv, TypeOK
<1>9. BirthInv'
  BY <1>1, <1>3, <1>4 DEF IInv, BirthInv, TypeOK, Worlds
<1>10. DeathInv'
  <2>1. \A j \in Jobs : InWorld("S", j)' <=> InWorld("S", j)
    BY <1>1, <1>3, PoppedStays DEF Worlds
  <2>2. Held("S")' <=> Held("S")
    BY <1>1, <2>1, HoldersKept
  <2> QED
    BY <1>1, <2>2 DEF IInv, DeathInv
<1>11. OwnerInv'
  BY <1>1, <1>3, <1>4 DEF IInv, OwnerInv, TypeOK, Worlds
<1>12. LowInv'
  <2>1. \A j \in Jobs : InWorld("S", j) => InWorld("S", j)'
    BY <1>1, <1>3, PoppedStays DEF Worlds
  <2>2. \A j \in Jobs : InWorld("L", j) => InWorld("L", j)'
    BY <1>3 DEF InWorld, Queued
  <2>3. \A u \in Tasks : task'[u] = "returned"
                        => task[u] = "returned" /\ ~Queued("L", <<"task", u>>)
    BY <1>1, QueuedIsWithin DEF IInv, QueueInv
  <2> QED
    BY <1>1, <2>1, <2>2, <2>3, LowHoldersKept DEF IInv, LowInv
<1> QED
  BY <1>5, <1>6, <1>7, <1>8, <1>9, <1>10, <1>11, <1>12 DEF IInv

\* The deleter of S runs in the thread of L.
LEMMA RunDeleteLKeeps ==
  ASSUME IInv, RunDelete("L")
  PROVE  IInv'
<1>1. /\ "L" \notin stopped /\ cur["L"] = None /\ queue["L"] # <<>>
      /\ diedIn["S"] = "L" => life["S"] = "dead"
      /\ cur' = [cur EXCEPT !["L"] = Head(queue["L"])]
      /\ Head(queue["L"])[1] = "delete"
      /\ queue' = First(queue, "L")
      /\ UNCHANGED <<life, diedIn, owns, client, made, stopped, way, task, future, callbacks,
                     interrupted>>
  BY DEF RunDelete, Pops, Popped, Idle, First, tasks
<1>2. Good(queue)
  BY DEF IInv, WorldType
<1>3. /\ Good(queue') /\ queue'["S"] = queue["S"]
      /\ Head(queue["L"]) \in JobsOf("L") /\ Head(queue["L"]) \in Jobs
      /\ Within(Head(queue["L"]), queue["L"])
      /\ \A j : Within(j, queue'["L"]) <=> Within(j, queue["L"]) /\ j # Head(queue["L"])
      /\ cur'["L"] = Head(queue["L"]) /\ cur'["S"] = cur["S"]
  <2>1. /\ Good(queue') /\ queue'["S"] = queue["S"]
        /\ Head(queue["L"]) \in JobsOf("L") /\ Head(queue["L"]) \in Jobs
        /\ Within(Head(queue["L"]), queue["L"])
        /\ \A j : Within(j, queue'["L"]) <=> Within(j, queue["L"]) /\ j # Head(queue["L"])
    BY <1>1, <1>2, PopsFirst DEF Worlds
  <2>2. cur \in [Worlds -> Jobs \cup {None}]
    BY DEF IInv, TypeOK
  <2> QED
    BY <1>1, <2>1, <2>2 DEF Worlds
<1>4. /\ made # "empty"
      /\ \A t \in Tasks : Head(queue["L"]) # <<"callback", t>>
  <2>1. Within(Head(queue["L"]), queue["L"]) /\ Head(queue["L"]) # <<"create", None>>
    BY <1>1, <1>3
  <2>2. \A j : Within(j, <<<<"create", None>>>>) => j = <<"create", None>>
    BY DEF Within
  <2> QED
    BY <1>1, <2>1, <2>2 DEF IInv, BirthInv
<1>5. TypeOK'
  BY <1>1, <1>3, <1>4 DEF IInv, TypeOK, Good
<1>6. WorldType'
  BY <1>1, <1>3, <1>4 DEF IInv, WorldType, Worlds
<1>7. QueueInv'
  BY <1>1, <1>3, <1>4 DEF IInv, QueueInv, TypeOK, Worlds
<1>8. TaskInv'
  BY <1>1, <1>3, <1>4 DEF IInv, TaskInv, TypeOK
<1>9. BirthInv'
  BY <1>1, <1>3, <1>4 DEF IInv, BirthInv, TypeOK, Worlds
<1>10. DeathInv'
  <2>1. \A j \in Jobs : InWorld("S", j)' <=> InWorld("S", j)
    BY <1>3 DEF InWorld, Queued
  <2>2. Held("S")' <=> Held("S")
    BY <1>1, <2>1, HoldersKept
  <2> QED
    BY <1>1, <2>2 DEF IInv, DeathInv
<1>11. OwnerInv'
  BY <1>1, <1>3, <1>4 DEF IInv, OwnerInv, TypeOK, Worlds
<1>12. LowInv'
  <2>1. \A j \in Jobs : InWorld("L", j) => InWorld("L", j)'
    BY <1>1, <1>3, PoppedStays DEF Worlds
  <2>2. \A j \in Jobs : InWorld("S", j) => InWorld("S", j)'
    BY <1>3 DEF InWorld, Queued
  <2>3. \A u \in Tasks : task'[u] = "returned"
                        => task[u] = "returned" /\ ~Queued("L", <<"task", u>>)
    BY <1>1, QueuedIsWithin DEF IInv, QueueInv
  <2> QED
    BY <1>1, <2>1, <2>2, <2>3, LowHoldersKept DEF IInv, LowInv
<1> QED
  BY <1>5, <1>6, <1>7, <1>8, <1>9, <1>10, <1>11, <1>12 DEF IInv

\* The end of a job drops what it held: S dies in its own thread only.
LEMMA EndJobKeeps ==
  ASSUME IInv, NEW w \in Worlds, EndJob(w)
  PROVE  IInv'
<1>1. /\ cur[w] # None
      /\ cur' = [cur EXCEPT ![w] = None]
      /\ cur[w][1] = "task" => task[cur[w][2]] \in {"done", "dropped", "returned"}
      /\ UNCHANGED <<queue, owns, client, made, stopped, way, task, future, callbacks, interrupted>>
  BY DEF EndJob, tasks
<1>2. \A v \in Worlds :
        LET dies == life[v] = "alive" /\ ~Held(v)' IN
        /\ life'[v] = IF ~dies THEN life[v] ELSE IF v = "S" THEN "dying" ELSE "dead"
        /\ diedIn'[v] = IF dies THEN w ELSE diedIn[v]
  BY DEF EndJob, DestroyedBy
<1>3. /\ life' \in [Worlds -> {"unborn", "alive", "dying", "closing", "joining", "dead"}]
      /\ diedIn' \in [Worlds -> Worlds \cup {"client", None}]
  BY DEF EndJob, DestroyedBy, IInv, TypeOK
<1>4. /\ \A v \in Worlds : cur'[v] = IF v = w THEN None ELSE cur[v]
      /\ \A j \in Jobs : j # None
      /\ \A v \in Worlds, j \in Jobs : InWorld(v, j)' => InWorld(v, j)
      /\ \A v \in Worlds, j \in Jobs : v # w => (InWorld(v, j)' <=> InWorld(v, j))
  BY <1>1, NoneAssumption DEF InWorld, Queued, IInv, TypeOK
<1>5. TypeOK'
  BY <1>1, <1>2, <1>3, <1>4 DEF IInv, TypeOK, Good
<1>6. WorldType'
  BY <1>1, <1>2, <1>3, <1>4 DEF IInv, WorldType, Worlds
<1>7. QueueInv'
  BY <1>1, <1>2, <1>3, <1>4 DEF IInv, QueueInv, TypeOK, Worlds
<1>8. TaskInv'
  <2>1. \A t \in Tasks : <<"callback", t>> \in Jobs
    BY DEF Jobs
  <2>2. cur'["S"] \in {None, cur["S"]}
    BY <1>4 DEF Worlds
  <2> QED
    BY <1>1, <1>4, <2>1, <2>2 DEF IInv, TaskInv
<1>9. BirthInv'
  BY <1>1, <1>2, <1>3, <1>4 DEF IInv, BirthInv, TypeOK, Worlds
<1>10. DeathInv'
  <2>1. Held("S")' => Held("S")
    BY <1>1, <1>4, HoldersKept DEF Worlds
  <2>2. w = "L" => (Held("S") => Held("S")')
    BY <1>1, <1>4, HoldersKept DEF Worlds
  <2> QED
    BY <1>1, <1>2, <2>1, <2>2 DEF IInv, DeathInv, Worlds
<1>11. OwnerInv'
  BY <1>1, <1>2, <1>3, <1>4 DEF IInv, OwnerInv, TypeOK, Worlds
<1>12. LowInv'
  <2>1. NoneCarried' => NoneCarried
    BY <1>1 DEF NoneCarried
  <2>2. NoneCarried /\ w = "S" /\ Held("L") => Held("L")'
    <3> SUFFICES ASSUME NoneCarried, w = "S", Held("L")
                 PROVE  Held("L")'
      OBVIOUS
    <3>1. ASSUME NEW t \in Tasks, HoldsLow(t)
          PROVE  HoldsLow(t)'
      <4>1. way[t] # None /\ Way[way[t]].holds /\ Way[way[t]].answer # "callback"
        BY <3>1 DEF HoldsLow, NoneCarried
      <4>2. ~InWorld("S", <<"callback", t>>)
        BY <4>1, QueuedIsWithin DEF IInv, TaskInv, QueueInv, InWorld
      <4> QED
        BY <1>1, <1>4, <3>1, <4>1, <4>2 DEF HoldsLow, Queued, Worlds
    <3> QED
      BY <1>1, <1>4, <3>1 DEF Held, InWorld, Queued, Worlds
  <2> QED
    BY <1>1, <1>2, <2>1, <2>2 DEF IInv, LowInv, Worlds
<1> QED
  BY <1>5, <1>6, <1>7, <1>8, <1>9, <1>10, <1>11, <1>12 DEF IInv

\* A thread leaves its loop with an empty queue and no owner.
LEMMA StopKeeps ==
  ASSUME IInv, NEW w \in Worlds, Stop(w)
  PROVE  IInv'
<1>1. /\ w \notin stopped /\ cur[w] = None /\ queue[w] = <<>>
      /\ w = "L" => life["L"] # "unborn" /\ ~owns
      /\ stopped' = stopped \cup {w}
      /\ UNCHANGED <<queue, cur, life, diedIn, owns, client, made, way, task, future, callbacks,
                     interrupted>>
  BY DEF Stop, Idle, Lockable, tasks, Worlds
<1>2. TypeOK'
  BY <1>1 DEF IInv, TypeOK, Good
<1>3. WorldType'
  BY <1>1 DEF IInv, WorldType, Worlds
<1>4. QueueInv'
  BY <1>1 DEF IInv, QueueInv, TypeOK, Worlds
<1>5. TaskInv'
  BY <1>1 DEF IInv, TaskInv, TypeOK
<1>6. BirthInv'
  BY <1>1 DEF IInv, BirthInv, TypeOK, Worlds
<1>7. DeathInv'
  BY <1>1, HeldParts DEF IInv, DeathInv, BirthInv, TypeOK, Worlds
<1>8. OwnerInv'
  BY <1>1 DEF IInv, OwnerInv, TypeOK, Worlds
<1>9. LowInv'
  BY <1>1, HeldLow DEF IInv, LowInv, NoneCarried, TypeOK, Worlds
<1> QED
  BY <1>2, <1>3, <1>4, <1>5, <1>6, <1>7, <1>8, <1>9 DEF IInv

\* A task posted to S itself starts.
LEMMA StartSKeeps ==
  ASSUME IInv, NEW t \in Tasks, StartInWorld("S", t)
  PROVE  IInv'
<1> DEFINE m == <<"self", t>>
<1>1. /\ "S" \notin stopped /\ cur["S"] = None /\ queue["S"] # <<>>
      /\ diedIn["S"] = "S" => life["S"] = "dead"
      /\ cur' = [cur EXCEPT !["S"] = Head(queue["S"])]
      /\ Head(queue["S"])[1] = "self" /\ Head(queue["S"])[2] = t
      /\ queue' = First(queue, "S")
      /\ Start(t)
      /\ UNCHANGED <<life, diedIn, owns, client, made, stopped, way, callbacks, interrupted>>
  BY DEF StartInWorld, Pops, Popped, Idle, First
<1>2. Good(queue)
  BY DEF IInv, WorldType
<1>3. /\ Good(queue') /\ queue'["L"] = queue["L"]
      /\ Head(queue["S"]) \in JobsOf("S") /\ Head(queue["S"]) \in Jobs
      /\ Within(Head(queue["S"]), queue["S"])
      /\ \A j : Within(j, queue'["S"]) <=> Within(j, queue["S"]) /\ j # Head(queue["S"])
      /\ cur'["S"] = Head(queue["S"]) /\ cur'["L"] = cur["L"]
  <2>1. /\ Good(queue') /\ queue'["L"] = queue["L"]
        /\ Head(queue["S"]) \in JobsOf("S") /\ Head(queue["S"]) \in Jobs
        /\ Within(Head(queue["S"]), queue["S"])
        /\ \A j : Within(j, queue'["S"]) <=> Within(j, queue["S"]) /\ j # Head(queue["S"])
    BY <1>1, <1>2, PopsFirst DEF Worlds
  <2>2. cur \in [Worlds -> Jobs \cup {None}]
    BY DEF IInv, TypeOK
  <2> QED
    BY <1>1, <2>1, <2>2 DEF Worlds
<1>4. /\ Head(queue["S"]) = m
      /\ task[t] = "posted" /\ way[t] # None /\ way[t] \in DOMAIN Way /\ callbacks[t] = 0
  <2>1. Head(queue["S"]) = m
    BY <1>1, <1>3, JobsOfWorlds
  <2>2. task[t] = "posted"
    BY <1>3, <2>1 DEF IInv, QueueInv
  <2> QED
    BY <2>1, <2>2 DEF IInv, TaskInv, TypeOK
<1>5. /\ task' \in [Tasks -> {"new", "called", "posted", "running", "continued", "ran", "locked",
                             "returned", "done", "skipped", "dropped"}]
      /\ future' \in [Tasks -> {"waiting", "ready", "broken", None}]
      /\ task'[t] \in {"running", "done", "ran"}
      /\ task'[t] = "ran" => Way[way[t]].answer = "callback"
      /\ \A u \in Tasks : u # t => task'[u] = task[u]
  <2>1. /\ task \in [Tasks -> {"new", "called", "posted", "running", "continued", "ran", "locked",
                           "returned", "done", "skipped", "dropped"}]
        /\ future \in [Tasks -> {"waiting", "ready", "broken", None}]
    BY DEF IInv, TypeOK
  <2>2. /\ Way[way[t]].answer \in {"future", "callback", "direct"}
        /\ Way[way[t]].guarded => Way[way[t]].answer # "direct"
    BY <1>4, WayFacts
  <2>3. \/ /\ task' = [task EXCEPT ![t] = "running"] \/ task' = [task EXCEPT ![t] = "done"]
           /\ future' \in {future, [future EXCEPT ![t] = "ready"]}
        \/ /\ task' = [task EXCEPT ![t] = "ran"] /\ UNCHANGED future
           /\ Way[way[t]].answer = "callback"
    BY <1>1, <2>2 DEF Start, Ended
  <2> QED
    BY <2>1, <2>3
<1>6. TypeOK'
  BY <1>1, <1>3, <1>5 DEF IInv, TypeOK, Good
<1>7. WorldType'
  BY <1>1, <1>3, <1>4, <1>5 DEF IInv, WorldType, Worlds
<1>8. QueueInv'
  BY <1>1, <1>3, <1>4, <1>5 DEF IInv, QueueInv
<1>9. TaskInv'
  BY <1>1, <1>3, <1>4, <1>5 DEF IInv, TaskInv, TypeOK
<1>10. BirthInv'
  BY <1>1, <1>3, <1>4, <1>5 DEF IInv, BirthInv, TypeOK, Worlds
<1>11. DeathInv'
  <2>1. \A j \in Jobs : InWorld("S", j)' <=> InWorld("S", j)
    BY <1>1, <1>3, PoppedStays DEF Worlds
  <2>2. Held("S")' <=> Held("S")
    BY <1>1, <2>1, HoldersKept
  <2> QED
    BY <1>1, <2>2 DEF IInv, DeathInv
<1>12. OwnerInv'
  BY <1>1, <1>3, <1>4, <1>5 DEF IInv, OwnerInv, TypeOK, Worlds
<1>13. LowInv'
  <2>1. \A j \in Jobs : InWorld("S", j) => InWorld("S", j)'
    BY <1>1, <1>3, PoppedStays DEF Worlds
  <2>2. \A j \in Jobs : InWorld("L", j) => InWorld("L", j)'
    BY <1>3 DEF InWorld, Queued
  <2>3. \A u \in Tasks : task'[u] = "returned"
                        => task[u] = "returned" /\ ~Queued("L", <<"task", u>>)
    BY <1>1, <1>4, <1>5, QueuedIsWithin DEF IInv, QueueInv, TypeOK
  <2> QED
    BY <1>1, <2>1, <2>2, <2>3, LowHoldersKept DEF IInv, LowInv
<1> QED
  BY <1>6, <1>7, <1>8, <1>9, <1>10, <1>11, <1>12, <1>13 DEF IInv

\* A task posted to L starts.
LEMMA StartLKeeps ==
  ASSUME IInv, NEW t \in Tasks, StartInWorld("L", t)
  PROVE  IInv'
<1> DEFINE m == <<"task", t>>
<1>1. /\ "L" \notin stopped /\ cur["L"] = None /\ queue["L"] # <<>>
      /\ diedIn["S"] = "L" => life["S"] = "dead"
      /\ cur' = [cur EXCEPT !["L"] = Head(queue["L"])]
      /\ Head(queue["L"])[1] = "task" /\ Head(queue["L"])[2] = t
      /\ queue' = First(queue, "L")
      /\ Start(t)
      /\ UNCHANGED <<life, diedIn, owns, client, made, stopped, way, callbacks, interrupted>>
  BY DEF StartInWorld, Pops, Popped, Idle, First
<1>2. Good(queue)
  BY DEF IInv, WorldType
<1>3. /\ Good(queue') /\ queue'["S"] = queue["S"]
      /\ Head(queue["L"]) \in JobsOf("L") /\ Head(queue["L"]) \in Jobs
      /\ Within(Head(queue["L"]), queue["L"])
      /\ \A j : Within(j, queue'["L"]) <=> Within(j, queue["L"]) /\ j # Head(queue["L"])
      /\ cur'["L"] = Head(queue["L"]) /\ cur'["S"] = cur["S"]
  <2>1. /\ Good(queue') /\ queue'["S"] = queue["S"]
        /\ Head(queue["L"]) \in JobsOf("L") /\ Head(queue["L"]) \in Jobs
        /\ Within(Head(queue["L"]), queue["L"])
        /\ \A j : Within(j, queue'["L"]) <=> Within(j, queue["L"]) /\ j # Head(queue["L"])
    BY <1>1, <1>2, PopsFirst DEF Worlds
  <2>2. cur \in [Worlds -> Jobs \cup {None}]
    BY DEF IInv, TypeOK
  <2> QED
    BY <1>1, <2>1, <2>2 DEF Worlds
<1>4. /\ Head(queue["L"]) = m
      /\ task[t] = "posted" /\ way[t] # None /\ way[t] \in DOMAIN Way /\ callbacks[t] = 0
  <2>1. Head(queue["L"]) = m
    BY <1>1, <1>3, JobsOfWorlds
  <2>2. task[t] = "posted"
    BY <1>3, <2>1 DEF IInv, QueueInv
  <2> QED
    BY <2>1, <2>2 DEF IInv, TaskInv, TypeOK
<1>5. /\ task' \in [Tasks -> {"new", "called", "posted", "running", "continued", "ran", "locked",
                             "returned", "done", "skipped", "dropped"}]
      /\ future' \in [Tasks -> {"waiting", "ready", "broken", None}]
      /\ task'[t] \in {"running", "done", "ran"}
      /\ task'[t] = "ran" => Way[way[t]].answer = "callback"
      /\ \A u \in Tasks : u # t => task'[u] = task[u]
  <2>1. /\ task \in [Tasks -> {"new", "called", "posted", "running", "continued", "ran", "locked",
                           "returned", "done", "skipped", "dropped"}]
        /\ future \in [Tasks -> {"waiting", "ready", "broken", None}]
    BY DEF IInv, TypeOK
  <2>2. /\ Way[way[t]].answer \in {"future", "callback", "direct"}
        /\ Way[way[t]].guarded => Way[way[t]].answer # "direct"
    BY <1>4, WayFacts
  <2>3. \/ /\ task' = [task EXCEPT ![t] = "running"] \/ task' = [task EXCEPT ![t] = "done"]
           /\ future' \in {future, [future EXCEPT ![t] = "ready"]}
        \/ /\ task' = [task EXCEPT ![t] = "ran"] /\ UNCHANGED future
           /\ Way[way[t]].answer = "callback"
    BY <1>1, <2>2 DEF Start, Ended
  <2> QED
    BY <2>1, <2>3
<1>6. TypeOK'
  BY <1>1, <1>3, <1>5 DEF IInv, TypeOK, Good
<1>7. WorldType'
  BY <1>1, <1>3, <1>4, <1>5 DEF IInv, WorldType, Worlds
<1>8. QueueInv'
  BY <1>1, <1>3, <1>4, <1>5 DEF IInv, QueueInv
<1>9. TaskInv'
  BY <1>1, <1>3, <1>4, <1>5 DEF IInv, TaskInv, TypeOK
<1>10. BirthInv'
  BY <1>1, <1>3, <1>4, <1>5 DEF IInv, BirthInv, TypeOK, Worlds
<1>11. DeathInv'
  <2>1. \A j \in Jobs : InWorld("S", j)' <=> InWorld("S", j)
    BY <1>3 DEF InWorld, Queued
  <2>2. Held("S")' <=> Held("S")
    BY <1>1, <2>1, HoldersKept
  <2> QED
    BY <1>1, <2>2 DEF IInv, DeathInv
<1>12. OwnerInv'
  BY <1>1, <1>3, <1>4, <1>5 DEF IInv, OwnerInv, TypeOK, Worlds
<1>13. LowInv'
  <2>1. \A j \in Jobs : InWorld("L", j) => InWorld("L", j)'
    BY <1>1, <1>3, PoppedStays DEF Worlds
  <2>2. \A j \in Jobs : InWorld("S", j) => InWorld("S", j)'
    BY <1>3 DEF InWorld, Queued
  <2>3. \A u \in Tasks : task'[u] = "returned"
                        => task[u] = "returned" /\ ~Queued("L", <<"task", u>>)
    BY <1>1, <1>4, <1>5, QueuedIsWithin DEF IInv, QueueInv, TypeOK
  <2> QED
    BY <1>1, <2>1, <2>2, <2>3, LowHoldersKept DEF IInv, LowInv
<1> QED
  BY <1>6, <1>7, <1>8, <1>9, <1>10, <1>11, <1>12, <1>13 DEF IInv

-----------------------------------------------------------------------------
(* The destructor of S                                                     *)

\* The destructor of S posts the deleter of L.
LEMMA DestroyProxyKeeps ==
  ASSUME IInv, DestroyProxyOfLow
  PROVE  IInv'
<1> DEFINE x == <<"delete", "S">>
<1>1. /\ life["S"] = "dying"
      /\ life' = [life EXCEPT !["S"] = "closing"]
      /\ queue' = Posted(queue, "L", x)
      /\ owns' = FALSE
      /\ UNCHANGED <<cur, diedIn, client, made, stopped, way, task, future, callbacks, interrupted>>
  BY DEF DestroyProxyOfLow, tasks, Posted
<1>2. Good(queue) /\ x \in JobsOf("L") /\ ~Within(x, queue["L"])
  BY <1>1, JobsOfWorlds DEF IInv, WorldType, QueueInv
<1>3. /\ Good(queue') /\ queue'["S"] = queue["S"]
      /\ \A j : Within(j, queue'["L"]) <=> Within(j, queue["L"]) \/ j = x
  BY <1>1, <1>2, Posts DEF Worlds
<1>4. TypeOK'
  BY <1>1, <1>3 DEF IInv, TypeOK, Good
<1>5. WorldType'
  BY <1>1, <1>3 DEF IInv, WorldType, Worlds
<1>6. QueueInv'
  BY <1>1, <1>3 DEF IInv, QueueInv, TypeOK, Worlds
<1>7. TaskInv'
  BY <1>1, <1>3 DEF IInv, TaskInv, TypeOK
<1>8. BirthInv'
  BY <1>1, <1>3 DEF IInv, BirthInv, TypeOK, Worlds
<1>9. DeathInv'
  BY <1>1, <1>3, HeldParts DEF IInv, DeathInv, BirthInv, TypeOK, Worlds
<1>10. OwnerInv'
  BY <1>1, <1>3 DEF IInv, OwnerInv, TypeOK, Worlds
<1>11. LowInv'
  BY <1>1, <1>3, HeldLow DEF IInv, LowInv, NoneCarried, TypeOK, Worlds
<1> QED
  BY <1>4, <1>5, <1>6, <1>7, <1>8, <1>9, <1>10, <1>11 DEF IInv

\* It goes on when the thread of L has left its loop.
LEMMA JoinLowKeeps ==
  ASSUME IInv, JoinLow
  PROVE  IInv'
<1>1. /\ life["S"] = "closing"
      /\ "L" \in stopped
      /\ life' = [life EXCEPT !["S"] = "joining"]
      /\ UNCHANGED <<queue, cur, diedIn, owns, client, made, stopped, way, task, future, callbacks,
                     interrupted>>
  BY DEF JoinLow, tasks
<1>2. TypeOK'
  BY <1>1 DEF IInv, TypeOK, Good
<1>3. WorldType'
  BY <1>1 DEF IInv, WorldType, Worlds
<1>4. QueueInv'
  BY <1>1 DEF IInv, QueueInv, TypeOK, Worlds
<1>5. TaskInv'
  BY <1>1 DEF IInv, TaskInv, TypeOK
<1>6. BirthInv'
  BY <1>1 DEF IInv, BirthInv, TypeOK, Worlds
<1>7. DeathInv'
  BY <1>1, HeldParts DEF IInv, DeathInv, BirthInv, TypeOK, Worlds
<1>8. OwnerInv'
  BY <1>1 DEF IInv, OwnerInv, TypeOK, Worlds
<1>9. LowInv'
  BY <1>1, HeldLow DEF IInv, LowInv, NoneCarried, TypeOK, Worlds
<1> QED
  BY <1>2, <1>3, <1>4, <1>5, <1>6, <1>7, <1>8, <1>9 DEF IInv

\* It ends when the pool is empty.
LEMMA JoinPoolKeeps ==
  ASSUME IInv, JoinPool
  PROVE  IInv'
<1>1. /\ life["S"] = "joining"
      /\ life' = [life EXCEPT !["S"] = "dead"]
      /\ UNCHANGED <<queue, cur, diedIn, owns, client, made, stopped, way, task, future, callbacks,
                     interrupted>>
  BY DEF JoinPool, tasks
<1>2. TypeOK'
  BY <1>1 DEF IInv, TypeOK, Good
<1>3. WorldType'
  BY <1>1 DEF IInv, WorldType, Worlds
<1>4. QueueInv'
  BY <1>1 DEF IInv, QueueInv, TypeOK, Worlds
<1>5. TaskInv'
  BY <1>1 DEF IInv, TaskInv, TypeOK
<1>6. BirthInv'
  BY <1>1 DEF IInv, BirthInv, TypeOK, Worlds
<1>7. DeathInv'
  BY <1>1, HeldParts DEF IInv, DeathInv, BirthInv, TypeOK, Worlds
<1>8. OwnerInv'
  BY <1>1 DEF IInv, OwnerInv, TypeOK, Worlds
<1>9. LowInv'
  BY <1>1, HeldLow DEF IInv, LowInv, NoneCarried, TypeOK, Worlds
<1> QED
  BY <1>2, <1>3, <1>4, <1>5, <1>6, <1>7, <1>8, <1>9 DEF IInv

-----------------------------------------------------------------------------
(* Tasks                                                                   *)

\* What a step of a task does when it posts nothing: the task is not in a queue.
Local(t, s) ==
  /\ UNCHANGED <<worlds, client, way>>
  /\ interrupted' \subseteq Interruptible
  /\ task' = [task EXCEPT ![t] = s]
  /\ future' \in [Tasks -> {"waiting", "ready", "broken", None}]
  /\ callbacks' \in [Tasks -> 0 .. 2]
  /\ \A u \in Tasks : callbacks'[u] # callbacks[u] => u = t /\ s = "done"
  /\ task[t] \in {"posted", "running", "continued", "ran"}
  /\ task[t] = "posted" => Way[way[t]].executor \notin {"S", "L"}
  /\ s \in {"ran", "locked"} => Way[way[t]].answer = "callback"

\* A step that is local to a task touches no holder of S or L.
LEMMA LocalKeeps ==
  ASSUME IInv, NEW t \in Tasks,
         NEW s \in {"running", "continued", "ran", "locked", "done", "dropped"}, Local(t, s)
  PROVE  IInv'
<1>1. /\ UNCHANGED <<queue, cur, life, diedIn, owns, made, stopped, client, way>>
      /\ interrupted' \subseteq Interruptible
      /\ future' \in [Tasks -> {"waiting", "ready", "broken", None}]
      /\ callbacks' \in [Tasks -> 0 .. 2]
      /\ \A u \in Tasks : callbacks'[u] # callbacks[u] => u = t /\ s = "done"
      /\ task[t] \in {"posted", "running", "continued", "ran"}
      /\ task[t] = "posted" => Way[way[t]].executor \notin {"S", "L"}
      /\ s \in {"ran", "locked"} => Way[way[t]].answer = "callback"
  BY DEF Local, worlds
<1>2. /\ task' \in [Tasks -> {"new", "called", "posted", "running", "continued", "ran", "locked",
                             "returned", "done", "skipped", "dropped"}]
      /\ task'[t] = s /\ \A u \in Tasks : u # t => task'[u] = task[u]
  BY DEF Local, IInv, TypeOK
<1>3. TypeOK'
  BY <1>1, <1>2 DEF IInv, TypeOK, Good
<1>4. WorldType'
  BY <1>1, <1>2 DEF IInv, WorldType, Worlds
<1>5. QueueInv'
  BY <1>1, <1>2 DEF IInv, QueueInv, TypeOK, Worlds
<1>6. TaskInv'
  BY <1>1, <1>2 DEF IInv, TaskInv, TypeOK
<1>7. BirthInv'
  BY <1>1, <1>2 DEF IInv, BirthInv, TypeOK, Worlds
<1>8. DeathInv'
  BY <1>1, <1>2, HeldParts DEF IInv, DeathInv, BirthInv, TypeOK, Worlds
<1>9. OwnerInv'
  BY <1>1, <1>2 DEF IInv, OwnerInv, TypeOK, Worlds
<1>10. LowInv'
  <2>1. /\ \A j \in Jobs : InWorld("S", j) => InWorld("S", j)'
        /\ \A j \in Jobs : InWorld("L", j) => InWorld("L", j)'
    BY <1>1 DEF InWorld, Queued
  <2>2. \A u \in Tasks : task'[u] = "returned"
                        => task[u] = "returned" /\ ~Queued("L", <<"task", u>>)
    BY <1>1, <1>2, QueuedIsWithin DEF IInv, QueueInv
  <2> QED
    BY <1>1, <2>1, <2>2, LowHoldersKept DEF IInv, LowInv
<1> QED
  BY <1>3, <1>4, <1>5, <1>6, <1>7, <1>8, <1>9, <1>10 DEF IInv

\* A task that is over is done, or kept for its callback.
LEMMA EndedIsLocal ==
  ASSUME IInv, NEW t \in Tasks, Ended(t), UNCHANGED <<worlds, client, way, callbacks, interrupted>>,
         task[t] \in {"posted", "running", "continued"},
         task[t] = "posted" => Way[way[t]].executor \notin {"S", "L"},
         Way[way[t]].answer \in {"future", "callback"}
  PROVE  \E s \in {"done", "ran"} : Local(t, s)
<1>1. /\ future \in [Tasks -> {"waiting", "ready", "broken", None}]
      /\ callbacks \in [Tasks -> 0 .. 2] /\ interrupted \subseteq Interruptible
  BY DEF IInv, TypeOK
<1>2. CASE Way[way[t]].answer = "future"
  <2>1. Local(t, "done")
    BY <1>1, <1>2 DEF Local, Ended
  <2> QED
    BY <2>1
<1>3. CASE Way[way[t]].answer = "callback"
  <2>1. Local(t, "ran")
    BY <1>1, <1>3 DEF Local, Ended
  <2> QED
    BY <2>1
<1> QED
  BY <1>2, <1>3

\* A task that is destroyed in a worker.
LEMMA DroppedIsLocal ==
  ASSUME IInv, NEW t \in Tasks, Dropped(t),
         UNCHANGED <<worlds, client, way, callbacks, interrupted>>,
         task[t] \in {"posted", "running", "continued"},
         task[t] = "posted" => Way[way[t]].executor \notin {"S", "L"}
  PROVE  Local(t, "dropped")
<1>1. /\ future \in [Tasks -> {"waiting", "ready", "broken", None}]
      /\ callbacks \in [Tasks -> 0 .. 2] /\ interrupted \subseteq Interruptible
  BY DEF IInv, TypeOK
<1> QED
  BY <1>1 DEF Local, Dropped

\* How a task that was posted was posted.
LEMMA TaskIsPosted ==
  ASSUME IInv, NEW t \in Tasks, task[t] \notin {"new", "called"}
  PROVE  /\ way[t] \in DOMAIN Way
         /\ Way[way[t]].answer \in {"future", "callback", "direct"}
         /\ Way[way[t]].guarded => Way[way[t]].answer # "direct"
         /\ Way[way[t]].executor \in {"pool", "remote"} => Way[way[t]].answer # "direct"
BY WayFacts DEF IInv, TaskInv, TypeOK

\* Every step of a task but the last one is local to it.
LEMMA TaskStepKeeps ==
  ASSUME IInv, NEW t \in Tasks, TaskStep(t), ~PostBack(t)
  PROVE  IInv'
<1> DEFINE states == {"running", "continued", "ran", "locked", "done", "dropped"}
<1>1. /\ future \in [Tasks -> {"waiting", "ready", "broken", None}]
      /\ callbacks \in [Tasks -> 0 .. 2] /\ interrupted \subseteq Interruptible
  BY DEF IInv, TypeOK
<1>2. ASSUME StartInPool(t)
      PROVE  \E s \in states : Local(t, s)
  <2>1. /\ task[t] = "posted" /\ Way[way[t]].executor = "pool"
        /\ UNCHANGED <<worlds, client, way, callbacks, interrupted>>
        /\ Dropped(t) \/ Ended(t) \/ (task' = [task EXCEPT ![t] = "running"] /\ UNCHANGED future)
    BY <1>2 DEF StartInPool, Start
  <2>2. Way[way[t]].answer \in {"future", "callback"}
    BY <2>1, TaskIsPosted
  <2>3. CASE Dropped(t)
    BY <2>1, <2>3, DroppedIsLocal
  <2>4. CASE Ended(t)
    BY <2>1, <2>2, <2>4, EndedIsLocal
  <2>5. CASE task' = [task EXCEPT ![t] = "running"] /\ UNCHANGED future
    <3>1. Local(t, "running")
      BY <1>1, <2>1, <2>5 DEF Local
    <3> QED
      BY <3>1
  <2> QED
    BY <2>1, <2>3, <2>4, <2>5
<1>3. ASSUME FinishFuture(t) \/ FinishCallback(t) \/ ResolveFuture(t) \/ ResolveCallback(t)
      PROVE  \E s \in states : Local(t, s)
  <2>1. /\ task[t] \in {"running", "continued"}
        /\ Way[way[t]].answer \in {"future", "callback"}
        /\ Ended(t) /\ UNCHANGED <<worlds, client, way, callbacks, interrupted>>
    BY <1>3 DEF FinishFuture, FinishCallback, ResolveFuture, ResolveCallback, Running
  <2> QED
    BY <2>1, EndedIsLocal
<1>4. ASSUME FinishContinuation(t)
      PROVE  \E s \in states : Local(t, s)
  <2>1. /\ task[t] = "running" /\ Way[way[t]].answer \in {"future", "callback"}
        /\ UNCHANGED <<worlds, client, way, callbacks, interrupted>>
        /\ Ended(t) \/ (task' = [task EXCEPT ![t] = "continued"] /\ UNCHANGED future)
    BY <1>4 DEF FinishContinuation, Running
  <2>2. CASE Ended(t)
    BY <2>1, <2>2, EndedIsLocal
  <2>3. CASE task' = [task EXCEPT ![t] = "continued"] /\ UNCHANGED future
    <3>1. Local(t, "continued")
      BY <1>1, <2>1, <2>3 DEF Local
    <3> QED
      BY <3>1
  <2> QED
    BY <2>1, <2>2, <2>3
<1>5. ASSUME Abandon(t)
      PROVE  \E s \in states : Local(t, s)
  <2>1. /\ task[t] = "continued" /\ Dropped(t)
        /\ UNCHANGED <<worlds, client, way, callbacks, interrupted>>
    BY <1>5 DEF Abandon
  <2> QED
    BY <2>1, DroppedIsLocal
<1>6. ASSUME Load(t)
      PROVE  \E s \in states : Local(t, s)
  <2>1. /\ task[t] = "posted" /\ Way[way[t]].executor = "remote" /\ Ended(t)
        /\ UNCHANGED <<worlds, client, way, callbacks, interrupted>>
    BY <1>6 DEF Load
  <2>2. Way[way[t]].answer \in {"future", "callback"}
    BY <2>1, TaskIsPosted
  <2> QED
    BY <2>1, <2>2, EndedIsLocal
<1>7. ASSUME CallFromLow(t)
      PROVE  \E s \in states : Local(t, s)
  <2>1. /\ task[t] = "running" /\ task' = [task EXCEPT ![t] = "done"]
        /\ callbacks' \in {[callbacks EXCEPT ![t] = @ + 2], [callbacks EXCEPT ![t] = @ + 1]}
        /\ UNCHANGED <<worlds, client, way, future, interrupted>>
    BY <1>7 DEF CallFromLow, Running
  <2>2. callbacks[t] = 0
    BY <2>1 DEF IInv, TaskInv
  <2>3. callbacks' \in [Tasks -> 0 .. 2] /\ \A u \in Tasks : u # t => callbacks'[u] = callbacks[u]
    BY <1>1, <2>1, <2>2
  <2>4. Local(t, "done")
    BY <1>1, <2>1, <2>3 DEF Local
  <2> QED
    BY <2>4
<1>8. ASSUME LockHome(t)
      PROVE  \E s \in states : Local(t, s)
  <2>1. PICK s \in {"locked", "dropped"} :
          /\ task[t] = "ran" /\ task' = [task EXCEPT ![t] = s]
          /\ UNCHANGED <<worlds, client, way, future, callbacks, interrupted>>
    BY <1>8 DEF LockHome
  <2>2. Way[way[t]].answer = "callback"
    BY <2>1 DEF IInv, TaskInv
  <2>3. Local(t, s)
    BY <1>1, <2>1, <2>2 DEF Local
  <2> QED
    BY <2>3
<1>9. \E s \in states : Local(t, s)
  BY <1>2, <1>3, <1>4, <1>5, <1>6, <1>7, <1>8 DEF TaskStep
<1> QED
  BY <1>9, LocalKeeps

\* The task moves into the queue of S with its callback.
LEMMA PostBackKeeps ==
  ASSUME IInv, NEW t \in Tasks, PostBack(t)
  PROVE  IInv'
<1> DEFINE x == <<"callback", t>>
<1>1. /\ task[t] = "locked"
      /\ task' = [task EXCEPT ![t] = "returned"]
      /\ queue' = Posted(queue, "S", x)
      /\ UNCHANGED <<cur, life, diedIn, owns, client, made, stopped, way, future, callbacks,
                     interrupted>>
  BY DEF PostBack, Posted
<1>2. Good(queue) /\ x \in JobsOf("S") /\ ~Within(x, queue["S"])
  BY <1>1, JobsOfWorlds DEF IInv, WorldType, QueueInv
<1>3. /\ Good(queue') /\ queue'["L"] = queue["L"]
      /\ \A j : Within(j, queue'["S"]) <=> Within(j, queue["S"]) \/ j = x
  BY <1>1, <1>2, Posts DEF Worlds
<1>4. /\ way[t] # None /\ Way[way[t]].answer = "callback" /\ callbacks[t] = 0 /\ made = "taken"
  BY <1>1 DEF IInv, TaskInv, BirthInv, TypeOK
<1>5. TypeOK'
  BY <1>1, <1>3, <1>4 DEF IInv, TypeOK, Good
<1>6. WorldType'
  BY <1>1, <1>3, <1>4 DEF IInv, WorldType, Worlds
<1>7. QueueInv'
  BY <1>1, <1>3, <1>4 DEF IInv, QueueInv, TypeOK, Worlds
<1>8. TaskInv'
  BY <1>1, <1>3, <1>4 DEF IInv, TaskInv, TypeOK
<1>9. BirthInv'
  BY <1>1, <1>3, <1>4 DEF IInv, BirthInv, TypeOK, Worlds
<1>10. DeathInv'
  BY <1>1, <1>3, <1>4, HeldParts DEF IInv, DeathInv, BirthInv, TypeOK, Worlds
<1>11. OwnerInv'
  BY <1>1, <1>3, <1>4 DEF IInv, OwnerInv, TypeOK, Worlds
<1>12. LowInv'
  <2>1. NoneCarried' <=> NoneCarried
    BY <1>1 DEF NoneCarried
  <2>2. NoneCarried => ~Way[way[t]].holds
    BY <1>4 DEF NoneCarried
  <2>3. NoneCarried /\ Held("L") => Held("L")'
    BY <1>1, <1>3, <2>2, HeldLow DEF IInv, TypeOK
  <2> QED
    BY <1>1, <2>1, <2>3 DEF IInv, LowInv
<1> QED
  BY <1>5, <1>6, <1>7, <1>8, <1>9, <1>10, <1>11, <1>12 DEF IInv

\* An interruption is only noted.
LEMMA InterruptKeeps ==
  ASSUME IInv, NEW t \in Tasks, Interrupt(t)
  PROVE  IInv'
<1>1. /\ interrupted' = interrupted \cup {t} /\ t \in Interruptible
      /\ UNCHANGED <<queue, cur, life, diedIn, owns, made, stopped, client, way, task, future,
                     callbacks>>
  BY DEF Interrupt, worlds
<1>2. TypeOK'
  BY <1>1 DEF IInv, TypeOK, Good
<1>3. WorldType'
  BY <1>1 DEF IInv, WorldType, Worlds
<1>4. QueueInv'
  BY <1>1 DEF IInv, QueueInv, TypeOK, Worlds
<1>5. TaskInv'
  BY <1>1 DEF IInv, TaskInv, TypeOK
<1>6. BirthInv'
  BY <1>1 DEF IInv, BirthInv, TypeOK, Worlds
<1>7. DeathInv'
  BY <1>1, HeldParts DEF IInv, DeathInv, BirthInv, TypeOK, Worlds
<1>8. OwnerInv'
  BY <1>1 DEF IInv, OwnerInv, TypeOK, Worlds
<1>9. LowInv'
  BY <1>1, HeldLow DEF IInv, LowInv, NoneCarried, TypeOK, Worlds
<1> QED
  BY <1>2, <1>3, <1>4, <1>5, <1>6, <1>7, <1>8, <1>9 DEF IInv

\* Nothing happens.
LEMMA StutterKeeps ==
  ASSUME IInv, UNCHANGED vars
  PROVE  IInv'
<1>1. UNCHANGED <<queue, cur, life, diedIn, owns, made, stopped, client, way, task, future,
                  callbacks, interrupted>>
  BY DEF vars
<1>2. TypeOK'
  BY <1>1 DEF IInv, TypeOK, Good
<1>3. WorldType'
  BY <1>1 DEF IInv, WorldType, Worlds
<1>4. QueueInv'
  BY <1>1 DEF IInv, QueueInv, TypeOK, Worlds
<1>5. TaskInv'
  BY <1>1 DEF IInv, TaskInv, TypeOK
<1>6. BirthInv'
  BY <1>1 DEF IInv, BirthInv, TypeOK, Worlds
<1>7. DeathInv'
  BY <1>1, HeldParts DEF IInv, DeathInv, BirthInv, TypeOK, Worlds
<1>8. OwnerInv'
  BY <1>1 DEF IInv, OwnerInv, TypeOK, Worlds
<1>9. LowInv'
  BY <1>1, HeldLow DEF IInv, LowInv, NoneCarried, TypeOK, Worlds
<1> QED
  BY <1>2, <1>3, <1>4, <1>5, <1>6, <1>7, <1>8, <1>9 DEF IInv

-----------------------------------------------------------------------------
(* The theorems                                                            *)

\* The inductive invariant: what a queued job says of its task, who holds S and
\* L, and how far the destructor of S has got.
THEOREM ServantsInvariant == Spec => []IInv
<1>1. Init => IInv
  <2> SUFFICES ASSUME Init
               PROVE  IInv
    OBVIOUS
  <2>1. TypeOK
    <3>1. queue \in [Worlds -> Seq(Jobs)] /\ cur \in [Worlds -> Jobs \cup {None}]
      BY DEF Init
    <3>2. /\ life \in [Worlds -> {"unborn", "alive", "dying", "closing", "joining", "dead"}]
          /\ diedIn \in [Worlds -> Worlds \cup {"client", None}]
          /\ owns \in BOOLEAN /\ made \in {"empty", "set", "failed", "taken"}
          /\ interrupted \subseteq Interruptible /\ stopped \subseteq Worlds
      BY DEF Init
    <3>3. /\ client \in [Clients -> {"new", "creating", "timedout", "ready", "leaving", "gone"}]
          /\ way \in [Tasks -> DOMAIN Way \cup {None}]
          /\ task \in [Tasks -> {"new", "called", "posted", "running", "continued", "ran", "locked",
                                 "returned", "done", "skipped", "dropped"}]
          /\ future \in [Tasks -> {"waiting", "ready", "broken", None}]
          /\ callbacks \in [Tasks -> 0 .. 2]
      BY DEF Init
    <3> QED
      BY <3>1, <3>2, <3>3 DEF TypeOK
  <2>2. WorldType
    BY DEF Init, WorldType, Good, NoneTwice, Worlds
  <2>3. \A w \in Worlds : \A j : ~Within(j, queue[w])
    BY DEF Init, Within, Worlds
  <2>4. QueueInv
    BY <2>3 DEF QueueInv, Worlds
  <2>5. TaskInv
    <3>1. \A t \in Tasks : <<"callback", t>> \in Jobs
      BY DEF Jobs
    <3> QED
      BY <3>1, NoneAssumption, WayFacts DEF Init, TaskInv, Worlds
  <2>6. BirthInv
    BY DEF Init, BirthInv, Worlds
  <2>7. DeathInv
    <3>1. ~Held("S")
      <4>1. /\ \A c \in Clients : <<"delete", c>> \in Jobs
            /\ \A t \in Tasks : <<"member", t>> \in Jobs /\ <<"self", t>> \in Jobs
        BY DEF Jobs
      <4> QED
        BY <2>3, <4>1, NoneAssumption, HeldParts DEF Init, Worlds
    <3> QED
      BY <3>1, NoneAssumption DEF Init, DeathInv, Worlds
  <2>8. OwnerInv
    BY DEF Init, OwnerInv, Worlds
  <2>9. LowInv
    BY DEF Init, LowInv, Worlds
  <2> QED
    BY <2>1, <2>2, <2>4, <2>5, <2>6, <2>7, <2>8, <2>9 DEF IInv
<1>2. IInv /\ [Next]_vars => IInv'
  <2> SUFFICES ASSUME IInv, [Next]_vars
               PROVE  IInv'
    OBVIOUS
  <2>1. ASSUME NEW c \in Clients, ClientStep(c)
        PROVE  IInv'
    BY <2>1, CreateKeeps, CreatedKeeps, TimeOutKeeps, UnwindKeeps, DropKeeps, ReleaseKeeps,
       CopyKeeps, CallKeeps, CallFutureKeeps DEF ClientStep
  <2>2. ASSUME NEW w \in Worlds, WorldStep(w)
        PROVE  IInv'
    <3>1. CASE w = "S" /\ (RunCreate \/ \E t \in Tasks : RunMember(t) \/ RunCallback(t))
      BY <3>1, RunCreateKeeps, RunMemberKeeps, RunCallbackKeeps
    <3>2. CASE RunDelete(w)
      BY <3>2, RunDeleteSKeeps, RunDeleteLKeeps DEF Worlds
    <3>3. CASE EndJob(w) \/ Stop(w)
      BY <3>3, EndJobKeeps, StopKeeps
    <3>4. CASE \E t \in Tasks : StartInWorld(w, t)
      BY <3>4, StartSKeeps, StartLKeeps DEF Worlds
    <3> QED
      BY <2>2, <3>1, <3>2, <3>3, <3>4 DEF WorldStep
  <2>3. CASE Destructor
    BY <2>3, DestroyProxyKeeps, JoinLowKeeps, JoinPoolKeeps DEF Destructor
  <2>4. ASSUME NEW t \in Tasks, TaskStep(t) \/ Interrupt(t)
        PROVE  IInv'
    BY <2>4, TaskStepKeeps, PostBackKeeps, InterruptKeeps
  <2>5. CASE UNCHANGED vars
    BY <2>5, StutterKeeps
  <2> QED
    BY <2>1, <2>2, <2>3, <2>4, <2>5 DEF Next
<1> QED
  BY <1>1, <1>2, PTL DEF Spec

\* Type correctness: no task is called back more than twice, no thread holds
\* anything but a job, nothing unknown is in a queue.
THEOREM ServantsTypes == Spec => []TypeOK
<1>1. IInv => TypeOK
  BY DEF IInv
<1> QED
  BY <1>1, ServantsInvariant, PTL

\* When S is gone its lower layer is gone, each was destroyed in its own thread.
THEOREM LowerLayerFirst == Spec => []LayersDieInOrder
<1>1. IInv => LayersDieInOrder
  <2> SUFFICES ASSUME IInv, NoneCarried
               PROVE  /\ life["S"] = "dead" => life["L"] = "dead"
                      /\ diedIn["L"] \in {None, "L"}
                      /\ \/ diedIn["S"] \in {None, "S"}
                         \/ diedIn["S"] = "client" /\ made = "set"
    BY DEF LayersDieInOrder, NoneCarried
  <2>1. ASSUME life["S"] = "dead"
        PROVE  life["L"] = "dead"
    <3>1. /\ ~owns /\ life["L"] # "unborn" /\ queue["L"] = <<>> /\ cur["L"] = None
      BY <2>1 DEF IInv, OwnerInv
    <3>2. \A j : ~Within(j, queue["L"])
      BY <3>1 DEF Within
    <3>3. ~Held("L")
      <4>1. /\ <<"delete", "S">> \in Jobs
            /\ \A t \in Tasks : <<"task", t>> \in Jobs /\ <<"callback", t>> \in Jobs
        BY DEF Jobs
      <4>2. ASSUME NEW t \in Tasks, way[t] # None, Way[way[t]].holds
            PROVE  /\ ~Within(<<"callback", t>>, queue["S"])
                   /\ cur["S"] # <<"callback", t>>
        <5>1. Way[way[t]].answer # "callback"
          BY <4>2 DEF NoneCarried
        <5> QED
          BY <5>1 DEF IInv, TaskInv, QueueInv
      <4> QED
        BY <3>1, <3>2, <4>1, <4>2, NoneAssumption, HeldLow
    <3> QED
      BY <3>1, <3>3 DEF IInv, LowInv, WorldType
  <2> QED
    BY <2>1 DEF IInv, LowInv, DeathInv
<1> QED
  BY <1>1, ServantsInvariant, PTL

\* A callback wrapped in check_alive runs while its servant is alive, not while
\* the destructor runs and not after it.
THEOREM CallbacksFindTheirServant == Spec => CallbackOnlyWhileAlive
<1>1. ASSUME IInv, [Next]_vars, NEW t \in Tasks, callbacks'[t] # callbacks[t],
             Way[way'[t]].checked
      PROVE  life["S"] = "alive"
  <2>1. ASSUME NEW u \in Tasks, RunMember(u)
        PROVE  life["S"] = "alive"
    <3>1. /\ queue["S"] # <<>> /\ Head(queue["S"])[1] = "member" /\ Head(queue["S"])[2] = u
          /\ Good(queue)
      BY <1>1, <2>1 DEF RunMember, Pops, IInv, WorldType
    <3>2. Head(queue["S"]) \in JobsOf("S") /\ Within(Head(queue["S"]), queue["S"])
      BY <3>1, PopsFirst DEF Worlds
    <3>3. Within(<<"member", u>>, queue["S"])
      BY <3>1, <3>2, JobsOfWorlds
    <3> QED
      BY <1>1, <3>3, HeldParts DEF IInv, DeathInv
  <2>2. ASSUME NEW u \in Tasks, RunCallback(u)
        PROVE  life["S"] = "alive"
    <3>1. /\ queue["S"] # <<>> /\ Head(queue["S"])[1] = "callback" /\ Head(queue["S"])[2] = u
          /\ diedIn["S"] = "S" => life["S"] = "dead"
          /\ Good(queue)
      BY <1>1, <2>2 DEF RunCallback, Pops, Idle, IInv, WorldType
    <3>2. Head(queue["S"]) \in JobsOf("S") /\ Within(Head(queue["S"]), queue["S"])
      BY <3>1, PopsFirst DEF Worlds
    <3>3. Within(<<"callback", u>>, queue["S"])
      BY <3>1, <3>2, JobsOfWorlds
    <3>4. diedIn["S"] # "client"
      BY <1>1, <3>3 DEF IInv, DeathInv, BirthInv, QueueInv
    <3>5. t = u /\ way' = way /\ ~(Way[way[u]].checked /\ Expired)
      BY <1>1, <2>2 DEF RunCallback, IInv, TypeOK
    <3>6. life["S"] \notin {"unborn", "dead"}
      BY <1>1, <3>5 DEF Expired
    <3> QED
      BY <1>1, <3>1, <3>4, <3>6 DEF IInv, DeathInv
  <2>3. ASSUME NEW u \in Tasks, CallFromLow(u)
        PROVE  FALSE
    <3>1. /\ task[u] = "running" /\ Way[way[u]].answer = "direct" /\ way' = way
          /\ callbacks' = [callbacks EXCEPT ![u] = @ + (IF u \in Throwing THEN 2 ELSE 1)]
      BY <2>3 DEF CallFromLow, Running
    <3>2. t = u
      BY <1>1, <3>1 DEF IInv, TypeOK
    <3>3. way[u] \in DOMAIN Way /\ way[u] # "direct_callback"
      BY <1>1, <3>1, TaskIsPosted DEF IInv, TaskInv
    <3> QED
      BY <1>1, <3>1, <3>2, <3>3, WayFacts
  <2>4. ASSUME NEW c \in Clients, ClientStep(c)
        PROVE  callbacks' = callbacks
    BY <2>4 DEF ClientStep, Create, Created, TimeOut, Unwind, Drop, Release, Copy, Call,
                CallFuture, PostedFuture, tasks
  <2>5. ASSUME NEW w \in Worlds, WorldStep(w)
        PROVE  \/ callbacks' = callbacks
               \/ \E u \in Tasks : RunMember(u) \/ RunCallback(u)
    BY <2>5 DEF WorldStep, RunCreate, RunDelete, EndJob, Stop, StartInWorld, tasks
  <2>6. ASSUME Destructor
        PROVE  callbacks' = callbacks
    BY <2>6 DEF Destructor, DestroyProxyOfLow, JoinLow, JoinPool, tasks
  <2>7. ASSUME NEW u \in Tasks, TaskStep(u) \/ Interrupt(u)
        PROVE  callbacks' = callbacks \/ CallFromLow(u)
    BY <2>7 DEF TaskStep, StartInPool, FinishFuture, FinishCallback, FinishContinuation,
                ResolveFuture, ResolveCallback, Abandon, Load, LockHome, PostBack, Interrupt
  <2>8. CASE UNCHANGED vars
    BY <1>1, <2>8 DEF vars
  <2> QED
    BY <1>1, <2>1, <2>2, <2>3, <2>4, <2>5, <2>6, <2>7, <2>8 DEF Next
<1>2. IInv /\ [Next]_vars
        => [\A t \in Tasks :
              callbacks'[t] # callbacks[t] /\ Way[way'[t]].checked => life["S"] = "alive"]_vars
  BY <1>1
<1> QED
  BY <1>2, ServantsInvariant, PTL DEF Spec, CallbackOnlyWhileAlive

-----------------------------------------------------------------------------
(* Least elements                                                          *)

\* A set of natural numbers has a least element.
LEMMA Least ==
  ASSUME NEW S \in SUBSET Nat, NEW k \in S
  PROVE  \E m \in S : \A n \in S : m <= n
<1> DEFINE R == StrictSubsetOrdering(Nat)
           F == FiniteSubsetsOf(Nat)
           T == {1 .. n : n \in S}
<1>1. IsWellFoundedOn(R, F)
  BY FS_StrictSubsetOrderingWellFounded
<1>2. \A n \in S : 1 .. n \in F
  <2> SUFFICES ASSUME NEW n \in S PROVE 1 .. n \in F
    OBVIOUS
  <2>1. IsFiniteSet(1 .. n)
    BY FS_Interval
  <2>2. 1 .. n \in SUBSET Nat
    OBVIOUS
  <2> QED
    BY <2>1, <2>2 DEF FiniteSubsetsOf
<1>3. T \subseteq F /\ 1 .. k \in T
  BY <1>2
<1> HIDE DEF R, F
<1>4. PICK x \in T : \A y \in T : ~(<<y, x>> \in R)
  BY <1>1, <1>3, WFMin
<1>5. PICK m \in S : x = 1 .. m
  BY <1>4
<1>6. ASSUME NEW n \in S, n < m PROVE FALSE
  <2>1. 1 .. n \in T /\ <<1 .. n, x>> \notin R
    BY <1>4
  <2>2. 1 .. n \subseteq 1 .. m /\ m \in 1 .. m /\ m \notin 1 .. n
    BY <1>6
  <2>3. 1 .. n \in SUBSET Nat /\ 1 .. m \in SUBSET Nat /\ 1 .. n # 1 .. m
    BY <2>2
  <2> QED
    BY <2>1, <2>2, <2>3, <1>5 DEF R, StrictSubsetOrdering
<1> QED
  BY <1>6

-----------------------------------------------------------------------------
(* Local notifications: the loops of publish_internal                      *)

\* Every subscriber lives in one world.
SubscribersLive == Home \in [Subscribers -> EventWorlds] /\ None \notin Subscribers

\* No topic is None.
TopicsNamed == \A s \in Subscribers : None \notin Subscribed[s]

\* What the proofs take from BusAssumption of Notification.
LEMMA BusConstants == SubscribersLive /\ TopicsNamed
BY BusAssumption DEF Bus!BusAssumption, SubscribersLive, TopicsNamed

Entry(e) ==
  /\ e = [token |-> e.token, servant |-> e.servant, topic |-> e.topic, state |-> e.state,
          returned |-> e.returned]
  /\ e.token \in Nat /\ e.servant \in Subscribers

\* Notification counts like the library.
LEMMA SameCardinality == \A S : Bus!Cardinality(S) = Cardinality(S)
BY DEF Bus!Cardinality, Cardinality

\* A call of publish_internal that waits for a handler is at an entry of E.
LoopAt(f, E) ==
  /\ f = [topic |-> f.topic, event |-> f.event, at |-> f.at, calling |-> f.calling,
          local |-> f.local]
  /\ f.calling # None => \E e \in E : e.token = f.at

LoopsAt(q, E) == (\E S : q \in Seq(S)) /\ \A i \in DOMAIN q : LoopAt(q[i], E)

LoopInv ==
  /\ subs = [w \in EventWorlds |-> subs[w]] /\ frames = [w \in EventWorlds |-> frames[w]]
  /\ \A w \in EventWorlds : /\ IsFiniteSet(subs[w]) /\ \A e \in subs[w] : Entry(e)
                            /\ LoopsAt(frames[w], subs[w])

\* F has the entries of E, with other marks perhaps, and maybe more.
Kept(E, F) ==
  /\ IsFiniteSet(F) /\ \A f \in F : Entry(f)
  /\ \A e \in E : \E f \in F : f.token = e.token

\* A call finds its entry where all entries were kept.
LEMMA CallsKept ==
  ASSUME NEW q, NEW E, NEW F, LoopsAt(q, E), Kept(E, F)
  PROVE  LoopsAt(q, F)
BY DEF LoopsAt, LoopAt, Kept

\* A call that begins is at no entry yet.
LEMMA CallBegins ==
  ASSUME NEW q, NEW E, NEW t, NEW n, NEW b, LoopsAt(q, E)
  PROVE  LoopsAt(<<Bus!Frame(t, n, b)>> \o q, E) /\ <<Bus!Frame(t, n, b)>> \o q # <<>>
<1> DEFINE f == Bus!Frame(t, n, b)
           r == <<f>> \o q
<1>1. PICK S : q \in Seq(S)
  BY DEF LoopsAt
<1>2. q \in Seq(S \cup {f}) /\ <<f>> \in Seq(S \cup {f})
  BY <1>1, SeqOfMore
<1>3. r \in Seq(S \cup {f}) /\ Len(r) = Len(q) + 1
      /\ \A i \in DOMAIN r : IF i = 1 THEN r[i] = f ELSE i - 1 \in DOMAIN q /\ r[i] = q[i - 1]
  BY <1>2
<1>4. LoopAt(f, E)
  BY DEF LoopAt, Bus!Frame
<1>5. \A i \in DOMAIN r : LoopAt(r[i], E)
  BY <1>3, <1>4 DEF LoopsAt
<1> QED
  BY <1>3, <1>5 DEF LoopsAt

\* The innermost call ends.
LEMMA CallEnds ==
  ASSUME NEW q, NEW E, LoopsAt(q, E), q # <<>>
  PROVE  LoopsAt(Tail(q), E)
<1>1. PICK S : q \in Seq(S)
  BY DEF LoopsAt
<1>2. Tail(q) \in Seq(S) /\ \A i \in DOMAIN Tail(q) : i + 1 \in DOMAIN q /\ Tail(q)[i] = q[i + 1]
  BY <1>1
<1> QED
  BY <1>2 DEF LoopsAt

\* The innermost call changes to f.
LEMMA CallMoves ==
  ASSUME NEW q, NEW E, NEW f, LoopsAt(q, E), q # <<>>, LoopAt(f, E)
  PROVE  LoopsAt([q EXCEPT ![1] = f], E)
<1> DEFINE r == [q EXCEPT ![1] = f]
<1>1. PICK S : q \in Seq(S)
  BY DEF LoopsAt
<1>2. q \in Seq(S \cup {f})
  BY <1>1, SeqOfMore
<1>3. r \in Seq(S \cup {f}) /\ \A i \in DOMAIN r : i \in DOMAIN q /\ r[i] = IF i = 1 THEN f ELSE q[i]
  BY <1>2
<1>4. \A i \in DOMAIN r : LoopAt(r[i], E)
  BY <1>3 DEF LoopsAt
<1> QED
  BY <1>3, <1>4 DEF LoopsAt

\* The loop goes on to the entry with the least token that is ahead.
LEMMA NextAhead ==
  ASSUME LoopInv, NEW w \in EventWorlds, Bus!Ahead(w) # {}
  PROVE  (CHOOSE e \in Bus!Ahead(w) : \A f \in Bus!Ahead(w) : e.token <= f.token) \in Bus!Ahead(w)
<1> DEFINE A == Bus!Ahead(w)
           T == {e.token : e \in A}
<1>1. \A e \in A : e.token \in Nat
  BY DEF LoopInv, Entry, Bus!Ahead
<1> HIDE DEF A
<1>2. PICK a \in A : TRUE
  BY DEF A
<1>3. T \in SUBSET Nat /\ a.token \in T
  BY <1>1, <1>2
<1>4. PICK m \in T : \A n \in T : m <= n
  BY <1>3, Least
<1>5. PICK e \in A : e.token = m
  BY <1>4
<1>6. \A f \in A : e.token <= f.token
  BY <1>4, <1>5
<1> QED
  BY <1>5, <1>6 DEF A

\* The entries that are not erased stay.
Stays(E, F) ==
  \A e \in E : e.state # "off" => \E f \in F : f.token = e.token /\ f.state # "off"

\* An entry takes the place of another one with its token.
LEMMA Replaced ==
  ASSUME NEW E, NEW e \in E, NEW d, IsFiniteSet(E), \A f \in E : Entry(f),
         Entry(d), d.token = e.token
  PROVE  /\ Kept(E, (E \ {e}) \cup {d})
         /\ d.state # "off" \/ e.state = "off" => Stays(E, (E \ {e}) \cup {d})
<1> DEFINE F == (E \ {e}) \cup {d}
<1>1. IsFiniteSet(F)
  BY FS_RemoveElement, FS_AddElement
<1>2. \A f \in E : f = e \/ f \in F
  OBVIOUS
<1>3. \A f \in F : Entry(f)
  OBVIOUS
<1>4. d \in F
  OBVIOUS
<1> HIDE DEF F
<1>5. Kept(E, F)
  BY <1>1, <1>2, <1>3, <1>4 DEF Kept
<1>6. d.state # "off" \/ e.state = "off" => Stays(E, F)
  BY <1>2, <1>4 DEF Stays
<1> QED
  BY <1>5, <1>6 DEF F

\* Marking an entry keeps it.
LEMMA MarkKeeps ==
  ASSUME NEW E, NEW e \in E, NEW F, IsFiniteSet(E), \A f \in E : Entry(f),
         F = (E \ {e}) \cup {[e EXCEPT !.state = "marked"]}
  PROVE  Kept(E, F) /\ Stays(E, F)
<1> DEFINE d == [e EXCEPT !.state = "marked"]
<1>1. Entry(e)
  OBVIOUS
<1>2. d = [token |-> e.token, servant |-> e.servant, topic |-> e.topic, state |-> "marked",
           returned |-> e.returned]
  BY <1>1 DEF Entry
<1>3. Entry(d) /\ d.token = e.token /\ d.state = "marked"
  BY <1>1, <1>2 DEF Entry
<1>4. F = (E \ {e}) \cup {d}
  OBVIOUS
<1> HIDE DEF d
<1>5. d.state # "off"
  BY <1>3
<1> QED
  BY <1>3, <1>4, <1>5, Replaced

\* A call that goes on to entry a.
LEMMA Goes ==
  ASSUME NEW f, NEW E, LoopAt(f, E), NEW a, NEW c
  PROVE  [f EXCEPT !.at = a, !.calling = c]
           = [topic |-> f.topic, event |-> f.event, at |-> a, calling |-> c, local |-> f.local]
<1> DEFINE g == [f EXCEPT !.at = a]
<1>1. [f EXCEPT !.at = a, !.calling = c] = [g EXCEPT !.calling = c]
  OBVIOUS
<1>2. g = [topic |-> f.topic, event |-> f.event, at |-> a, calling |-> f.calling,
           local |-> f.local]
  BY DEF LoopAt
<1> HIDE DEF g
<1>3. [g EXCEPT !.calling = c]
        = [topic |-> f.topic, event |-> f.event, at |-> a, calling |-> c, local |-> f.local]
  BY <1>2
<1> QED
  BY <1>1, <1>3

Returned(e, m) == [e EXCEPT !.state = m, !.returned = TRUE]
AtEntry(f, a, c) == [f EXCEPT !.at = a, !.calling = c]
LoopAtEntry(fs, w, a, c) == [fs EXCEPT ![w][1].at = a, ![w][1].calling = c]

\* A subscription that is given back is the same entry.
LEMMA GivenBack ==
  ASSUME NEW e, Entry(e), NEW m
  PROVE  LET d == Returned(e, m)
         IN  Entry(d) /\ d.token = e.token /\ d.state = m
<1> DEFINE c == [e EXCEPT !.state = m]
           d == Returned(e, m)
<1>1. PICK b : b = TRUE
  OBVIOUS
<1>2. d = [c EXCEPT !.returned = b]
  BY <1>1 DEF Returned
<1>3. c = [token |-> e.token, servant |-> e.servant, topic |-> e.topic, state |-> m,
           returned |-> e.returned]
  BY DEF Entry
<1> HIDE DEF c
<1>4. [c EXCEPT !.returned = b] = [token |-> e.token, servant |-> e.servant,
           topic |-> e.topic, state |-> m, returned |-> b]
  BY <1>3
<1> HIDE DEF d
<1>5. d = [token |-> e.token, servant |-> e.servant, topic |-> e.topic, state |-> m,
           returned |-> b]
  BY <1>2, <1>4
<1>6. Entry(d) /\ d.token = e.token /\ d.state = m
  BY <1>5 DEF Entry
<1> QED
  BY <1>6 DEF d

\* Two fields of the first element of a sequence change.
LEMMA Nested ==
  ASSUME NEW f, NEW W, NEW w \in W, f = [v \in W |-> f[v]], NEW S, f[w] \in Seq(S), f[w] # <<>>,
         NEW a, NEW c
  PROVE  LoopAtEntry(f, w, a, c) = [f EXCEPT ![w] = [f[w] EXCEPT ![1] = AtEntry(f[w][1], a, c)]]
<1> DEFINE g == [f EXCEPT ![w][1].at = a]
           k == [f[w][1] EXCEPT !.at = a]
           p == [f[w] EXCEPT ![1] = k]
<1>1. LoopAtEntry(f, w, a, c) = [g EXCEPT ![w][1].calling = c]
  BY DEF LoopAtEntry
<1>2. g = [f EXCEPT ![w] = p]
  OBVIOUS
<1>3. [g EXCEPT ![w][1].calling = c]
        = [g EXCEPT ![w] = [g[w] EXCEPT ![1] = [g[w][1] EXCEPT !.calling = c]]]
  OBVIOUS
<1>4. g[w] = p /\ p[1] = k
  BY <1>2
<1>5. AtEntry(f[w][1], a, c) = [k EXCEPT !.calling = c]
  BY DEF AtEntry
<1>6. [g[w] EXCEPT ![1] = [g[w][1] EXCEPT !.calling = c]]
        = [p EXCEPT ![1] = [k EXCEPT !.calling = c]]
  BY <1>4
<1> HIDE DEF k
<1>7. [p EXCEPT ![1] = [k EXCEPT !.calling = c]] = [f[w] EXCEPT ![1] = [k EXCEPT !.calling = c]]
  OBVIOUS
<1> HIDE DEF p
<1>8. [g EXCEPT ![w] = [f[w] EXCEPT ![1] = [k EXCEPT !.calling = c]]]
        = [f EXCEPT ![w] = [f[w] EXCEPT ![1] = [k EXCEPT !.calling = c]]]
  BY <1>2
<1> HIDE DEF g
<1> QED
  BY <1>1, <1>3, <1>5, <1>6, <1>7, <1>8

\* The entries that are not erased stay where a loop is under way.
EntriesStay ==
  \A w \in EventWorlds : frames[w] # <<>> /\ frames'[w] # <<>> =>
    \A e \in subs[w] : e.state # "off" =>
      \E f \in subs'[w] : f.token = e.token /\ f.state # "off"

\* A step of one world.
LEMMA WorldSteps ==
  ASSUME LoopInv, NEW w \in EventWorlds, NEW E, NEW q,
         subs' = [subs EXCEPT ![w] = E], frames' = [frames EXCEPT ![w] = q],
         Kept(subs[w], E), LoopsAt(q, subs[w]),
         frames[w] # <<>> /\ q # <<>> => Stays(subs[w], E)
  PROVE  LoopInv' /\ EntriesStay
<1>1. LoopsAt(q, E)
  BY CallsKept
<1>2. /\ subs' = [v \in EventWorlds |-> IF v = w THEN E ELSE subs[v]]
      /\ frames' = [v \in EventWorlds |-> IF v = w THEN q ELSE frames[v]]
  BY DEF LoopInv
<1>3. LoopInv'
  <2>1. subs' = [v \in EventWorlds |-> subs'[v]] /\ frames' = [v \in EventWorlds |-> frames'[v]]
    BY <1>2
  <2>2. \A v \in EventWorlds : (\A e \in subs'[v] : Entry(e)) /\ LoopsAt(frames'[v], subs'[v])
    BY <1>1, <1>2 DEF LoopInv, Kept
  <2>3. \A v \in EventWorlds : IsFiniteSet(subs'[v])
    BY <1>2 DEF LoopInv, Kept
  <2> QED
    BY <2>1, <2>2, <2>3 DEF LoopInv
<1>4. EntriesStay
  BY <1>2 DEF EntriesStay, Stays
<1> QED
  BY <1>3, <1>4

\* Nothing of the subscribers and of the loops changes.
LEMMA NothingChanges ==
  ASSUME LoopInv, UNCHANGED <<subs, frames>>
  PROVE  LoopInv' /\ EntriesStay
BY DEF LoopInv, EntriesStay

\* All entries are kept.
LEMMA AllKept ==
  ASSUME LoopInv, NEW w \in EventWorlds
  PROVE  /\ Kept(subs[w], subs[w]) /\ Stays(subs[w], subs[w])
         /\ LoopsAt(frames[w], subs[w]) /\ IsFiniteSet(subs[w]) /\ \A e \in subs[w] : Entry(e)
         /\ subs = [subs EXCEPT ![w] = subs[w]] /\ frames = [frames EXCEPT ![w] = frames[w]]
BY DEF LoopInv, Kept, Stays

\* The call of the innermost loop.
LEMMA TopIsCall ==
  ASSUME LoopInv, NEW w \in EventWorlds, frames[w] # <<>>
  PROVE  Bus!Top(w) = frames[w][1] /\ LoopAt(frames[w][1], subs[w])
<1>1. PICK S : frames[w] \in Seq(S)
  BY DEF LoopInv, LoopsAt
<1>2. Head(frames[w]) = frames[w][1] /\ 1 \in DOMAIN frames[w]
  BY <1>1
<1> QED
  BY <1>2 DEF LoopInv, LoopsAt, Bus!Top

\* A new entry, behind all others.
LEMMA SubscribeKeeps ==
  ASSUME LoopInv, SubscribersLive, NEW s \in Subscribers, NEW t, Bus!Subscribe(s, t)
  PROVE  LoopInv' /\ EntriesStay
<1> DEFINE w == Home[s]
           e == [token |-> Cardinality(subs[w]) + 1, servant |-> s, topic |-> t,
                 state |-> "on", returned |-> FALSE]
<1>1. w \in EventWorlds
  BY DEF SubscribersLive
<1>2. subs' = [subs EXCEPT ![w] = subs[w] \cup {e}] /\ frames' = frames
  BY SameCardinality DEF Bus!Subscribe
<1>3. Entry(e) /\ IsFiniteSet(subs[w] \cup {e})
  <2>1. IsFiniteSet(subs[w])
    BY <1>1 DEF LoopInv
  <2>2. Cardinality(subs[w]) \in Nat /\ IsFiniteSet(subs[w] \cup {e})
    BY <2>1, FS_AddElement, FS_CardinalityType
  <2> QED
    BY <2>2 DEF Entry
<1> HIDE DEF e
<1>4. Kept(subs[w], subs[w] \cup {e}) /\ Stays(subs[w], subs[w] \cup {e})
  BY <1>1, <1>3 DEF Kept, Stays, LoopInv
<1> QED
  BY <1>1, <1>2, <1>4, AllKept, WorldSteps

\* An entry is only marked while an event is published.
LEMMA UnsubscribeKeeps ==
  ASSUME LoopInv, SubscribersLive, NEW s \in Subscribers, NEW e \in subs[Home[s]],
         Bus!Unsubscribe(s, e)
  PROVE  LoopInv' /\ EntriesStay
<1> DEFINE w == Home[s]
           m == IF e.state = "off" THEN "off" ELSE IF Bus!Publishing(w) THEN "marked" ELSE "off"
           d == [e EXCEPT !.state = m, !.returned = TRUE]
           F == (subs[w] \ {e}) \cup {d}
<1>1. w \in EventWorlds
  BY DEF SubscribersLive
<1>2. subs' = [subs EXCEPT ![w] = F] /\ frames' = frames
  BY DEF Bus!Unsubscribe
<1>3. Entry(e)
  BY <1>1 DEF LoopInv
<1> HIDE DEF m
<1>4. Entry(d) /\ d.token = e.token /\ d.state = m
  <2>1. d = Returned(e, m)
    BY DEF Returned
  <2> HIDE DEF d
  <2> QED
    BY <1>3, <2>1, GivenBack
<1> HIDE DEF d
<1>6. Kept(subs[w], F) /\ (m # "off" \/ e.state = "off" => Stays(subs[w], F))
  BY <1>1, <1>4, AllKept, Replaced
<1>7. ASSUME frames[w] # <<>>
      PROVE  Stays(subs[w], F)
  <2>1. m # "off" \/ e.state = "off"
    BY <1>7 DEF m, Bus!Publishing
  <2> QED
    BY <2>1, <1>6
<1> QED
  BY <1>1, <1>2, <1>6, <1>7, AllKept, WorldSteps

\* A call of publish_internal begins.
LEMMA PublishKeeps ==
  ASSUME LoopInv, SubscribersLive, NEW s \in Subscribers, NEW t, Bus!Publish(s, t)
  PROVE  LoopInv' /\ EntriesStay
<1> DEFINE w == Home[s]
           q == <<Bus!Frame(t, events + 1, TRUE)>> \o frames[w]
<1>1. w \in EventWorlds
  BY DEF SubscribersLive
<1>2. subs' = subs /\ frames' = [frames EXCEPT ![w] = q]
  BY DEF Bus!Publish
<1>3. LoopsAt(q, subs[w])
  BY <1>1, AllKept, CallBegins
<1> HIDE DEF q
<1> QED
  BY <1>1, <1>2, <1>3, AllKept, WorldSteps

\* A loop calls the handler of an entry, or marks that of a servant that is gone.
LEMMA VisitKeeps ==
  ASSUME LoopInv, NEW w \in EventWorlds, Bus!Visit(w)
  PROVE  LoopInv' /\ EntriesStay
<1> DEFINE e == CHOOSE e \in Bus!Ahead(w) : \A f \in Bus!Ahead(w) : e.token <= f.token
           c == IF alive[e.servant] THEN e.servant ELSE None
           g == frames[w][1]
           h == [g EXCEPT !.at = e.token, !.calling = c]
           q == [frames[w] EXCEPT ![1] = h]
           M == (subs[w] \ {e}) \cup {[e EXCEPT !.state = "marked"]}
<1>1. e \in Bus!Ahead(w)
  BY NextAhead DEF Bus!Visit
<1>2. /\ frames' = [frames EXCEPT ![w][1].at = e.token, ![w][1].calling = c]
      /\ IF alive[e.servant] THEN subs' = subs ELSE subs' = [subs EXCEPT ![w] = M]
  BY DEF Bus!Visit, Bus!Mark
<1> HIDE DEF e
<1>3. e \in subs[w] /\ frames[w] # <<>>
  BY <1>1 DEF Bus!Ahead, Bus!Visit
<1>4. LoopAt(g, subs[w])
  BY <1>3, TopIsCall
<1>5. h = [topic |-> g.topic, event |-> g.event, at |-> e.token, calling |-> c, local |-> g.local]
  BY <1>4, Goes
<1>6. LoopAt(h, subs[w])
  BY <1>3, <1>5 DEF LoopAt
<1>7. frames' = [frames EXCEPT ![w] = q]
  <2>1. PICK S : frames[w] \in Seq(S)
    BY DEF LoopInv, LoopsAt
  <2>2. frames = [v \in EventWorlds |-> frames[v]]
    BY DEF LoopInv
  <2>3. h = AtEntry(frames[w][1], e.token, c)
    BY DEF AtEntry
  <2>4. frames' = LoopAtEntry(frames, w, e.token, c)
    BY <1>2 DEF LoopAtEntry
  <2> HIDE DEF c, h
  <2> QED
    BY <1>3, <2>1, <2>2, <2>3, <2>4, Nested
<1> HIDE DEF h
<1>8. LoopsAt(q, subs[w])
  BY <1>3, <1>6, AllKept, CallMoves
<1> HIDE DEF q
<1>9. IsFiniteSet(subs[w]) /\ \A f \in subs[w] : Entry(f)
  BY DEF LoopInv
<1>10. Kept(subs[w], M) /\ Stays(subs[w], M)
  BY <1>3, <1>9, MarkKeeps
<1> HIDE DEF M
<1>11. CASE alive[e.servant]
  BY <1>2, <1>7, <1>8, <1>11, AllKept, WorldSteps
<1>12. CASE ~alive[e.servant]
  BY <1>2, <1>7, <1>8, <1>10, <1>12, AllKept, WorldSteps
<1> QED
  BY <1>11, <1>12

\* A handler returns, and its entry may be marked.
LEMMA ReturnKeeps ==
  ASSUME LoopInv, NEW w \in EventWorlds, Bus!HandlerReturns(w)
  PROVE  LoopInv' /\ EntriesStay
<1> DEFINE g == frames[w][1]
           h == [g EXCEPT !.calling = None]
           q == [frames[w] EXCEPT ![1] = h]
           e == Bus!Entry(w, g.at)
           M == (subs[w] \ {e}) \cup {[e EXCEPT !.state = "marked"]}
<1>1. frames[w] # <<>> /\ Bus!Top(w) = g /\ LoopAt(g, subs[w])
  BY TopIsCall DEF Bus!HandlerReturns
<1>2. h = [topic |-> g.topic, event |-> g.event, at |-> g.at, calling |-> None, local |-> g.local]
  BY <1>1 DEF LoopAt
<1>3. LoopAt(h, subs[w])
  BY <1>2 DEF LoopAt
<1>4. frames' = [frames EXCEPT ![w] = q]
  BY DEF Bus!HandlerReturns
<1> HIDE DEF h
<1>5. LoopsAt(q, subs[w])
  BY <1>1, <1>3, AllKept, CallMoves
<1> HIDE DEF q
<1>6. subs' = subs \/ subs' = [subs EXCEPT ![w] = M]
  BY <1>1 DEF Bus!HandlerReturns, Bus!Mark
<1>7. e \in subs[w]
  BY <1>1 DEF Bus!HandlerReturns, Bus!Entry, LoopAt
<1>8. IsFiniteSet(subs[w]) /\ \A f \in subs[w] : Entry(f)
  BY DEF LoopInv
<1> HIDE DEF e
<1>9. Kept(subs[w], M) /\ Stays(subs[w], M)
  BY <1>7, <1>8, MarkKeeps
<1> HIDE DEF M
<1>10. CASE subs' = subs
  BY <1>4, <1>5, <1>10, AllKept, WorldSteps
<1>11. CASE subs' = [subs EXCEPT ![w] = M]
  BY <1>4, <1>5, <1>9, <1>11, AllKept, WorldSteps
<1> QED
  BY <1>6, <1>10, <1>11

\* An exception ends all loops of its thread.
LEMMA ThrowKeeps ==
  ASSUME LoopInv, NEW w \in EventWorlds, Bus!HandlerThrows(w)
  PROVE  LoopInv' /\ EntriesStay
<1>1. LoopsAt(<<>>, subs[w])
  BY DEF LoopsAt
<1>2. subs' = subs /\ frames' = [frames EXCEPT ![w] = <<>>]
  BY DEF Bus!HandlerThrows
<1> QED
  BY <1>1, <1>2, AllKept, WorldSteps

\* The outermost loop cleans up, when nothing else is at an entry.
LEMMA EndKeeps ==
  ASSUME LoopInv, NEW w \in EventWorlds, Bus!PublishEnds(w)
  PROVE  LoopInv' /\ EntriesStay
<1> DEFINE C == {IF e.state = "marked" THEN [e EXCEPT !.state = "off"] ELSE e : e \in subs[w]}
           q == Tail(frames[w])
<1>1. frames' = [frames EXCEPT ![w] = q] /\ LoopsAt(q, subs[w])
  BY AllKept, CallEnds DEF Bus!PublishEnds
<1>2. subs' = subs \/ (q = <<>> /\ subs' = [subs EXCEPT ![w] = C])
  BY DEF Bus!PublishEnds, Bus!Cleanup, Bus!Cleaned
<1> HIDE DEF q
<1>3. Kept(subs[w], C)
  <2>1. ASSUME NEW e \in subs[w]
        PROVE  /\ Entry(e) /\ Entry([e EXCEPT !.state = "off"])
               /\ [e EXCEPT !.state = "off"].token = e.token
    <3>1. Entry(e)
      BY DEF LoopInv
    <3>2. [e EXCEPT !.state = "off"] = [token |-> e.token, servant |-> e.servant,
             topic |-> e.topic, state |-> "off", returned |-> e.returned]
      BY <3>1 DEF Entry
    <3> QED
      BY <3>1, <3>2 DEF Entry
  <2>2. \A f \in C : Entry(f)
    BY <2>1
  <2>3. \A e \in subs[w] : \E f \in C : f.token = e.token
    BY <2>1
  <2>4. IsFiniteSet(C)
    <3> DEFINE f == [e \in subs[w] |-> IF e.state = "marked" THEN [e EXCEPT !.state = "off"] ELSE e]
    <3>1. IsFiniteSet(subs[w])
      BY DEF LoopInv
    <3>2. f \in Surjection(subs[w], C)
      BY DEF Surjection
    <3> QED
      BY <3>1, <3>2, FS_Surjection
  <2> QED
    BY <2>2, <2>3, <2>4 DEF Kept
<1> HIDE DEF C
<1>4. CASE subs' = subs
  BY <1>1, <1>4, AllKept, WorldSteps
<1>5. CASE q = <<>> /\ subs' = [subs EXCEPT ![w] = C]
  BY <1>1, <1>3, <1>5, WorldSteps
<1> QED
  BY <1>2, <1>4, <1>5

\* A job of another scheduler begins a loop, or none.
LEMMA PerformKeeps ==
  ASSUME LoopInv, NEW w \in EventWorlds, NEW j, Bus!Perform(w, j), frames[w] = <<>>,
         subs' = subs
  PROVE  LoopInv' /\ EntriesStay
<1> DEFINE q == <<Bus!Frame(j.topic, j.event, FALSE)>>
<1>1. frames' = frames \/ frames' = [frames EXCEPT ![w] = q]
  BY DEF Bus!Perform, Bus!SubscribeScheduler, Bus!UnsubscribeScheduler, Bus!Receive
<1>2. LoopsAt(q, subs[w])
  <2>1. LoopsAt(<<>>, subs[w])
    BY DEF LoopsAt
  <2>2. LoopsAt(q \o <<>>, subs[w])
    BY <2>1, CallBegins
  <2>3. q \o <<>> = q
    OBVIOUS
  <2> QED
    BY <2>2, <2>3
<1> HIDE DEF q
<1> QED
  BY <1>1, <1>2, AllKept, WorldSteps, NothingChanges

\* The steps of the loops and of everything that moves an entry.
LEMMA EventStep ==
  ASSUME LoopInv, SubscribersLive, Bus!Next
  PROVE  LoopInv' /\ EntriesStay
<1>1. ASSUME NEW s \in Subscribers, NEW t \in Subscribed[s], Bus!Subscribe(s, t)
      PROVE  LoopInv' /\ EntriesStay
  BY <1>1, SubscribeKeeps
<1>2. ASSUME NEW s \in Subscribers, NEW e \in subs[Home[s]], Bus!Unsubscribe(s, e)
      PROVE  LoopInv' /\ EntriesStay
  BY <1>2, UnsubscribeKeeps
<1>3. ASSUME NEW s \in Subscribers, NEW t \in Published[s], Bus!Publish(s, t)
      PROVE  LoopInv' /\ EntriesStay
  BY <1>3, PublishKeeps
<1>4. ASSUME NEW s \in Subscribers, Bus!Die(s)
      PROVE  LoopInv' /\ EntriesStay
  BY <1>4, NothingChanges DEF Bus!Die
<1>5. ASSUME NEW w \in EventWorlds, Bus!Loop(w)
      PROVE  LoopInv' /\ EntriesStay
  BY <1>5, VisitKeeps, ReturnKeeps, ThrowKeeps, EndKeeps DEF Bus!Loop
<1>6. ASSUME NEW w \in EventWorlds, Bus!RunJob(w) \/ Bus!RunPrivateJob(w)
      PROVE  LoopInv' /\ EntriesStay
  <2>1. CASE Bus!RunJob(w)
    BY <2>1, PerformKeeps DEF Bus!RunJob, Bus!Idle
  <2>2. CASE Bus!RunPrivateJob(w)
    BY <2>2, PerformKeeps DEF Bus!RunPrivateJob, Bus!Idle
  <2> QED
    BY <1>6, <2>1, <2>2
<1>7. ASSUME NEW w \in EventWorlds,
             \/ Bus!RunOthersJob(w) \/ Bus!OthersJobEnds(w) \/ Bus!Send(w)
             \/ Bus!Register(w) \/ Bus!Stop(w)
      PROVE  LoopInv' /\ EntriesStay
  BY <1>7, NothingChanges
  DEF Bus!RunOthersJob, Bus!OthersJobEnds, Bus!Send, Bus!Register, Bus!Stop
<1>8. ASSUME Bus!AddScheduler \/ Bus!Notify
      PROVE  LoopInv' /\ EntriesStay
  BY <1>8, NothingChanges DEF Bus!AddScheduler, Bus!Notify
<1>9. CASE Bus!ServantStep
  BY <1>1, <1>2, <1>3, <1>4, <1>9 DEF Bus!ServantStep
<1>10. CASE Bus!WorldStep
  BY <1>5, <1>6, <1>7, <1>10 DEF Bus!WorldStep
<1> QED
  BY <1>8, <1>9, <1>10 DEF Bus!Next

\* No entry is erased from the subscribers of a thread while a loop of
\* publish_internal is under way there, whatever its handlers do: only the
\* outermost call cleans up.
THEOREM LoopsFindTheirEntries == Bus!Spec => LoopsKeepTheirEntries
<1>1. Bus!Init => LoopInv
  <2>1. \A E : LoopsAt(<<>>, E)
    BY DEF LoopsAt
  <2>2. IsFiniteSet({})
    BY FS_EmptySet
  <2> QED
    BY <2>1, <2>2 DEF Bus!Init, LoopInv
<1>2. LoopInv /\ [Bus!Next]_Bus!vars => LoopInv'
  BY BusConstants, EventStep, NothingChanges DEF Bus!vars
<1>3. LoopInv /\ [Bus!Next]_Bus!vars => [EntriesStay]_Bus!vars
  BY BusConstants, EventStep
<1>4. LoopsKeepTheirEntries <=> [][EntriesStay]_Bus!vars
  BY DEF LoopsKeepTheirEntries, Bus!LoopsKeepTheirEntries, EntriesStay
<1> QED
  BY <1>1, <1>2, <1>3, <1>4, PTL DEF Bus!Spec

-----------------------------------------------------------------------------
(* Local notifications: the schedulers on the bus know the subscriptions   *)

\* The elements of a queue.
Elems(q) == {q[i] : i \in 1 .. Len(q)}

IsQueue(q) == \E S : q \in Seq(S)

\* The jobs that the calls of q send to world w.
CallJobs(q, w) == {c.job : c \in {c \in Elems(q) : w \in c.to}}

\* The jobs that others have still to send to world w.
Underway(w) == UNION {CallJobs(telling[v], w) : v \in EventWorlds}

\* The jobs that wait in world w or are on their way to it.
Pending(w) == Elems(inbox[w]) \cup Elems(private[w]) \cup Underway(w)

NoOthers(q) == \A j \in Elems(q) : j.kind # "others"

\* Calls that send no job of the notification servant.
IsCalls(q) ==
  /\ IsQueue(q)
  /\ \A c \in Elems(q) : c = [to |-> c.to, job |-> c.job] /\ c.job.kind # "others"

OthersOnce(q) ==
  \A i, k \in 1 .. Len(q) : q[i].kind = "others" /\ q[k].kind = "others" => i = k

\* The worlds on the bus, with those that are gone.
OnBus == {bus.known[i] : i \in 1 .. Len(bus.known)}

\* World v is to be told of the others in the round that is under way.
ToldLater(v) ==
  /\ bus.at # 0
  /\ \E i \in 1 .. Len(bus.known) :
       bus.at <= i /\ (bus.learns => i # bus.at) /\ bus.known[i] = v

\* The notification servant waits only during a round, and a world learns of the
\* others only while it waits.
BusShape ==
  /\ bus = [calls |-> bus.calls, known |-> bus.known, at |-> bus.at, waits |-> bus.waits,
            learns |-> bus.learns]
  /\ bus.calls \in Seq(EventWorlds) /\ bus.known \in Seq(EventWorlds)
  /\ bus.at \in 0 .. Len(bus.known)
  /\ bus.waits => bus.at # 0
  /\ bus.learns \in BOOLEAN /\ (bus.learns => bus.waits)

\* Only the world that the notification servant waits for has a job of its, until
\* it takes it.
OthersJobs ==
  \A w \in EventWorlds : \A j \in Elems(private[w]) : j.kind = "others" =>
    bus.waits /\ ~bus.learns /\ bus.known[bus.at] = w /\ j.others = OnBus \ {w}

QueueShape ==
  /\ inbox = [w \in EventWorlds |-> inbox[w]] /\ private = [w \in EventWorlds |-> private[w]]
  /\ telling = [w \in EventWorlds |-> telling[w]]
  /\ \A w \in EventWorlds :
       IsQueue(inbox[w]) /\ IsQueue(private[w]) /\ OthersOnce(private[w]) /\ IsCalls(telling[w])

TableShape ==
  /\ others = [w \in EventWorlds |-> others[w]] /\ remote = [w \in EventWorlds |-> remote[w]]
  /\ deleted = [w \in EventWorlds |-> deleted[w]]
  /\ \A w \in EventWorlds : IsFiniteSet(remote[w])

\* The tokens of the entries of a world are its first numbers.
Numbered(E) ==
  /\ \A e \in E : e.token \in 1 .. Cardinality(E) /\ e.topic # None
  /\ \A e, f \in E : e.token = f.token => e = f

\* A subscription of this topic was given back.
WasReturned(v, t) == \E e \in subs[v] : e.returned /\ Bus!SameTopic(e.topic, t)

\* A world is removed from the subscribers of a topic only if it gave back a
\* subscription or is gone.
RemovalsInv ==
  \A w \in EventWorlds :
    /\ \A j \in Pending(w) : j.kind = "remove" =>
         j.world \in EventWorlds /\ j.topic # None /\ WasReturned(j.world, j.topic)
    /\ \A d \in deleted[w] :
         \/ d.topic = None /\ d.world \in down
         \/ d.topic # None /\ d.world \in EventWorlds /\ WasReturned(d.world, d.topic)

\* World w has or will have the topic t of world v.
Knows(w, v, t) ==
  \/ \E r \in remote[w] : r.world = v /\ Bus!SameTopic(r.topic, t)
  \/ \E j \in Pending(w) :
       j.kind = "add" /\ j.wrapped.world = v /\ Bus!SameTopic(j.wrapped.topic, t)
  \/ ToldLater(v)

KnowledgeInv ==
  \A v \in OnBus \ down : \A w \in OnBus \ (down \cup {v}) :
    /\ w \in others[v] \/ ToldLater(v)
    /\ \A e \in subs[v] :
         e.state = "on" /\ ~WasReturned(v, e.topic) => Knows(w, v, e.topic)

EntriesNumbered == \A w \in EventWorlds : Numbered(subs[w])

BusInv ==
  /\ BusShape /\ OthersJobs /\ QueueShape /\ TableShape
  /\ EntriesNumbered /\ RemovalsInv /\ KnowledgeInv

\* What two queues hold one behind the other.
LEMMA JoinedQueues ==
  ASSUME NEW p, NEW q, IsQueue(p), IsQueue(q)
  PROVE  IsQueue(p \o q) /\ Elems(p \o q) = Elems(p) \cup Elems(q)
<1>1. PICK S, T : p \in Seq(S) /\ q \in Seq(T)
  BY DEF IsQueue
<1>2. p \in Seq(S \cup T) /\ q \in Seq(S \cup T)
  BY <1>1, SeqOfMore
<1>3. /\ p \o q \in Seq(S \cup T) /\ Len(p \o q) = Len(p) + Len(q)
      /\ \A i \in 1 .. Len(p) : (p \o q)[i] = p[i]
      /\ \A i \in 1 .. Len(q) : (p \o q)[i + Len(p)] = q[i]
      /\ Len(p) \in Nat /\ Len(q) \in Nat
  BY <1>2
<1>4. IsQueue(p \o q)
  BY <1>3 DEF IsQueue
<1> DEFINE r == p \o q
           m == Len(p)
           n == Len(q)
<1>5. m \in Nat /\ n \in Nat /\ Len(r) = m + n
      /\ (\A i \in 1 .. m : r[i] = p[i]) /\ \A i \in 1 .. n : r[i + m] = q[i]
  BY <1>3
<1>6. Elems(r) = {r[i] : i \in 1 .. Len(r)} /\ Elems(p) = {p[i] : i \in 1 .. m}
      /\ Elems(q) = {q[i] : i \in 1 .. n}
  BY DEF Elems
<1> HIDE DEF r, m, n
<1>7. ASSUME NEW x \in Elems(r) PROVE x \in Elems(p) \cup Elems(q)
  <2>1. PICK i \in 1 .. m + n : x = r[i]
    BY <1>5, <1>6
  <2>2. CASE i <= m
    BY <1>5, <1>6, <2>1, <2>2
  <2>3. CASE ~(i <= m)
    <3>1. i - m \in 1 .. n /\ (i - m) + m = i
      BY <1>5, <2>3
    <3> QED
      BY <1>5, <1>6, <2>1, <3>1
  <2> QED
    BY <2>2, <2>3
<1>8. ASSUME NEW x \in Elems(p) PROVE x \in Elems(r)
  <2>1. PICK i \in 1 .. m : x = p[i]
    BY <1>6
  <2>2. i \in 1 .. m + n
    BY <1>5
  <2> QED
    BY <1>5, <1>6, <2>1, <2>2
<1>9. ASSUME NEW x \in Elems(q) PROVE x \in Elems(r)
  <2>1. PICK i \in 1 .. n : x = q[i]
    BY <1>6
  <2>2. i + m \in 1 .. m + n
    BY <1>5
  <2> QED
    BY <1>5, <1>6, <2>1, <2>2
<1> QED
  BY <1>4, <1>7, <1>8, <1>9 DEF r

\* A queue of one job.
LEMMA QueueOfOne ==
  ASSUME NEW x
  PROVE  IsQueue(<<x>>) /\ Elems(<<x>>) = {x}
<1>1. <<x>> \in Seq({x}) /\ Len(<<x>>) = 1 /\ <<x>>[1] = x
  OBVIOUS
<1>2. \A y \in Elems(<<x>>) : y = x
  BY <1>1 DEF Elems
<1>3. x \in Elems(<<x>>)
  <2>1. 1 \in 1 .. Len(<<x>>)
    BY <1>1
  <2> QED
    BY <1>1, <2>1 DEF Elems
<1> QED
  BY <1>1, <1>2, <1>3 DEF IsQueue

\* What a queue holds with one more at its end.
LEMMA LongerQueue ==
  ASSUME NEW q, NEW x, IsQueue(q)
  PROVE  IsQueue(Append(q, x)) /\ Elems(Append(q, x)) = Elems(q) \cup {x}
<1>1. IsQueue(<<x>>) /\ Elems(<<x>>) = {x}
  BY QueueOfOne
<1>2. PICK S : q \in Seq(S)
  BY DEF IsQueue
<1>3. q \in Seq(S \cup {x}) /\ x \in S \cup {x}
  BY <1>2, SeqOfMore
<1>4. Append(q, x) = q \o <<x>>
  BY <1>3
<1> QED
  BY <1>1, <1>4, JoinedQueues

\* What a queue holds without its first.
LEMMA ShorterQueue ==
  ASSUME NEW q, IsQueue(q), q # <<>>
  PROVE  /\ IsQueue(Tail(q)) /\ Head(q) \in Elems(q)
         /\ Elems(q) = {Head(q)} \cup Elems(Tail(q))
<1>1. PICK S : q \in Seq(S)
  BY DEF IsQueue
<1>2. Head(q) \in S /\ Tail(q) \in Seq(S) /\ q = <<Head(q)>> \o Tail(q)
  BY <1>1
<1> DEFINE h == Head(q)
           r == Tail(q)
<1>3. IsQueue(<<h>>) /\ Elems(<<h>>) = {h}
  BY QueueOfOne
<1>4. IsQueue(r) /\ q = <<h>> \o r
  BY <1>2 DEF IsQueue
<1> HIDE DEF h, r
<1>5. Elems(q) = {h} \cup Elems(r)
  BY <1>3, <1>4, JoinedQueues
<1> QED
  BY <1>4, <1>5 DEF h, r

\* An empty queue holds nothing.
LEMMA EmptyQueue == IsQueue(<<>>) /\ Elems(<<>>) = {} /\ OthersOnce(<<>>)
<1>1. <<>> \in Seq({})
  OBVIOUS
<1> QED
  BY <1>1 DEF IsQueue, Elems, OthersOnce

\* Jobs of other kinds join a queue.
LEMMA OthersOnceJoined ==
  ASSUME NEW p, NEW q, IsQueue(p), IsQueue(q), OthersOnce(p), NoOthers(q)
  PROVE  OthersOnce(p \o q)
<1>1. PICK S, T : p \in Seq(S) /\ q \in Seq(T)
  BY DEF IsQueue
<1>2. p \in Seq(S \cup T) /\ q \in Seq(S \cup T)
  BY <1>1, SeqOfMore
<1> DEFINE r == p \o q
           m == Len(p)
           n == Len(q)
<1>3. /\ Len(r) = m + n /\ m \in Nat /\ n \in Nat
      /\ (\A i \in 1 .. m : r[i] = p[i]) /\ \A i \in 1 .. n : r[i + m] = q[i]
  BY <1>2
<1>4. /\ \A i, k \in 1 .. m : p[i].kind = "others" /\ p[k].kind = "others" => i = k
      /\ \A i \in 1 .. n : q[i].kind # "others"
  BY DEF OthersOnce, NoOthers, Elems
<1> HIDE DEF r, m, n
<1>5. ASSUME NEW i \in 1 .. m + n, r[i].kind = "others"
      PROVE  i \in 1 .. m /\ p[i].kind = "others"
  <2>1. CASE i \in 1 .. m
    BY <1>3, <1>5, <2>1
  <2>2. CASE i \notin 1 .. m
    <3>1. i - m \in 1 .. n /\ (i - m) + m = i
      BY <1>3, <2>2
    <3> QED
      BY <1>3, <1>4, <1>5, <3>1
  <2> QED
    BY <2>1, <2>2
<1>6. OthersOnce(r)
  BY <1>3, <1>4, <1>5 DEF OthersOnce
<1> QED
  BY <1>6 DEF r

\* The first job of that kind joins a queue.
LEMMA FirstOthers ==
  ASSUME NEW q, NEW x, IsQueue(q), NoOthers(q)
  PROVE  OthersOnce(Append(q, x))
<1>1. PICK S : q \in Seq(S)
  BY DEF IsQueue
<1>2. q \in Seq(S \cup {x}) /\ x \in S \cup {x}
  BY <1>1, SeqOfMore
<1> DEFINE r == Append(q, x)
           m == Len(q)
<1>3. Len(r) = m + 1 /\ m \in Nat /\ \A i \in 1 .. m : r[i] = q[i]
  BY <1>2
<1>4. \A i \in 1 .. m : q[i].kind # "others"
  BY DEF NoOthers, Elems
<1> HIDE DEF r, m
<1>5. \A i \in 1 .. m + 1 : r[i].kind = "others" => i = m + 1
  BY <1>3, <1>4
<1>6. OthersOnce(r)
  BY <1>3, <1>5 DEF OthersOnce
<1> QED
  BY <1>6 DEF r

\* Without its first a queue holds that job no more.
LEMMA OthersOnceShorter ==
  ASSUME NEW q, IsQueue(q), OthersOnce(q), q # <<>>
  PROVE  /\ OthersOnce(Tail(q))
         /\ Head(q).kind = "others" => NoOthers(Tail(q))
<1>1. PICK S : q \in Seq(S)
  BY DEF IsQueue
<1> DEFINE r == Tail(q)
           m == Len(q)
           n == Len(r)
<1>2. n = m - 1 /\ m \in Nat /\ m # 0 /\ Head(q) = q[1] /\ \A i \in 1 .. n : r[i] = q[i + 1]
  BY <1>1
<1>3. \A i, k \in 1 .. m : q[i].kind = "others" /\ q[k].kind = "others" => i = k
  BY DEF OthersOnce
<1>4. Elems(r) = {r[i] : i \in 1 .. n} /\ Len(r) = n
  BY DEF Elems
<1> HIDE DEF r, m, n
<1>5. OthersOnce(r)
  <2> SUFFICES ASSUME NEW i \in 1 .. n, NEW k \in 1 .. n, r[i].kind = "others", r[k].kind = "others"
               PROVE  i = k
    BY <1>4 DEF OthersOnce
  <2>1. i + 1 \in 1 .. m /\ k + 1 \in 1 .. m
    BY <1>2
  <2>2. i + 1 = k + 1
    BY <1>2, <1>3, <2>1
  <2> QED
    BY <1>2, <2>2
<1>6. ASSUME q[1].kind = "others", NEW i \in 1 .. n, r[i].kind = "others"
      PROVE  FALSE
  <2>1. 1 \in 1 .. m /\ i + 1 \in 1 .. m /\ r[i] = q[i + 1]
    BY <1>2
  <2>2. i + 1 = 1
    BY <1>3, <1>6, <2>1
  <2> QED
    BY <1>2, <2>2
<1>7. q[1].kind = "others" => NoOthers(r)
  BY <1>4, <1>6 DEF NoOthers
<1> QED
  BY <1>2, <1>5, <1>7 DEF r

-----------------------------------------------------------------------------
(* Entries and their tokens                                                *)

\* F has the entries of E with other marks: what was on may be so no more, and
\* what was given back stays so.
Follows(E, F) ==
  /\ \A f \in F : f.state = "on" => \E e \in E : e.state = "on" /\ e.topic = f.topic
  /\ \A e \in E : e.returned => \E f \in F : f.returned /\ f.topic = e.topic

\* An entry may take this one's place.
Successor(e, d) ==
  /\ d.token = e.token /\ d.topic = e.topic
  /\ d.state = "on" => e.state = "on"
  /\ e.returned => d.returned

\* Every entry is replaced, each by one of the same token.
LEMMA EntriesReplaced ==
  ASSUME NEW E, NEW F, IsFiniteSet(E), Numbered(E), NEW g, F = {g[e] : e \in E},
         \A e \in E : Successor(e, g[e])
  PROVE  Numbered(F) /\ Follows(E, F)
<1> DEFINE h == [e \in E |-> g[e]]
<1>1. \A e \in E : g[e].token = e.token /\ g[e].topic = e.topic
  BY DEF Successor
<1>2. h \in Bijection(E, F)
  <2>1. h \in [E -> F]
    OBVIOUS
  <2>2. \A a, b \in E : h[a] = h[b] => a = b
    BY <1>1 DEF Numbered
  <2>3. \A f \in F : \E e \in E : h[e] = f
    OBVIOUS
  <2> HIDE DEF h
  <2> QED
    BY <2>1, <2>2, <2>3 DEF Bijection, Injection, IsInjective, Surjection
<1>3. Cardinality(F) = Cardinality(E)
  BY <1>2, FS_Bijection DEF ExistsBijection
<1>4. \A f \in F : f.token \in 1 .. Cardinality(F) /\ f.topic # None
  BY <1>1, <1>3 DEF Numbered
<1>5. \A a, b \in F : a.token = b.token => a = b
  <2> SUFFICES ASSUME NEW a \in E, NEW b \in E, g[a].token = g[b].token
               PROVE  g[a] = g[b]
    OBVIOUS
  <2>1. a = b
    BY <1>1 DEF Numbered
  <2> QED
    BY <2>1
<1>6. Numbered(F)
  BY <1>4, <1>5 DEF Numbered
<1>7. Follows(E, F)
  BY DEF Follows, Successor
<1> QED
  BY <1>6, <1>7

\* One entry is replaced.
LEMMA EntryReplaced ==
  ASSUME NEW E, NEW e \in E, NEW d, IsFiniteSet(E), Numbered(E), Successor(e, d)
  PROVE  LET F == (E \ {e}) \cup {d} IN Numbered(F) /\ Follows(E, F)
<1> DEFINE g == [f \in E |-> IF f = e THEN d ELSE f]
           F == (E \ {e}) \cup {d}
<1>1. F = {g[f] : f \in E}
  OBVIOUS
<1>2. \A f \in E : Successor(f, g[f])
  <2>1. \A f : Successor(f, f)
    BY DEF Successor
  <2> QED
    BY <2>1
<1> HIDE DEF g, F
<1>3. Numbered(F) /\ Follows(E, F)
  BY <1>1, <1>2, EntriesReplaced
<1> QED
  BY <1>3 DEF F

\* A marked entry.
LEMMA MarkedSuccessor ==
  ASSUME NEW e, Entry(e), NEW m, m # "on"
  PROVE  Successor(e, [e EXCEPT !.state = m])
<1> DEFINE d == [e EXCEPT !.state = m]
<1>1. d = [token |-> e.token, servant |-> e.servant, topic |-> e.topic, state |-> m,
           returned |-> e.returned]
  BY DEF Entry
<1> HIDE DEF d
<1>2. Successor(e, d)
  BY <1>1 DEF Successor
<1> QED
  BY <1>2 DEF d

\* An entry that was given back.
LEMMA ReturnedSuccessor ==
  ASSUME NEW e, Entry(e), NEW m, m # "on"
  PROVE  LET d == Returned(e, m)
         IN  Successor(e, d) /\ d.returned /\ d.topic = e.topic
<1> DEFINE c == [e EXCEPT !.state = m]
           d == Returned(e, m)
<1>1. PICK b : b = TRUE
  OBVIOUS
<1>2. d = [c EXCEPT !.returned = b]
  BY <1>1 DEF Returned
<1>3. c = [token |-> e.token, servant |-> e.servant, topic |-> e.topic, state |-> m,
           returned |-> e.returned]
  BY DEF Entry
<1> HIDE DEF c
<1>4. [c EXCEPT !.returned = b] = [token |-> e.token, servant |-> e.servant,
           topic |-> e.topic, state |-> m, returned |-> b]
  BY <1>3
<1> HIDE DEF d
<1>5. d = [token |-> e.token, servant |-> e.servant, topic |-> e.topic, state |-> m,
           returned |-> b]
  BY <1>2, <1>4
<1>6. Successor(e, d) /\ d.returned /\ d.topic = e.topic
  BY <1>1, <1>5 DEF Successor
<1> QED
  BY <1>6 DEF d

\* The entries after a cleanup.
LEMMA CleanedFollow ==
  ASSUME NEW w \in EventWorlds, IsFiniteSet(subs[w]), \A e \in subs[w] : Entry(e),
         Numbered(subs[w])
  PROVE  Numbered(Bus!Cleaned(w)) /\ Follows(subs[w], Bus!Cleaned(w))
<1> DEFINE g == [e \in subs[w] |-> IF e.state = "marked" THEN [e EXCEPT !.state = "off"] ELSE e]
<1>1. Bus!Cleaned(w) = {g[e] : e \in subs[w]}
  BY DEF Bus!Cleaned
<1>2. \A e \in subs[w] : Successor(e, g[e])
  <2> SUFFICES ASSUME NEW e \in subs[w]
               PROVE  Successor(e, [e EXCEPT !.state = "off"]) /\ Successor(e, e)
    OBVIOUS
  <2> QED
    BY MarkedSuccessor DEF Successor
<1> HIDE DEF g
<1> QED
  BY <1>1, <1>2, EntriesReplaced

\* A new entry.
LEMMA EntryAdded ==
  ASSUME NEW E, NEW e, IsFiniteSet(E), Numbered(E), e.token = Cardinality(E) + 1, e.topic # None
  PROVE  Numbered(E \cup {e})
<1> DEFINE n == Cardinality(E)
           F == E \cup {e}
<1>1. n \in Nat /\ \A f \in E : f.token \in 1 .. n /\ f.topic # None
  BY FS_CardinalityType DEF Numbered
<1>2. e \notin E
  BY <1>1
<1>3. Cardinality(F) = n + 1
  BY <1>2, FS_AddElement
<1>4. \A a, b \in E : a.token = b.token => a = b
  BY DEF Numbered
<1>5. e.token = n + 1
  OBVIOUS
<1> HIDE DEF n
<1>6. \A f \in F : f.token \in 1 .. n + 1 /\ f.topic # None
  BY <1>1, <1>5
<1>7. \A a, b \in F : a.token = b.token => a = b
  BY <1>1, <1>4, <1>5
<1> HIDE DEF F
<1>8. Numbered(F)
  BY <1>3, <1>6, <1>7 DEF Numbered
<1> QED
  BY <1>8 DEF F

-----------------------------------------------------------------------------
(* Jobs that are sent                                                      *)

\* A sequence that is given element by element.
LEMMA GivenQueue ==
  ASSUME NEW n \in Nat, NEW q, q = [i \in 1 .. n |-> q[i]]
  PROVE  IsQueue(q) /\ Len(q) = n /\ Elems(q) = {q[i] : i \in 1 .. n}
<1>1. q \in [1 .. n -> {q[i] : i \in 1 .. n}]
  OBVIOUS
<1>2. q \in Seq({q[i] : i \in 1 .. n}) /\ Len(q) = n
  BY <1>1
<1> QED
  BY <1>2 DEF IsQueue, Elems

\* The subscriptions of a world: one job for each that is not erased.
LEMMA WaitingJobs ==
  ASSUME NEW w \in EventWorlds, IsFiniteSet(subs[w]), Numbered(subs[w])
  PROVE  /\ IsQueue(Bus!Waiting(w))
         /\ \A j \in Elems(Bus!Waiting(w)) : j.kind = "add"
         /\ \A e \in subs[w] : e.state # "off" => Bus!AddJob(e, w) \in Elems(Bus!Waiting(w))
<1> DEFINE es == {e \in subs[w] : e.state # "off"}
           Below(e) == {f \in es : f.token <= e.token}
           At(i) == CHOOSE e \in es : Cardinality(Below(e)) = i
           q == [i \in 1 .. Cardinality(es) |-> Bus!AddJob(At(i), w)]
<1>1. Bus!Waiting(w) = q
  BY DEF Bus!Waiting, Bus!Cardinality, Cardinality
<1>2. IsFiniteSet(es) /\ Cardinality(es) \in Nat
  BY FS_Subset, FS_CardinalityType
<1>3. IsQueue(q) /\ Elems(q) = {q[i] : i \in 1 .. Cardinality(es)}
  <2> DEFINE n == Cardinality(es)
  <2>1. q = [i \in 1 .. n |-> q[i]]
    OBVIOUS
  <2> HIDE DEF q, n
  <2>2. IsQueue(q) /\ Elems(q) = {q[i] : i \in 1 .. n}
    BY <1>2, <2>1, GivenQueue DEF n
  <2> QED
    BY <2>2 DEF n
<1>4. \A j \in Elems(q) : j.kind = "add"
  <2>1. \A i \in 1 .. Cardinality(es) : q[i] = Bus!AddJob(At(i), w)
    OBVIOUS
  <2>2. \A e : Bus!AddJob(e, w).kind = "add"
    BY DEF Bus!AddJob
  <2>3. \A i \in 1 .. Cardinality(es) : q[i].kind = "add"
    BY <2>1, <2>2
  <2> HIDE DEF q, es
  <2> QED
    BY <1>3, <2>3
<1>5. ASSUME NEW e \in es
      PROVE  /\ IsFiniteSet(Below(e)) /\ Cardinality(Below(e)) \in 1 .. Cardinality(es)
             /\ e \in Below(e)
  <2>1. e \in Below(e)
    BY DEF Numbered
  <2>2. Below(e) \in SUBSET es
    OBVIOUS
  <2>3. IsFiniteSet(Below(e)) /\ Cardinality(Below(e)) <= Cardinality(es)
    BY <1>2, <2>2, FS_Subset
  <2>4. Cardinality(Below(e)) \in Nat /\ Cardinality(Below(e)) # 0
    BY <2>1, <2>3, FS_CardinalityType, FS_EmptySet
  <2> HIDE DEF Below, es
  <2> QED
    BY <1>2, <2>1, <2>3, <2>4
<1>6. ASSUME NEW e \in es, NEW f \in es, f.token < e.token
      PROVE  Cardinality(Below(f)) # Cardinality(Below(e))
  <2>1. e.token \in Nat /\ f.token \in Nat /\ \A c \in es : c.token \in Nat
    BY DEF Numbered
  <2>2. Below(f) \in SUBSET Below(e) /\ e \notin Below(f)
    BY <1>6, <2>1
  <2>3. e \in Below(e) /\ IsFiniteSet(Below(e))
    BY <1>5
  <2> HIDE DEF Below
  <2>4. Below(f) # Below(e)
    BY <2>2, <2>3
  <2> QED
    BY <2>2, <2>3, <2>4, FS_Subset
<1>7. ASSUME NEW e \in es
      PROVE  Bus!AddJob(e, w) \in Elems(q)
  <2> DEFINE i == Cardinality(Below(e))
             f == At(i)
  <2>1. f \in es /\ Cardinality(Below(f)) = i
    OBVIOUS
  <2>2. i \in 1 .. Cardinality(es)
    BY <1>5
  <2> HIDE DEF f
  <2>3. ~(f.token < e.token) /\ ~(e.token < f.token)
    BY <1>6, <2>1
  <2>4. e.token \in Nat /\ f.token \in Nat
    BY <2>1 DEF Numbered
  <2>5. e.token = f.token
    BY <2>3, <2>4
  <2>6. e = f
    BY <2>1, <2>5 DEF Numbered
  <2>7. q[i] = Bus!AddJob(f, w)
    BY <2>2 DEF f
  <2> HIDE DEF i, q
  <2> QED
    BY <1>3, <2>2, <2>6, <2>7
<1> HIDE DEF q
<1> QED
  BY <1>1, <1>3, <1>4, <1>7

-----------------------------------------------------------------------------
(* What a step must keep                                                   *)

\* Topics that were given back stay so.
ReturnsStay == \A v \in EventWorlds : \A t : WasReturned(v, t) => WasReturned(v, t)'

\* A job that removes a world is justified.
JustJob(j) ==
  j.kind = "remove" => j.world \in EventWorlds /\ j.topic # None /\ WasReturned(j.world, j.topic)

\* So is a removal that is noted.
JustRemoval(d) ==
  \/ d.topic = None /\ d.world \in down
  \/ d.topic # None /\ d.world \in EventWorlds /\ WasReturned(d.world, d.topic)

\* Justified jobs and removals stay so.
LEMMA JustStays ==
  ASSUME ReturnsStay, down \subseteq down'
  PROVE  /\ \A j : JustJob(j) => JustJob(j)'
         /\ \A d : JustRemoval(d) => JustRemoval(d)'
BY DEF JustJob, JustRemoval, ReturnsStay

\* New jobs and new removals are justified.
LEMMA RemovalsKept ==
  ASSUME RemovalsInv, ReturnsStay, down \subseteq down',
         \A w \in EventWorlds : \A j \in Pending(w)' : j \in Pending(w) \/ JustJob(j)',
         \A w \in EventWorlds : \A d \in deleted'[w] : d \in deleted[w] \/ JustRemoval(d)'
  PROVE  RemovalsInv'
<1>1. ASSUME NEW w \in EventWorlds, NEW j \in Pending(w)'
      PROVE  JustJob(j)'
  BY JustStays DEF RemovalsInv, JustJob
<1>2. ASSUME NEW w \in EventWorlds, NEW d \in deleted'[w]
      PROVE  JustRemoval(d)'
  BY JustStays DEF RemovalsInv, JustRemoval
<1>3. \A w \in EventWorlds : \A j \in Pending(w)' : j.kind = "remove" =>
        j.world \in EventWorlds /\ j.topic # None /\ WasReturned(j.world, j.topic)'
  BY <1>1 DEF JustJob
<1>4. \A w \in EventWorlds : \A d \in deleted'[w] :
        \/ d.topic = None /\ d.world \in down'
        \/ d.topic # None /\ d.world \in EventWorlds /\ WasReturned(d.world, d.topic)'
  BY <1>2 DEF JustRemoval
<1> QED
  BY <1>3, <1>4 DEF RemovalsInv

\* A world that has been told of another stays so, or is to be told.
OrdersStay ==
  \A v, w \in OnBus \ down' : v # w /\ (w \in others[v] \/ ToldLater(v)) =>
    w \in others'[v] \/ ToldLater(v)'

\* What is wanted was wanted before.
NoNewEntries ==
  \A v \in OnBus \ down' : \A e \in subs'[v] : e.state = "on" /\ ~WasReturned(v, e.topic)' =>
    \E f \in subs[v] : f.state = "on" /\ f.topic = e.topic /\ ~WasReturned(v, f.topic)

KnowledgeStays ==
  \A v, w \in OnBus \ down' : \A t :
    v # w /\ Knows(w, v, t) /\ ~WasReturned(v, t)' => Knows(w, v, t)'

\* A step that forgets nothing.
LEMMA KnowledgeKept ==
  ASSUME KnowledgeInv, OnBus' = OnBus, down \subseteq down', OrdersStay, NoNewEntries, KnowledgeStays
  PROVE  KnowledgeInv'
<1>1. ASSUME NEW v \in OnBus \ down', NEW w \in OnBus \ (down' \cup {v})
      PROVE  w \in others'[v] \/ ToldLater(v)'
  <2>1. w \in others[v] \/ ToldLater(v)
    BY <1>1 DEF KnowledgeInv
  <2> QED
    BY <1>1, <2>1 DEF OrdersStay
<1>2. ASSUME NEW v \in OnBus \ down', NEW w \in OnBus \ (down' \cup {v}), NEW e \in subs'[v],
             e.state = "on", ~WasReturned(v, e.topic)'
      PROVE  Knows(w, v, e.topic)'
  <2>1. PICK f \in subs[v] : f.state = "on" /\ f.topic = e.topic /\ ~WasReturned(v, f.topic)
    BY <1>2 DEF NoNewEntries
  <2>2. Knows(w, v, f.topic)
    BY <1>2, <2>1 DEF KnowledgeInv
  <2>3. Knows(w, v, e.topic)
    BY <2>1, <2>2
  <2> QED
    BY <1>2, <2>3 DEF KnowledgeStays
<1>3. \A v \in OnBus' \ down' : \A w \in OnBus' \ (down' \cup {v}) :
        /\ w \in others'[v] \/ ToldLater(v)'
        /\ \A e \in subs'[v] : e.state = "on" /\ ~WasReturned(v, e.topic)' => Knows(w, v, e.topic)'
  BY <1>1, <1>2
<1> QED
  BY <1>3 DEF KnowledgeInv

\* The entries of every world are those before, with other marks.
EntriesFollow ==
  \A w \in EventWorlds : Numbered(subs'[w]) /\ Follows(subs[w], subs'[w])

\* Such a step brings no new entries and takes nothing back.
LEMMA FollowingEntries ==
  ASSUME EntriesFollow, BusShape
  PROVE  EntriesNumbered' /\ ReturnsStay /\ NoNewEntries
<1>1. EntriesNumbered'
  BY DEF EntriesFollow, EntriesNumbered
<1>2. ReturnsStay
  <2> SUFFICES ASSUME NEW v \in EventWorlds, NEW t, NEW e \in subs[v], e.returned,
                      Bus!SameTopic(e.topic, t)
               PROVE  \E f \in subs'[v] : f.returned /\ Bus!SameTopic(f.topic, t)
    BY DEF ReturnsStay, WasReturned
  <2>1. PICK f \in subs'[v] : f.returned /\ f.topic = e.topic
    BY DEF EntriesFollow, Follows
  <2> QED
    BY <2>1
<1>3. OnBus \subseteq EventWorlds
  BY DEF OnBus, BusShape
<1>4. NoNewEntries
  <2> SUFFICES ASSUME NEW v \in EventWorlds, NEW e \in subs'[v], e.state = "on",
                      ~WasReturned(v, e.topic)'
               PROVE  \E f \in subs[v] : f.state = "on" /\ f.topic = e.topic /\ ~WasReturned(v, f.topic)
    BY <1>3 DEF NoNewEntries
  <2>1. PICK f \in subs[v] : f.state = "on" /\ f.topic = e.topic
    BY DEF EntriesFollow, Follows
  <2>2. ~WasReturned(v, e.topic)
    BY <1>2 DEF ReturnsStay
  <2> QED
    BY <2>1, <2>2
<1> QED
  BY <1>1, <1>2, <1>4

\* The entries of one world change.
LEMMA OneFollows ==
  ASSUME LoopInv, EntriesNumbered, NEW w \in EventWorlds, NEW E, subs' = [subs EXCEPT ![w] = E],
         Numbered(E), Follows(subs[w], E)
  PROVE  EntriesFollow
<1>1. \A F : Follows(F, F)
  BY DEF Follows
<1>2. subs' = [v \in EventWorlds |-> IF v = w THEN E ELSE subs[v]]
  BY DEF LoopInv
<1> QED
  BY <1>1, <1>2 DEF EntriesFollow, EntriesNumbered

\* None changes.
LEMMA NoneFollows ==
  ASSUME EntriesNumbered, subs' = subs
  PROVE  EntriesFollow
BY DEF EntriesFollow, EntriesNumbered, Follows

\* The notification servant does nothing.
LEMMA BusRests ==
  ASSUME BusShape, OthersJobs, bus' = bus, others' = others,
         \A w \in EventWorlds : \A j \in Elems(private'[w]) :
           j.kind = "others" => j \in Elems(private[w])
  PROVE  /\ BusShape' /\ OthersJobs' /\ OnBus' = OnBus /\ OnBus \subseteq EventWorlds
         /\ OrdersStay /\ \A v : ToldLater(v)' <=> ToldLater(v)
<1>1. BusShape' /\ OnBus' = OnBus /\ OnBus \subseteq EventWorlds
  BY DEF BusShape, OnBus
<1>2. OthersJobs'
  BY <1>1 DEF OthersJobs
<1>3. \A v : ToldLater(v)' <=> ToldLater(v)
  BY DEF ToldLater
<1> QED
  BY <1>1, <1>2, <1>3 DEF OrdersStay

-----------------------------------------------------------------------------
(* Steps in which the notification servant rests                           *)

\* Every world has at least the jobs it had, but for those that are gone, and
\* the new ones are of J.
Sent(J) ==
  /\ QueueShape'
  /\ \A w \in EventWorlds :
       /\ Pending(w)' \subseteq Pending(w) \cup J
       /\ w \notin down' => Pending(w) \subseteq Pending(w)'
       /\ \A j \in Elems(private'[w]) : j.kind = "others" => j \in Elems(private[w])

\* Each of jobs is to go to all of ws.
LEMMA CallsMade ==
  ASSUME NEW ws, NEW jobs, IsQueue(jobs), NoOthers(jobs)
  PROVE  /\ IsCalls(Bus!Calls(ws, jobs))
         /\ \A w : CallJobs(Bus!Calls(ws, jobs), w) = IF w \in ws THEN Elems(jobs) ELSE {}
<1> DEFINE n == Len(jobs)
           c(i) == [to |-> ws, job |-> jobs[i]]
           q == [i \in 1 .. n |-> c(i)]
<1>1. CASE ws = {}
  <2>1. Bus!Calls(ws, jobs) = <<>>
    BY <1>1 DEF Bus!Calls
  <2> QED
    BY <1>1, <2>1, EmptyQueue DEF IsCalls, CallJobs
<1>2. CASE ws # {}
  <2>1. Bus!Calls(ws, jobs) = q
    BY <1>2 DEF Bus!Calls
  <2>2. n \in Nat
    BY DEF IsQueue
  <2>3. IsQueue(q) /\ Elems(q) = {q[i] : i \in 1 .. n}
    <3>1. q = [i \in 1 .. n |-> q[i]]
      OBVIOUS
    <3> HIDE DEF q, n
    <3> QED
      BY <2>2, <3>1, GivenQueue
  <2>4. \A i \in 1 .. n : q[i].to = ws /\ q[i].job = jobs[i] /\ q[i] = [to |-> ws, job |-> jobs[i]]
    OBVIOUS
  <2>5. Elems(jobs) = {jobs[i] : i \in 1 .. n} /\ \A i \in 1 .. n : jobs[i].kind # "others"
    BY DEF Elems, NoOthers
  <2> HIDE DEF q, n
  <2>6. IsCalls(q)
    BY <2>3, <2>4, <2>5 DEF IsCalls
  <2>7. \A w : CallJobs(q, w) = IF w \in ws THEN Elems(jobs) ELSE {}
    <3> SUFFICES ASSUME NEW w
                 PROVE  CallJobs(q, w) = IF w \in ws THEN Elems(jobs) ELSE {}
      OBVIOUS
    <3>1. CASE w \in ws
      <4>1. ASSUME NEW j \in CallJobs(q, w) PROVE j \in Elems(jobs)
        <5>1. PICK x \in Elems(q) : j = x.job
          BY DEF CallJobs
        <5>2. PICK i \in 1 .. n : x = q[i]
          BY <2>3
        <5>3. j = jobs[i]
          BY <2>4, <5>1, <5>2
        <5> QED
          BY <2>5, <5>3
      <4>2. ASSUME NEW i \in 1 .. n PROVE jobs[i] \in CallJobs(q, w)
        <5>1. q[i] \in Elems(q) /\ w \in q[i].to /\ jobs[i] = q[i].job
          BY <2>3, <2>4, <3>1
        <5> QED
          BY <5>1 DEF CallJobs
      <4> QED
        BY <2>5, <3>1, <4>1, <4>2
    <3>2. CASE w \notin ws
      <4>1. \A x \in Elems(q) : w \notin x.to
        BY <2>3, <2>4, <3>2
      <4> QED
        BY <3>2, <4>1 DEF CallJobs
    <3> QED
      BY <3>1, <3>2
  <2> QED
    BY <2>1, <2>6, <2>7
<1> QED
  BY <1>1, <1>2

\* A world that has told everything makes new calls.
LEMMA ToTell ==
  ASSUME QueueShape, NEW w \in EventWorlds, telling[w] = <<>>, NEW ws, NEW jobs, IsQueue(jobs),
         NoOthers(jobs), telling' = [telling EXCEPT ![w] = Bus!Calls(ws, jobs)]
  PROVE  /\ telling' = [v \in EventWorlds |-> telling'[v]]
         /\ \A v \in EventWorlds :
              /\ IsCalls(telling'[v])
              /\ Underway(v)' = Underway(v) \cup (IF v \in ws THEN Elems(jobs) ELSE {})
<1> DEFINE q == Bus!Calls(ws, jobs)
<1>1. IsCalls(q) /\ \A v : CallJobs(q, v) = IF v \in ws THEN Elems(jobs) ELSE {}
  BY CallsMade
<1> HIDE DEF q
<1>2. telling' = [v \in EventWorlds |-> IF v = w THEN q ELSE telling[v]]
  BY DEF QueueShape, q
<1>3. \A v : CallJobs(<<>>, v) = {}
  BY EmptyQueue DEF CallJobs
<1>4. ASSUME NEW v \in EventWorlds
      PROVE  Underway(v)' = Underway(v) \cup (IF v \in ws THEN Elems(jobs) ELSE {})
  <2>1. Underway(v)' = UNION {CallJobs(telling'[x], v) : x \in EventWorlds}
    BY DEF Underway, CallJobs
  <2>2. \A x \in EventWorlds : CallJobs(telling'[x], v) =
          IF x = w THEN (IF v \in ws THEN Elems(jobs) ELSE {}) ELSE CallJobs(telling[x], v)
    BY <1>1, <1>2
  <2>3. CallJobs(telling[w], v) = {}
    BY <1>3
  <2> QED
    BY <2>1, <2>2, <2>3 DEF Underway
<1>5. \A v \in EventWorlds : IsCalls(telling'[v])
  BY <1>1, <1>2 DEF QueueShape
<1> QED
  BY <1>2, <1>4, <1>5

\* So do the jobs that are on their way.
LEMMA Agreed ==
  ASSUME QueueShape, NEW w \in EventWorlds, telling[w] = <<>>, NEW ws, NEW jobs, IsQueue(jobs),
         NoOthers(jobs), telling' = [telling EXCEPT ![w] = Bus!Calls(ws, jobs)],
         inbox' = inbox, private' = private
  PROVE  /\ Sent(Elems(jobs))
         /\ \A v \in EventWorlds : v \in ws => Elems(jobs) \subseteq Pending(v)'
<1>1. /\ telling' = [v \in EventWorlds |-> telling'[v]]
      /\ \A v \in EventWorlds :
           /\ IsCalls(telling'[v])
           /\ Underway(v)' = Underway(v) \cup (IF v \in ws THEN Elems(jobs) ELSE {})
  BY ToTell
<1>2. QueueShape'
  BY <1>1 DEF QueueShape
<1> QED
  BY <1>1, <1>2 DEF Sent, Pending

\* A queue of one job.
LEMMA OneJob ==
  ASSUME NEW j, j.kind # "others"
  PROVE  IsQueue(<<j>>) /\ NoOthers(<<j>>) /\ Elems(<<j>>) = {j}
BY QueueOfOne DEF NoOthers

\* Nothing is sent.
LEMMA NothingSent ==
  ASSUME QueueShape, inbox' = inbox, private' = private, telling' = telling
  PROVE  Sent({})
<1>1. QueueShape'
  BY DEF QueueShape
<1> QED
  BY <1>1 DEF Sent, Pending, Underway

\* A step that leaves the notification servant alone and forgets nothing.
LEMMA RestingStep ==
  ASSUME BusInv, bus' = bus, others' = others, TableShape', QueueShape', EntriesFollow,
         down \subseteq down', KnowledgeStays,
         \A w \in EventWorlds : \A j \in Elems(private'[w]) :
           j.kind = "others" => j \in Elems(private[w]),
         \A w \in EventWorlds : \A j \in Pending(w)' : j \in Pending(w) \/ JustJob(j)',
         \A w \in EventWorlds : \A d \in deleted'[w] : d \in deleted[w] \/ JustRemoval(d)'
  PROVE  BusInv'
<1>1. BusShape /\ OthersJobs /\ RemovalsInv /\ KnowledgeInv
  BY DEF BusInv
<1>2. BusShape' /\ OthersJobs' /\ OnBus' = OnBus /\ OrdersStay
  BY <1>1, BusRests
<1>3. EntriesNumbered' /\ ReturnsStay /\ NoNewEntries
  BY <1>1, FollowingEntries
<1>4. RemovalsInv'
  BY <1>1, <1>3, RemovalsKept
<1>5. KnowledgeInv'
  BY <1>1, <1>2, <1>3, KnowledgeKept
<1> QED
  BY <1>2, <1>3, <1>4, <1>5 DEF BusInv

\* Jobs are sent, entries are marked, removals noted.
LEMMA SendingStep ==
  ASSUME BusInv, bus' = bus, others' = others, remote' = remote, TableShape', EntriesFollow,
         down \subseteq down', NEW J, Sent(J), \A j \in J : JustJob(j)',
         \A w \in EventWorlds : \A d \in deleted'[w] : d \in deleted[w] \/ JustRemoval(d)'
  PROVE  BusInv'
<1>1. OnBus \subseteq EventWorlds
  BY DEF BusInv, BusShape, OnBus
<1>2. \A v : ToldLater(v)' <=> ToldLater(v)
  BY DEF ToldLater
<1>3. \A w \in OnBus \ down' : Pending(w) \subseteq Pending(w)'
  BY <1>1 DEF Sent
<1>4. KnowledgeStays
  BY <1>2, <1>3 DEF KnowledgeStays, Knows
<1>5. QueueShape'
  BY DEF Sent
<1>6. \A w \in EventWorlds : \A j \in Elems(private'[w]) : j.kind = "others" => j \in Elems(private[w])
  BY DEF Sent
<1>7. \A w \in EventWorlds : \A j \in Pending(w)' : j \in Pending(w) \/ JustJob(j)'
  BY DEF Sent
<1> QED
  BY <1>4, <1>5, <1>6, <1>7, RestingStep

\* Nothing of a topic is left when its last subscription is given back.
LEMMA UnsubscribeInforms ==
  ASSUME BusInv, LoopInv, SubscribersLive, NEW s \in Subscribers, NEW e \in subs[Home[s]],
         Bus!Unsubscribe(s, e)
  PROVE  BusInv'
<1> DEFINE w == Home[s]
           m == IF e.state = "off" THEN "off" ELSE IF Bus!Publishing(w) THEN "marked" ELSE "off"
           d == Returned(e, m)
           F == (subs[w] \ {e}) \cup {d}
           job == Bus!RemoveJob(w, e.topic)
<1>1. w \in EventWorlds
  BY DEF SubscribersLive
<1>2. /\ subs' = [subs EXCEPT ![w] = F]
      /\ telling' = telling \/ telling' = [telling EXCEPT ![w] = Bus!Calls(others[w], <<job>>)]
      /\ inbox' = inbox /\ private' = private /\ telling[w] = <<>>
      /\ remote' = remote /\ deleted' = deleted /\ others' = others /\ down' = down /\ bus' = bus
  BY DEF Bus!Unsubscribe, Bus!Acting, Bus!Free, Returned
<1>3. m # "on"
  OBVIOUS
<1>4. IsFiniteSet(subs[w]) /\ (\A f \in subs[w] : Entry(f)) /\ Numbered(subs[w])
  BY <1>1 DEF LoopInv, BusInv, EntriesNumbered
<1> HIDE DEF m
<1>5. Successor(e, d) /\ d.returned /\ d.topic = e.topic
  BY <1>3, <1>4, ReturnedSuccessor
<1> HIDE DEF d
<1>6. Numbered(F) /\ Follows(subs[w], F)
  BY <1>4, <1>5, EntryReplaced
<1>7. d \in F
  OBVIOUS
<1> HIDE DEF F
<1>8. EntriesFollow
  BY <1>1, <1>2, <1>6, OneFollows DEF BusInv
<1>9. subs'[w] = F
  BY <1>1, <1>2 DEF LoopInv
<1>10. WasReturned(w, e.topic)'
  <2>1. Bus!SameTopic(d.topic, e.topic)
    BY <1>5 DEF Bus!SameTopic
  <2> QED
    BY <1>5, <1>7, <1>9, <2>1 DEF WasReturned
<1>11. e.topic # None
  BY <1>4 DEF Numbered
<1>12. job.kind = "remove" /\ job.world = w /\ job.topic = e.topic
  BY DEF Bus!RemoveJob
<1> HIDE DEF job
<1>13. JustJob(job)'
  BY <1>1, <1>10, <1>11, <1>12 DEF JustJob
<1>14. TableShape'
  BY <1>2 DEF BusInv, TableShape
<1>15. CASE telling' = telling
  <2>1. Sent({})
    BY <1>2, <1>15, NothingSent DEF BusInv
  <2> QED
    BY <1>2, <1>8, <1>14, <2>1, SendingStep
<1>16. CASE telling' = [telling EXCEPT ![w] = Bus!Calls(others[w], <<job>>)]
  <2>1. IsQueue(<<job>>) /\ NoOthers(<<job>>) /\ Elems(<<job>>) = {job}
    BY <1>12, OneJob
  <2>2. QueueShape /\ telling[w] = <<>> /\ inbox' = inbox /\ private' = private
    BY <1>2 DEF BusInv
  <2>3. PICK ws : ws = others[w]
    OBVIOUS
  <2>4. telling' = [telling EXCEPT ![w] = Bus!Calls(ws, <<job>>)]
    BY <1>16, <2>3
  <2> HIDE DEF w
  <2>5. Sent({job})
    BY <1>1, <2>1, <2>2, <2>4, Agreed
  <2> QED
    BY <1>2, <1>8, <1>13, <1>14, <2>5, SendingStep
<1> QED
  BY <1>2, <1>15, <1>16

\* The jobs that publish sends to world v, one for each wrapped subscriber of S.
EventJobs(S, t, n) ==
  [i \in 1 .. Cardinality(S) |-> Bus!EventJob(n, t, Bus!SetToSeq(S)[i].servant)]

\* They are events.
LEMMA EventJobsAreEvents ==
  ASSUME NEW S, NEW t, NEW n, IsFiniteSet(S)
  PROVE  IsQueue(EventJobs(S, t, n)) /\ \A j \in Elems(EventJobs(S, t, n)) : j.kind = "event"
<1> DEFINE k == Cardinality(S)
           q == EventJobs(S, t, n)
<1>1. k \in Nat
  BY FS_CardinalityType
<1>2. q = [i \in 1 .. k |-> q[i]]
  BY DEF EventJobs
<1>3. \A i \in 1 .. k : q[i].kind = "event"
  BY DEF EventJobs, Bus!EventJob
<1> HIDE DEF k, q
<1>4. IsQueue(q) /\ Elems(q) = {q[i] : i \in 1 .. k}
  BY <1>1, <1>2, GivenQueue
<1> QED
  BY <1>3, <1>4 DEF q

\* Events go to the other schedulers, and those that are gone are noted.
LEMMA PublishInforms ==
  ASSUME BusInv, SubscribersLive, NEW s \in Subscribers, NEW t, Bus!Publish(s, t)
  PROVE  BusInv'
<1> DEFINE w == Home[s]
           n == events + 1
           W(v) == {r \in Bus!Wanting(w, t) : r.world = v}
           q(v) == EventJobs(W(v), t, n)
           J == UNION {Elems(q(v)) : v \in EventWorlds}
           D == {[world |-> r.world, topic |-> None] : r \in {r \in Bus!Wanting(w, t) : r.world \in down}}
<1>1. w \in EventWorlds
  BY DEF SubscribersLive
<1>2. /\ Bus!InformOthers(w, t, n) /\ subs' = subs /\ remote' = remote /\ others' = others
      /\ private' = private /\ telling' = telling /\ down' = down /\ bus' = bus
  BY DEF Bus!Publish
<1>3. inbox' = [v \in EventWorlds |-> IF v \in down THEN inbox[v] ELSE inbox[v] \o q(v)]
  BY <1>2 DEF Bus!InformOthers, EventJobs, Bus!Cardinality, Cardinality
<1>4. deleted' = [deleted EXCEPT ![w] = @ \cup D]
  BY <1>2 DEF Bus!InformOthers
<1>5. ASSUME NEW v \in EventWorlds
      PROVE  IsQueue(q(v)) /\ \A j \in Elems(q(v)) : j.kind = "event"
  <2>1. IsFiniteSet(remote[w])
    BY <1>1 DEF BusInv, TableShape
  <2>2. IsFiniteSet(W(v))
    BY <2>1, FS_Subset DEF Bus!Wanting
  <2> QED
    BY <2>2, EventJobsAreEvents
<1> HIDE DEF q, n
<1>6. ASSUME NEW v \in EventWorlds
      PROVE  /\ IsQueue(inbox'[v]) /\ Elems(inbox[v]) \subseteq Elems(inbox'[v])
             /\ Elems(inbox'[v]) \subseteq Elems(inbox[v]) \cup J
  <2>1. IsQueue(inbox[v])
    BY DEF BusInv, QueueShape
  <2>2. IsQueue(inbox[v] \o q(v)) /\ Elems(inbox[v] \o q(v)) = Elems(inbox[v]) \cup Elems(q(v))
    BY <1>5, <2>1, JoinedQueues
  <2>3. Elems(q(v)) \subseteq J
    OBVIOUS
  <2> HIDE DEF J
  <2>4. inbox'[v] = inbox[v] \/ inbox'[v] = inbox[v] \o q(v)
    BY <1>3
  <2> QED
    BY <2>1, <2>2, <2>3, <2>4
<1>7. \A j \in J : JustJob(j)'
  BY <1>5 DEF JustJob
<1> HIDE DEF J
<1>8. QueueShape'
  <2>1. inbox' = [v \in EventWorlds |-> inbox'[v]]
    BY <1>3
  <2> QED
    BY <1>2, <1>6, <2>1 DEF BusInv, QueueShape
<1>9. Sent(J)
  BY <1>2, <1>6, <1>8 DEF Sent, Pending, Underway
<1>10. \A d \in D : JustRemoval(d)'
  BY <1>2 DEF JustRemoval
<1> HIDE DEF D
<1>11. \A v \in EventWorlds : \A d \in deleted'[v] : d \in deleted[v] \/ JustRemoval(d)'
  BY <1>4, <1>10 DEF BusInv, TableShape
<1>12. TableShape'
  BY <1>2, <1>4 DEF BusInv, TableShape
<1>13. EntriesFollow
  BY <1>2, NoneFollows DEF BusInv
<1> QED
  BY <1>2, <1>7, <1>9, <1>11, <1>12, <1>13, SendingStep

\* Only entries change, of one world, or none.
LEMMA EntriesStep ==
  ASSUME BusInv, LoopInv, EntriesFollow,
         UNCHANGED <<remote, deleted, others, inbox, private, telling, down, bus>>
  PROVE  BusInv'
<1>1. TableShape' /\ Sent({})
  BY NothingSent DEF BusInv, TableShape
<1> QED
  BY <1>1, SendingStep

\* An entry is marked.
LEMMA MarkFollows ==
  ASSUME BusInv, LoopInv, NEW w \in EventWorlds, NEW e \in subs[w], Bus!Mark(w, e)
  PROVE  EntriesFollow
<1> DEFINE d == [e EXCEPT !.state = "marked"]
           F == (subs[w] \ {e}) \cup {d}
<1>1. subs' = [subs EXCEPT ![w] = F]
  BY DEF Bus!Mark
<1>2. IsFiniteSet(subs[w]) /\ Entry(e) /\ Numbered(subs[w])
  BY DEF LoopInv, BusInv, EntriesNumbered
<1>3. Successor(e, d)
  BY <1>2, MarkedSuccessor
<1> HIDE DEF d
<1>4. Numbered(F) /\ Follows(subs[w], F)
  BY <1>2, <1>3, EntryReplaced
<1> HIDE DEF F
<1> QED
  BY <1>1, <1>4, OneFollows DEF BusInv

\* A loop goes on, to a handler or not.
LEMMA VisitInforms ==
  ASSUME BusInv, LoopInv, NEW w \in EventWorlds, Bus!Visit(w)
  PROVE  BusInv'
<1> DEFINE e == CHOOSE e \in Bus!Ahead(w) : \A f \in Bus!Ahead(w) : e.token <= f.token
<1>1. e \in Bus!Ahead(w)
  BY NextAhead DEF Bus!Visit
<1>2. subs' = subs \/ Bus!Mark(w, e)
  BY DEF Bus!Visit
<1> HIDE DEF e
<1>3. e \in subs[w]
  BY <1>1 DEF Bus!Ahead
<1>4. EntriesFollow
  BY <1>2, <1>3, MarkFollows, NoneFollows DEF BusInv
<1> QED
  BY <1>4, EntriesStep DEF Bus!Visit

\* A handler returns or throws.
LEMMA HandlerInforms ==
  ASSUME BusInv, LoopInv, NEW w \in EventWorlds, Bus!HandlerReturns(w) \/ Bus!HandlerThrows(w)
  PROVE  BusInv'
<1>1. UNCHANGED <<remote, deleted, others, inbox, private, telling, down, bus>>
  BY DEF Bus!HandlerReturns, Bus!HandlerThrows
<1>2. subs' = subs \/ (Bus!HandlerReturns(w) /\ Bus!Mark(w, Bus!Entry(w, Bus!Top(w).at)))
  BY DEF Bus!HandlerReturns, Bus!HandlerThrows
<1>3. CASE subs' = subs
  <2>1. EntriesFollow
    BY <1>3, NoneFollows DEF BusInv
  <2> QED
    BY <1>1, <2>1, EntriesStep
<1>4. CASE Bus!HandlerReturns(w) /\ Bus!Mark(w, Bus!Entry(w, Bus!Top(w).at))
  <2>1. frames[w] # <<>> /\ Bus!Top(w) = frames[w][1] /\ LoopAt(frames[w][1], subs[w])
    BY <1>4, TopIsCall DEF Bus!HandlerReturns
  <2>2. Bus!Entry(w, Bus!Top(w).at) \in subs[w]
    BY <1>4, <2>1 DEF Bus!HandlerReturns, Bus!Entry, LoopAt
  <2>3. EntriesFollow
    BY <1>4, <2>2, MarkFollows
  <2> QED
    BY <1>1, <2>3, EntriesStep
<1> QED
  BY <1>2, <1>3, <1>4

\* Topics are the same, or not.
LEMMA SameTopics ==
  /\ \A t : Bus!SameTopic(t, t)
  /\ \A t, u : Bus!SameTopic(t, u) => Bus!SameTopic(u, t)
  /\ \A t, u, x : Bus!SameTopic(t, u) /\ Bus!SameTopic(u, x) => Bus!SameTopic(t, x)
BY DEF Bus!SameTopic

\* A topic that nobody gave back is not removed.
LEMMA NotRemoved ==
  ASSUME BusInv, NEW w \in EventWorlds, NEW r \in remote[w], r.world \notin down,
         NEW t, Bus!SameTopic(r.topic, t), ~WasReturned(r.world, t)
  PROVE  r \in Bus!Undeleted(w)
<1> SUFFICES ASSUME NEW d \in deleted[w], d.world = r.world,
                    d.topic = None \/ Bus!SameTopic(d.topic, r.topic)
             PROVE  FALSE
  BY DEF Bus!Undeleted
<1>1. d.topic # None /\ WasReturned(d.world, d.topic)
  BY DEF BusInv, RemovalsInv
<1>2. PICK e \in subs[d.world] : e.returned /\ Bus!SameTopic(e.topic, d.topic)
  BY <1>1 DEF WasReturned
<1>3. Bus!SameTopic(e.topic, t)
  BY <1>1, <1>2, SameTopics
<1> QED
  BY <1>2, <1>3 DEF WasReturned

\* publish removes the subscribers of schedulers that are gone or gave back a
\* subscription of their topic.
LEMMA EndInforms ==
  ASSUME BusInv, LoopInv, NEW w \in EventWorlds, Bus!PublishEnds(w)
  PROVE  BusInv'
<1>1. /\ others' = others /\ inbox' = inbox /\ private' = private /\ telling' = telling
      /\ down' = down /\ bus' = bus
      /\ \/ remote' = remote /\ deleted' = deleted
         \/ /\ remote' = [remote EXCEPT ![w] = Bus!Undeleted(w)]
            /\ deleted' = [deleted EXCEPT ![w] = {}]
  BY DEF Bus!PublishEnds
<1>2. subs' = subs \/ subs' = [subs EXCEPT ![w] = Bus!Cleaned(w)]
  BY DEF Bus!PublishEnds, Bus!Cleanup
<1>3. EntriesFollow
  <2>1. CASE subs' = subs
    BY <2>1, NoneFollows DEF BusInv
  <2>2. CASE subs' = [subs EXCEPT ![w] = Bus!Cleaned(w)]
    <3>1. Numbered(Bus!Cleaned(w)) /\ Follows(subs[w], Bus!Cleaned(w))
      BY CleanedFollow DEF LoopInv, BusInv, EntriesNumbered
    <3> QED
      BY <2>2, <3>1, OneFollows DEF BusInv
  <2> QED
    BY <1>2, <2>1, <2>2
<1>4. CASE remote' = remote /\ deleted' = deleted
  BY <1>1, <1>3, <1>4, EntriesStep
<1>5. CASE /\ remote' = [remote EXCEPT ![w] = Bus!Undeleted(w)]
           /\ deleted' = [deleted EXCEPT ![w] = {}]
  <2>1. TableShape'
    <3>1. Bus!Undeleted(w) \in SUBSET remote[w]
      BY DEF Bus!Undeleted
    <3>2. IsFiniteSet(Bus!Undeleted(w))
      BY <3>1, FS_Subset DEF BusInv, TableShape
    <3> QED
      BY <1>1, <1>5, <3>2 DEF BusInv, TableShape
  <2>2. QueueShape'
    BY <1>1 DEF BusInv, QueueShape
  <2>3. OnBus \subseteq EventWorlds
    BY DEF BusInv, BusShape, OnBus
  <2>4. ReturnsStay
    BY <1>3, FollowingEntries DEF BusInv
  <2>5. KnowledgeStays
    <3> SUFFICES ASSUME NEW v \in OnBus \ down', NEW x \in OnBus \ down', NEW t,
                        Knows(x, v, t), ~WasReturned(v, t)'
                 PROVE  Knows(x, v, t)'
      BY DEF KnowledgeStays
    <3>1. ~WasReturned(v, t) /\ v \notin down /\ x \in EventWorlds
      BY <1>1, <2>3, <2>4 DEF ReturnsStay
    <3>2. CASE \E r \in remote[x] : r.world = v /\ Bus!SameTopic(r.topic, t)
      <4>1. PICK r \in remote[x] : r.world = v /\ Bus!SameTopic(r.topic, t)
        BY <3>2
      <4>2. r \in Bus!Undeleted(x)
        BY <3>1, <4>1, NotRemoved
      <4>3. r \in remote'[x]
        BY <1>5, <3>1, <4>1, <4>2 DEF BusInv, TableShape
      <4> QED
        BY <4>1, <4>3 DEF Knows
    <3>3. CASE \E j \in Pending(x) :
                 j.kind = "add" /\ j.wrapped.world = v /\ Bus!SameTopic(j.wrapped.topic, t)
      BY <1>1, <3>3 DEF Knows, Pending, Underway
    <3>4. CASE ToldLater(v)
      BY <1>1, <3>4 DEF Knows, ToldLater
    <3> QED
      BY <3>2, <3>3, <3>4 DEF Knows
  <2>6. \A v \in EventWorlds : \A d \in deleted'[v] : d \in deleted[v] \/ JustRemoval(d)'
    BY <1>5 DEF BusInv, TableShape
  <2>7. \A v \in EventWorlds : \A j \in Pending(v)' : j \in Pending(v) \/ JustJob(j)'
    BY <1>1 DEF Pending, Underway
  <2> QED
    BY <1>1, <1>3, <2>1, <2>2, <2>5, <2>6, <2>7, RestingStep
<1> QED
  BY <1>1, <1>4, <1>5

\* A world takes job j, which is not one of the notification servant.
TakesJob(w, j) ==
  /\ j \in Pending(w)
  /\ QueueShape'
  /\ \A x \in EventWorlds :
       /\ Pending(x)' \subseteq Pending(x)
       /\ \A i \in Pending(x) : i \in Pending(x)' \/ (x = w /\ i = j)
       /\ Elems(private'[x]) \subseteq Elems(private[x])

\* What it does with it.
LEMMA PerformInforms ==
  ASSUME BusInv, LoopInv, NEW w \in EventWorlds, NEW j, Bus!Perform(w, j), TakesJob(w, j),
         UNCHANGED <<subs, others, down, bus>>
  PROVE  BusInv'
<1>1. EntriesFollow
  BY NoneFollows DEF BusInv
<1>2. OnBus \subseteq EventWorlds
  BY DEF BusInv, BusShape, OnBus
<1>3. \A v : ToldLater(v)' <=> ToldLater(v)
  BY DEF ToldLater
<1>4. \A x \in EventWorlds : \A i \in Pending(x)' : i \in Pending(x) \/ JustJob(i)'
  BY DEF TakesJob
<1>5. QueueShape' /\ \A x \in EventWorlds : \A i \in Elems(private'[x]) :
        i.kind = "others" => i \in Elems(private[x])
  BY DEF TakesJob
<1>6. CASE j.kind = "add" /\ Bus!SubscribeScheduler(w, j.wrapped)
  <2> DEFINE r == j.wrapped
             R == {q \in remote[w] : ~(q.world = r.world /\ Bus!SameTopic(q.topic, r.topic))} \cup {r}
  <2>1. remote' = [remote EXCEPT ![w] = R] /\ deleted' = deleted
    BY <1>6 DEF Bus!SubscribeScheduler
  <2>2. IsFiniteSet(R)
    <3> DEFINE Q == {q \in remote[w] : ~(q.world = r.world /\ Bus!SameTopic(q.topic, r.topic))}
    <3>1. Q \in SUBSET remote[w] /\ R = Q \cup {r}
      OBVIOUS
    <3> HIDE DEF Q, R
    <3>2. IsFiniteSet(remote[w])
      BY DEF BusInv, TableShape
    <3>3. IsFiniteSet(Q)
      BY <3>1, <3>2, FS_Subset
    <3> QED
      BY <3>1, <3>3, FS_AddElement
  <2>3. r \in R /\ \A q \in remote[w] : q \in R \/ (q.world = r.world /\ Bus!SameTopic(q.topic, r.topic))
    OBVIOUS
  <2> HIDE DEF R
  <2>4. TableShape'
    BY <2>1, <2>2 DEF BusInv, TableShape
  <2>5. \A x \in EventWorlds : remote'[x] = IF x = w THEN R ELSE remote[x]
    BY <2>1 DEF BusInv, TableShape
  <2>6. KnowledgeStays
    <3> SUFFICES ASSUME NEW v, NEW x \in EventWorlds, NEW t, Knows(x, v, t)
                 PROVE  Knows(x, v, t)'
      BY <1>2 DEF KnowledgeStays
    <3>1. CASE \E q \in remote[x] : q.world = v /\ Bus!SameTopic(q.topic, t)
      <4>1. PICK q \in remote[x] : q.world = v /\ Bus!SameTopic(q.topic, t)
        BY <3>1
      <4>2. q \in remote'[x]
            \/ (x = w /\ q.world = r.world /\ Bus!SameTopic(q.topic, r.topic))
        BY <2>3, <2>5, <4>1
      <4>3. CASE q \in remote'[x]
        BY <4>1, <4>3 DEF Knows
      <4>4. CASE x = w /\ q.world = r.world /\ Bus!SameTopic(q.topic, r.topic)
        <5>1. r \in remote'[x] /\ r.world = v
          BY <2>3, <2>5, <4>1, <4>4
        <5>2. Bus!SameTopic(r.topic, t)
          BY <4>1, <4>4, SameTopics
        <5> QED
          BY <5>1, <5>2 DEF Knows
      <4> QED
        BY <4>2, <4>3, <4>4
    <3>2. CASE \E i \in Pending(x) :
                 i.kind = "add" /\ i.wrapped.world = v /\ Bus!SameTopic(i.wrapped.topic, t)
      <4>1. PICK i \in Pending(x) :
              i.kind = "add" /\ i.wrapped.world = v /\ Bus!SameTopic(i.wrapped.topic, t)
        BY <3>2
      <4>2. i \in Pending(x)' \/ (x = w /\ i = j)
        BY DEF TakesJob
      <4>3. CASE i \in Pending(x)'
        BY <4>1, <4>3 DEF Knows
      <4>4. CASE x = w /\ i = j
        <5>1. r \in remote'[x] /\ r.world = v /\ Bus!SameTopic(r.topic, t)
          BY <2>3, <2>5, <4>1, <4>4
        <5> QED
          BY <5>1 DEF Knows
      <4> QED
        BY <4>2, <4>3, <4>4
    <3>3. CASE ToldLater(v)
      BY <1>3, <3>3 DEF Knows
    <3> QED
      BY <3>1, <3>2, <3>3 DEF Knows
  <2> QED
    BY <1>1, <1>4, <1>5, <2>1, <2>4, <2>6, RestingStep
<1>7. CASE remote' = remote /\ j.kind # "add" /\ TableShape'
           /\ \A x \in EventWorlds : \A d \in deleted'[x] : d \in deleted[x] \/ JustRemoval(d)'
  <2>1. KnowledgeStays
    <3> SUFFICES ASSUME NEW v, NEW x \in EventWorlds, NEW t, Knows(x, v, t)
                 PROVE  Knows(x, v, t)'
      BY <1>2 DEF KnowledgeStays
    <3>1. \A i \in Pending(x) : i.kind = "add" => i \in Pending(x)'
      BY <1>7 DEF TakesJob
    <3> QED
      BY <1>3, <1>7, <3>1 DEF Knows
  <2> QED
    BY <1>1, <1>4, <1>5, <1>7, <2>1, RestingStep
<1>8. CASE j.kind = "remove" /\ Bus!UnsubscribeScheduler(w, j.world, j.topic)
  <2> DEFINE d == [world |-> j.world, topic |-> j.topic]
  <2>1. remote' = remote /\ deleted' = [deleted EXCEPT ![w] = @ \cup {d}]
    BY <1>8 DEF Bus!UnsubscribeScheduler
  <2>2. j.world \in EventWorlds /\ j.topic # None /\ WasReturned(j.world, j.topic)
    BY <1>8 DEF BusInv, RemovalsInv, TakesJob
  <2>3. WasReturned(j.world, j.topic)'
    BY <2>2 DEF WasReturned
  <2>4. d.world = j.world /\ d.topic = j.topic
    OBVIOUS
  <2> HIDE DEF d
  <2>5. JustRemoval(d)'
    BY <2>2, <2>3, <2>4 DEF JustRemoval
  <2>6. \A x \in EventWorlds : \A c \in deleted'[x] : c \in deleted[x] \/ JustRemoval(c)'
    BY <2>1, <2>5 DEF BusInv, TableShape
  <2>7. TableShape'
    BY <2>1 DEF BusInv, TableShape
  <2> QED
    BY <1>7, <1>8, <2>1, <2>6, <2>7
<1>9. CASE j.kind = "event" /\ Bus!Receive(w, j)
  <2>1. remote' = remote /\ deleted' = deleted
    BY <1>9 DEF Bus!Receive
  <2>2. TableShape'
    BY <2>1 DEF BusInv, TableShape
  <2> QED
    BY <1>7, <1>9, <2>1, <2>2
<1> QED
  BY <1>6, <1>8, <1>9 DEF Bus!Perform

\* A job of the queue, or of the private queue, is taken.
LEMMA RunInforms ==
  ASSUME BusInv, LoopInv, NEW w \in EventWorlds, Bus!RunJob(w) \/ Bus!RunPrivateJob(w)
  PROVE  BusInv'
<1>1. QueueShape /\ UNCHANGED <<subs, others, telling, down, bus>>
  BY DEF BusInv, Bus!RunJob, Bus!RunPrivateJob
<1>2. CASE Bus!RunJob(w)
  <2> DEFINE q == inbox[w]
  <2>1. /\ q # <<>> /\ inbox' = [inbox EXCEPT ![w] = Tail(q)] /\ private' = private
        /\ Bus!Perform(w, Head(q))
    BY <1>2 DEF Bus!RunJob
  <2>2. IsQueue(Tail(q)) /\ Head(q) \in Elems(q) /\ Elems(q) = {Head(q)} \cup Elems(Tail(q))
    BY <1>1, <2>1, ShorterQueue DEF QueueShape
  <2>3. /\ inbox' = [v \in EventWorlds |-> IF v = w THEN Tail(q) ELSE inbox[v]]
    BY <1>1, <2>1 DEF QueueShape
  <2>4. QueueShape'
    BY <1>1, <2>1, <2>2, <2>3 DEF QueueShape
  <2>5. TakesJob(w, Head(q))
    BY <1>1, <2>1, <2>2, <2>3, <2>4 DEF TakesJob, Pending, Underway
  <2> QED
    BY <1>1, <2>1, <2>5, PerformInforms
<1>3. CASE Bus!RunPrivateJob(w)
  <2> DEFINE q == private[w]
  <2>1. /\ q # <<>> /\ private' = [private EXCEPT ![w] = Tail(q)] /\ inbox' = inbox
        /\ Bus!Perform(w, Head(q))
    BY <1>3 DEF Bus!RunPrivateJob
  <2>2. IsQueue(Tail(q)) /\ Head(q) \in Elems(q) /\ Elems(q) = {Head(q)} \cup Elems(Tail(q))
        /\ OthersOnce(Tail(q))
    BY <1>1, <2>1, ShorterQueue, OthersOnceShorter DEF QueueShape
  <2>3. /\ private' = [v \in EventWorlds |-> IF v = w THEN Tail(q) ELSE private[v]]
    BY <1>1, <2>1 DEF QueueShape
  <2>4. QueueShape'
    BY <1>1, <2>1, <2>2, <2>3 DEF QueueShape
  <2>5. TakesJob(w, Head(q))
    BY <1>1, <2>1, <2>2, <2>3, <2>4 DEF TakesJob, Pending, Underway
  <2> QED
    BY <1>1, <2>1, <2>5, PerformInforms
<1> QED
  BY <1>2, <1>3

\* A servant dies.
LEMMA DieInforms ==
  ASSUME BusInv, LoopInv, NEW s \in Subscribers, Bus!Die(s)
  PROVE  BusInv'
<1>1. EntriesFollow
  BY NoneFollows DEF Bus!Die, BusInv
<1> QED
  BY <1>1, EntriesStep DEF Bus!Die

\* A scheduler goes away, and its jobs with it.
LEMMA StopInforms ==
  ASSUME BusInv, LoopInv, NEW w \in EventWorlds, Bus!Stop(w)
  PROVE  BusInv'
<1>1. /\ down' = down \cup {w}
      /\ inbox' = [inbox EXCEPT ![w] = <<>>] /\ private' = [private EXCEPT ![w] = <<>>]
      /\ UNCHANGED <<subs, remote, deleted, others, telling, bus>>
  BY DEF Bus!Stop
<1>2. QueueShape
  BY DEF BusInv
<1>3. /\ inbox' = [v \in EventWorlds |-> IF v = w THEN <<>> ELSE inbox[v]]
      /\ private' = [v \in EventWorlds |-> IF v = w THEN <<>> ELSE private[v]]
  BY <1>1, <1>2 DEF QueueShape
<1>4. QueueShape'
  BY <1>1, <1>2, <1>3, EmptyQueue DEF QueueShape
<1>5. Sent({})
  <2> SUFFICES ASSUME NEW v \in EventWorlds
               PROVE  /\ Pending(v)' \subseteq Pending(v)
                      /\ v \notin down' => Pending(v) \subseteq Pending(v)'
                      /\ Elems(private'[v]) \subseteq Elems(private[v])
    BY <1>4 DEF Sent
  <2>1. CASE v = w
    BY <1>1, <1>3, <2>1, EmptyQueue DEF Pending, Underway
  <2>2. CASE v # w
    BY <1>1, <1>3, <2>2 DEF Pending, Underway
  <2> QED
    BY <2>1, <2>2
<1>6. EntriesFollow /\ TableShape'
  BY <1>1, NoneFollows DEF BusInv, TableShape
<1> QED
  BY <1>1, <1>5, <1>6, SendingStep

\* A call that is made leaves the others.
LEMMA CallMade ==
  ASSUME NEW q, IsCalls(q), q # <<>>, NEW v \in Head(q).to, NEW r,
         r = Bus!Remaining(q, v)
  PROVE  /\ IsCalls(r) /\ Head(q).job.kind # "others" /\ Head(q).job \in CallJobs(q, v)
         /\ \A w : CallJobs(r, w) \subseteq CallJobs(q, w)
         /\ \A w : \A j \in CallJobs(q, w) : j \in CallJobs(r, w) \/ (w = v /\ j = Head(q).job)
<1> DEFINE c == Head(q)
           d == [c EXCEPT !.to = @ \ {v}]
           t == Tail(q)
<1>1. IsQueue(t) /\ c \in Elems(q) /\ Elems(q) = {c} \cup Elems(t)
  BY ShorterQueue DEF IsCalls
<1>2. c = [to |-> c.to, job |-> c.job] /\ c.job.kind # "others" /\ v \in c.to
  BY <1>1 DEF IsCalls
<1>3. r = IF c.to = {v} THEN t ELSE <<d>> \o t
  BY DEF Bus!Remaining
<1> HIDE DEF c, t
<1>4. d = [to |-> c.to \ {v}, job |-> c.job]
  <2>1. PICK a, b, m : a = c.to /\ b = c.job /\ m = a \ {v}
    OBVIOUS
  <2>2. c = [to |-> a, job |-> b]
    BY <1>2, <2>1
  <2>3. d = [c EXCEPT !.to = m]
    BY <2>1
  <2> HIDE DEF d
  <2>4. d = [to |-> m, job |-> b]
    BY <2>2, <2>3
  <2> QED
    BY <2>1, <2>4
<1> HIDE DEF d
<1>5. d.to = c.to \ {v} /\ d.job = c.job /\ d = [to |-> d.to, job |-> d.job]
  BY <1>4
<1>6. IsQueue(<<d>> \o t) /\ Elems(<<d>> \o t) = {d} \cup Elems(t)
  BY <1>1, QueueOfOne, JoinedQueues
<1>7. \A x \in Elems(t) : x = [to |-> x.to, job |-> x.job] /\ x.job.kind # "others"
  BY <1>1 DEF IsCalls
<1>8. IsQueue(r) /\ ((Elems(r) = Elems(t) /\ c.to = {v}) \/ Elems(r) = {d} \cup Elems(t))
  BY <1>1, <1>3, <1>6
<1>9. IsCalls(r)
  BY <1>2, <1>5, <1>7, <1>8 DEF IsCalls
<1>10. c.job \in CallJobs(q, v)
  BY <1>1, <1>2 DEF CallJobs
<1>11. ASSUME NEW w PROVE CallJobs(r, w) \subseteq CallJobs(q, w)
  BY <1>1, <1>5, <1>8 DEF CallJobs
<1>12. ASSUME NEW w, NEW j \in CallJobs(q, w)
       PROVE  j \in CallJobs(r, w) \/ (w = v /\ j = c.job)
  <2>1. PICK x \in Elems(q) : w \in x.to /\ j = x.job
    BY DEF CallJobs
  <2>2. CASE x \in Elems(t)
    BY <1>8, <2>1, <2>2 DEF CallJobs
  <2>3. CASE x = c
    <3>1. CASE w = v
      BY <2>1, <2>3, <3>1
    <3>2. CASE w # v
      <4>1. w \in d.to /\ d \in Elems(r)
        BY <1>5, <1>8, <2>1, <2>3, <3>2
      <4> QED
        BY <1>5, <2>1, <2>3, <4>1 DEF CallJobs
    <3> QED
      BY <3>1, <3>2
  <2> QED
    BY <1>1, <2>1, <2>2, <2>3
<1> QED
  BY <1>2, <1>9, <1>10, <1>11, <1>12 DEF c

\* A job that was on its way reaches its world, when that is not gone.
LEMMA SendInforms ==
  ASSUME BusInv, LoopInv, NEW w \in EventWorlds, Bus!Send(w)
  PROVE  BusInv'
<1>1. QueueShape
  BY DEF BusInv
<1>0. PICK q : q = telling[w]
  OBVIOUS
<1> DEFINE c == Head(q)
<1>2. PICK v \in Head(q).to :
        telling' = [telling EXCEPT ![w] = Bus!Remaining(@, v)] /\ Bus!Tell(v, c.job)
  BY <1>0 DEF Bus!Send
<1>3. q # <<>> /\ UNCHANGED <<subs, remote, deleted, others, down, bus>>
  BY <1>0 DEF Bus!Send
<1>4. PICK r : r = Bus!Remaining(q, v)
  OBVIOUS
<1>5. telling' = [telling EXCEPT ![w] = r]
  BY <1>0, <1>2, <1>4
<1>6. telling' = [x \in EventWorlds |-> IF x = w THEN r ELSE telling[x]]
  BY <1>1, <1>5 DEF QueueShape
<1>7. IsCalls(q)
  BY <1>0, <1>1 DEF QueueShape
<1>8. /\ IsCalls(r) /\ c.job.kind # "others" /\ c.job \in CallJobs(q, v)
      /\ \A x : CallJobs(r, x) \subseteq CallJobs(q, x)
      /\ \A x : \A j \in CallJobs(q, x) : j \in CallJobs(r, x) \/ (x = v /\ j = c.job)
  BY <1>3, <1>4, <1>7, CallMade
<1>9. PICK job : job = c.job
  OBVIOUS
<1>10. /\ inbox' = IF v \in Wide \cup down THEN inbox ELSE [inbox EXCEPT ![v] = Append(@, job)]
       /\ private' = IF v \in Wide \ down THEN [private EXCEPT ![v] = Append(@, job)] ELSE private
  BY <1>2, <1>9 DEF Bus!Tell
<1> HIDE DEF c
<1>11. ASSUME NEW x \in EventWorlds
       PROVE  /\ Underway(x)' \subseteq Underway(x)
              /\ \A j \in Underway(x) : j \in Underway(x)' \/ (x = v /\ j = job)
  <2>1. \A y \in EventWorlds :
          /\ CallJobs(telling'[y], x) \subseteq CallJobs(telling[y], x)
          /\ \A j \in CallJobs(telling[y], x) : j \in CallJobs(telling'[y], x) \/ (x = v /\ j = job)
    BY <1>0, <1>6, <1>8, <1>9
  <2>2. Underway(x)' = UNION {CallJobs(telling'[y], x) : y \in EventWorlds}
    BY DEF Underway, CallJobs
  <2> QED
    BY <2>1, <2>2 DEF Underway
<1>12. v \in EventWorlds => job \in Underway(v)
  BY <1>0, <1>8, <1>9 DEF Underway
<1>13. ASSUME NEW x \in EventWorlds
       PROVE  /\ IsQueue(inbox[x]) /\ IsQueue(private[x]) /\ OthersOnce(private[x])
              /\ IsQueue(Append(inbox[x], job)) /\ IsQueue(Append(private[x], job))
              /\ Elems(Append(inbox[x], job)) = Elems(inbox[x]) \cup {job}
              /\ Elems(Append(private[x], job)) = Elems(private[x]) \cup {job}
              /\ OthersOnce(Append(private[x], job))
  <2>1. IsQueue(inbox[x]) /\ IsQueue(private[x]) /\ OthersOnce(private[x])
    BY <1>1 DEF QueueShape
  <2>2. IsQueue(<<job>>) /\ NoOthers(<<job>>)
    BY <1>8, <1>9, OneJob
  <2>3. Append(private[x], job) = private[x] \o <<job>>
    BY <2>1 DEF IsQueue
  <2> QED
    BY <2>1, <2>2, <2>3, LongerQueue, OthersOnceJoined
<1>14. ASSUME NEW x \in EventWorlds
       PROVE  /\ inbox'[x] = IF x = v /\ v \notin Wide \cup down THEN Append(inbox[x], job) ELSE inbox[x]
              /\ private'[x] = IF x = v /\ v \in Wide \ down THEN Append(private[x], job) ELSE private[x]
  BY <1>1, <1>10 DEF QueueShape
<1>15. QueueShape'
  <2>1. /\ inbox' = [x \in EventWorlds |-> inbox'[x]] /\ private' = [x \in EventWorlds |-> private'[x]]
        /\ telling' = [x \in EventWorlds |-> telling'[x]]
    BY <1>1, <1>6, <1>10 DEF QueueShape
  <2>2. \A x \in EventWorlds :
          IsQueue(inbox'[x]) /\ IsQueue(private'[x]) /\ OthersOnce(private'[x])
    BY <1>13, <1>14
  <2>3. \A x \in EventWorlds : IsCalls(telling'[x])
    BY <1>1, <1>6, <1>8 DEF QueueShape
  <2> QED
    BY <2>1, <2>2, <2>3 DEF QueueShape
<1>16. Sent({})
  <2> SUFFICES ASSUME NEW x \in EventWorlds
               PROVE  /\ Pending(x)' \subseteq Pending(x)
                      /\ x \notin down' => Pending(x) \subseteq Pending(x)'
                      /\ \A j \in Elems(private'[x]) : j.kind = "others" => j \in Elems(private[x])
    BY <1>15 DEF Sent
  <2>1. CASE x # v
    BY <1>11, <1>14, <2>1 DEF Pending
  <2>2. CASE x = v
    <3>1. /\ Elems(inbox'[x]) \subseteq Elems(inbox[x]) \cup {job}
          /\ Elems(private'[x]) \subseteq Elems(private[x]) \cup {job}
          /\ Elems(inbox[x]) \subseteq Elems(inbox'[x]) /\ Elems(private[x]) \subseteq Elems(private'[x])
          /\ v \notin down => job \in Elems(inbox'[x]) \cup Elems(private'[x])
      BY <1>13, <1>14, <2>2
    <3> QED
      BY <1>3, <1>8, <1>9, <1>11, <1>12, <2>2, <3>1 DEF Pending
  <2> QED
    BY <2>1, <2>2
<1>17. EntriesFollow /\ TableShape'
  BY <1>3, NoneFollows DEF BusInv, TableShape
<1> QED
  BY <1>3, <1>16, <1>17, SendingStep

\* A new entry is sent to the worlds its own has been told of.
LEMMA SubscribeInforms ==
  ASSUME BusInv, LoopInv, SubscribersLive, NEW s \in Subscribers, NEW t, t # None,
         Bus!Subscribe(s, t)
  PROVE  BusInv'
<1> DEFINE w == Home[s]
<1>0. PICK e : e = [token |-> Cardinality(subs[w]) + 1, servant |-> s, topic |-> t,
                    state |-> "on", returned |-> FALSE]
  OBVIOUS
<1> DEFINE job == Bus!AddJob(e, w)
           F == subs[w] \cup {e}
<1>1. w \in EventWorlds
  BY DEF SubscribersLive
<1>2. /\ subs' = [subs EXCEPT ![w] = F] /\ telling[w] = <<>>
      /\ telling' = [telling EXCEPT ![w] = Bus!Calls(others[w], <<job>>)]
      /\ UNCHANGED <<inbox, private, remote, deleted, others, down, bus>>
  BY <1>0, SameCardinality DEF Bus!Subscribe, Bus!Acting, Bus!Free
<1>3. /\ e.token = Cardinality(subs[w]) + 1 /\ e.topic = t /\ t # None
      /\ ~e.returned /\ job.kind = "add" /\ job.wrapped.world = w /\ job.wrapped.topic = t
  BY <1>0 DEF Bus!AddJob, Bus!Wrapped
<1> HIDE DEF job
<1>4. Numbered(F)
  BY <1>1, <1>3, EntryAdded DEF LoopInv, BusInv, EntriesNumbered
<1>5. subs' = [v \in EventWorlds |-> IF v = w THEN F ELSE subs[v]]
  BY <1>2 DEF LoopInv
<1>6. EntriesNumbered'
  BY <1>4, <1>5 DEF EntriesNumbered, BusInv
<1>7. \A v \in EventWorlds : \A u : WasReturned(v, u)' <=> WasReturned(v, u)
  BY <1>3, <1>5 DEF WasReturned
<1>8. ReturnsStay
  BY <1>7 DEF ReturnsStay
<1>9. IsQueue(<<job>>) /\ NoOthers(<<job>>) /\ Elems(<<job>>) = {job}
  BY <1>3, OneJob
<1>10. /\ Sent({job})
       /\ \A v \in EventWorlds : v \in others[w] => job \in Pending(v)'
  BY <1>1, <1>2, <1>9, Agreed DEF BusInv
<1>11. /\ BusShape' /\ OthersJobs' /\ OnBus' = OnBus /\ OnBus \subseteq EventWorlds
       /\ OrdersStay /\ \A v : ToldLater(v)' <=> ToldLater(v)
  BY <1>2, <1>10, BusRests DEF BusInv, Sent
<1>12. QueueShape' /\ TableShape'
  BY <1>2, <1>10 DEF Sent, BusInv, TableShape
<1>13. RemovalsInv'
  <2>1. JustJob(job)'
    BY <1>3 DEF JustJob
  <2>2. \A v \in EventWorlds : \A j \in Pending(v)' : j \in Pending(v) \/ JustJob(j)'
    BY <1>10, <2>1 DEF Sent
  <2> QED
    BY <1>2, <1>8, <2>2, RemovalsKept DEF BusInv
<1>14. KnowledgeInv'
  <2> SUFFICES ASSUME NEW v \in OnBus \ down, NEW x \in OnBus \ (down \cup {v})
               PROVE  /\ x \in others[v] \/ ToldLater(v)'
                      /\ \A f \in subs'[v] : f.state = "on" /\ ~WasReturned(v, f.topic)'
                           => Knows(x, v, f.topic)'
    BY <1>2, <1>11 DEF KnowledgeInv
  <2>1. x \in others[v] \/ ToldLater(v)
    BY DEF BusInv, KnowledgeInv
  <2>2. ASSUME NEW f \in subs'[v], f.state = "on", ~WasReturned(v, f.topic)'
        PROVE  Knows(x, v, f.topic)'
    <3>1. f \in subs[v] \/ (v = w /\ f = e)
      BY <1>5, <1>11
    <3>2. CASE f \in subs[v]
      <4>1. Knows(x, v, f.topic)
        BY <1>7, <1>11, <2>2, <3>2 DEF BusInv, KnowledgeInv
      <4>2. remote' = remote /\ Pending(x) \subseteq Pending(x)'
        BY <1>2, <1>10, <1>11 DEF Sent
      <4> QED
        BY <1>11, <4>1, <4>2 DEF Knows
    <3>3. CASE v = w /\ f = e
      <4>1. CASE ToldLater(v)
        BY <1>11, <4>1 DEF Knows
      <4>2. CASE x \in others[v]
        <5>1. job \in Pending(x)'
          BY <1>10, <1>11, <3>3, <4>2
        <5>2. job.kind = "add" /\ job.wrapped.world = v /\ Bus!SameTopic(job.wrapped.topic, f.topic)
          BY <1>3, <3>3, SameTopics
        <5> QED
          BY <5>1, <5>2 DEF Knows
      <4> QED
        BY <2>1, <4>1, <4>2
    <3> QED
      BY <3>1, <3>2, <3>3
  <2> QED
    BY <1>11, <2>1, <2>2
<1> QED
  BY <1>6, <1>11, <1>12, <1>13, <1>14 DEF BusInv

-----------------------------------------------------------------------------
(* Rounds of the notification servant                                      *)

\* Nothing of the entries, the removals and the jobs changes.
LEMMA RemovalsRest ==
  ASSUME RemovalsInv, EntriesNumbered, UNCHANGED <<subs, deleted, down>>,
         \A w \in EventWorlds : \A j \in Pending(w)' : j \in Pending(w) \/ j.kind # "remove"
  PROVE  RemovalsInv' /\ EntriesNumbered' /\ NoNewEntries /\ \A v, t : WasReturned(v, t)' <=> WasReturned(v, t)
<1>1. \A v, t : WasReturned(v, t)' <=> WasReturned(v, t)
  BY DEF WasReturned
<1>2. ReturnsStay
  BY <1>1 DEF ReturnsStay
<1>3. \A w \in EventWorlds : \A j \in Pending(w)' : j \in Pending(w) \/ JustJob(j)'
  BY DEF JustJob
<1>4. RemovalsInv'
  BY <1>2, <1>3, RemovalsKept
<1> QED
  BY <1>1, <1>4 DEF EntriesNumbered, NoNewEntries

\* Between rounds, and before a world is told, nobody has such a job; nor when a
\* world has taken it.
LEMMA NobodyWaits ==
  ASSUME OthersJobs, ~bus.waits \/ bus.learns
  PROVE  \A w \in EventWorlds : NoOthers(private[w])
BY DEF OthersJobs, NoOthers

\* Registrations wait.
LEMMA RegisterInforms ==
  ASSUME BusInv, NEW w \in EventWorlds, Bus!Register(w)
  PROVE  BusInv'
<1>1. /\ bus' = [bus EXCEPT !.calls = Append(@, w)]
      /\ UNCHANGED <<subs, remote, deleted, others, inbox, private, telling, down>>
  BY DEF Bus!Register
<1>2. /\ bus = [calls |-> bus.calls, known |-> bus.known, at |-> bus.at, waits |-> bus.waits,
                learns |-> bus.learns]
      /\ bus.calls \in Seq(EventWorlds)
  BY DEF BusInv, BusShape
<1>3. bus' = [calls |-> Append(bus.calls, w), known |-> bus.known, at |-> bus.at,
              waits |-> bus.waits, learns |-> bus.learns]
  BY <1>1, <1>2
<1>4. bus'.calls = Append(bus.calls, w) /\ bus'.known = bus.known /\ bus'.at = bus.at
      /\ bus'.waits = bus.waits /\ bus'.learns = bus.learns
  BY <1>3
<1>5. Append(bus.calls, w) \in Seq(EventWorlds)
  BY <1>2
<1>6. BusShape'
  BY <1>3, <1>4, <1>5 DEF BusInv, BusShape
<1>7. OnBus' = OnBus /\ \A v : ToldLater(v)' <=> ToldLater(v)
  BY <1>4 DEF OnBus, ToldLater
<1>8. OthersJobs' /\ QueueShape' /\ TableShape'
  BY <1>1, <1>4, <1>7 DEF BusInv, OthersJobs, QueueShape, TableShape
<1>9. \A v \in EventWorlds : Pending(v)' = Pending(v)
  BY <1>1 DEF Pending, Underway
<1>10. RemovalsInv' /\ EntriesNumbered' /\ NoNewEntries
  BY <1>1, <1>9, RemovalsRest DEF BusInv
<1>11. OrdersStay
  BY <1>1, <1>7 DEF OrdersStay
<1>12. KnowledgeStays
  BY <1>1, <1>7 DEF KnowledgeStays, Knows, Pending, Underway
<1>13. KnowledgeInv'
  BY <1>1, <1>7, <1>10, <1>11, <1>12, KnowledgeKept DEF BusInv
<1> QED
  BY <1>6, <1>8, <1>10, <1>13 DEF BusInv

\* A round begins: every world is to be told.
LEMMA AddInforms ==
  ASSUME BusInv, Bus!AddScheduler
  PROVE  BusInv'
<1> DEFINE c == Tail(bus.calls)
           k == Append(bus.known, Head(bus.calls))
<1>1. /\ bus' = [bus EXCEPT !.calls = c, !.known = k, !.at = 1]
      /\ bus.at = 0 /\ bus.calls # <<>>
      /\ UNCHANGED <<subs, remote, deleted, others, inbox, private, telling, down>>
  BY DEF Bus!AddScheduler
<1>2. /\ bus = [calls |-> bus.calls, known |-> bus.known, at |-> bus.at, waits |-> bus.waits,
                learns |-> bus.learns]
      /\ bus.calls \in Seq(EventWorlds) /\ bus.known \in Seq(EventWorlds)
      /\ ~bus.waits /\ bus.learns = FALSE
  BY <1>1 DEF BusInv, BusShape
<1>3. c \in Seq(EventWorlds) /\ k \in Seq(EventWorlds) /\ Len(k) \in Nat /\ Len(k) >= 1
  BY <1>1, <1>2
<1> HIDE DEF c, k
<1>4. bus' = [calls |-> c, known |-> k, at |-> 1, waits |-> bus.waits, learns |-> bus.learns]
  <2> DEFINE b == [bus EXCEPT !.calls = c]
             d == [b EXCEPT !.known = k]
  <2>1. bus' = [d EXCEPT !.at = 1]
    BY <1>1
  <2>2. b = [calls |-> c, known |-> bus.known, at |-> bus.at, waits |-> bus.waits,
             learns |-> bus.learns]
    BY <1>2
  <2> HIDE DEF b
  <2>3. d = [calls |-> c, known |-> k, at |-> bus.at, waits |-> bus.waits,
             learns |-> bus.learns]
    BY <2>2
  <2> HIDE DEF d
  <2> QED
    BY <2>1, <2>3
<1>5. /\ bus'.calls = c /\ bus'.known = k /\ bus'.at = 1 /\ bus'.waits = bus.waits
      /\ bus'.learns = bus.learns
  BY <1>4
<1>6. BusShape'
  <2>1. bus' = [calls |-> bus'.calls, known |-> bus'.known, at |-> bus'.at, waits |-> bus'.waits,
                learns |-> bus'.learns]
    BY <1>4, <1>5
  <2>2. /\ bus'.learns \in BOOLEAN /\ (bus'.learns => bus'.waits)
        /\ (bus'.waits => bus'.at # 0)
    BY <1>2, <1>5
  <2>3. /\ bus'.calls \in Seq(EventWorlds) /\ bus'.known \in Seq(EventWorlds)
        /\ bus'.at \in 0 .. Len(bus'.known)
    BY <1>3, <1>5
  <2> QED
    BY <2>1, <2>2, <2>3 DEF BusShape
<1>7. \A v \in OnBus' : ToldLater(v)'
  BY <1>2, <1>3, <1>5 DEF OnBus, ToldLater
<1>8. OthersJobs'
  BY <1>1, <1>2, NobodyWaits DEF BusInv, OthersJobs, NoOthers
<1>9. QueueShape' /\ TableShape'
  BY <1>1 DEF BusInv, QueueShape, TableShape
<1>10. \A v \in EventWorlds : Pending(v)' = Pending(v)
  BY <1>1 DEF Pending, Underway
<1>11. RemovalsInv' /\ EntriesNumbered'
  BY <1>1, <1>10, RemovalsRest DEF BusInv
<1>12. KnowledgeInv'
  BY <1>7 DEF KnowledgeInv, Knows
<1> QED
  BY <1>6, <1>8, <1>9, <1>11, <1>12 DEF BusInv

\* The notification servant goes on: only the world it was at is told no more, if
\* that has not learned of the others already.
LEMMA AdvancedBus ==
  ASSUME BusShape, bus.at # 0, bus' = Bus!Advanced(bus)
  PROVE  /\ BusShape' /\ ~bus'.waits /\ OnBus' = OnBus /\ OnBus \subseteq EventWorlds
         /\ bus.known[bus.at] \in OnBus
         /\ \A v : ToldLater(v) /\ (v # bus.known[bus.at] \/ bus.learns) => ToldLater(v)'
<1> DEFINE n == IF bus.at = Len(bus.known) THEN 0 ELSE bus.at + 1
<1>1. /\ bus = [calls |-> bus.calls, known |-> bus.known, at |-> bus.at, waits |-> bus.waits,
                learns |-> bus.learns]
      /\ bus.calls \in Seq(EventWorlds) /\ bus.known \in Seq(EventWorlds)
      /\ bus.at \in 1 .. Len(bus.known) /\ Len(bus.known) \in Nat
  BY DEF BusShape
<1>2. bus' = [bus EXCEPT !.waits = FALSE, !.learns = FALSE, !.at = n]
  BY DEF Bus!Advanced
<1>3. n \in 0 .. Len(bus.known) /\ (n # 0 => n = bus.at + 1) /\ (n = 0 => bus.at = Len(bus.known))
  BY <1>1
<1> HIDE DEF n
<1>4. bus' = [calls |-> bus.calls, known |-> bus.known, at |-> n, waits |-> FALSE,
              learns |-> FALSE]
  <2>1. PICK no : no = FALSE
    OBVIOUS
  <2> DEFINE b == [bus EXCEPT !.waits = no]
             d == [b EXCEPT !.learns = no]
  <2>2. bus' = [d EXCEPT !.at = n]
    BY <1>2, <2>1
  <2>3. bus = [calls |-> bus.calls, known |-> bus.known, at |-> bus.at, waits |-> bus.waits,
               learns |-> bus.learns]
    BY <1>1
  <2>4. b = [calls |-> bus.calls, known |-> bus.known, at |-> bus.at, waits |-> no,
             learns |-> bus.learns]
    BY <2>3
  <2> HIDE DEF b
  <2>5. d = [calls |-> bus.calls, known |-> bus.known, at |-> bus.at, waits |-> no,
             learns |-> no]
    BY <2>4
  <2> HIDE DEF d
  <2>6. [d EXCEPT !.at = n] = [calls |-> bus.calls, known |-> bus.known, at |-> n, waits |-> no,
                               learns |-> no]
    BY <2>5
  <2> QED
    BY <2>1, <2>2, <2>6
<1>5. /\ bus'.calls = bus.calls /\ bus'.known = bus.known /\ bus'.at = n /\ bus'.waits = FALSE
      /\ bus'.learns = FALSE
  BY <1>4
<1>6. BusShape'
  BY <1>1, <1>3, <1>4, <1>5 DEF BusShape
<1>7. OnBus' = OnBus /\ OnBus \subseteq EventWorlds /\ bus.known[bus.at] \in OnBus
  BY <1>1, <1>5 DEF OnBus
<1>8. ASSUME NEW v, ToldLater(v), v # bus.known[bus.at] \/ bus.learns
      PROVE  ToldLater(v)'
  <2>1. PICK i \in 1 .. Len(bus.known) :
          bus.at <= i /\ (bus.learns => i # bus.at) /\ bus.known[i] = v
    BY <1>8 DEF ToldLater
  <2>2. i # bus.at
    BY <1>8, <2>1
  <2>3. n # 0 /\ n <= i
    BY <1>1, <1>3, <2>1, <2>2
  <2> QED
    BY <1>5, <2>1, <2>3 DEF ToldLater
<1> QED
  BY <1>5, <1>6, <1>7, <1>8

\* The next world is told, or passed over when it is gone or alone.
LEMMA NotifyInforms ==
  ASSUME BusInv, Bus!Notify
  PROVE  BusInv'
<1> DEFINE w == bus.known[bus.at]
           ws == OnBus \ {w}
<1>1. /\ bus.at # 0 /\ ~bus.waits
      /\ UNCHANGED <<subs, remote, deleted, others, inbox, telling, down>>
  BY DEF Bus!Notify
<1>2. BusShape /\ QueueShape /\ \A v \in EventWorlds : NoOthers(private[v])
  BY <1>1, NobodyWaits DEF BusInv
<1>3. TableShape'
  BY <1>1 DEF BusInv, TableShape
<1>4. CASE Bus!Unnotified(w, ws) /\ bus' = Bus!Advanced(bus) /\ private' = private
  <2>1. /\ BusShape' /\ ~bus'.waits /\ OnBus' = OnBus /\ OnBus \subseteq EventWorlds
        /\ \A v : ToldLater(v) /\ v # w => ToldLater(v)'
    BY <1>1, <1>2, <1>4, AdvancedBus
  <2>2. \A v, x \in OnBus \ down : v # x => v # w
    BY <1>4 DEF Bus!Unnotified
  <2>3. OthersJobs' /\ QueueShape'
    BY <1>1, <1>2, <1>4 DEF OthersJobs, QueueShape, NoOthers
  <2>4. \A v \in EventWorlds : Pending(v)' = Pending(v)
    BY <1>1, <1>4 DEF Pending, Underway
  <2>5. RemovalsInv' /\ EntriesNumbered' /\ NoNewEntries
    BY <1>1, <2>4, RemovalsRest DEF BusInv
  <2> HIDE DEF w
  <2>6. OrdersStay
    BY <1>1, <2>1, <2>2 DEF OrdersStay
  <2>7. KnowledgeStays
    BY <1>1, <2>1, <2>2, <2>4 DEF KnowledgeStays, Knows
  <2>8. KnowledgeInv'
    BY <1>1, <2>1, <2>5, <2>6, <2>7, KnowledgeKept DEF BusInv
  <2> QED
    BY <1>3, <2>1, <2>3, <2>5, <2>8 DEF BusInv
<1>5. CASE /\ ~Bus!Unnotified(w, ws)
           /\ bus' = [bus EXCEPT !.waits = TRUE]
           /\ private' = [private EXCEPT ![w] = Append(@, Bus!OthersJob(ws))]
  <2> DEFINE job == Bus!OthersJob(ws)
             q == Append(private[w], job)
  <2>1. /\ bus = [calls |-> bus.calls, known |-> bus.known, at |-> bus.at, waits |-> bus.waits,
                  learns |-> bus.learns]
        /\ bus.known \in Seq(EventWorlds) /\ bus.at \in 1 .. Len(bus.known) /\ bus.learns = FALSE
    BY <1>1, <1>2 DEF BusShape
  <2>2. bus' = [calls |-> bus.calls, known |-> bus.known, at |-> bus.at, waits |-> TRUE,
                learns |-> FALSE]
    BY <1>5, <2>1
  <2>3. /\ bus'.calls = bus.calls /\ bus'.known = bus.known /\ bus'.at = bus.at
        /\ bus'.waits /\ ~bus'.learns
    BY <2>2
  <2>4. BusShape'
    BY <1>1, <1>2, <2>2, <2>3 DEF BusShape
  <2>5. OnBus' = OnBus /\ OnBus \subseteq EventWorlds /\ \A v : ToldLater(v)' <=> ToldLater(v)
    BY <1>2, <2>1, <2>3 DEF OnBus, ToldLater, BusShape
  <2>6. w \in EventWorlds
    BY <2>1
  <2>7. job.kind = "others" /\ job.others = ws
    BY DEF Bus!OthersJob
  <2> HIDE DEF job
  <2>8. IsQueue(q) /\ Elems(q) = Elems(private[w]) \cup {job} /\ OthersOnce(q)
    BY <1>2, <2>6, LongerQueue, FirstOthers DEF QueueShape
  <2>9. private' = [v \in EventWorlds |-> IF v = w THEN q ELSE private[v]]
    BY <1>2, <1>5 DEF QueueShape, job
  <2> HIDE DEF q
  <2>10. QueueShape'
    BY <1>1, <1>2, <2>8, <2>9 DEF QueueShape
  <2>11. OthersJobs'
    <3> SUFFICES ASSUME NEW v \in EventWorlds, NEW j \in Elems(private'[v]), j.kind = "others"
                 PROVE  v = w /\ j.others = ws
      BY <2>3, <2>5 DEF OthersJobs
    <3>1. v = w /\ j = job
      BY <1>2, <2>8, <2>9 DEF NoOthers
    <3> QED
      BY <2>7, <3>1
  <2>12. \A v \in EventWorlds : /\ Pending(v) \subseteq Pending(v)'
                                /\ \A j \in Pending(v)' : j \in Pending(v) \/ j = job
    BY <1>1, <2>8, <2>9 DEF Pending, Underway
  <2>13. RemovalsInv' /\ EntriesNumbered' /\ NoNewEntries
    BY <1>1, <2>7, <2>12, RemovalsRest DEF BusInv
  <2>14. OrdersStay
    BY <1>1, <2>5 DEF OrdersStay
  <2>15. KnowledgeStays
    BY <1>1, <2>5, <2>12 DEF KnowledgeStays, Knows
  <2>16. KnowledgeInv'
    BY <1>1, <2>5, <2>13, <2>14, <2>15, KnowledgeKept DEF BusInv
  <2> QED
    BY <1>3, <2>4, <2>10, <2>11, <2>13, <2>16 DEF BusInv
<1> QED
  BY <1>4, <1>5 DEF Bus!Notify, OnBus

\* The world that the notification servant waits for learns of the others and
\* will send them its subscriptions.
LEMMA LearnInforms ==
  ASSUME BusInv, LoopInv, NEW w \in EventWorlds, Bus!RunOthersJob(w)
  PROVE  BusInv'
<1> DEFINE ws == Head(private[w]).others
           jobs == Bus!Waiting(w)
<1>1. /\ private[w] # <<>> /\ Head(private[w]).kind = "others" /\ telling[w] = <<>>
      /\ Bus!LearnOthers(w, ws) /\ bus' = [bus EXCEPT !.learns = TRUE]
      /\ private' = [private EXCEPT ![w] = Tail(@)]
      /\ UNCHANGED <<subs, remote, deleted, inbox, down>>
  BY DEF Bus!RunOthersJob, Bus!Idle, Bus!Free
<1>2. BusShape /\ OthersJobs /\ QueueShape /\ TableShape /\ KnowledgeInv
  BY DEF BusInv
<1>3. /\ IsQueue(Tail(private[w])) /\ Head(private[w]) \in Elems(private[w])
      /\ Elems(private[w]) = {Head(private[w])} \cup Elems(Tail(private[w]))
      /\ OthersOnce(Tail(private[w])) /\ NoOthers(Tail(private[w]))
  BY <1>1, <1>2, ShorterQueue, OthersOnceShorter DEF QueueShape
<1>4. bus.waits /\ ~bus.learns /\ bus.at # 0 /\ bus.known[bus.at] = w /\ ws = OnBus \ {w}
  BY <1>1, <1>2, <1>3 DEF OthersJobs, BusShape
<1>5. /\ BusShape' /\ OnBus' = OnBus /\ OnBus \subseteq EventWorlds
      /\ \A v : ToldLater(v) /\ v # w => ToldLater(v)'
  <2>1. bus = [calls |-> bus.calls, known |-> bus.known, at |-> bus.at, waits |-> bus.waits,
               learns |-> bus.learns]
    BY <1>2 DEF BusShape
  <2>2. bus' = [calls |-> bus.calls, known |-> bus.known, at |-> bus.at, waits |-> bus.waits,
                learns |-> TRUE]
    BY <1>1, <2>1
  <2>3. /\ bus'.calls = bus.calls /\ bus'.known = bus.known /\ bus'.at = bus.at
        /\ bus'.waits = bus.waits /\ bus'.learns = TRUE
    BY <2>2
  <2>4. BusShape' /\ OnBus' = OnBus /\ OnBus \subseteq EventWorlds
    BY <1>2, <1>4, <2>2, <2>3 DEF BusShape, OnBus
  <2>5. \A v : ToldLater(v) /\ v # w => ToldLater(v)'
    BY <1>4, <2>3 DEF ToldLater
  <2> QED
    BY <2>4, <2>5
<1>6. /\ IsQueue(jobs) /\ NoOthers(jobs) /\ \A j \in Elems(jobs) : j.kind = "add"
      /\ \A e \in subs[w] : e.state # "off" => Bus!AddJob(e, w) \in Elems(jobs)
  BY WaitingJobs DEF LoopInv, BusInv, EntriesNumbered, NoOthers
<1>7. /\ others' = [others EXCEPT ![w] = ws]
      /\ telling' = [telling EXCEPT ![w] = Bus!Calls(ws, jobs)]
  BY <1>1 DEF Bus!LearnOthers
<1> HIDE DEF ws, jobs
<1>8. /\ telling' = [v \in EventWorlds |-> telling'[v]]
      /\ \A v \in EventWorlds :
           /\ IsCalls(telling'[v])
           /\ Underway(v)' = Underway(v) \cup (IF v \in ws THEN Elems(jobs) ELSE {})
  BY <1>1, <1>2, <1>6, <1>7, ToTell
<1>9. /\ QueueShape'
      /\ \A v \in EventWorlds : private'[v] = IF v = w THEN Tail(private[v]) ELSE private[v]
  <2>1. private' = [v \in EventWorlds |-> IF v = w THEN Tail(private[v]) ELSE private[v]]
    BY <1>1, <1>2 DEF QueueShape
  <2> QED
    BY <1>1, <1>2, <1>3, <1>8, <2>1 DEF QueueShape
<1>10. ASSUME NEW v \in EventWorlds
       PROVE  /\ \A j \in Pending(v)' : j \in Pending(v) \/ j \in Elems(jobs)
              /\ \A j \in Pending(v) : j \in Pending(v)' \/ j.kind = "others"
              /\ v \in ws => Elems(jobs) \subseteq Pending(v)'
              /\ \A j \in Elems(private'[v]) : j.kind # "others"
  <2>1. CASE v = w
    <3>1. /\ private'[v] = Tail(private[v]) /\ inbox'[v] = inbox[v]
          /\ Elems(private[v]) = {Head(private[v])} \cup Elems(Tail(private[v]))
          /\ Head(private[v]).kind = "others"
      BY <1>1, <1>3, <1>9, <2>1
    <3> QED
      BY <1>3, <1>8, <2>1, <3>1 DEF Pending, NoOthers
  <2>2. CASE v # w
    <3>1. \A j \in Elems(private[v]) : j.kind # "others"
      BY <1>2, <1>4, <2>2 DEF OthersJobs
    <3>2. inbox'[v] = inbox[v] /\ private'[v] = private[v]
      BY <1>1, <1>9, <2>2
    <3> QED
      BY <1>8, <3>1, <3>2 DEF Pending
  <2> QED
    BY <2>1, <2>2
<1>11. OthersJobs'
  BY <1>10 DEF OthersJobs
<1>12. TableShape'
  BY <1>1, <1>2, <1>7 DEF TableShape
<1>13. /\ RemovalsInv' /\ EntriesNumbered'
       /\ \A v, t : WasReturned(v, t)' <=> WasReturned(v, t)
  BY <1>1, <1>6, <1>10, RemovalsRest DEF BusInv
<1>14. \A v \in EventWorlds : others'[v] = IF v = w THEN ws ELSE others[v]
  BY <1>2, <1>7 DEF TableShape
<1>15. KnowledgeInv'
  <2> SUFFICES ASSUME NEW v \in OnBus \ down, NEW x \in OnBus \ (down \cup {v})
               PROVE  /\ x \in others'[v] \/ ToldLater(v)'
                      /\ \A e \in subs[v] : e.state = "on" /\ ~WasReturned(v, e.topic)
                           => Knows(x, v, e.topic)'
    BY <1>1, <1>5, <1>13 DEF KnowledgeInv
  <2>1. CASE v = w
    <3>1. x \in ws \ (down \cup {w})
      BY <1>4, <2>1
    <3>2. x \in others'[v]
      BY <1>14, <2>1, <3>1
    <3>3. ASSUME NEW e \in subs[v], e.state = "on"
          PROVE  Knows(x, v, e.topic)'
      <4> DEFINE j == Bus!AddJob(e, w)
      <4>1. j \in Elems(jobs)
        BY <1>6, <2>1, <3>3
      <4>2. j \in Pending(x)'
        BY <1>5, <1>10, <3>1, <4>1
      <4>3. j.kind = "add" /\ j.wrapped.world = v /\ Bus!SameTopic(j.wrapped.topic, e.topic)
        BY <2>1, SameTopics DEF Bus!AddJob, Bus!Wrapped
      <4> HIDE DEF j
      <4> QED
        BY <4>2, <4>3 DEF Knows
    <3> QED
      BY <3>2, <3>3
  <2>2. CASE v # w
    <3>1. x \in others'[v] \/ ToldLater(v)'
      <4>1. x \in others[v] \/ ToldLater(v)
        BY <1>2 DEF KnowledgeInv
      <4> QED
        BY <1>5, <1>14, <2>2, <4>1
    <3>2. ASSUME NEW e \in subs[v], e.state = "on", ~WasReturned(v, e.topic)
          PROVE  Knows(x, v, e.topic)'
      <4>1. Knows(x, v, e.topic)
        BY <1>2, <3>2 DEF KnowledgeInv
      <4>2. \A j \in Pending(x) : j.kind = "add" => j \in Pending(x)'
        BY <1>5, <1>10
      <4>3. ToldLater(v) => ToldLater(v)'
        BY <1>5, <2>2
      <4> QED
        BY <1>1, <4>1, <4>2, <4>3 DEF Knows
    <3> QED
      BY <3>1, <3>2
  <2> QED
    BY <2>1, <2>2
<1> QED
  BY <1>5, <1>9, <1>11, <1>12, <1>13, <1>15 DEF BusInv

\* It has told all of them, and the notification servant goes on.
LEMMA LearnedInforms ==
  ASSUME BusInv, NEW w \in EventWorlds, Bus!OthersJobEnds(w)
  PROVE  BusInv'
<1>1. /\ bus.learns /\ bus' = Bus!Advanced(bus)
      /\ UNCHANGED <<subs, remote, deleted, others, inbox, private, telling, down>>
  BY DEF Bus!OthersJobEnds, Bus!Learning
<1>2. BusShape /\ bus.at # 0 /\ \A v \in EventWorlds : NoOthers(private[v])
  BY <1>1, NobodyWaits DEF BusInv, BusShape
<1>3. /\ BusShape' /\ OnBus' = OnBus /\ OnBus \subseteq EventWorlds
      /\ \A v : ToldLater(v) => ToldLater(v)'
  BY <1>1, <1>2, AdvancedBus
<1>4. OthersJobs' /\ QueueShape' /\ TableShape'
  BY <1>1, <1>2 DEF BusInv, OthersJobs, NoOthers, QueueShape, TableShape
<1>5. \A v \in EventWorlds : Pending(v)' = Pending(v)
  BY <1>1 DEF Pending, Underway
<1>6. RemovalsInv' /\ EntriesNumbered' /\ NoNewEntries
  BY <1>1, <1>5, RemovalsRest DEF BusInv
<1>7. OrdersStay
  BY <1>1, <1>3 DEF OrdersStay
<1>8. KnowledgeStays
  BY <1>1, <1>3, <1>5 DEF KnowledgeStays, Knows
<1>9. KnowledgeInv'
  BY <1>1, <1>3, <1>6, <1>7, <1>8, KnowledgeKept DEF BusInv
<1> QED
  BY <1>3, <1>4, <1>6, <1>9 DEF BusInv

\* Every step.
LEMMA BusStep ==
  ASSUME BusInv, LoopInv, SubscribersLive, TopicsNamed, Bus!Next
  PROVE  BusInv'
<1>1. ASSUME NEW s \in Subscribers, NEW t \in Subscribed[s], Bus!Subscribe(s, t)
      PROVE  BusInv'
  BY <1>1, SubscribeInforms DEF TopicsNamed
<1>2. ASSUME NEW s \in Subscribers, NEW e \in subs[Home[s]], Bus!Unsubscribe(s, e)
      PROVE  BusInv'
  BY <1>2, UnsubscribeInforms
<1>3. ASSUME NEW s \in Subscribers, NEW t \in Published[s], Bus!Publish(s, t)
      PROVE  BusInv'
  BY <1>3, PublishInforms
<1>4. ASSUME NEW s \in Subscribers, Bus!Die(s)
      PROVE  BusInv'
  BY <1>4, DieInforms
<1>5. ASSUME NEW w \in EventWorlds, Bus!Loop(w)
      PROVE  BusInv'
  BY <1>5, VisitInforms, HandlerInforms, EndInforms DEF Bus!Loop
<1>6. ASSUME NEW w \in EventWorlds, Bus!RunJob(w) \/ Bus!RunPrivateJob(w)
      PROVE  BusInv'
  BY <1>6, RunInforms
<1>7. ASSUME NEW w \in EventWorlds,
             \/ Bus!RunOthersJob(w) \/ Bus!OthersJobEnds(w) \/ Bus!Send(w)
             \/ Bus!Register(w) \/ Bus!Stop(w)
      PROVE  BusInv'
  BY <1>7, LearnInforms, LearnedInforms, SendInforms, RegisterInforms, StopInforms
<1>8. CASE Bus!ServantStep
  BY <1>1, <1>2, <1>3, <1>4, <1>8 DEF Bus!ServantStep
<1>9. CASE Bus!WorldStep
  BY <1>5, <1>6, <1>7, <1>9 DEF Bus!WorldStep
<1> QED
  BY <1>8, <1>9, AddInforms, NotifyInforms DEF Bus!Next

\* Nothing happens.
LEMMA BusStutters ==
  ASSUME BusInv, UNCHANGED Bus!vars
  PROVE  BusInv'
<1>1. UNCHANGED <<subs, remote, deleted, others, inbox, private, telling, down, bus>>
  BY DEF Bus!vars
<1>2. BusShape' /\ OthersJobs' /\ QueueShape' /\ TableShape' /\ EntriesNumbered'
  BY <1>1 DEF BusInv, BusShape, OthersJobs, OnBus, QueueShape, TableShape, EntriesNumbered
<1>3. RemovalsInv' /\ KnowledgeInv'
  BY <1>1
  DEF BusInv, RemovalsInv, KnowledgeInv, Knows, ToldLater, Pending, Underway, WasReturned, OnBus
<1> QED
  BY <1>2, <1>3 DEF BusInv

\* At first nobody is on the bus.
LEMMA BusBegins ==
  ASSUME Bus!Init
  PROVE  BusInv /\ LoopInv
<1>1. LoopInv
  <2>1. \A E : LoopsAt(<<>>, E)
    BY DEF LoopsAt
  <2>2. IsFiniteSet({})
    BY FS_EmptySet
  <2> QED
    BY <2>1, <2>2 DEF Bus!Init, LoopInv
<1>2. bus = [calls |-> <<>>, known |-> <<>>, at |-> 0, waits |-> FALSE, learns |-> FALSE]
  BY DEF Bus!Init
<1>3. BusShape /\ OnBus = {}
  BY <1>2 DEF BusShape, OnBus
<1>4. \A w \in EventWorlds : private[w] = <<>> /\ inbox[w] = <<>> /\ telling[w] = <<>>
  BY DEF Bus!Init
<1>5. OthersJobs
  BY <1>4, EmptyQueue DEF OthersJobs
<1>6. QueueShape
  BY <1>4, EmptyQueue DEF Bus!Init, QueueShape, IsCalls
<1>7. TableShape /\ EntriesNumbered
  BY FS_EmptySet DEF Bus!Init, TableShape, EntriesNumbered, Numbered
<1>8. RemovalsInv
  <2>1. \A w \in EventWorlds : Pending(w) = {} /\ deleted[w] = {}
    BY <1>4, EmptyQueue DEF Pending, Underway, CallJobs, Bus!Init
  <2> QED
    BY <2>1 DEF RemovalsInv
<1>9. KnowledgeInv
  BY <1>3 DEF KnowledgeInv
<1> QED
  BY <1>1, <1>3, <1>5, <1>6, <1>7, <1>8, <1>9 DEF BusInv

\* The schedulers on the bus know of each other's subscriptions when nothing is
\* on its way, whatever came first, the subscription or either registration,
\* unless one of that topic was given back, for any number of schedulers that
\* register, whose servants subscribe, publish, throw and die, and that go away.
THEOREM SubscriptionsBecomeKnown == Bus!Spec => []SubscriptionsKnown
<1>1. Bus!Init => BusInv /\ LoopInv
  BY BusBegins
<1>2. BusInv /\ LoopInv /\ [Bus!Next]_Bus!vars => (BusInv /\ LoopInv)'
  BY BusConstants, BusStep, BusStutters, EventStep, NothingChanges DEF Bus!vars
<1>3. BusInv => SubscriptionsKnown
  <2> SUFFICES ASSUME BusInv, Bus!Quiet, NEW v \in Bus!KnownWorlds,
                      NEW w \in Bus!KnownWorlds \ {v}, NEW e \in subs[v],
                      e.state = "on", Bus!NeverReturned(v, e.topic)
               PROVE  \E r \in remote[w] : r.world = v /\ Bus!SameTopic(r.topic, e.topic)
    BY DEF SubscriptionsKnown, Bus!SubscriptionsKnown
  <2>1. v \in OnBus \ down /\ w \in OnBus \ (down \cup {v})
    BY DEF Bus!KnownWorlds, OnBus
  <2>2. ~WasReturned(v, e.topic)
    BY DEF Bus!NeverReturned, WasReturned
  <2>3. Knows(w, v, e.topic)
    BY <2>1, <2>2 DEF BusInv, KnowledgeInv
  <2>4. ~ToldLater(v)
    BY DEF ToldLater, Bus!Quiet
  <2>5. w \in EventWorlds
    BY <2>1 DEF BusInv, BusShape, OnBus
  <2>6. Pending(w) = {}
    BY <2>5, EmptyQueue DEF Bus!Quiet, Pending, Underway, CallJobs
  <2> QED
    BY <2>3, <2>4, <2>6 DEF Knows
<1> QED
  BY <1>1, <1>2, <1>3, PTL DEF Bus!Spec
=============================================================================
