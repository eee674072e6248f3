---------------------------- MODULE Notification ----------------------------
(***************************************************************************)
(* Subscriptions and the event bus.  Every thread keeps, in thread-local   *)
(* storage, the subscriptions of the servants that live in it, the         *)
(* schedulers it has been told of, and which of them want which topic.  An *)
(* event goes to the other schedulers first, as a posted job, and then to  *)
(* the subscribers of its own thread, whose handlers may subscribe,        *)
(* unsubscribe and publish.  A notification servant makes the schedulers   *)
(* known to one another.                                                   *)
(*                                                                         *)
(* A world is one thread of a scheduler.  Its scheduler's queue is Fifo    *)
(* and its private queue is looked at between the jobs.  A scheduler of    *)
(* several threads may have been registered so that whoever tells it       *)
(* something waits until its threads have heard it.                        *)
(***************************************************************************)
EXTENDS Naturals, Sequences, SequencesExt, FiniteSetsExt

CONSTANTS
  Worlds,
  Wide,           \* worlds that belong to a scheduler of several threads
  Waited,         \* those that were registered with wait_until_done
  Servants,
  Home,           \* [Servants -> Worlds]
  Once,           \* servants whose handlers return a bool (single-shot)
  Throwing,       \* servants whose handlers may throw
  TopicForm,      \* "no_topic", "exact_topic" or "channel_topic"
  Subscribed,     \* the topics each servant subscribes to: sequences of tokens
  Published,      \* the topics each servant publishes with
  Wildcard, Nil,  \* the token that stands for any one token; the empty token
  MaxTokens,      \* bound: subscriptions of each world
  MaxPublish,     \* bound: published events
  None

BusAssumption ==
  /\ Home \in [Servants -> Worlds]
  /\ Wide \subseteq Worlds /\ Waited \subseteq Wide
  /\ Once \cup Throwing \subseteq Servants
  /\ None \notin Servants
  /\ \A s \in Servants : None \notin Subscribed[s]
  /\ TopicForm \in {"no_topic", "exact_topic", "channel_topic"}

VARIABLES
  subs,       \* m_internal_subscribers, with those that were erased: "off"
  remote,     \* m_scheduler_subscribers
  deleted,    \* m_deleted_scheduler_subscribers
  others,     \* get_other_schedulers_
  inbox,      \* the queue of each world
  private,    \* the private queue of each world
  telling,    \* the calls of m_exec_in_scheduler_fct that each world has still to make
  frames,     \* the calls of publish_internal that are under way, innermost first
  leaked,     \* m_publish_counter was left too high by an exception
  alive,      \* servants that live
  down,       \* worlds whose scheduler can not be locked any more
  events,     \* number of events published
  bus         \* the notification servant

vars ==
  <<subs, remote, deleted, others, inbox, private, telling, frames, leaked, alive, down, events, bus>>

-----------------------------------------------------------------------------
(* Topics                                                                  *)

\* channel_topic::matches: a topic matches itself and everything below it; an
\* empty token of the published topic ends the comparison like its end.
ChannelMatches(own, input) ==
  /\ Len(own) <= Len(input)
  /\ \A i \in 1 .. Len(own) : input[i] # Nil /\ own[i] \in {Wildcard, input[i]}

\* exact_topic::matches
ExactMatches(own, input) == own = input

TopicMatches(own, input) ==
  CASE TopicForm = "channel_topic" -> ChannelMatches(own, input)
    [] TopicForm = "exact_topic"   -> ExactMatches(own, input)
    [] TopicForm = "no_topic"      -> TRUE

SameTopic(t, u) == TopicForm = "no_topic" \/ t = u

-----------------------------------------------------------------------------
(* What one scheduler posts to another                                     *)

\* A wrapped subscriber: which world to post to and the servant it tracks.
Wrapped(e, w) == [world |-> w, topic |-> e.topic, servant |-> e.servant]

AddJob(e, w)    == [kind |-> "add", wrapped |-> Wrapped(e, w)]
RemoveJob(w, t) == [kind |-> "remove", world |-> w, topic |-> t]
EventJob(n, t, s) == [kind |-> "event", event |-> n, topic |-> t, servant |-> s]
OthersJob(ws)   == [kind |-> "others", others |-> ws]

\* The calls of m_exec_in_scheduler_fct that send each of jobs to all of ws.
Calls(ws, jobs) ==
  IF ws = {} THEN <<>> ELSE [i \in 1 .. Len(jobs) |-> [to |-> ws, job |-> jobs[i]]]

\* The calls of q that are left when the first has been made to v.
Remaining(q, v) ==
  IF Head(q).to = {v} THEN Tail(q) ELSE <<[Head(q) EXCEPT !.to = @ \ {v}]>> \o Tail(q)

\* m_exec_in_scheduler_fct of v: nothing for a scheduler that is gone, the
\* private queue of one with several threads, the queue otherwise.
Tell(v, j) ==
  /\ inbox' = IF v \in Wide \cup down THEN inbox ELSE [inbox EXCEPT ![v] = Append(@, j)]
  /\ private' = IF v \in Wide \ down THEN [private EXCEPT ![v] = Append(@, j)] ELSE private

\* The world that sent job j.
Sender(j) ==
  CASE j.kind = "add" -> j.wrapped.world
    [] j.kind = "remove" -> j.world
    [] OTHER -> None

\* The thread of w is in m_exec_in_scheduler_fct of v, which waits for all
\* threads of v; it holds the scheduler of v that it has locked.
WaitsFor(w, v) ==
  v \in Waited /\ \E i \in 1 .. Len(private[v]) : Sender(private[v][i]) = w

Blocked(w) == \E v \in Worlds : WaitsFor(w, v)

\* The thread of w runs the job for which the notification servant waits.
Learning(w) == bus.learns /\ bus.known[bus.at] = w

\* The thread of w is not in the middle of telling others something.
Free(w) == telling[w] = <<>> /\ ~Learning(w) /\ ~Blocked(w)

\* Entries of m_scheduler_subscribers that want topic t.
Wanting(w, t) == {r \in remote[w] : TopicMatches(r.topic, t)}

-----------------------------------------------------------------------------

Top(w) == Head(frames[w])

\* m_publish_counter
Publishing(w) == leaked[w] \/ frames[w] # <<>>

\* Servant s is executing in its world: a job of its own, or its handler.
Acting(s) ==
  LET w == Home[s] IN
  /\ alive[s] /\ Free(w)
  /\ frames[w] # <<>> => Top(w).calling = s

Entry(w, i) == CHOOSE e \in subs[w] : e.token = i

\* The subscriptions the loop of the innermost call has still to visit.
Ahead(w) ==
  {e \in subs[w] : e.state = "on" /\ e.token > Top(w).at /\ TopicMatches(e.topic, Top(w).topic)}

Init ==
  /\ subs = [w \in Worlds |-> {}]
  /\ remote = [w \in Worlds |-> {}]
  /\ deleted = [w \in Worlds |-> {}]
  /\ others = [w \in Worlds |-> {}]
  /\ inbox = [w \in Worlds |-> <<>>]
  /\ private = [w \in Worlds |-> <<>>]
  /\ telling = [w \in Worlds |-> <<>>]
  /\ frames = [w \in Worlds |-> <<>>]
  /\ leaked = [w \in Worlds |-> FALSE]
  /\ alive = [s \in Servants |-> TRUE]
  /\ down = {}
  /\ events = 0
  /\ bus = [calls |-> <<>>, known |-> <<>>, at |-> 0, waits |-> FALSE, learns |-> FALSE]

-----------------------------------------------------------------------------
(* What a servant does                                                     *)

\* trackable_servant::subscribe: the token is the scheduler's, and the other
\* schedulers known at this moment will be told, one after the other.
Subscribe(s, t) ==
  LET w == Home[s]
      e == [token |-> Cardinality(subs[w]) + 1, servant |-> s, topic |-> t,
            state |-> "on", returned |-> FALSE]
  IN
  /\ Acting(s)
  /\ Cardinality(subs[w]) < MaxTokens[w]
  /\ subs' = [subs EXCEPT ![w] = @ \cup {e}]
  /\ telling' = [telling EXCEPT ![w] = Calls(others[w], <<AddJob(e, w)>>)]
  /\ UNCHANGED <<remote, deleted, others, inbox, private, frames, leaked, alive, down, events, bus>>

\* trackable_servant::unsubscribe: the entry is only marked while an event is
\* published; marked entries still count as subscribers of their topic.
Unsubscribe(s, e) ==
  LET w    == Home[s]
      next == IF e.state = "off" THEN "off" ELSE IF Publishing(w) THEN "marked" ELSE "off"
      left == (subs[w] \ {e}) \cup {[e EXCEPT !.state = next, !.returned = TRUE]}
  IN
  /\ Acting(s)
  /\ e \in subs[w] /\ e.servant = s /\ ~e.returned
  /\ subs' = [subs EXCEPT ![w] = left]
  /\ IF \E f \in left : f.state # "off" /\ SameTopic(f.topic, e.topic)
       THEN UNCHANGED telling
       ELSE telling' = [telling EXCEPT ![w] = Calls(others[w], <<RemoveJob(w, e.topic)>>)]
  /\ UNCHANGED <<remote, deleted, others, inbox, private, frames, leaked, alive, down, events, bus>>

\* The thread of w makes the next call, once the call before has ended.
Send(w) ==
  /\ telling[w] # <<>> /\ ~Blocked(w)
  /\ \E v \in Head(telling[w]).to :
       /\ telling' = [telling EXCEPT ![w] = Remaining(@, v)]
       /\ Tell(v, Head(telling[w]).job)
  /\ UNCHANGED <<subs, remote, deleted, others, frames, leaked, alive, down, events, bus>>

\* The wrapped subscribers of other schedulers: each posts, or notes that its
\* scheduler is gone.
InformOthers(w, t, n) ==
  /\ inbox' = [v \in Worlds |->
       IF v \in down THEN inbox[v]
       ELSE inbox[v] \o [i \in 1 .. Cardinality({r \in Wanting(w, t) : r.world = v}) |->
              EventJob(n, t, SetToSeq({r \in Wanting(w, t) : r.world = v})[i].servant)]]
  /\ deleted' = [deleted EXCEPT ![w] =
       @ \cup {[world |-> r.world, topic |-> None] : r \in {q \in Wanting(w, t) : q.world \in down}}]

Frame(t, n, local) == [topic |-> t, event |-> n, at |-> 0, calling |-> None, local |-> local]

\* trackable_servant::publish
Publish(s, t) ==
  LET w == Home[s] IN
  /\ Acting(s)
  /\ events < MaxPublish
  /\ events' = events + 1
  /\ InformOthers(w, t, events + 1)
  /\ frames' = [frames EXCEPT ![w] = <<Frame(t, events + 1, TRUE)>> \o @]
  /\ UNCHANGED <<subs, remote, others, private, telling, leaked, alive, down, bus>>

-----------------------------------------------------------------------------
(* The loop of publish_internal over the subscribers of this thread        *)

Mark(w, e) == subs' = [subs EXCEPT ![w] = (@ \ {e}) \cup {[e EXCEPT !.state = "marked"]}]

\* cleanup_subscriber
Cleaned(w) == {IF e.state = "marked" THEN [e EXCEPT !.state = "off"] ELSE e : e \in subs[w]}

\* A deviating cleanup: by every publish_internal that ends.
CleanupAlways(w, rest) == subs' = [subs EXCEPT ![w] = Cleaned(w)]

\* The outermost publish_internal cleans up: until then, the loops under way
\* hold iterators into the map.
Cleanup(w, rest) ==
  IF leaked[w] \/ rest # <<>> THEN UNCHANGED subs ELSE subs' = [subs EXCEPT ![w] = Cleaned(w)]

\* The loop reaches a subscriber: its servant is called when it lives, and is
\* marked for removal otherwise.
Visit(w) ==
  /\ frames[w] # <<>> /\ Top(w).calling = None /\ Ahead(w) # {} /\ Free(w)
  /\ LET e == CHOOSE e \in Ahead(w) : \A f \in Ahead(w) : e.token <= f.token IN
     /\ frames' = [frames EXCEPT ![w][1].at = e.token,
                                 ![w][1].calling = IF alive[e.servant] THEN e.servant ELSE None]
     /\ IF alive[e.servant] THEN UNCHANGED subs ELSE Mark(w, e)
  /\ UNCHANGED <<remote, deleted, others, inbox, private, telling, leaked, alive, down, events, bus>>

\* The handler returns; one that returns false is marked for removal.
HandlerReturns(w) ==
  /\ frames[w] # <<>> /\ Top(w).calling # None /\ Free(w)
  /\ frames' = [frames EXCEPT ![w][1].calling = None]
  /\ \/ UNCHANGED subs
     \/ /\ Top(w).calling \in Once
        /\ Mark(w, Entry(w, Top(w).at))
  /\ UNCHANGED <<remote, deleted, others, inbox, private, telling, leaked, alive, down, events, bus>>

\* A handler throws through all the calls of publish under way, whose counts
\* stay in m_publish_counter; the job ends in the scheduler's catch.
HandlerThrows(w) ==
  /\ frames[w] # <<>> /\ Top(w).calling \in Throwing /\ Free(w)
  /\ frames' = [frames EXCEPT ![w] = <<>>]
  /\ leaked' = [leaked EXCEPT ![w] = TRUE]
  /\ UNCHANGED <<subs, remote, deleted, others, inbox, private, telling, alive, down, events, bus>>

\* cleanup_deleted_schedulers
Undeleted(w) ==
  {r \in remote[w] :
     ~ \E d \in deleted[w] : d.world = r.world /\ (d.topic = None \/ SameTopic(d.topic, r.topic))}

\* The loop ends; publish, but not publish_internal alone, removes the
\* schedulers that were unsubscribed.
PublishEnds(w) ==
  /\ frames[w] # <<>> /\ Top(w).calling = None /\ Ahead(w) = {} /\ Free(w)
  /\ frames' = [frames EXCEPT ![w] = Tail(@)]
  /\ Cleanup(w, Tail(frames[w]))
  /\ IF Top(w).local
       THEN /\ remote' = [remote EXCEPT ![w] = Undeleted(w)]
            /\ deleted' = [deleted EXCEPT ![w] = {}]
       ELSE UNCHANGED <<remote, deleted>>
  /\ UNCHANGED <<others, inbox, private, telling, leaked, alive, down, events, bus>>

-----------------------------------------------------------------------------
(* The jobs of other schedulers                                            *)

\* subscribe_scheduler: an entry of the same world and topic is replaced.
SubscribeScheduler(w, r) ==
  /\ remote' = [remote EXCEPT ![w] =
       {q \in @ : ~(q.world = r.world /\ SameTopic(q.topic, r.topic))} \cup {r}]
  /\ UNCHANGED <<deleted, frames>>

\* unsubscribe_scheduler
UnsubscribeScheduler(w, v, t) ==
  /\ deleted' = [deleted EXCEPT ![w] = @ \cup {[world |-> v, topic |-> t]}]
  /\ UNCHANGED <<remote, frames>>

\* An event of another scheduler: nothing if the servant it tracks has died.
Receive(w, j) ==
  /\ frames' = IF alive[j.servant]
                 THEN [frames EXCEPT ![w] = <<Frame(j.topic, j.event, FALSE)>>]
                 ELSE frames
  /\ UNCHANGED <<remote, deleted>>

Perform(w, j) ==
  \/ j.kind = "add" /\ SubscribeScheduler(w, j.wrapped)
  \/ j.kind = "remove" /\ UnsubscribeScheduler(w, j.world, j.topic)
  \/ j.kind = "event" /\ Receive(w, j)

\* The thread of w, which has not ended, looks for a job.
Idle(w) == w \notin down /\ frames[w] = <<>> /\ Free(w)

RunJob(w) ==
  /\ Idle(w) /\ inbox[w] # <<>>
  /\ inbox' = [inbox EXCEPT ![w] = Tail(@)]
  /\ Perform(w, Head(inbox[w]))
  /\ UNCHANGED <<subs, others, private, telling, leaked, alive, down, events, bus>>

RunPrivateJob(w) ==
  /\ Idle(w) /\ private[w] # <<>> /\ Head(private[w]).kind # "others"
  /\ private' = [private EXCEPT ![w] = Tail(@)]
  /\ Perform(w, Head(private[w]))
  /\ UNCHANGED <<subs, others, inbox, telling, leaked, alive, down, events, bus>>

\* get_waiting_subscribes, in the order of the tokens
Waiting(w) ==
  LET es      == {e \in subs[w] : e.state # "off"}
      Rank(e) == Cardinality({f \in es : f.token <= e.token})
  IN  [i \in 1 .. Cardinality(es) |-> AddJob(CHOOSE e \in es : Rank(e) = i, w)]

\* A deviating job: the subscriptions made before are not sent.
LearnOthersOnly(w, ws) == others' = [others EXCEPT ![w] = ws] /\ UNCHANGED telling

\* The schedulers known on the bus replace the former ones, and all of them
\* will be sent the subscriptions of this thread.
LearnOthers(w, ws) ==
  /\ others' = [others EXCEPT ![w] = ws]
  /\ telling' = [telling EXCEPT ![w] = Calls(ws, Waiting(w))]

\* The job that the notification servant has posted to the world.
RunOthersJob(w) ==
  /\ Idle(w) /\ private[w] # <<>> /\ Head(private[w]).kind = "others"
  /\ private' = [private EXCEPT ![w] = Tail(@)]
  /\ LearnOthers(w, Head(private[w]).others)
  /\ bus' = [bus EXCEPT !.learns = TRUE]
  /\ UNCHANGED <<subs, remote, deleted, inbox, frames, leaked, alive, down, events>>

-----------------------------------------------------------------------------
(* The notification servant                                                *)

Advanced(b) ==
  [b EXCEPT !.waits = FALSE, !.learns = FALSE, !.at = IF @ = Len(b.known) THEN 0 ELSE @ + 1]

\* A world has told all others, and its job ends: the notification servant,
\* which waits for that, goes on to the next one.
OthersJobEnds(w) ==
  /\ Learning(w) /\ telling[w] = <<>> /\ ~Blocked(w)
  /\ bus' = Advanced(bus)
  /\ UNCHANGED <<subs, remote, deleted, others, inbox, private, telling, frames, leaked, alive,
                 down, events>>

\* register_scheduler_to_notification; each world is registered once.
Register(w) ==
  /\ w \notin down
  /\ \A i \in 1 .. Len(bus.calls) : bus.calls[i] # w
  /\ \A i \in 1 .. Len(bus.known) : bus.known[i] # w
  /\ bus' = [bus EXCEPT !.calls = Append(@, w)]
  /\ UNCHANGED <<subs, remote, deleted, others, inbox, private, telling, frames, leaked, alive,
                 down, events>>

\* notification_servant::add_scheduler starts to notify all it knows.
AddScheduler ==
  /\ bus.at = 0 /\ bus.calls # <<>>
  /\ bus' = [bus EXCEPT !.calls = Tail(@), !.known = Append(@, Head(bus.calls)), !.at = 1]
  /\ UNCHANGED <<subs, remote, deleted, others, inbox, private, telling, frames, leaked, alive,
                 down, events>>

\* A deviating loop: it does not ask whether the scheduler could be locked.
UnnotifiedWhenAlone(w, ws) == ws = {}

\* Nothing to tell, or nobody.
Unnotified(w, ws) == ws = {} \/ w \in down

\* The next scheduler, if it can be locked, is told all others.
Notify ==
  /\ bus.at # 0 /\ ~bus.waits
  /\ LET w  == bus.known[bus.at]
         ws == {bus.known[i] : i \in 1 .. Len(bus.known)} \ {w}
     IN  IF Unnotified(w, ws)
           THEN bus' = Advanced(bus) /\ UNCHANGED private
           ELSE /\ bus' = [bus EXCEPT !.waits = TRUE]
                /\ private' = [private EXCEPT ![w] = Append(@, OthersJob(ws))]
  /\ UNCHANGED <<subs, remote, deleted, others, inbox, telling, frames, leaked, alive, down, events>>

-----------------------------------------------------------------------------
(* The end of servants and of schedulers                                   *)

\* A job destroys the servant.
Die(s) ==
  /\ alive[s] /\ frames[Home[s]] = <<>> /\ Free(Home[s])
  /\ alive' = [alive EXCEPT ![s] = FALSE]
  /\ UNCHANGED <<subs, remote, deleted, others, inbox, private, telling, frames, leaked, down, events,
                 bus>>

\* The last shared proxy of a scheduler goes, after the proxies of its servants;
\* those who wait for it hold one.  The jobs left in the queues are executed
\* and have no effect that another world can see.
Stop(w) ==
  /\ Idle(w)
  /\ \A s \in Servants : Home[s] = w => ~alive[s]
  /\ ~(bus.waits /\ bus.known[bus.at] = w)
  /\ \A v \in Worlds : ~WaitsFor(v, w)
  /\ down' = down \cup {w}
  /\ inbox' = [inbox EXCEPT ![w] = <<>>]
  /\ private' = [private EXCEPT ![w] = <<>>]
  /\ UNCHANGED <<subs, remote, deleted, others, telling, frames, leaked, alive, events, bus>>

-----------------------------------------------------------------------------

ServantStep ==
  \E s \in Servants :
    \/ \E t \in Subscribed[s] : Subscribe(s, t)
    \/ \E e \in subs[Home[s]] : Unsubscribe(s, e)
    \/ \E t \in Published[s] : Publish(s, t)
    \/ Die(s)

Loop(w) == Visit(w) \/ HandlerReturns(w) \/ HandlerThrows(w) \/ PublishEnds(w)

WorldStep ==
  \E w \in Worlds :
    \/ Loop(w)
    \/ RunJob(w)
    \/ RunPrivateJob(w)
    \/ RunOthersJob(w)
    \/ OthersJobEnds(w)
    \/ Send(w)
    \/ Register(w)
    \/ Stop(w)

Next == ServantStep \/ WorldStep \/ AddScheduler \/ Notify

\* A thread ends the handlers it runs, tells what it has to tell, and takes what
\* is in its queues, looking at both; the notification servant has a thread of its own.
Fairness ==
  /\ \A w \in Worlds :
       /\ WF_vars(Loop(w))
       /\ WF_vars(Send(w) \/ OthersJobEnds(w))
       /\ WF_vars(RunJob(w))
       /\ WF_vars(RunPrivateJob(w) \/ RunOthersJob(w))
  /\ WF_vars(AddScheduler \/ Notify)

Spec == Init /\ [][Next]_vars
FairSpec == Spec /\ Fairness

-----------------------------------------------------------------------------
(* Properties                                                              *)

KnownWorlds == {bus.known[i] : i \in 1 .. Len(bus.known)} \ down

\* Nobody in world w has given back a subscription to topic t.
NeverReturned(w, t) == \A e \in subs[w] : e.returned => ~SameTopic(e.topic, t)

Quiet ==
  /\ bus.calls = <<>> /\ bus.at = 0
  /\ \A w \in Worlds : frames[w] = <<>> /\ inbox[w] = <<>> /\ private[w] = <<>> /\ telling[w] = <<>>

\* When nothing is on its way, registered schedulers know of each other's
\* subscriptions, whichever came first, the subscription or either of the
\* registrations, unless one of that topic was given back
\* (register_scheduler_to_notification and subscription::subscribe).
SubscriptionsKnown ==
  Quiet =>
    \A v \in KnownWorlds : \A w \in KnownWorlds \ {v} : \A e \in subs[v] :
      e.state = "on" /\ NeverReturned(v, e.topic) =>
        \E r \in remote[w] : r.world = v /\ SameTopic(r.topic, e.topic)

\* No entry is erased from the subscribers of a thread while a loop of
\* publish_internal is at one of them, however handlers publish, subscribe and
\* unsubscribe (m_publish_counter).
LoopsKeepTheirEntries ==
  [][\A w \in Worlds : frames[w] # <<>> /\ frames'[w] # <<>> =>
       \A e \in subs[w] : e.state # "off" =>
         \E f \in subs'[w] : f.token = e.token /\ f.state # "off"]_vars

\* Every registration ends, also when a scheduler goes away before or while it
\* is told of the new one (notification_servant::add_scheduler waits for each).
RegistrationEnds == bus.calls # <<>> ~> (bus.calls = <<>> /\ bus.at = 0)

-----------------------------------------------------------------------------
(* What the comments say and the code does not keep                        *)

\* An event reaches another scheduler once.
PostedOnce ==
  \A w \in Worlds : \A i, j \in 1 .. Len(inbox[w]) :
    inbox[w][i].kind = "event" /\ inbox[w][j].kind = "event" /\ i # j =>
      inbox[w][i].event # inbox[w][j].event

\* A subscription made after another one was given back is known like any other.
StillKnown ==
  Quiet =>
    \A v \in KnownWorlds : \A w \in KnownWorlds \ {v} : \A e \in subs[v] :
      e.state = "on" =>
        \/ \E r \in remote[w] : r.world = v /\ SameTopic(r.topic, e.topic)
        \/ \E d \in deleted[w] : d.world = v

\* The servant on which the delivery to a world depends is alive when another
\* subscriber of the topic is.
TracksALivingServant ==
  Quiet =>
    \A v \in KnownWorlds : \A w \in KnownWorlds \ {v} : \A e \in subs[v] :
      e.state = "on" /\ alive[e.servant] /\ NeverReturned(v, e.topic) =>
        \E r \in remote[w] : r.world = v /\ alive[r.servant]

\* Marked entries are removed by the end of the outermost publish.
MarksAreRemoved ==
  \A w \in Worlds : frames[w] = <<>> => \A e \in subs[w] : e.state # "marked"
=============================================================================
