----------------------------- MODULE MCServants -----------------------------
(***************************************************************************)
(* Instances of Servants, two calls, whose tasks are posted in different   *)
(* ways, so that every way meets every kind of answer of the other; and of *)
(* Notification, two worlds, one of them of a threadpool, with a servant   *)
(* each, where the servant of the first world subscribes twice and         *)
(* publishes, from its handlers too.  They share no state: a behaviour is  *)
(* one of the module that "kind" names.                                    *)
(***************************************************************************)
EXTENDS Servants, TLC

CONSTANTS
  Families,  \* the modules of which there are behaviours
  t1, t2,
  EventWorlds, Wide, Waited, Subscribers, Home, Once, Throwers, TopicForm, Subscribed, Published,
  Wildcard, Nil, MaxTokens, MaxPublish,      \* of Notification
  w1, w2, s1, s2

AllWays ==
  [t \in Tasks |->
     IF t = t1
     THEN {"post_callback", "future_continuation", "call_callback", "remote_future",
           "unsafe_callback", "direct_callback"}
     ELSE {"callback_continuation", "post_future", "post_self", "safe_callback",
           "callback_member", "future_member", "remote_callback"}]

LowWays == [t \in Tasks |-> {"call_callback", "callback_member", "unsafe_callback"}]

PoolWays == [t \in Tasks |-> {"post_callback", "callback_continuation"}]

\* Worlds, topics and publishers of the event bus.
OneEach == (s1 :> w1) @@ (s2 :> w2)
Together == (s1 :> w1) @@ (s2 :> w1)
AnyToken == (s1 :> {<<"*">>}) @@ (s2 :> {<<"a">>})
Overlapping == (s1 :> {<<"*">>, <<"a">>}) @@ (s2 :> {<<"a">>})
FirstPublishes == (s1 :> {<<"a">>}) @@ (s2 :> {})
SecondPublishes == (s1 :> {}) @@ (s2 :> {<<"a">>})
TwoAndOne == (w1 :> 2) @@ (w2 :> 1)

VARIABLES
  kind,
  subs, remote, deleted, others, inbox, private, telling, frames, leaked, alive, down, events, bus

busVars ==
  <<subs, remote, deleted, others, inbox, private, telling, frames, leaked, alive, down, events, bus>>

Bus == INSTANCE Notification WITH
  Worlds <- EventWorlds, Servants <- Subscribers, Throwing <- Throwers

ASSUME BusAssumption == Bus!BusAssumption

-----------------------------------------------------------------------------
MCInit == kind \in Families /\ Init /\ Bus!Init

MCNext ==
  \/ kind = "servants" /\ Next /\ UNCHANGED busVars
  \/ kind = "bus" /\ Bus!Next /\ UNCHANGED vars

\* The fairness of both modules.
MCFairness ==
  /\ \A c \in Clients : WF_vars(kind = "servants" /\ (Created(c) \/ Unwind(c) \/ Release(c)))
  /\ \A w \in Worlds : WF_vars(kind = "servants" /\ WorldStep(w))
  /\ WF_vars(kind = "servants" /\ Destructor)
  /\ \A t \in Tasks : WF_vars(kind = "servants" /\ TaskStep(t))
  /\ \A w \in EventWorlds :
       /\ WF_busVars(kind = "bus" /\ Bus!Loop(w))
       /\ WF_busVars(kind = "bus" /\ (Bus!Send(w) \/ Bus!OthersJobEnds(w)))
       /\ WF_busVars(kind = "bus" /\ Bus!RunJob(w))
       /\ WF_busVars(kind = "bus" /\ (Bus!RunPrivateJob(w) \/ Bus!RunOthersJob(w)))
  /\ WF_busVars(kind = "bus" /\ (Bus!AddScheduler \/ Bus!Notify))

MCSpec ==
  /\ MCInit
  /\ [][MCNext /\ UNCHANGED kind]_<<kind, vars, busVars>>
  /\ MCFairness

\* Registered schedulers know of each other's subscriptions, no entry is erased
\* while a loop is at one, and every registration ends: see Notification.
SubscriptionsKnown == Bus!SubscriptionsKnown
LoopsKeepTheirEntries == Bus!LoopsKeepTheirEntries
RegistrationEnds == Bus!RegistrationEnds

\* What the comments say and the code does not keep: see Notification.
PostedOnce == Bus!PostedOnce
StillKnown == Bus!StillKnown
TracksALivingServant == Bus!TracksALivingServant
MarksAreRemoved == Bus!MarksAreRemoved
=============================================================================
