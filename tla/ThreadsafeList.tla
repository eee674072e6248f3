---------------------------- MODULE ThreadsafeList ----------------------------
(***************************************************************************)
(* threadsafe_list: a linked list with a mutex at each end and a condition *)
(* variable for pop().  The nodes are numbered in the order in which they  *)
(* are linked, so that m_head and m_tail are numbers and the last node is  *)
(* the dummy; a node that was popped is not used again.                    *)
(***************************************************************************)
EXTENDS Naturals, Sequences

CONSTANTS
  Producers,
  Consumers,
  Values,
  ToPush,    \* [Producers -> Seq(Values)]: bound on what is pushed
  Blocking,  \* consumers that call pop(), the others call try_pop or try_steal
  MaxNodes,  \* bound: nodes that are ever allocated
  None

Threads == Producers \cup Consumers

ASSUME ThreadsAssumption ==
  /\ Producers \cap Consumers = {}
  /\ ToPush \in [Producers -> Seq(Values)]
  /\ Blocking \subseteq Consumers
  /\ MaxNodes \in Nat
  /\ None \notin Threads \cup Values

Nodes == 0 .. MaxNodes

VARIABLES
  head, tail,          \* m_head, m_tail
  data,                \* [Nodes -> the element of the node]
  headLock, tailLock,  \* owners of m_head_mutex and m_tail_mutex
  waiters,             \* consumers blocked on m_data_cond
  pc,
  rest,                \* what each producer still has to push
  popped               \* the elements in the order in which they were taken

vars == <<head, tail, data, headLock, tailLock, waiters, pc, rest, popped>>

Init ==
  /\ head = 0 /\ tail = 0
  /\ data = [n \in Nodes |-> None]
  /\ headLock = None /\ tailLock = None
  /\ waiters = {}
  /\ pc = [t \in Threads |-> "idle"]
  /\ rest = ToPush
  /\ popped = <<>>

Goto(t, where) == pc' = [pc EXCEPT ![t] = where]

-----------------------------------------------------------------------------
(* push                                                                    *)

LockTail(p) ==
  /\ pc[p] = "idle"
  /\ rest[p] # <<>>
  /\ tail < MaxNodes
  /\ tailLock = None
  /\ tailLock' = p
  /\ Goto(p, "write")
  /\ UNCHANGED <<head, tail, data, headLock, waiters, rest, popped>>

\* m_tail->data = j
Write(p) ==
  /\ pc[p] = "write"
  /\ data' = [data EXCEPT ![tail] = Head(rest[p])]
  /\ rest' = [rest EXCEPT ![p] = Tail(@)]
  /\ Goto(p, "link")
  /\ UNCHANGED <<head, tail, headLock, tailLock, waiters, popped>>

\* The new dummy is linked, m_tail moves and the lock_guard is destroyed.
Link(p) ==
  /\ pc[p] = "link"
  /\ tail' = tail + 1
  /\ tailLock' = None
  /\ Goto(p, "notify")
  /\ UNCHANGED <<head, data, headLock, waiters, rest, popped>>

\* m_data_cond.notify_one() wakes one of the threads that wait at this moment.
Notify(p) ==
  /\ pc[p] = "notify"
  /\ \/ /\ waiters = {}
        /\ Goto(p, "idle")
        /\ UNCHANGED waiters
     \/ \E c \in waiters : /\ waiters' = waiters \ {c}
                           /\ pc' = [pc EXCEPT ![p] = "idle", ![c] = "lock"]
  /\ UNCHANGED <<head, tail, data, headLock, tailLock, rest, popped>>

Producer(p) == LockTail(p) \/ Write(p) \/ Link(p) \/ Notify(p)

-----------------------------------------------------------------------------
(* pop, try_pop, try_steal                                                 *)

Call(c) ==
  /\ pc[c] = "idle"
  /\ Goto(c, "lock")
  /\ UNCHANGED <<head, tail, data, headLock, tailLock, waiters, rest, popped>>

LockHead(c) ==
  /\ pc[c] = "lock"
  /\ headLock = None
  /\ headLock' = c
  /\ Goto(c, "test")
  /\ UNCHANGED <<head, tail, data, tailLock, waiters, rest, popped>>

\* Mutant of TestEmpty: try_pop tries again, as pop does.
TestEmptyTriesAgain(c) ==
  /\ pc[c] = "test"
  /\ tailLock = None
  /\ head = tail
  /\ IF c \in Blocking
     THEN Goto(c, "sleep") /\ UNCHANGED headLock
     ELSE Goto(c, "lock") /\ headLock' = None
  /\ UNCHANGED <<head, tail, data, tailLock, waiters, rest, popped>>

\* m_head.get() == get_tail(): try_pop gives up, pop() is going to wait.
TestEmpty(c) ==
  /\ pc[c] = "test"
  /\ tailLock = None
  /\ head = tail
  /\ IF c \in Blocking
     THEN Goto(c, "sleep") /\ UNCHANGED headLock
     ELSE Goto(c, "idle") /\ headLock' = None
  /\ UNCHANGED <<head, tail, data, tailLock, waiters, rest, popped>>

TestFull(c) ==
  /\ pc[c] = "test"
  /\ tailLock = None
  /\ head # tail
  /\ Goto(c, "take")
  /\ UNCHANGED <<head, tail, data, headLock, tailLock, waiters, rest, popped>>

\* The condition variable releases m_head_mutex and blocks the thread.
Sleep(c) ==
  /\ pc[c] = "sleep"
  /\ headLock' = None
  /\ waiters' = waiters \cup {c}
  /\ Goto(c, "wait")
  /\ UNCHANGED <<head, tail, data, tailLock, rest, popped>>

SpuriousWakeup(c) ==
  /\ c \in waiters
  /\ waiters' = waiters \ {c}
  /\ Goto(c, "lock")
  /\ UNCHANGED <<head, tail, data, headLock, tailLock, rest, popped>>

\* Mutant of Take: m_head does not move.
TakeWithoutPop(c) ==
  /\ pc[c] = "take"
  /\ popped' = Append(popped, data[head])
  /\ headLock' = None
  /\ Goto(c, "idle")
  /\ UNCHANGED <<head, tail, data, tailLock, waiters, rest>>

\* The element is moved out and pop_head() makes the next node the head.
Take(c) ==
  /\ pc[c] = "take"
  /\ popped' = Append(popped, data[head])
  /\ head' = head + 1
  /\ headLock' = None
  /\ Goto(c, "idle")
  /\ UNCHANGED <<tail, data, tailLock, waiters, rest>>

\* A call that has begun; whether and when a thread calls is up to its owner.
InCall(c) == LockHead(c) \/ TestEmpty(c) \/ TestFull(c) \/ Sleep(c) \/ Take(c)

Consumer(c) == Call(c) \/ InCall(c) \/ SpuriousWakeup(c)

Next ==
  \/ \E p \in Producers : Producer(p)
  \/ \E c \in Consumers : Consumer(c)

\* Threads run and a mutex that is free over and over is obtained.  Wakeups
\* without a notification may happen but are not promised.
Fairness ==
  /\ \A p \in Producers : SF_vars(Producer(p))
  /\ \A c \in Consumers : SF_vars(InCall(c))

Spec     == Init /\ [][Next]_vars
FairSpec == Spec /\ Fairness

-----------------------------------------------------------------------------
(* Properties                                                              *)

\* The list is a FIFO, though the two ends are locked apart: an element enters
\* when m_tail moves and leaves when m_head moves.
Queue == INSTANCE Fifo WITH
  content <- [i \in 1 .. tail - head |-> data[head + i - 1]]

ImplementsFifo == Queue!Spec

\* A call of try_pop returns whatever the other threads do.
TryPopReturns == \A c \in Consumers \ Blocking : pc[c] = "lock" ~> pc[c] = "idle"

\* pop() waits with the predicate that the list is not empty: a thread that
\* waits while there is an element is woken, or another one takes the element.
PopWakes == \A c \in Blocking : pc[c] = "wait" /\ head # tail
                                  ~> pc[c] # "wait" \/ head = tail
=============================================================================
