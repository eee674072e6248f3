---------------------------- MODULE QueueContainer ----------------------------
(***************************************************************************)
(* any_queue_container: the queue of a scheduler made of several queues,   *)
(* one per priority, each of its own type.  A worker that wants a job      *)
(* tries them one after the other while others push, take and disable      *)
(* queues.                                                                 *)
(*                                                                         *)
(* A call of one of these queues is one step: guarded_deque and            *)
(* circular_queue hold their mutex, the others leave it to boost::lockfree *)
(* (LockfreeSize is about the counters they keep beside it, ThreadsafeList *)
(* about the list with two mutexes).                                       *)
(***************************************************************************)
EXTENDS Naturals, Sequences, SequencesExt

CONSTANTS
  QueueType,   \* a sequence of types: the queues, highest priority first
  Jobs,
  Prio,        \* [Jobs -> Nat], 0: any queue; above all: a termination job
  Shutdown,    \* the priority of termination jobs, the largest size_t
  Workers,     \* threads that call pop and try_pop
  Thieves,     \* threads that call try_steal
  Capacity,    \* of a new circular_queue, 100 in the code
  NoJob

VARIABLES
  cells,       \* what each queue holds, its front first
  used,        \* m_size of a circular_queue
  capacity,    \* of its buffer
  enabled,     \* the second member of each entry of m_queues
  at,          \* the queue a thread is to try, 0 when it is not looking for a job
  late,        \* jobs that came after the thread had tried their queue
  pushed,      \* the jobs pushed to each queue, in order
  taken        \* the jobs taken from it, in order

vars == <<cells, used, capacity, enabled, at, late, pushed, taken>>

Queues == DOMAIN QueueType
Threads == Workers \cup Thieves
Lowest == Len(QueueType)

Init ==
  /\ cells = [q \in Queues |-> <<>>]
  /\ used = [q \in Queues |-> 0]
  /\ capacity = [q \in Queues |-> Capacity]
  /\ enabled = Queues
  /\ at = [t \in Threads |-> 0]
  /\ late = [t \in Threads |-> {}]
  /\ pushed = [q \in Queues |-> <<>>]
  /\ taken = [q \in Queues |-> <<>>]

\* Where push puts a job: the termination job last of all, a job without
\* priority anywhere, another one where it asks, limited at the lowest.
Positions(prio) ==
  IF prio = Shutdown THEN {Lowest} ELSE IF prio = 0 THEN Queues ELSE {IF prio < Lowest THEN prio ELSE Lowest}

-----------------------------------------------------------------------------
(* The queues                                                              *)

\* guarded_deque pushes at the front and takes from the back.
PushDeque(q, j) ==
  /\ cells' = [cells EXCEPT ![q] = <<j>> \o @]
  /\ UNCHANGED <<used, capacity>>

TakeDeque(q) ==
  /\ cells' = [cells EXCEPT ![q] = Front(@)]
  /\ UNCHANGED <<used, capacity>>

DequeJobs(q) == Reverse(cells[q])

Grown(c) == c + c \div 2 + 1

\* Mutant of PushCircular: a full buffer is not enlarged.
PushCircularOver(q, j) ==
  LET room == IF capacity[q] = 0 THEN 1 ELSE capacity[q]
  IN  /\ cells' = [cells EXCEPT ![q] = <<j>> \o (IF Len(@) = room THEN Front(@) ELSE @)]
      /\ used' = [used EXCEPT ![q] = IF @ = room THEN @ ELSE @ + 1]
      /\ capacity' = [capacity EXCEPT ![q] = room]

\* circular_queue: push_front onto a full buffer drops its last element, which
\* is one that was taken already, for a buffer full of jobs is enlarged.
PushCircular(q, j) ==
  LET room == IF used[q] = capacity[q] THEN Grown(capacity[q]) ELSE capacity[q]
  IN  /\ cells' = [cells EXCEPT ![q] = <<j>> \o (IF Len(@) = room THEN Front(@) ELSE @)]
      /\ used' = [used EXCEPT ![q] = @ + 1]
      /\ capacity' = [capacity EXCEPT ![q] = room]

TakeCircular(q) ==
  /\ cells' = [cells EXCEPT ![q][used[q]] = NoJob]
  /\ used' = [used EXCEPT ![q] = @ - 1]
  /\ UNCHANGED capacity

CircularJobs(q) == Reverse(SubSeq(cells[q], 1, used[q]))

\* lockfree_stack
PushStack(q, j) ==
  /\ cells' = [cells EXCEPT ![q] = <<j>> \o @]
  /\ UNCHANGED <<used, capacity>>

TakeStack(q) ==
  /\ cells' = [cells EXCEPT ![q] = Tail(@)]
  /\ UNCHANGED <<used, capacity>>

\* lockfree_spsc_queue
PushSpsc(q, j) ==
  /\ cells' = [cells EXCEPT ![q] = Append(@, j)]
  /\ UNCHANGED <<used, capacity>>

TakeSpsc(q) ==
  /\ cells' = [cells EXCEPT ![q] = Tail(@)]
  /\ UNCHANGED <<used, capacity>>

\* The jobs a queue holds, the one it gives next first.
JobsIn(q) ==
  CASE QueueType[q] = "guarded_deque"  -> DequeJobs(q)
    [] QueueType[q] = "circular_queue" -> CircularJobs(q)
    [] OTHER                           -> cells[q]

PushTo(q, j) ==
  CASE QueueType[q] = "guarded_deque"       -> PushDeque(q, j)
    [] QueueType[q] = "circular_queue"      -> PushCircular(q, j)
    [] QueueType[q] = "lockfree_stack"      -> PushStack(q, j)
    [] QueueType[q] = "lockfree_spsc_queue" -> PushSpsc(q, j)

TakeFrom(q) ==
  CASE QueueType[q] = "guarded_deque"       -> TakeDeque(q)
    [] QueueType[q] = "circular_queue"      -> TakeCircular(q)
    [] QueueType[q] = "lockfree_stack"      -> TakeStack(q)
    [] QueueType[q] = "lockfree_spsc_queue" -> TakeSpsc(q)

\* A lockfree_spsc_queue has one consumer and no try_steal.
MayTake(t, q) == ~(t \in Thieves /\ QueueType[q] = "lockfree_spsc_queue")

-----------------------------------------------------------------------------
(* The container                                                           *)

\* push; each job of the instance is pushed once.
Push(j) ==
  /\ \A q \in Queues : j \notin ToSet(pushed[q])
  /\ \E q \in Positions(Prio[j]) :
       /\ PushTo(q, j)
       /\ pushed' = [pushed EXCEPT ![q] = Append(@, j)]
       /\ late' = [t \in Threads |-> IF q < at[t] THEN late[t] \cup {j} ELSE late[t]]
  /\ UNCHANGED <<enabled, at, taken>>

\* enable_queue: at() throws for a priority that is none.
EnableQueue(q, on) ==
  /\ enabled' = IF on THEN enabled \cup {q} ELSE enabled \ {q}
  /\ late' = [t \in Threads |-> IF on /\ q < at[t] THEN late[t] \cup ToSet(JobsIn(q)) ELSE late[t]]
  /\ UNCHANGED <<cells, used, capacity, at, pushed, taken>>

\* Mutant of FirstTried: the lowest priority first.
FirstTriedFromLast == Lowest

\* "in order index 0 -> max to respect our priority"
FirstTried == 1
NextTried(q) == IF q = Lowest THEN 0 ELSE q + 1

Call(t) ==
  /\ at[t] = 0
  /\ at' = [at EXCEPT ![t] = FirstTried]
  /\ late' = [late EXCEPT ![t] = {}]
  /\ UNCHANGED <<cells, used, capacity, enabled, pushed, taken>>

Finds(t) == at[t] # 0 /\ at[t] \in enabled /\ MayTake(t, at[t]) /\ JobsIn(at[t]) # <<>>

Take(t) ==
  /\ Finds(t)
  /\ TakeFrom(at[t])
  /\ taken' = [taken EXCEPT ![at[t]] = Append(@, Head(JobsIn(at[t])))]
  /\ at' = [at EXCEPT ![t] = 0]
  /\ UNCHANGED <<enabled, late, pushed>>

GoOn(t) ==
  /\ at[t] # 0 /\ ~Finds(t)
  /\ at' = [at EXCEPT ![t] = NextTried(@)]
  /\ UNCHANGED <<cells, used, capacity, enabled, late, pushed, taken>>

Next ==
  \/ \E j \in Jobs : Push(j)
  \/ \E q \in Queues, on \in BOOLEAN : EnableQueue(q, on)
  \/ \E t \in Threads : Call(t) \/ Take(t) \/ GoOn(t)

Spec == Init /\ [][Next]_vars

-----------------------------------------------------------------------------
(* Properties                                                              *)

\* Each queue gives its jobs once each and in the order in which they were
\* pushed to it, through any number of turns and growths of the circular
\* buffer; a stack gives each of them once.
QueuesKeepOrder ==
  \A q \in Queues :
    IF QueueType[q] = "lockfree_stack"
      THEN /\ ToSet(pushed[q]) = ToSet(taken[q]) \cup ToSet(cells[q])
           /\ Len(pushed[q]) = Len(taken[q]) + Len(cells[q])
      ELSE pushed[q] = taken[q] \o JobsIn(q)

\* A thread takes a job only if every job of higher priority that it could have
\* had came, or was enabled, after it had looked there.
PriorityRespected ==
  [][\A t \in Threads : at[t] # 0 /\ at'[t] = 0 /\ taken' # taken =>
       \A q \in enabled : q < at[t] /\ MayTake(t, q) => ToSet(JobsIn(q)) \subseteq late[t]]_vars

\* The termination job "HAS to be the lowest prio job": nothing is left in the
\* queues when it is taken.
TerminationComesLast ==
  [][\A j \in Jobs : Prio[j] = Shutdown /\ taken' # taken /\ taken'[Lowest] # taken[Lowest]
        /\ j = taken'[Lowest][Len(taken'[Lowest])] =>
       \A q \in enabled : JobsIn(q) \in {<<>>, <<j>>}]_vars
=============================================================================
