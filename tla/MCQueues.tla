------------------------------ MODULE MCQueues ------------------------------
(***************************************************************************)
(* Instances of the three modules about queues: ThreadsafeList, two        *)
(* producers that push three elements; LockfreeSize, the counters of a     *)
(* queue with the same threads; QueueContainer, four queues of the four    *)
(* other types and a thread of each kind.  They share no state: a          *)
(* behaviour is one of the module that "kind" names.                       *)
(***************************************************************************)
EXTENDS ThreadsafeList, TLC

CONSTANTS
  Kinds,     \* the modules of which there are behaviours
  Width, Pushes,                                                     \* of LockfreeSize
  QueueType, Jobs, Prio, Shutdown, Workers, Thieves, Capacity, NoJob, \* of QueueContainer
  p1, p2, v1, v2, v3, j1, j2, j3

PushThree == [p \in Producers |-> IF p = p1 THEN <<v1, v2>> ELSE <<v3>>]

EveryType == <<"circular_queue", "lockfree_stack", "guarded_deque", "lockfree_spsc_queue">>
HighAnyLast == (j1 :> 1) @@ (j2 :> 0) @@ (j3 :> 9)

VARIABLES
  kind,
  elements, size, maxSize, step, old, new, left, peak, reset,
  cells, used, capacity, enabled, at, late, pushed, taken

Counters == INSTANCE LockfreeSize WITH Pushers <- Producers, Poppers <- Consumers, pc <- step
Container == INSTANCE QueueContainer

counterVars == <<elements, size, maxSize, step, old, new, left, peak, reset>>
containerVars == <<cells, used, capacity, enabled, at, late, pushed, taken>>

MCInit == kind \in Kinds /\ Init /\ Counters!Init /\ Container!Init

MCNext ==
  \/ kind = "list" /\ Next /\ UNCHANGED <<counterVars, containerVars>>
  \/ kind = "counters" /\ Counters!Next /\ UNCHANGED <<vars, containerVars>>
  \/ kind = "container" /\ Container!Next /\ UNCHANGED <<vars, counterVars>>

\* The fairness of ThreadsafeList.
MCFairness ==
  /\ \A p \in Producers : SF_vars(kind = "list" /\ Producer(p))
  /\ \A c \in Consumers : SF_vars(kind = "list" /\ InCall(c))

MCSpec ==
  /\ MCInit
  /\ [][MCNext /\ UNCHANGED kind]_<<kind, vars, counterVars, containerVars>>
  /\ MCFairness

\* The size and the maximum of a lockfree queue follow its contents: see
\* LockfreeSize.
CountersFollow == Counters!CountersFollow

\* What a doc comment of lockfree_size.hpp says: see LockfreeSize.
MaxWasReached == Counters!MaxWasReached

\* The queues of a container keep the order of their jobs, and a thread
\* respects their priorities: see QueueContainer.
QueuesKeepOrder == Container!QueuesKeepOrder
PriorityRespected == Container!PriorityRespected

\* What any_queue_container.hpp says of the termination job: see QueueContainer.
TerminationComesLast == Container!TerminationComesLast
=============================================================================
