----------------------------- MODULE LockfreeSize -----------------------------
(***************************************************************************)
(* The size that lockfree_queue, lockfree_stack and lockfree_spsc_queue    *)
(* keep beside the boost::lockfree container, with the policy              *)
(* lockfree_size_max_size: an element is pushed and then counted, popped   *)
(* and then discounted, and the maximum is updated in a loop.              *)
(***************************************************************************)
EXTENDS Naturals, FiniteSets

CONSTANTS
  Pushers,
  Poppers,
  Width,    \* bits of size_t in this instance
  Pushes    \* bound: elements pushed by each pusher

Threads == Pushers \cup Poppers

Mod   == 2 ^ Width
Sizes == 0 .. Mod - 1

VARIABLES
  elements,  \* how many elements the container holds
  size,      \* m_size
  maxSize,   \* m_max_size
  pc,
  old,       \* old of each pusher
  new,       \* std::max(m_size.load(), old)
  left,      \* pushes each pusher still does
  peak,      \* the most elements the container ever held
  reset      \* whether reset_max_size was called

vars == <<elements, size, maxSize, pc, old, new, left, peak, reset>>

Init ==
  /\ elements = 0
  /\ size = 0 /\ maxSize = 0
  /\ pc = [t \in Threads |-> "idle"]
  /\ old = [t \in Pushers |-> 0] /\ new = [t \in Pushers |-> 0]
  /\ left = [t \in Pushers |-> Pushes]
  /\ peak = 0
  /\ reset = FALSE

Goto(t, where) == pc' = [pc EXCEPT ![t] = where]

Larger(a, b) == IF a < b THEN b ELSE a

\* m_queue.push succeeds.
Push(t) ==
  /\ pc[t] = "idle"
  /\ left[t] > 0
  /\ left' = [left EXCEPT ![t] = @ - 1]
  /\ elements' = elements + 1
  /\ peak' = Larger(peak, elements + 1)
  /\ Goto(t, "increase")
  /\ UNCHANGED <<size, maxSize, old, new, reset>>

\* ++m_size
Increase(t) ==
  /\ pc[t] = "increase"
  /\ size' = (size + 1) % Mod
  /\ Goto(t, "load")
  /\ UNCHANGED <<elements, maxSize, old, new, left, peak, reset>>

LoadMax(t) ==
  /\ pc[t] = "load"
  /\ old' = [old EXCEPT ![t] = maxSize]
  /\ Goto(t, "loadSize")
  /\ UNCHANGED <<elements, size, maxSize, new, left, peak, reset>>

LoadSize(t) ==
  /\ pc[t] = "loadSize"
  /\ new' = [new EXCEPT ![t] = Larger(size, old[t])]
  /\ Goto(t, "cas")
  /\ UNCHANGED <<elements, size, maxSize, old, left, peak, reset>>

\* Mutant of Cas: no second try.
CasOnce(t) ==
  /\ pc[t] = "cas"
  /\ maxSize' = IF maxSize = old[t] THEN new[t] ELSE maxSize
  /\ Goto(t, "idle")
  /\ UNCHANGED <<elements, size, old, new, left, peak, reset>>

\* compare_exchange_strong, again and again until it succeeds.
Cas(t) ==
  /\ pc[t] = "cas"
  /\ IF maxSize = old[t]
     THEN maxSize' = new[t] /\ Goto(t, "idle")
     ELSE Goto(t, "load") /\ UNCHANGED maxSize
  /\ UNCHANGED <<elements, size, old, new, left, peak, reset>>

Pop(t) ==
  /\ pc[t] = "idle"
  /\ elements > 0
  /\ elements' = elements - 1
  /\ Goto(t, "decrease")
  /\ UNCHANGED <<size, maxSize, old, new, left, peak, reset>>

\* --m_size
Decrease(t) ==
  /\ pc[t] = "decrease"
  /\ size' = (size + Mod - 1) % Mod
  /\ Goto(t, "idle")
  /\ UNCHANGED <<elements, maxSize, old, new, left, peak, reset>>

\* reset_max_queue_size, called by anybody at any moment.
ResetMaxSize ==
  /\ maxSize' = 0
  /\ reset' = TRUE
  /\ UNCHANGED <<elements, size, pc, old, new, left, peak>>

Pusher(t) == Push(t) \/ Increase(t) \/ LoadMax(t) \/ LoadSize(t) \/ Cas(t)
Popper(t) == Pop(t) \/ Decrease(t)

Terminated ==
  /\ elements = 0
  /\ \A t \in Threads : pc[t] = "idle"
  /\ \A t \in Pushers : left[t] = 0
  /\ UNCHANGED vars

Next ==
  \/ \E t \in Pushers : Pusher(t)
  \/ \E t \in Poppers : Popper(t)
  \/ ResetMaxSize
  \/ Terminated

Spec == Init /\ [][Next]_vars

-----------------------------------------------------------------------------
(* Properties                                                              *)

At(where) == {t \in Threads : pc[t] = where}

\* What the size lags behind: an element is counted after it can be popped and
\* discounted after it has gone, so the difference is the number of threads
\* between the two steps, modulo the width of the counter.
SizeLags ==
  (size + Cardinality(At("increase"))) % Mod
    = (elements + Cardinality(At("decrease"))) % Mod

AtRest == \A t \in Threads : pc[t] = "idle"

\* When no call is in progress the maximum is at least the size, unless it was
\* reset: no pusher loses the race to record its element.
MaxCoversSize == AtRest /\ ~reset => maxSize >= size

\* What the diagnostics show of a queue can be told from what happened to it
\* (lockfree_size_max_size): both of the above.
CountersFollow == SizeLags /\ MaxCoversSize

\* increase(): "actualize the max size this queue ever had, useful for
\* diagnostics".  The recorded maximum was really reached.
MaxWasReached == maxSize <= peak
=============================================================================
