------------------------ MODULE MCCallbackContinuation ------------------------
(***************************************************************************)
(* Instances of CallbackContinuation: three subtasks in every form, two    *)
(* subtasks around a nested continuation of three, a vector of two nested  *)
(* continuations; and of ParallelPartition, whose tasks fork by such       *)
(* continuations of two subtasks and go on when both results are there.    *)
(* They share no state: a behaviour is one of the module that "kind"       *)
(* names.                                                                  *)
(***************************************************************************)
EXTENDS CallbackContinuation

CONSTANTS
  Families,  \* the modules of which there are behaviours
  root, inner, other, t1, t2, t3, t4, t5,
  Size, BlockSize, OpenThreads, MinParallel, IntBits, Elements     \* of ParallelPartition

Case(args, form, state, timed, doneThrows) ==
  [args |-> args, form |-> form, state |-> state, timed |-> timed, doneThrows |-> doneThrows]

Arguments(ofRoot, ofInner, ofOther) ==
  [k \in Conts |-> CASE k = root -> ofRoot [] k = inner -> ofInner [] k = other -> ofOther]

FormOf(ofRoot, nested) == [k \in Conts |-> IF k = root THEN ofRoot ELSE nested]

Flat == Arguments(<<t1, t3, t2>>, <<>>, <<>>)
Tree == Arguments(<<t1, inner, t2>>, <<t3, t5, t4>>, <<>>)
Many == Arguments(<<inner, other>>, <<t1, t3>>, <<t4, t2>>)

FlatCases(states, timeouts) ==
  {Case(Flat, FormOf(f, "arguments"), s, d, x) :
     f \in {"arguments", "tuple", "vector"}, s \in states, d \in timeouts, x \in BOOLEAN}

NestedCases(states) ==
  {Case(Tree, FormOf("arguments", f), s, FALSE, x) : f \in {"arguments", "all"}, s \in states, x \in BOOLEAN}
   \cup {Case(Many, FormOf("vector", f), s, FALSE, x) : f \in {"arguments", "all"}, s \in states, x \in BOOLEAN}

AllCases == FlatCases(BOOLEAN, BOOLEAN) \cup NestedCases(BOOLEAN)

OneFlat == {Case(Flat, FormOf("arguments", "arguments"), FALSE, FALSE, FALSE)}

TimedFlat == {Case(Flat, FormOf(f, "arguments"), FALSE, TRUE, FALSE) : f \in {"arguments", "vector"}}

VARIABLES
  kind,
  data, openThreads, size, lmove, rmove, rtrue, task, answer

partVars == <<data, openThreads, size, lmove, rmove, rtrue, task, answer>>

Part == INSTANCE ParallelPartition WITH Threads <- OpenThreads

ASSUME PartitionAssumption == Part!PartitionAssumption

-----------------------------------------------------------------------------
MCInit == kind \in Families /\ Init /\ Part!Init

MCNext ==
  \/ kind = "continuation" /\ Next /\ UNCHANGED partVars
  \/ kind = "partition" /\ Part!Next /\ UNCHANGED vars

\* The fairness of both modules.
MCFairness ==
  /\ \A t \in Threads : WF_vars(kind = "continuation" /\ Step(t))
  /\ \A a \in Tasks \cup Conts : WF_vars(kind = "continuation" /\ (StartTask(a) \/ DropTask(a)))
  /\ WF_partVars(kind = "partition" /\ (Part!Answer \/ Part!AnswerFails))
  /\ \A t \in Part!Paths : WF_partVars(kind = "partition" /\ Part!Step(t))

MCSpec ==
  /\ MCInit
  /\ [][MCNext /\ UNCHANGED kind]_<<kind, vars, partVars>>
  /\ MCFairness

\* No element is in the hands of two tasks of parallel_partition, and its answer
\* is the place between the elements for which the relation holds and the
\* others: see ParallelPartition.
PartitionCorrect == Part!PartitionCorrect

\* Unless the relation throws parallel_partition answers: see ParallelPartition.
PartitionAnswers == Part!PartitionAnswers
=============================================================================
