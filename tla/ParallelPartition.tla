-------------------------- MODULE ParallelPartition --------------------------
(***************************************************************************)
(* parallel_partition: tasks take blocks from both ends of one range with  *)
(* atomic counters, exchange the elements that are on the wrong side in    *)
(* the blocks they hold, and hand the blocks they could not finish to the  *)
(* continuation that forked them; the last one puts the rest right.        *)
(*                                                                         *)
(* A task is named by its path from the first one.  Every task may run in  *)
(* a thread of its own.  Positions count from 0; "yes" is an element for   *)
(* which the relation holds, asking it about "bad" throws.                 *)
(***************************************************************************)
EXTENDS Integers, Sequences, FiniteSets, SequencesExt

CONSTANTS
    Size,                     \* of the range
    BlockSize,                \* m_BS, a thousandth of the range, at least 1000
    Threads,                  \* thread_num
    MinParallel,              \* below this size (10000) one thread is opened
    IntBits,                  \* the width of the int that holds a block's size
    Elements                  \* of {"yes", "no", "bad"}

PartitionAssumption ==
    /\ Size \in Nat \ {0} /\ BlockSize \in Nat \ {0}
    /\ Threads \in Nat /\ MinParallel \in Nat /\ IntBits \in Nat \ {0}
    /\ Elements \subseteq {"yes", "no", "bad"}

VARIABLES
    data,                     \* the range
    openThreads, size, lmove, rmove, rtrue,     \* the atomics of shared_data
    task,                     \* what each task holds
    answer                    \* of the algorithm: a position, NoAnswer or Exception

vars == <<data, openThreads, size, lmove, rmove, rtrue, task, answer>>
counters == <<openThreads, size, lmove, rmove, rtrue>>

NoAnswer == -1
Exception == -2

Opened == IF Size < MinParallel \/ Threads < 1 \/ Threads > Size THEN 1 ELSE Threads

\* Every fork takes one of the opened threads.
Paths == UNION {[1 .. n -> {1, 2}] : n \in 0 .. Opened}
First == <<>>
Children(t) == {Append(t, 1), Append(t, 2)}

Range0 == 0 .. Size - 1
Least0(a, b) == IF a <= b THEN a ELSE b

\* Conversion to int.
ToInt(n) == ((n + 2 ^ (IntBits - 1)) % 2 ^ IntBits) - 2 ^ (IntBits - 1)

\* A task holds the block [lbs, lbe) of the left and the block (rbe, rbs] of
\* the right side; left and right are the lists of unfinished blocks [b, e).
Idle == [pc |-> "idle", lbs |-> Size, lbe |-> Size, rbs |-> Size, rbe |-> Size,
         mysize |-> 0, trues |-> 0, left |-> <<>>, right |-> <<>>]

Init ==
    /\ data \in [Range0 -> Elements]
    /\ openThreads = Opened
    /\ size = Size /\ lmove = 0 /\ rmove = Size /\ rtrue = 0
    /\ task = [t \in Paths |-> IF t = First THEN [Idle EXCEPT !.pc = "start"] ELSE Idle]
    /\ answer = NoAnswer

Goto(t, pc) == task' = [task EXCEPT ![t].pc = pc]

-----------------------------------------------------------------------------
(* partition_worker::operator(): fork, or take part. *)

\* Mutant: only one of the subtasks is posted.
ForkOfOne(t) ==
    /\ task[t].pc = "start"
    /\ openThreads' = openThreads - 1
    /\ openThreads >= 1 /\ size >= 0
    /\ task' = [task EXCEPT ![t].pc = "forked", ![Append(t, 2)] = [Idle EXCEPT !.pc = "start"]]
    /\ UNCHANGED <<data, size, lmove, rmove, rtrue, answer>>

Fork(t) ==
    /\ task[t].pc = "start"
    /\ openThreads' = openThreads - 1
    /\ openThreads >= 1 /\ size >= 0
    /\ task' = [c \in Paths |-> IF c = t THEN [task[t] EXCEPT !.pc = "forked"]
                                ELSE IF c \in Children(t) THEN [Idle EXCEPT !.pc = "start"]
                                ELSE task[c]]
    /\ UNCHANGED <<data, size, lmove, rmove, rtrue, answer>>

DoNotFork(t) ==
    /\ task[t].pc = "start"
    /\ openThreads < 1 \/ size < 0
    /\ openThreads' = openThreads - 1
    /\ Goto(t, "restore")
    /\ UNCHANGED <<data, size, lmove, rmove, rtrue, answer>>

Restore(t) ==
    /\ task[t].pc = "restore"
    /\ openThreads' = openThreads + 1
    /\ Goto(t, "test")
    /\ UNCHANGED <<data, size, lmove, rmove, rtrue, answer>>

-----------------------------------------------------------------------------
(* part_parallel *)

\* while (m_size > 0)
TestSize(t) ==
    /\ task[t].pc = "test"
    /\ Goto(t, IF size > 0 THEN "take" ELSE "finish")
    /\ UNCHANGED <<data, counters, answer>>

TakeSize(t) ==
    /\ task[t].pc = "take"
    /\ size' = size - BlockSize
    /\ LET mysize == ToInt(size) IN
       task' = [task EXCEPT ![t].pc = IF mysize <= 0 THEN "finish" ELSE "claim",
                            ![t].mysize = Least0(mysize, BlockSize)]
    /\ UNCHANGED <<data, openThreads, lmove, rmove, rtrue, answer>>

\* The positions of [b, e), and of (b, e] from the end.
Up(b, e) == [i \in 1 .. e - b |-> b + i - 1]
Down(e, b) == [i \in 1 .. e - b |-> e - i + 1]

Picked(positions, x) ==
    LET picked[n \in 0 .. Len(positions)] ==
          IF n = 0 THEN <<>>
          ELSE IF data[positions[n]] = x THEN Append(picked[n - 1], positions[n])
          ELSE picked[n - 1]
    IN  picked[Len(positions)]

\* The elements at positions ls and rs change places, in pairs, until one of
\* the sequences ends.
Pairs(ls, rs) == Least0(Len(ls), Len(rs))

Swapped(ls, rs) ==
    LET k == Pairs(ls, rs)
        now == {ls[i] : i \in 1 .. k}
        was == {rs[i] : i \in 1 .. k}
    IN  [i \in Range0 |-> IF i \in now THEN "yes" ELSE IF i \in was THEN "no" ELSE data[i]]

\* Where a pointer stops that started with the positions x wrong.
Stop(x, k, end) == IF Len(x) > k THEN x[k + 1] ELSE end

Bad(positions) == \E i \in Range(positions) : data[i] = "bad"

\* Exchange between the two blocks, one of which is new.
Scan(t, lbs, lbe, rbs, rbe) ==
    LET ls == Picked(Up(lbs, lbe), "no")
        rs == Picked(Down(rbs, rbe), "yes")
        k == Pairs(ls, rs)
        l == Stop(ls, k, lbe)
    IN  IF Bad(Up(lbs, lbe) \o Down(rbs, rbe))
        THEN Goto(t, "failed") /\ UNCHANGED data
        ELSE /\ data' = Swapped(ls, rs)
             /\ task' = [task EXCEPT ![t] = [task[t] EXCEPT !.pc = "test",
                            !.lbs = l, !.lbe = lbe, !.rbs = Stop(rs, k, rbe), !.rbe = rbe,
                            !.trues = task[t].trues + (l - lbs)]]

\* Mutant: the place of the block is read but not moved on.
ClaimLeftByLoad(t) ==
    /\ task[t].pc = "claim"
    /\ task[t].lbs = task[t].lbe
    /\ Scan(t, lmove, lmove + task[t].mysize, task[t].rbs, task[t].rbe)
    /\ UNCHANGED <<openThreads, size, lmove, rmove, rtrue, answer>>

ClaimLeft(t) ==
    /\ task[t].pc = "claim"
    /\ task[t].lbs = task[t].lbe
    /\ lmove' = lmove + task[t].mysize
    /\ Scan(t, lmove, lmove + task[t].mysize, task[t].rbs, task[t].rbe)
    /\ UNCHANGED <<openThreads, size, rmove, rtrue, answer>>

ClaimRight(t) ==
    /\ task[t].pc = "claim"
    /\ task[t].lbs # task[t].lbe
    /\ rmove' = rmove - task[t].mysize
    /\ Scan(t, task[t].lbs, task[t].lbe, rmove - 1, rmove - task[t].mysize - 1)
    /\ UNCHANGED <<openThreads, size, lmove, rtrue, answer>>

\* What is left of the blocks is handed on, with the elements that hold
\* counted.
\* Mutant: the elements in the rest are not counted.
FinishUncounted(t) ==
    LET w == task[t] IN
    /\ w.pc = "finish"
    /\ rtrue' = rtrue + w.trues
    /\ task' = [task EXCEPT ![t] = [Idle EXCEPT !.pc = "done",
          !.left = IF w.lbs # w.lbe THEN <<<<w.lbs, w.lbe>>>> ELSE <<>>,
          !.right = IF w.rbs # w.rbe THEN <<<<w.rbe + 1, w.rbs + 1>>>> ELSE <<>>]]
    /\ UNCHANGED <<data, openThreads, size, lmove, rmove, answer>>

Finish(t) ==
    LET w == task[t]
        rest == Up(w.lbs, w.lbe) \o Down(w.rbs, w.rbe)
    IN  /\ w.pc = "finish"
        /\ rtrue' = rtrue + w.trues + Len(Picked(rest, "yes"))
        /\ task' = [task EXCEPT ![t] = [Idle EXCEPT !.pc = "done",
              !.left = IF w.lbs # w.lbe THEN <<<<w.lbs, w.lbe>>>> ELSE <<>>,
              !.right = IF w.rbs # w.rbe THEN <<<<w.rbe + 1, w.rbs + 1>>>> ELSE <<>>]]
        /\ UNCHANGED <<data, openThreads, size, lmove, rmove, answer>>

-----------------------------------------------------------------------------
(* The done functor of a fork. *)

Positions(blocks) == FlattenSeq([i \in DOMAIN blocks |-> Up(blocks[i][1], blocks[i][2])])

\* Mutant: begin and end of the block are exchanged.
UnfinishedReversed(blocks, x, k) ==
    IF Len(x) = k THEN <<>>
    ELSE LET j == CHOOSE j \in DOMAIN blocks :
                    x[k + 1] \in Range(Up(blocks[j][1], blocks[j][2]))
         IN  Append(SubSeq(blocks, j + 1, Len(blocks)), <<blocks[j][2], x[k + 1]>>)

\* The blocks from the first wrong position on; the one it is in goes to the
\* end of the list.  Blocks with nothing wrong in them need not be kept.
Unfinished(blocks, x, k) ==
    IF Len(x) = k THEN <<>>
    ELSE LET j == CHOOSE j \in DOMAIN blocks :
                    x[k + 1] \in Range(Up(blocks[j][1], blocks[j][2]))
         IN  Append(SubSeq(blocks, j + 1, Len(blocks)), <<x[k + 1], blocks[j][2]>>)

JoinTasks(t) ==
    LET c == task[Append(t, 1)]
        d == task[Append(t, 2)]
        left == c.left \o d.left
        right == c.right \o d.right
        ls == Picked(Positions(left), "no")
        rs == Picked(Positions(right), "yes")
        k == Pairs(ls, rs)
    IN  /\ task[t].pc = "forked" /\ c.pc = "done" /\ d.pc = "done"
        /\ data' = Swapped(ls, rs)
        /\ task' = [task EXCEPT ![t].pc = "done", ![t].left = Unfinished(left, ls, k),
                                ![t].right = Unfinished(right, rs, k),
                                ![Append(t, 1)] = Idle, ![Append(t, 2)] = Idle]
        /\ UNCHANGED <<counters, answer>>

\* get() throws what part_parallel threw.
JoinFails(t) ==
    LET pcs == {task[c].pc : c \in Children(t)} IN
    /\ task[t].pc = "forked" /\ "failed" \in pcs /\ pcs \subseteq {"done", "failed"}
    /\ Goto(t, "failed")
    /\ UNCHANGED <<data, counters, answer>>

-----------------------------------------------------------------------------
(* parallel_partition_helper: the done functor of the first task.           *)

Clipped(blocks, bound) ==
    [i \in DOMAIN blocks |-> <<bound[blocks[i][1]], bound[blocks[i][2]]>>]

\* The blocks are cut at the place of the result; what lies between it and
\* the place where left and right blocks met has been on the wrong side.
Answer ==
    LET w == task[First]
        left == IF lmove < rtrue THEN Append(w.left, <<lmove, rtrue>>)
                ELSE IF lmove > rtrue
                THEN Clipped(w.left, [i \in Int |-> IF i > rtrue THEN rtrue ELSE i])
                ELSE w.left
        right == IF lmove < rtrue
                 THEN Clipped(w.right, [i \in Int |-> IF i < rtrue THEN rtrue ELSE i])
                 ELSE IF lmove > rtrue THEN Append(w.right, <<rtrue, lmove>>)
                 ELSE w.right
    IN  /\ w.pc = "done"
        /\ data' = Swapped(Picked(Positions(left), "no"), Picked(Positions(right), "yes"))
        /\ answer' = rtrue
        /\ Goto(First, "answered")
        /\ UNCHANGED counters

\* This done functor has no try block: the exception reaches the caller only
\* when everything was finished before the functor was set.
AnswerFails ==
    /\ task[First].pc = "failed"
    /\ answer' \in {NoAnswer, Exception}
    /\ Goto(First, "answered")
    /\ UNCHANGED <<data, counters>>

Step(t) ==
    \/ Fork(t) \/ DoNotFork(t) \/ Restore(t)
    \/ TestSize(t) \/ TakeSize(t) \/ ClaimLeft(t) \/ ClaimRight(t) \/ Finish(t)
    \/ JoinTasks(t) \/ JoinFails(t)

Next == Answer \/ AnswerFails \/ \E t \in Paths : Step(t)

Fairness == WF_vars(Answer \/ AnswerFails) /\ \A t \in Paths : WF_vars(Step(t))

Spec == Init /\ [][Next]_vars
FairSpec == Spec /\ Fairness

-----------------------------------------------------------------------------
(* Properties *)

\* The atomics and what the tasks hold stay in their ranges.
Blocks == {b \in (0 .. Size) \X (0 .. Size) : b[1] <= b[2]}

TypeOK ==
    /\ data \in [Range0 -> Elements]
    /\ openThreads \in Opened - Cardinality(Paths) .. Opened
    /\ size <= Size /\ lmove \in 0 .. Size /\ rmove \in 0 .. Size /\ rtrue \in 0 .. Size
    /\ \A t \in Paths :
         /\ task[t].lbs \in 0 .. task[t].lbe /\ task[t].rbs \in task[t].rbe .. Size
         /\ task[t].left \in Seq(Blocks) /\ task[t].right \in Seq(Blocks)
    /\ answer \in {NoAnswer, Exception} \cup 0 .. Size

\* The cells a task may touch without asking anyone.
Owned(t) ==
    Range(Up(task[t].lbs, task[t].lbe)) \cup Range(Down(task[t].rbs, task[t].rbe))
    \cup Range(Positions(task[t].left)) \cup Range(Positions(task[t].right))

\* No element is ever in the hands of two tasks: the blocks that tasks take
\* from both ends with separate atomic operations never meet.
BlocksApart ==
    \A t, u \in Paths : t # u => Owned(t) \cap Owned(u) = {}

\* The answer is the place between the elements for which the relation holds
\* and the others.
Partitioned ==
    answer \notin {NoAnswer, Exception} =>
        \A i \in Range0 : data[i] = IF i < answer THEN "yes" ELSE "no"

\* Both of the above.
PartitionCorrect == BlocksApart /\ Partitioned

\* Unless the relation throws the algorithm answers.
PartitionAnswers == (\A i \in Range0 : data[i] # "bad") => <>(answer # NoAnswer)
=============================================================================
