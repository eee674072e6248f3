--------------------------- MODULE SortAlgorithms ---------------------------
(***************************************************************************)
(* The sorting algorithms of algorithm/: parallel_sort and its variants,   *)
(* parallel_quicksort, parallel_nth_element and parallel_partial_sort.     *)
(* before is the caller's strict order, which is taken not to throw; what  *)
(* can fail is the construction of the memory for merging (placed).  The   *)
(* order parallel_partition leaves is not known, see ParallelPartition.     *)
(***************************************************************************)
EXTENDS RangeAlgorithms

CONSTANT SizeBits             \* the width of size_t
ASSUME SizeBitsAssumption == SizeBits \in Nat

IsSortedSeq(s, _ \prec _) == \A i \in 1 .. Len(s) - 1 : ~(s[i + 1] \prec s[i])

\* The elements of s in the order of their positions given by \prec.
Arranged(s, _ \prec _) ==
    LET order == SetToSortSeq(DOMAIN s, \prec) IN [i \in DOMAIN s |-> s[order[i]]]

\* The sort functors: equal elements keep their order, or they do not.
StdStableSort(s, _ \prec _) ==
    Arranged(s, LAMBDA i, j : s[i] \prec s[j] \/ (i < j /\ ~(s[j] \prec s[i])))

StdSort(s, _ \prec _) ==
    Arranged(s, LAMBDA i, j : s[i] \prec s[j] \/ (i > j /\ ~(s[j] \prec s[i])))

SortWith(stable, s, _ \prec _) ==
    IF stable THEN StdStableSort(s, \prec) ELSE StdSort(s, \prec)

\* A part that is sorted in reverse is only reversed, one that is sorted is
\* left alone.
SortLeaf(stable, s, _ \prec _) ==
    IF IsSortedSeq(s, LAMBDA x, y : y \prec x) THEN Reverse(s)
    ELSE IF IsSortedSeq(s, \prec) THEN s
    ELSE SortWith(stable, s, \prec)

-----------------------------------------------------------------------------
(* parallel_sort, parallel_stable_sort, parallel_spreadsort ...             *)

\* parallel_merge of the answers of both halves into a range of their size.
MergeHalves(l, r, _ \prec _) ==
    IF Exception \in {l, r} THEN Exception
    ELSE LET o == MergeSorted(l.of, r.of, \prec) IN
         IF IsValue(o) THEN Value(After(l.of \o r.of, "out", o.of.wr)) ELSE o

\* Tasks of even depth leave their part in the range, those of odd depth in
\* the memory for merging; a part that cannot be cut at an odd depth is given
\* to a task of the next depth.
SortFastHelper(stable, s, _ \prec _) ==
    LET task[r \in (1 .. Size(s)) \X (1 .. Size(s)) \X Nat] ==
          LET it == Cut(r[1], r[2])
              left == Posted(task[<<r[1], it, r[3] + 1>>])
              right == InPlace(task[<<it, r[2], r[3] + 1>>])
          IN IF it = r[2] /\ r[3] % 2 = 0
             THEN Value(SortLeaf(stable, Part(s, r[1], r[2]), \prec))
             ELSE Joined(left, right, MergeHalves(left, right, \prec))
    IN  task[<<1, Size(s), 0>>]

\* What is asked before a range is divided: is it sorted, is it in reverse?
Presorted(s, _ \prec _, otherwise) ==
    LET sorted == IsSortedRange(s, \prec)
        reverse == IsReverseSorted(s, \prec)
    IN  IF ~IsValue(sorted) THEN sorted
        ELSE IF sorted.of THEN Value(s)
        ELSE IF ~IsValue(reverse) THEN reverse
        ELSE IF reverse.of THEN ReverseRangeMove(s)
        ELSE otherwise

ParallelSort(stable, s, _ \prec _, placed) ==
    TopLevel(IF Cut(1, Size(s)) = Size(s) THEN Value(SortLeaf(stable, s, \prec))
             ELSE Presorted(s, \prec,
                      IF placed THEN SortFastHelper(stable, s, \prec) ELSE Exception))

\* A moved range is the answer.
SortRangeMove(s, _ \prec _, placed) == TopLevel(ParallelSort(FALSE, s, \prec, placed))
StableSortRangeMove(s, _ \prec _, placed) == TopLevel(ParallelSort(TRUE, s, \prec, placed))

SortContinuation(c, _ \prec _, placed) ==
    ThenUnguarded(c, LAMBDA s : SortRangeMove(s, \prec, placed))
StableSortContinuation(c, _ \prec _, placed) ==
    ThenUnguarded(c, LAMBDA s : StableSortRangeMove(s, \prec, placed))
SpreadsortContinuation(c, _ \prec _, placed) ==
    ThenUnguarded(c, LAMBDA s : SortRangeMove(s, \prec, placed))

\* For serializable functors every task answers a new range; std::merge joins
\* two of them.
SortSerializable(stable, s, _ \prec _) ==
    TopLevel(Divide(Cut, LAMBDA b, e : Value(SortLeaf(stable, Part(s, b, e), \prec)),
                    LAMBDA b, it, e, l, r : Both(l, r, Merged(l.of, r.of, \prec)),
                    1, Size(s)))

\* parallel_sort2: every task answers a new range, made in parallel; placed[n]
\* tells whether one of n elements can be made.
Sort2Helper(stable, s, _ \prec _, placed) ==
    Divide(Cut,
        LAMBDA b, e : IF placed[e - b] THEN Value(SortLeaf(stable, Part(s, b, e), \prec))
                      ELSE Exception,
        LAMBDA b, it, e, l, r : IF placed[e - b] THEN MergeHalves(l, r, \prec)
                                ELSE Exception,
        1, Size(s))

Sort2(stable, s, _ \prec _, placed) ==
    TopLevel(Presorted(s, \prec, Sort2Helper(stable, s, \prec, placed)))

Sort2Continuation(c, _ \prec _, placed) ==
    ThenUnguarded(c, LAMBDA s : Sort2(FALSE, s, \prec, placed))
StableSort2Continuation(c, _ \prec _, placed) ==
    ThenUnguarded(c, LAMBDA s : Sort2(TRUE, s, \prec, placed))
Spreadsort2Continuation(c, _ \prec _, placed) ==
    ThenUnguarded(c, LAMBDA s : Sort2(FALSE, s, \prec, placed))

\* The variants without extra memory: std::inplace_merge.
SortInplace(stable, s, _ \prec _) ==
    TopLevel(Divide(Cut, LAMBDA b, e : Value(SortWith(stable, Part(s, b, e), \prec)),
                    LAMBDA b, it, e, l, r : Both(l, r, Merged(l.of, r.of, \prec)),
                    1, Size(s)))

SortMoveInplace(stable, s, _ \prec _) == TopLevel(SortInplace(stable, s, \prec))

SortInplaceContinuation(c, _ \prec _) ==
    ThenUnguarded(c, LAMBDA s : SortMoveInplace(FALSE, s, \prec))
StableSortInplaceContinuation(c, _ \prec _) ==
    ThenUnguarded(c, LAMBDA s : SortMoveInplace(TRUE, s, \prec))
SpreadsortInplaceContinuation(c, _ \prec _) ==
    ThenUnguarded(c, LAMBDA s : SortMoveInplace(FALSE, s, \prec))

-----------------------------------------------------------------------------
(* The algorithms that partition by a pivot.  Each answers the set of the   *)
(* outcomes it may have, since a partition leaves its parts in any order.   *)

MedianOfThree(x, y, z, _ \prec _) == StdSort(<<x, y, z>>, \prec)[2]

\* Of three or nine samples, by position from 0.
MedianOfMedians(s, _ \prec _) ==
    LET n == Len(s)
        k == n \div 8
        At0(i) == s[i + 1]
        Of(i, j, l) == MedianOfThree(At0(i), At0(j), At0(l), \prec)
    IN  IF n < 3 THEN At0(0)
        ELSE IF n < 16 THEN Of(0, n \div 2, n - 1)
        ELSE MedianOfThree(Of(0, k, 2 * k), Of(3 * k, 4 * k, n - (3 * k + 1)),
                           Of(n - (2 * k + 1), n - (k + 1), n - 1), \prec)

Permutations0(s) ==
    {[i \in DOMAIN s |-> s[p[i]]] : p \in {p \in [DOMAIN s -> DOMAIN s] : IsInjective(p)}}

\* Mutant of Partitions: the elements that do not hold come first.
PartitionsSwapped(s, P) ==
    {<<SelectSeq(s, LAMBDA x : ~P[x]), SelectSeq(s, LAMBDA x : P[x])>>}

\* What parallel_partition makes of s: the pair of its parts, whose order
\* depends on its threads.  Two of the orders stand for all of them.
Partitions(s, P) ==
    LET yes == SelectSeq(s, LAMBDA x : P[x])
        no == SelectSeq(s, LAMBDA x : ~P[x])
    IN  {<<yes, no>>, <<Reverse(yes), Reverse(no)>>}

\* parallel_partition of a moved range answers the range and its middle.
PartitionRangeMove(s, P) ==
    {Value(<<p[1] \o p[2], Len(p[1]) + 1>>) : p \in Partitions(s, P)}

PartitionContinuation(c, P) ==
    IF IsValue(c) THEN PartitionRangeMove(c.of, P) ELSE {c}

\* (long)(log10(n) * n)
Limit(n) == CHOOSE k \in 0 .. n * n : 10 ^ k <= n ^ n /\ n ^ n < 10 ^ (k + 1)

\* total is the size of all the parts so far.
Quicksort(s, _ \prec _) ==
    LET task[r \in Seq(Range(s)) \X Nat] ==
          LET part == r[1]
              total == r[2]
              below == [x \in Range(part) |-> x \prec MedianOfMedians(part, \prec)]
              Both0(l, r0) == Both(Posted(l), InPlace(r0), l.of \o r0.of)
              Halves(p) == {Both0(l, r0) : l \in task[<<p[1], total + Len(p[1])>>],
                                           r0 \in task[<<p[2], total + Len(p[2])>>]}
              known == Presorted(part, \prec, Never)
          IN IF Cut(1, Size(part)) = Size(part) THEN {Value(SortLeaf(FALSE, part, \prec))}
             ELSE IF total > Limit(Len(s)) THEN {ParallelSort(FALSE, part, \prec, TRUE)}
             ELSE IF known # Never THEN {known}
             ELSE UNION {Halves(p) : p \in Partitions(part, below)}
    IN  task[<<s, 0>>]

\* std::nth_element for the position nth from 0; the end is a legal nth.
StdNthElement(s, nth, _ \prec _) ==
    {t \in Permutations0(s) :
        \A i, j \in DOMAIN s : i <= nth /\ nth < j /\ nth < Len(s) =>
            ~(t[j] \prec t[nth + 1]) /\ ~(t[nth + 1] \prec t[i])}

\* The first part is taken when the pivot's place is at or after nth.
InFirstPart(place, nth) == place >= nth

NthElement(s, nth, _ \prec _) ==
    LET task[r \in Seq(Range(s)) \X Nat \X Nat] ==
          LET part == r[1]
              n == r[2]
              total == r[3]
              below == [x \in Range(part) |-> x \prec MedianOfMedians(part, \prec)]
              Next(p) ==
                IF InFirstPart(Len(p[1]), n)
                THEN {Both(o, o, o.of \o p[2]) : o \in task[<<p[1], n, total + Len(p[1])>>]}
                ELSE {Both(o, o, p[1] \o o.of) :
                        o \in task[<<p[2], n - Len(p[1]), total + Len(p[2])>>]}
          IN IF Cut(1, Size(part)) = Size(part)
             THEN {Value(t) : t \in StdNthElement(part, n, \prec)}
             ELSE IF total > 4 * Len(s) THEN {ParallelSort(FALSE, part, \prec, TRUE)}
             ELSE UNION {Next(p) : p \in Partitions(part, below)}
    IN  task[<<s, nth, 0>>]

\* The unsigned distance from the pivot's place back to middle is compared
\* with a fifth of the range.
CloseTo(middle, place, n) == (middle - place) % 2 ^ SizeBits < (20 * n) \div 100

\* A range is partitioned until it is small enough to be sorted; an empty one
\* gives the empty range again and again.
PartialSort(s, middle, _ \prec _) ==
    LET task[r \in Seq(Range(s)) \X Nat] ==
          LET part == r[1]
              total == r[2]
              below == [x \in Range(part) |-> x \prec MedianOfMedians(part, \prec)]
              Next(p) ==
                LET place == Len(p[1]) IN
                IF place > middle /\ CloseTo(middle, place, Len(s))
                THEN {ParallelSort(FALSE, p[1], \prec, TRUE)} \X {p[2]}
                ELSE IF place >= middle THEN task[<<p[1], total + place>>] \X {p[2]}
                ELSE task[<<p[1] \o p[2], total + Len(part)>>] \X {<<>>}
          IN IF total > 4 * Len(s) THEN {ParallelSort(FALSE, part, \prec, TRUE)}
             ELSE IF part = <<>> THEN {Never}
             ELSE {IF IsValue(q[1]) THEN Value(q[1].of \o q[2]) ELSE q[1] :
                     q \in UNION {Next(p) : p \in Partitions(part, below)}}
    IN  task[<<s, 0>>]
=============================================================================
