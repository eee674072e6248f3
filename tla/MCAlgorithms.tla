----------------------------- MODULE MCAlgorithms -----------------------------
(***************************************************************************)
(* The algorithms over every short sequence, for both kinds of iterators   *)
(* and two cutoffs, against what they are to compute.  An element 9 makes  *)
(* the caller's functor throw, the predicate holds for odd elements.       *)
(*                                                                         *)
(* And ParallelVector: two vectors of up to three elements together, and   *)
(* two values.  A behaviour is about what "part" says.                     *)
(***************************************************************************)
EXTENDS SortAlgorithms, TaskCombinators, Placement

CONSTANTS Alphabet, MaxLength, Parts, vector1, vector2, value1, value2, Beyond

VARIABLES part, seq, vec, silent

Vector == INSTANCE ParallelVector WITH
  Vectors <- {vector1, vector2}, Values <- {value1, value2},
  DefaultCapacity <- 2, Spare <- 1, MaxElements <- 3, MaxRoom <- 4

ASSUME VectorAssumption == Vector!VectorAssumption

\* Neither vectors nor values are compared or chosen.
Symmetry == Permutations({vector1, vector2}) \cup Permutations({value1, value2})

vars == <<part, seq, cutoff, category, vec, silent>>

Odd(x) == x % 2 = 1
IsBad(x) == x = 9
NoCell(i) == FALSE
SecondCell(i) == i = 2

Init ==
  /\ part \in Parts
  /\ seq = <<>>
  /\ cutoff \in IF part = "algorithms" THEN {1, 2} ELSE {1}
  /\ category \in IF part = "algorithms" THEN {"random", "input"} ELSE {"random"}
  /\ Vector!Init /\ (part = "algorithms" => \A v \in DOMAIN vec : ~vec[v].sched)

Next ==
  \/ /\ part = "algorithms"
     /\ Len(seq) < MaxLength
     /\ \E x \in Alphabet : seq' = Append(seq, x)
     /\ UNCHANGED <<part, cutoff, category, vec, silent>>
  \/ /\ part = "vector"
     /\ Vector!Next
     /\ UNCHANGED <<part, seq, cutoff, category>>

Spec == Init /\ [][Next]_vars

Safe == \A i \in DOMAIN seq : ~Throws(seq[i])
N == Len(seq)
End == Size(seq)
Lt(x, y) == x < y
Same(x, y) == x = y
Add(x, y) == x + y
Times(x, y) == x * y
Adder == [x, y \in Int |-> x + y]
Even(x) == ~Odd(x)
Sum(s) == FoldLeft(Add, 0, s)
Sorted == IsSortedSeq(seq, Lt)

\* A second range of the same length, and patterns of any length.
Ranges2 == [1 .. N -> {0, 1}]
Patterns == UNION {[1 .. n -> {0, 1}] : n \in 0 .. 3}

\* The expected answer, or the exception when the functor throws.
Answers(o, v) == o = IF Safe THEN Value(v) ELSE Exception

-----------------------------------------------------------------------------
(* Reading algorithms                                                      *)

CountsAndFolds ==
  /\ Answers(CountIf(seq), Cardinality({i \in DOMAIN seq : Odd(seq[i])}))
  /\ Answers(FindAll(seq), SelectSeq(seq, Odd))
  /\ Answers(Reduce(seq, Add), Sum(seq))
  /\ Safe /\ seq # <<>> =>
        \E i \in DOMAIN seq : /\ Extremum(seq, Lt) = Value(seq[i])
                              /\ \A j \in DOMAIN seq : seq[i] <= seq[j]
  /\ Safe => \A t \in Ranges2 :
        LET product == Value(7 + Sum([i \in DOMAIN seq |-> seq[i] * t[i]])) IN
        /\ InnerProduct(seq, t, 7) = product
        /\ InnerProductSerializable(seq, t, 7) = product
        /\ InnerProductContinuation(Value(seq), Value(t), 7) = product
  /\ CountIfSerializable(seq) = CountIf(seq)
  /\ FindAllSerializable(seq) = FindAll(seq)
  /\ ReduceSerializable(seq, Add) = Reduce(seq, Add)

\* The first pair of equal neighbours, the first difference.
Neighbours ==
  FirstAt(1, IF seq = <<>> THEN 1 ELSE N, LAMBDA i : FALSE, LAMBDA i : seq[i] = seq[i + 1])

FirstPair == IF Neighbours = Value(N) THEN Value(End) ELSE Neighbours

Searches ==
  /\ Safe => AdjacentFind(seq, Same) = FirstPair
  /\ \A t \in Patterns : Safe =>
        FindFirstOf(seq, t) = First(seq, 1, End, LAMBDA x : \E k \in DOMAIN t : t[k] = x)
  /\ \A t \in Patterns : t # <<>> =>
        Kmp(seq, t) = Value(SetToSortSeq(Occurrences(seq, t, 1, End), Lt))
  /\ \A n \in 1 .. 2, v \in {0, 1} :
        LET o == SearchN(seq, n, v) IN
        o # Undefined => o = Value(FirstOccurrence(seq, [k \in 1 .. n |-> v], 1, End))

Comparisons ==
  /\ Safe => \A t \in Ranges2 :
        /\ Mismatch(seq, t) = FirstAt(1, End, LAMBDA i : FALSE, LAMBDA i : seq[i] # t[i])
        /\ Equal(seq, t) = Value(seq = t)
  /\ IsSortedRange(seq, Lt) = Value(Sorted)
  /\ IsReverseSorted(seq, Lt) = Value(IsSortedSeq(seq, LAMBDA x, y : y < x))
  /\ Safe /\ seq # <<>> =>
        IsPartitioned(seq) = Value(\E k \in 0 .. N : \A i \in DOMAIN seq : Odd(seq[i]) <=> i <= k)

\* The reading algorithms of algorithm/ answer what their sequential namesakes
\* answer, wherever the range is cut: a pair of neighbours on both sides of a
\* cut is found, an occurrence across a cut is found once, the first of several
\* hits is taken though the halves end in any order, and an exception of the
\* functor is the answer.  A task that another process has taken, with a copy of
\* its part of the range, answers what it would answer here.
SearchesAgree == CountsAndFolds /\ Searches /\ Comparisons

\* The tasks [b, e) of a range, and the leaves that decide.
Tasks ==
  LET below[r \in (1 .. End) \X (1 .. End)] ==
        LET it == Cut(r[1], r[2]) IN
        {r} \cup IF it = r[2] THEN {} ELSE below[<<r[1], it>>] \cup below[<<it, r[2]>>]
  IN  below[<<1, End>>]

Within(r, q) == q[1] <= r[1] /\ r[2] <= q[2]

\* The stop event is only set by a leaf that has found a deciding element and
\* was not itself stopped.
MayStop(stopped, hit) ==
  \/ stopped = {}
  \/ \E r \in Tasks : /\ Cut(r[1], r[2]) = r[2]
                      /\ \E i \in r[1] .. r[2] - 1 : Odd(seq[i]) = hit
                      /\ \A q \in stopped : ~Within(r, q)

\* all_of, any_of and none_of answer the same whichever tasks find the stop
\* event set: a stopped task answers a value that cannot change the result of
\* the task which has decided it.
StopsAgree ==
  Safe /\ N <= 4 => \A stopped \in SUBSET Tasks :
    /\ MayStop(stopped, FALSE) =>
         AllOf(seq, stopped) = Value(\A i \in DOMAIN seq : Odd(seq[i]))
    /\ MayStop(stopped, TRUE) =>
         /\ AnyOf(seq, stopped) = Value(\E i \in DOMAIN seq : Odd(seq[i]))
         /\ NoneOf(seq, stopped) = Value(~\E i \in DOMAIN seq : Odd(seq[i]))

\* The algorithms that read answer rightly: both of the above.
ReadersAgree == SearchesAgree /\ StopsAgree

-----------------------------------------------------------------------------
(* Writing algorithms                                                      *)

\* array holds res afterwards, nothing else was written and the answer is ans.
Wrote(o, array, res, ans) ==
  /\ IsValue(o)
  /\ DOMAIN o.of.wr = Cells(array, 1, Size(res))
  /\ After(res, array, o.of.wr) = res
  /\ o.of.answer = ans

Writes(o, array, res, ans) == IF Safe THEN Wrote(o, array, res, ans) ELSE o = Exception

Five == [x \in Int |-> x + 5]

ElementWise ==
  LET five == [i \in DOMAIN seq |-> Five[seq[i]]] IN
  /\ Writes(For(seq, Five), "in", five, {})
  /\ Answers(ForSerializable(seq, Five), five)
  /\ ForContinuation(Value(seq), Five) = ForSerializable(seq, Five)
  /\ Answers(ForEach(seq, <<>>), seq)
  /\ Wrote(Iota(seq, 3), "in", [i \in DOMAIN seq |-> 2 + i], {})
  /\ \A dst \in {"in", "out"} : Writes(Transform(seq, dst, Five), dst, five, End)
  /\ Writes(Copy(seq), "out", seq, {})
  /\ Safe => LET o == MoveRange(seq, -1) IN IsValue(o) /\ After(seq, "out", o.of.wr) = seq

SecondRange ==
  \A t \in Ranges2 :
    /\ Wrote(Transform2(seq, t, Adder), "out", [i \in DOMAIN seq |-> seq[i] + t[i]], End)
    /\ Wrote(TransformAny(<<seq, t, seq>>, [xs \in Int \X Int \X Int |-> xs[1] + xs[2] + xs[3]]),
             "out", [i \in DOMAIN seq |-> 2 * seq[i] + t[i]], End)
    /\ LET o == SwapRanges(seq, t) IN
       IsValue(o) /\ After(seq, "in", o.of.wr) = t /\ After(t, "in2", o.of.wr) = seq

WithoutRepetitions ==
  LET first == SelectSeq([i \in DOMAIN seq |-> i], LAMBDA i : i = 1 \/ seq[i - 1] # seq[i]) IN
  [k \in DOMAIN first |-> seq[first[k]]]

Rearranged ==
  LET odd == SelectSeq(seq, Odd)
      even == SelectSeq(seq, Even)
      pc == PartitionCopy(seq)
  IN
  /\ ReverseRangeMove(seq) = Value(Reverse(seq))
  /\ Writes(CopyIf(seq, [x \in Int |-> Odd(x)]), "out", odd, Len(odd) + 1)
  /\ Writes(RemoveCopyIf(seq), "out", even, Len(even) + 1)
  /\ Writes(StablePartition(seq), "out", odd \o even, Len(odd) + 1)
  /\ IF Safe THEN /\ IsValue(pc)
                  /\ DOMAIN pc.of.wr = Cells("out", 1, Size(odd)) \cup Cells("out2", 1, Size(even))
                  /\ After(odd, "out", pc.of.wr) = odd /\ After(even, "out2", pc.of.wr) = even
     ELSE pc = Exception
  /\ Safe => Unique(seq, Same) = Value(WithoutRepetitions)

Scans ==
  LET upTo(n) == 4 + Sum(SubSeq(seq, 1, n)) IN
  /\ Writes(ParallelInclusiveScan(seq, "in", Add, 4), "in", [n \in DOMAIN seq |-> upTo(n)], Sum(seq))
  /\ Writes(ParallelExclusiveScan(seq, "out", Add, 4), "out",
            [n \in DOMAIN seq |-> upTo(n - 1)], Sum(seq))

\* The writing algorithms leave what their sequential namesakes leave, and no
\* subtask touches what another one writes at the same time: the halves' output
\* positions meet without a gap or an overlap, also where they are only known
\* after a first pass over the whole range.
WritesAgree == ElementWise /\ SecondRange /\ Rearranged /\ Scans

-----------------------------------------------------------------------------
(* Sorted ranges and sorting                                               *)

Tag(s, o) == [i \in DOMAIN s |-> <<s[i], o, i>>]
Key(x, y) == x[1] < y[1]
SortedPatterns == {t \in Patterns : IsSortedSeq(t, Lt)}
Inner == [i \in DOMAIN seq |-> [k \in 1 .. seq[i] |-> i]]

\* Merging keeps every element once and sorted; grouped_for never gives a part
\* of a group to its functor; group_by answers the groups as a sequential pass
\* finds them; flatten leaves no hole between the inner ranges.
GroupsStayTogether ==
  /\ Sorted =>
       /\ \A t \in SortedPatterns :
            LET o == MergeSorted(Tag(seq, 1), Tag(t, 2), Key)
                out == After([i \in 1 .. N + Len(t) |-> <<>>], "out", o.of.wr)
            IN /\ IsValue(o)
               /\ IsSortedSeq(out, Key)
               /\ Range(out) = Range(Tag(seq, 1)) \cup Range(Tag(t, 2))
       /\ LET o == GroupedFor(seq, Lt) IN
          IF Safe THEN \A p \in o.of : 1 < p[1] /\ p[1] < p[2] => seq[p[1] - 1] # seq[p[1]]
          ELSE o = Exception
       /\ Answers(GroupBy(seq, Lt), Groups(seq, Lt))
  /\ Safe => Flatten(Inner) = Value(FoldLeft(LAMBDA x, y : x \o y, <<>>, Inner))

\* The algorithms that write do so rightly: WritesAgree and this.
WritersAgree == WritesAgree /\ GroupsStayTogether

Tagged == [i \in DOMAIN seq |-> <<seq[i], i>>]

SortOf(o) ==
  IsValue(o) /\ IsSortedSeq(o.of, Key) /\ Len(o.of) = N /\ Range(o.of) = Range(Tagged)

IsStable(o) == o = Value(StdStableSort(Tagged, Key))

\* The first k elements are the k smallest ones, in order.
PartialSortOf(o, k) ==
  /\ IsValue(o) /\ Range(o.of) = Range(Tagged)
  /\ IsSortedSeq(SubSeq(o.of, 1, k), Key)
  /\ \A i \in 1 .. k, j \in k + 1 .. N : ~Key(o.of[j], o.of[i])

\* Every variant of sort answers a sorted permutation of its range, whichever
\* halves are merged at which depth; the stable sort in place keeps the order
\* of equal elements; quicksort and partial_sort do so in every order a
\* parallel partition may leave.
SortsAgree ==
  category = "random" /\ Safe /\ N <= 4 =>
    /\ \A stable \in BOOLEAN :
         /\ SortOf(ParallelSort(stable, Tagged, Key, TRUE))
         /\ SortOf(SortSerializable(stable, Tagged, Key))
         /\ SortOf(Sort2(stable, Tagged, Key, [n \in Nat |-> TRUE]))
         /\ SortOf(SortInplace(stable, Tagged, Key))
    /\ IsStable(SortInplace(TRUE, Tagged, Key))
    /\ \A o \in Quicksort(Tagged, Key) : SortOf(o)
    /\ \A k \in 1 .. N : \A o \in PartialSort(Tagged, k, Key) : PartialSortOf(o, k)

-----------------------------------------------------------------------------
(* Combinators                                                             *)

\* Continuations whose outcomes are the elements, ending in any order.
Outcomes == [i \in DOMAIN seq |-> IF Throws(seq[i]) THEN Exception ELSE Value(seq[i])]
Orders == Permutations(DOMAIN seq)
Failed == {i \in DOMAIN seq : ~IsValue(Outcomes[i])}

FirstValue(order) ==
  LET i == order[CHOOSE k \in DOMAIN order :
                   IsValue(Outcomes[order[k]])
                   /\ \A j \in 1 .. k - 1 : ~IsValue(Outcomes[order[j]])]
  IN  Value(<<i, seq[i]>>)

\* The chain if_(odd) else_if(2) else_, whose conditions may throw.
Chain(x) ==
  LET Cond(P(_)) == [v \in Alphabet |-> IF Throws(v) THEN Escaped ELSE Value(P(v))]
      Clause(name) == [v \in Alphabet |-> [o |-> Value(<<name, v>>), forked |-> FALSE]]
      c == If(Value(x), Cond(Odd), Clause("if"))
  IN  Else(ElseIf(c, Cond(LAMBDA v : v = 2), Clause("else_if")), Clause("else"))

\* any_of answers exactly once in whatever order its continuations end, with
\* the first value, and fails if and only if all of them failed; all_of answers
\* exactly once unless several fail; of a chain of clauses exactly one runs;
\* parallel_invoke of continuation tasks always answers; and a placement whose
\* constructors do not throw answers success after building every cell once.
CombinatorsAnswerOnce ==
  /\ \A order \in Orders : seq # <<>> =>
       /\ AnyOfTasks(Outcomes, order, FALSE) =
            << IF Failed = DOMAIN seq THEN Exception ELSE FirstValue(order) >>
       /\ Cardinality(Failed) <= 1 =>
            AllOfTasks(Outcomes, order) = << IF Failed = {} THEN Value(seq) ELSE Exception >>
  /\ \A x \in Alphabet :
       Chain(x) = IF Throws(x) THEN Exception
                  ELSE Value(<<IF Odd(x) THEN "if" ELSE IF x = 2 THEN "else_if" ELSE "else", x>>)
  /\ LET tasks == [i \in DOMAIN seq |-> ContinuationTask(IF Throws(seq[i]) THEN Escaped
                                                         ELSE Value(seq[i]))]
     IN ParallelInvoke(tasks) = Value(Outcomes)
  /\ \A o \in ParallelPlacement(N) :
       o.answers = <<Success>> /\ \A i \in 1 .. N : o.built[i] = 1 /\ o.destroyed[i] = 0
  /\ PlacementDelete(N, 1, End) = [i \in 1 .. N |-> 1]

-----------------------------------------------------------------------------
(* The vector                                                              *)

\* The objects live where they should, and every operation does what that of
\* std::vector does: see ParallelVector.
LiveCells == Vector!LiveCells
LikeStdVector == Vector!LikeStdVector

-----------------------------------------------------------------------------
(* What the documentation or the standard library says of the algorithms    *)
(* and the code does not keep: each is violated.                            *)

\* README: parallel_stable_sort "sorts a range of elements while preserving
\* order between equal elements".  A part that is sorted in reverse is reversed,
\* and equal elements are sorted in reverse as well.
StableSortKeepsOrder ==
  category = "random" /\ Safe => IsStable(ParallelSort(TRUE, Tagged, Key, TRUE))

\* README: parallel_nth_element "partially sorts the given range making sure
\* that it is partitioned by the given element".  When the pivot's place is nth
\* the first part is taken, where nth is the end.
NthElementPartitions ==
  category = "random" /\ Safe => \A k \in 0 .. N - 1 : \A o \in NthElement(Tagged, k, Key) :
    \A i \in 1 .. k, j \in k + 2 .. N :
      ~Key(o.of[j], o.of[k + 1]) /\ ~Key(o.of[k + 1], o.of[i])

\* An occurrence across the cut is found by search and find_end.
OverlapSearched ==
  \A t \in Patterns :
    /\ Search(seq, t) = Value(FirstOccurrence(seq, t, 1, End))
    /\ FindEnd(seq, t) = Value(LastOccurrence(seq, t, 1, End))

\* parallel_lexicographical_compare compares: the halves are joined by "or"
\* though the left one may have been greater.
ComparesLexicographically ==
  \A t \in Patterns : LexicographicalCompare(seq, t) = Value(Lexicographical(seq, t))

\* partial_sort ends: a range without elements is partitioned for ever.
PartialSortEnds ==
  category = "random" /\ Safe => \A k \in 0 .. N : Never \notin PartialSort(Tagged, k, Key)

\* transform of two ranges held by reference reads the second one.
SecondRangeRead ==
  \A t \in Ranges2 :
    Wrote(Transform2Range(seq, t, Adder), "out", [i \in DOMAIN seq |-> seq[i] + t[i]], End)

\* A scan with any associative operation: the first pass starts from T(), which
\* is not neutral for a product.
ScanOfAnyOperation ==
  Safe => LET o == ParallelInclusiveScan(seq, "in", Times, 2) IN
    After(seq, "in", o.of.wr) = [n \in DOMAIN seq |-> FoldLeft(Times, 2, SubSeq(seq, 1, n))]

\* merge is stable, as std::merge is.
MergeIsStable ==
  Sorted => \A t \in SortedPatterns :
    LET o == MergeSorted(Tag(seq, 1), Tag(t, 2), Key) IN
    After([i \in 1 .. N + Len(t) |-> <<>>], "out", o.of.wr) = Merged(Tag(seq, 1), Tag(t, 2), Key)

\* all_of answers once also when several continuations fail.
AllOfAnswersOnce ==
  \A order \in Orders : Len(AllOfTasks(Outcomes, order)) <= 1

\* A placement whose constructor throws answers an error: the leaf that failed
\* answers success as well, and the top level waits for ever or sees success.
PlacementTellsFailure ==
  N >= 2 => \A o \in ParallelPlacement(N) : Len(o.answers) = 1 /\ o.answers[1] # Success

\* A continuation that fails in any way fails the chain of clauses; one that
\* ends in another thread is lost instead.
ClauseFailureIsAnswered ==
  \A forked \in BOOLEAN, i \in DOMAIN seq :
    If(Value(seq[i]), [v \in Alphabet |-> Value(TRUE)],
       [v \in Alphabet |-> [o |-> Exception, forked |-> forked]]) = Exception

\* What the documentation says of the vector: see ParallelVector.
PopBackRemovesLast == Vector!PopBackRemovesLast
AllAnswered == Vector!AllAnswered
=============================================================================
