--------------------------- MODULE RangeAlgorithms ---------------------------
(***************************************************************************)
(* The algorithms of algorithm/ that write a range.  Their subtasks write  *)
(* the same memory from several threads, so that what a task answers is    *)
(* its effect: Together tells whether the halves stay out of each other's  *)
(* way.  The caller's ranges are "in" (and "in2"), the result is "out".     *)
(***************************************************************************)
EXTENDS SearchAlgorithms

-----------------------------------------------------------------------------
(* parallel_for and the algorithms that call it.  f[x] is what the functor  *)
(* makes of the element it is given a reference to.                         *)

ForLeaf(s, b, e, f) ==
    Applied(s, b, e, Effect(Cells("in", b, e),
                            [c \in Cells("in", b, e) |-> f[s[c[2]]]], {}))

For(s, f) ==
    TopLevel(Divide(Cut, LAMBDA b, e : ForLeaf(s, b, e, f),
                    LAMBDA b, it, e, l, r : Together(l, r, {}), 1, Size(s)))

\* A range held by reference is cut once, its halves are tasks of iterators.
ForRange(s, f) == For(s, f)

\* A moved range is answered as the subtasks left it.
ForRangeMove(s, f) ==
    LET o == For(s, f) IN
    IF IsValue(o) THEN Value(After(s, "in", o.of.wr)) ELSE o

\* Serializable functors: every leaf answers a copy of its part.
ForSerializable(s, f) ==
    TopLevel(DivideCopies(
        LAMBDA r : Applied(r, 1, Size(r), [i \in DOMAIN r |-> f[r[i]]]),
        LAMBDA l, h : Both(l, h, l.of \o h.of), s))

ForContinuation(c, f) == Then(c, LAMBDA s : ForRangeMove(s, f))

ForFutureContinuation(c, f) == ThenUnguarded(c, LAMBDA s : ForRangeMove(s, f))

\* Over the indices [from, to).
ForIndex(from, to, leaf) ==
    TopLevel(Divide(CutIndex, LAMBDA b, e : leaf[b, e],
                    LAMBDA b, it, e, l, r : Together(l, r, {}), from, to))

\* The functor is an accumulator: every leaf starts with a copy of the one
\* given by the caller, and merge appends the elements seen on the right.
ForEach(s, func) ==
    TopLevel(Divide(Cut, LAMBDA b, e : Applied(s, b, e, func \o Part(s, b, e)),
                    LAMBDA b, it, e, l, r : Both(l, r, l.of \o r.of), 1, Size(s)))

Fill(s, value) == For(s, [x \in Range(s) |-> value])
FillRangeMove(s, value) == ForRangeMove(s, [x \in Range(s) |-> value])
FillContinuation(c, value) == Then(c, LAMBDA s : FillRangeMove(s, value))

Replaced(s, value) == [x \in Range(s) |-> IF Holds(x) THEN value ELSE x]

ReplaceIf(s, value) == For(s, Replaced(s, value))
ReplaceIfRangeMove(s, value) == ForRangeMove(s, Replaced(s, value))
ReplaceIfContinuation(c, value) ==
    Then(c, LAMBDA s : ReplaceIfRangeMove(s, value))

\* Every leaf calls its own copy of func: an element becomes the number of
\* the call, counted from the leaf's first element.
Generate(s) ==
    LET Leaf(b, e) == Value(Effect({}, [c \in Cells("in", b, e) |-> c[2] - b], {})) IN
    TopLevel(Divide(Cut, Leaf, LAMBDA b, it, e, l, r : Together(l, r, {}), 1, Size(s)))

-----------------------------------------------------------------------------
(* parallel_iota, parallel_transform, parallel_copy, parallel_move: the     *)
(* right half starts further on by the length of the left half.             *)

\* Mutant of Shift: the right half starts on the last element of the left one.
ShiftOneLess(b, it, x) == x + (it - b) - 1

Shift(b, it, x) == x + (it - b)

\* The answer of the right half is passed on.
AnswerOfRight(b, it, e, l, r) == Together(l, r, r.of.answer)

Iota(s, first) ==
    LET Leaf(b, e, x) ==
          Value(Effect({}, [c \in Cells("in", b, e) |-> x + c[2] - b], {}))
    IN  TopLevel(DivideAt(Int, Cut, Leaf, Shift, AnswerOfRight, 1, Size(s), first))

\* std_transform: one range; x is the position of result in dst.
TransformLeaf(s, dst, f, b, e, x) ==
    Applied(s, b, e, Effect(Cells("in", b, e),
        [c \in Cells(dst, x, x + (e - b)) |-> f[s[b + c[2] - x]]], x + (e - b)))

Transform(s, dst, f) ==
    TopLevel(DivideAt(Int, Cut, LAMBDA b, e, x : TransformLeaf(s, dst, f, b, e, x),
                      Shift, AnswerOfRight, 1, Size(s), 1))

\* A range held by reference is cut once, its halves are transformed by
\* iterators.
TransformRange(s, dst, f) == Transform(s, dst, f)

\* Two ranges: x is the position in the second range, which u holds, and
\* result is at the same distance.
TransformPairs(s, u, second, f, b, e, x) ==
    Value(Effect(Cells("in", b, e) \cup Cells(second, x, x + (e - b)),
        [c \in Cells("out", b, e) |-> f[s[c[2]], u[x + c[2] - b]]], e))

Transform2Task(s, u, second, f, from, to) ==
    DivideAt(Int, Cut, LAMBDA b, e, x : TransformPairs(s, u, second, f, b, e, x),
             Shift, AnswerOfRight, from, to, from)

Transform2(s, t, f) == TopLevel(Transform2Task(s, t, "in2", f, 1, Size(s)))

\* Two ranges held by reference: after the first cut the right half takes
\* its second range from the first one, boost::begin(range1_) + dist.
Transform2Range(s, t, f) ==
    LET it == Cut(1, Size(s))
        left == Posted(Transform2Task(s, t, "in2", f, 1, it))
        right == InPlace(Transform2Task(s, s, "in", f, it, Size(s)))
    IN  TopLevel(IF it = Size(s) THEN TransformPairs(s, t, "in2", f, 1, it, 1)
                 ELSE Joined(left, right, Together(left, right, right.of.answer)))

\* Any number of ranges: all of them are advanced by the same distance.
TransformAny(ss, f) ==
    LET n == Len(ss[1])
        Leaf(b, e, x) ==
          Value(Effect({}, [c \in Cells("out", x, x + (e - b)) |->
                              f[[k \in DOMAIN ss |-> ss[k][b + c[2] - x]]]], x + (e - b)))
    IN  TopLevel(DivideAt(Int, Cut, Leaf, Shift, AnswerOfRight, 1, n + 1, 1))

ReplaceCopyIf(s, value) == Transform(s, "out", Replaced(s, value))

ReplaceCopyIfContinuation(c, value) ==
    ThenUnguarded(c, LAMBDA s : ReplaceCopyIf(s, value))

ReplaceCopy(s, old, value) == Transform(s, "out", [x \in Range(s) |-> IF x = old THEN value ELSE x])

ReplaceCopyContinuation(c, old, value) ==
    ThenUnguarded(c, LAMBDA s : ReplaceCopy(s, old, value))

CopyLeaf(s, b, e, x) ==
    Applied(s, b, e, Effect(Cells("in", b, e),
        [c \in Cells("out", x, x + (e - b)) |-> s[b + c[2] - x]], {}))

Copy(s) ==
    TopLevel(DivideAt(Int, Cut, LAMBDA b, e, x : CopyLeaf(s, b, e, x),
                      Shift, AnswerOfRight, 1, Size(s), 1))

\* The moved range itself is the answer.
CopyRangeMove(s) ==
    LET o == Copy(s) IN IF IsValue(o) THEN Value(s) ELSE o

CopyContinuation(c) == ThenUnguarded(c, CopyRangeMove)

\* What is moved from keeps some value, written here as moved.
MoveLeaf(s, moved, b, e, x) ==
    LET out == Cells("out", x, x + (e - b)) IN
    Applied(s, b, e, Effect(Cells("in", b, e),
        [c \in out \cup Cells("in", b, e) |->
           IF c \in out THEN s[b + c[2] - x] ELSE moved], {}))

MoveRange(s, moved) ==
    TopLevel(DivideAt(Int, Cut, LAMBDA b, e, x : MoveLeaf(s, moved, b, e, x),
                      Shift, AnswerOfRight, 1, Size(s), 1))

\* The moved range is answered with what is left in it.
MoveRangeMove(s, moved) ==
    LET o == MoveRange(s, moved) IN
    IF IsValue(o) THEN Value(After(s, "in", o.of.wr)) ELSE o

MoveContinuation(c, moved) == ThenUnguarded(c, LAMBDA s : MoveRangeMove(s, moved))

\* Elements whose move constructor may throw are copied.
MoveIfNoexcept(s, moved, nothrow) == IF nothrow THEN MoveRange(s, moved) ELSE Copy(s)

SwapRanges(s, t) ==
    LET Leaf(b, e, x) ==
          LET all == Cells("in", b, e) \cup Cells("in2", x, x + (e - b)) IN
          Value(Effect(all, [c \in all |-> IF c[1] = "in" THEN t[x + c[2] - b]
                                           ELSE s[b + c[2] - x]], x + (e - b)))
    IN  TopLevel(DivideAt(Int, Cut, Leaf, Shift, AnswerOfRight, 1, Size(s), 1))

\* The first half of the range is divided; each task swaps its part with the
\* mirrored one.
ReverseInPlace(s) ==
    LET mirror(i) == Size(s) - i
        Leaf(b, e) ==
          LET all == Cells("in", b, e) \cup Cells("in", mirror(e) + 1, mirror(b) + 1) IN
          Value(Effect(all, [c \in all |-> s[mirror(c[2])]], {}))
    IN  TopLevel(Divide(Cut, Leaf, LAMBDA b, it, e, l, r : Together(l, r, {}),
                        1, 1 + Len(s) \div 2))

ReverseRangeMove(s) ==
    LET o == ReverseInPlace(s) IN IF IsValue(o) THEN Value(After(s, "in", o.of.wr)) ELSE o

ReverseContinuation(c) == ThenUnguarded(c, ReverseRangeMove)

-----------------------------------------------------------------------------
(* parallel_merge: the middle of the longer range is placed, then the parts *)
(* before and after it are merged.                                          *)

\* std::merge: equal elements of p come before those of q.
Merged(p, q, _ \prec _) ==
    LET from[n \in (1 .. Len(p) + 1) \X (1 .. Len(q) + 1)] ==
          LET i == n[1]
              j == n[2]
          IN IF i > Len(p) THEN Part(q, j, Len(q) + 1)
             ELSE IF j > Len(q) THEN Part(p, i, Len(p) + 1)
             ELSE IF q[j] \prec p[i] THEN <<q[j]>> \o from[<<i, j + 1>>]
             ELSE <<p[i]>> \o from[<<i + 1, j>>]
    IN  from[<<1, 1>>]

\* std::lower_bound and std::upper_bound of x in [b, e).
LowerBound(s, b, e, x, _ \prec _) ==
    LET not == {i \in b .. e - 1 : ~(s[i] \prec x)} IN
    IF not = {} THEN e ELSE CHOOSE i \in not : \A j \in not : i <= j

UpperBound(s, b, e, x, _ \prec _) ==
    LET after == {i \in b .. e - 1 : x \prec s[i]} IN
    IF after = {} THEN e ELSE CHOOSE i \in after : \A j \in after : i <= j

\* A task merges [b1, e1) of range p with [b2, e2) of range q into "out" from
\* out on; the longer one goes on as the first range.
MergeRanges(ranges, _ \prec _, from1, to1, from2, to2) ==
    LET P == 1 .. Len(ranges[1]) + 1
        Q == 1 .. Len(ranges[2]) + 1
        Positions == P \cup Q
        task[r \in {1, 2} \X Positions \X Positions \X Positions \X Positions \X Nat] ==
          LET swap == r[3] - r[2] < r[5] - r[4]
              p == IF swap THEN 3 - r[1] ELSE r[1]
              b1 == IF swap THEN r[4] ELSE r[2]
              e1 == IF swap THEN r[5] ELSE r[3]
              b2 == IF swap THEN r[2] ELSE r[4]
              e2 == IF swap THEN r[3] ELSE r[5]
              out == r[6]
              it1 == b1 + (e1 - b1) \div 2
              it2 == LowerBound(ranges[3 - p], b2, e2, ranges[p][it1], \prec)
              it3 == out + (it1 - b1) + (it2 - b2)
              both == Merged(Part(ranges[r[1]], r[2], r[3]),
                             Part(ranges[3 - r[1]], r[4], r[5]), \prec)
              left == Posted(task[<<p, b1, it1, b2, it2, out>>])
              right == InPlace(task[<<p, it1 + 1, e1, it2, e2, it3 + 1>>])
              middle == Value(Effect({}, [c \in {<<"out", it3>>} |-> ranges[p][it1]], {}))
          IN IF (r[3] - r[2]) + (r[5] - r[4]) <= cutoff
             THEN Value(Effect({}, [c \in Cells("out", out, out + Len(both)) |->
                                      both[c[2] - out + 1]], {}))
             ELSE Joined(left, right, Together(middle, Together(left, right, {}), {}))
    IN  TopLevel(task[<<1, from1, to1, from2, to2, 1>>])

MergeSorted(s, t, _ \prec _) == MergeRanges(<<s, t>>, \prec, 1, Size(s), 1, Size(t))

-----------------------------------------------------------------------------
(* parallel_unique: the task answers what it keeps of its range; the done   *)
(* functor moves the right part to the end of the left one.  The task has   *)
(* no try block, the done functor has.                                      *)

UniqueLeaf(s, b, e, _ \sim _) ==
    IF e - b >= 2 /\ \E i \in b .. e - 1 : Throws(s[i]) THEN Escaped
    ELSE Value(FoldLeft(LAMBDA kept, x : IF kept # <<>> /\ kept[Len(kept)] \sim x
                                         THEN kept ELSE Append(kept, x),
                        <<>>, Part(s, b, e)))

UniqueJoin(l, r, _ \sim _) ==
    IF Exception \in {l, r} THEN Exception
    ELSE LET last == l.of[Len(l.of)] IN
         IF Throws(last) \/ Throws(r.of[1]) THEN Exception
         ELSE Value(l.of \o IF last \sim r.of[1] THEN Tail(r.of) ELSE r.of)

Unique(s, _ \sim _) ==
    TopLevel(Divide(Cut, LAMBDA b, e : UniqueLeaf(s, b, e, \sim),
                    LAMBDA b, it, e, l, r : UniqueJoin(l, r, \sim), 1, Size(s)))

\* then_job, whose done functors have a try block, erases the rest.
UniqueContinuation(c, _ \sim _) == Then(c, LAMBDA s : Unique(s, \sim))

-----------------------------------------------------------------------------
(* Algorithms of two passes.  The first one answers a tree: the node of a   *)
(* task and the trees of its halves.  The second one cuts the range at the  *)
(* same places and goes down the tree with its tasks; it runs from the done *)
(* functor of the first, in a try block.                                    *)

Pass1(leaf, _ \star _, e) ==
    TopLevel(Divide(Cut,
        LAMBDA b, t : LET o == leaf[b, t] IN
                      IF IsValue(o) THEN Value([node |-> o.of, data |-> <<>>]) ELSE o,
        LAMBDA b, it, t, l, r :
            Both(l, r, [node |-> l.of.node \star r.of.node, data |-> <<l.of, r.of>>]),
        1, e))

\* The subtree at the end of a path from the root.
At(tree, path) == FoldLeft(LAMBDA d, k : d.data[k], tree, path)

\* x is what the task starts from; Right gives the start of the right half
\* from the node of the left one.
Pass2(tree, X, Leaf(_, _, _, _), Right(_, _), e, start) ==
    LET task[r \in (1 .. e) \X (1 .. e) \X Seq({1, 2}) \X X] ==
          LET it == Cut(r[1], r[2])
              left == Posted(task[<<r[1], it, Append(r[3], 1), r[4]>>])
              right == InPlace(task[<<it, r[2], Append(r[3], 2),
                                      Right(r[4], At(tree, Append(r[3], 1)).node)>>])
          IN IF it = r[2] THEN Leaf(r[1], r[2], At(tree, r[3]).node, r[4])
             ELSE Joined(left, right, AnswerOfRight(r[1], it, r[2], left, right))
    IN  TopLevel(task[<<1, e, <<>>, start>>])

\* What a pass writes: the elements xs, from position to on.
Written(array, to, xs) ==
    [c \in Cells(array, to, to + Len(xs)) |-> xs[c[2] - to + 1]]

Held(s) == [x \in Range(s) |-> Holds(x)]

\* The responses of P, and how many of them are true.
Responses(s, b, e, P) ==
    Applied(s, b, e, [true |-> Cardinality({i \in b .. e - 1 : P[s[i]]}),
                      false |-> Cardinality({i \in b .. e - 1 : ~P[s[i]]}),
                      values |-> [i \in 1 .. e - b |-> P[s[b + i - 1]]]])

AddResponses(l, r) ==
    [true |-> l.true + r.true, false |-> l.false + r.false, values |-> <<>>]

\* The elements from b on whose response is v.
Chosen(s, b, values, v) ==
    LET all == [i \in DOMAIN values |-> <<values[i], s[b + i - 1]>>]
        some == SelectSeq(all, LAMBDA p : p[1] = v)
    IN  [i \in DOMAIN some |-> some[i][2]]

CopyIfPart1(s, P) ==
    Pass1([b, e \in 1 .. Size(s) |-> Responses(s, b, e, P)], AddResponses, Size(s))

CopyIfPart2(s, tree) ==
    Pass2(tree, Nat,
          LAMBDA b, e, node, offset :
              Value(Effect({}, Written("out", offset + 1, Chosen(s, b, node.values, TRUE)), {})),
          LAMBDA offset, node : offset + node.true, Size(s), 0)

\* The answer of both passes, which is set by the done functor of the second.
BothPasses(p1, p2, answer) ==
    IF ~IsValue(p1) THEN p1
    ELSE IF ~IsValue(p2) THEN p2
    ELSE Value([p2.of EXCEPT !.answer = answer])

\* Answers the end of what was copied.
CopyIf(s, P) ==
    LET p1 == CopyIfPart1(s, P) IN
    BothPasses(p1, CopyIfPart2(s, p1.of), p1.of.node.true + 1)

RemoveCopyIf(s) == CopyIf(s, [x \in Range(s) |-> ~Holds(x)])

PartitionCopyPart1(s) ==
    Pass1([b, e \in 1 .. Size(s) |-> Responses(s, b, e, Held(s))], AddResponses, Size(s))

\* x: how many elements were copied to "out" and to "out2" before; the
\* functor is asked once more.  The answer is the pair of ends.
PartitionCopyPart2(s, tree) ==
    Pass2(tree, Nat \X Nat,
          LAMBDA b, e, node, x :
              LET again == Responses(s, b, e, Held(s)).of.values
                  yes == Written("out", x[1] + 1, Chosen(s, b, again, TRUE))
                  no == Written("out2", x[2] + 1, Chosen(s, b, again, FALSE))
              IN Value(Effect({}, [c \in DOMAIN yes \cup DOMAIN no |->
                                     IF c \in DOMAIN yes THEN yes[c] ELSE no[c]],
                              <<x[1] + 1 + Cardinality(DOMAIN yes),
                                x[2] + 1 + Cardinality(DOMAIN no)>>)),
          LAMBDA x, node : <<x[1] + node.true, x[2] + node.false>>, Size(s), <<0, 0>>)

PartitionCopy(s) ==
    LET p1 == PartitionCopyPart1(s) IN
    IF IsValue(p1) THEN PartitionCopyPart2(s, p1.of) ELSE p1

StablePartitionPart1(s) ==
    Pass1([b, e \in 1 .. Size(s) |-> Responses(s, b, e, Held(s))], AddResponses, Size(s))

\* The false elements start after all the true ones.
StablePartitionPart2(s, tree) ==
    Pass2(tree, Nat \X Nat,
          LAMBDA b, e, node, x :
              LET yes == Written("out", x[1] + 1, Chosen(s, b, node.values, TRUE))
                  no == Written("out", tree.node.true + x[2] + 1,
                                Chosen(s, b, node.values, FALSE))
              IN Value(Effect({}, [c \in DOMAIN yes \cup DOMAIN no |->
                                     IF c \in DOMAIN yes THEN yes[c] ELSE no[c]], {})),
          LAMBDA x, node : <<x[1] + node.true, x[2] + node.false>>, Size(s), <<0, 0>>)

StablePartition(s) ==
    LET p1 == StablePartitionPart1(s) IN
    BothPasses(p1, StablePartitionPart2(s, p1.of), p1.of.node.true + 1)

\* The range is partitioned into a new one, which is the answer with the
\* position of the first false element.
StablePartitionRangeMove(s) ==
    LET o == StablePartition(s) IN
    IF IsValue(o) THEN Value(<<After(s, "out", o.of.wr), o.of.answer>>) ELSE o

StablePartitionContinuation(c) == ThenUnguarded(c, StablePartitionRangeMove)

-----------------------------------------------------------------------------
(* parallel_scan: the first pass reduces, the second starts every task with *)
(* the reduction of what is before it.                                      *)

\* The reduction of the whole range, without init, is the answer.
Scan(s, dst, reduce, _ \star _, scan, init) ==
    LET p1 == Pass1([b, e \in 1 .. Size(s) |-> Applied(s, b, e, reduce[Part(s, b, e)])],
                    \star, Size(s))
        p2 == Pass2(p1.of, Int,
                    LAMBDA b, e, node, x :
                        Value(Effect(Cells("in", b, e),
                                     Written(dst, b, scan[Part(s, b, e), x]), {})),
                    \star, Size(s), init)
    IN  BothPasses(p1, p2, p1.of.node)

\* What the algorithms below give to it: t is applied to the elements; the
\* reduction starts with T(), which is 0.
ScanReduce(xs, _ \star _, t) == FoldLeft(LAMBDA r, x : r \star t[x], 0, xs)

\* The n-th output is init and the first n elements.
InclusiveScan(xs, _ \star _, t, init) ==
    [n \in DOMAIN xs |-> FoldLeft(LAMBDA r, x : r \star t[x], init, SubSeq(xs, 1, n))]

\* The n-th output is init and the first n - 1 elements.
ExclusiveScan(xs, _ \star _, t, init) ==
    [n \in DOMAIN xs |-> FoldLeft(LAMBDA r, x : r \star t[x], init, SubSeq(xs, 1, n - 1))]

TransformInclusiveScan(s, dst, _ \star _, t, init) ==
    Scan(s, dst, [xs \in Seq(Range(s)) |-> ScanReduce(xs, \star, t)], \star,
         [xs \in Seq(Range(s)), x \in Int |-> InclusiveScan(xs, \star, t, x)], init)

TransformExclusiveScan(s, dst, _ \star _, t, init) ==
    Scan(s, dst, [xs \in Seq(Range(s)) |-> ScanReduce(xs, \star, t)], \star,
         [xs \in Seq(Range(s)), x \in Int |-> ExclusiveScan(xs, \star, t, x)], init)

ParallelInclusiveScan(s, dst, _ \star _, init) ==
    TransformInclusiveScan(s, dst, \star, [x \in Range(s) |-> x], init)

ParallelExclusiveScan(s, dst, _ \star _, init) ==
    TransformExclusiveScan(s, dst, \star, [x \in Range(s) |-> x], init)

PartialSum(s, dst, _ \star _) == ParallelInclusiveScan(s, dst, \star, 0)

\* A range that is both input and output is answered as the tasks left it.
InclusiveScanRangeMove(s, _ \star _, init) ==
    LET o == ParallelInclusiveScan(s, "in", \star, init) IN
    IF IsValue(o) THEN Value(After(s, "in", o.of.wr)) ELSE o

InclusiveScanContinuation(c, _ \star _, init) ==
    Then(c, LAMBDA s : InclusiveScanRangeMove(s, \star, init))

-----------------------------------------------------------------------------
(* Operations on sorted ranges: elements of which none is before the other  *)
(* are a group, and a group is never divided.                               *)

\* The end of the group at the cut.
GroupCut(s, _ \prec _, b, e) ==
    LET it == Cut(b, e) IN
    IF it = e THEN e ELSE UpperBound(s, it, e, s[it], \prec)

\* Answers the parts the functor was called with.
GroupedFor(s, _ \prec _) ==
    TopLevel(Divide(LAMBDA b, e : GroupCut(s, \prec, b, e),
                    LAMBDA b, e : Applied(s, b, e, {<<b, e>>}),
                    LAMBDA b, it, e, l, r : Both(l, r, l.of \cup r.of), 1, Size(s)))

GroupedForRangeMove(s, _ \prec _) ==
    LET o == GroupedFor(s, \prec) IN IF IsValue(o) THEN Value(s) ELSE o

GroupedForContinuation(c, _ \prec _) ==
    Then(c, LAMBDA s : GroupedForRangeMove(s, \prec))

\* block[xs] is what the functor writes for the part xs, from its own output
\* position x on.
GroupedTransform(s, _ \prec _, block) ==
    TopLevel(DivideAt(Int, LAMBDA b, e : GroupCut(s, \prec, b, e),
        LAMBDA b, e, x : Applied(s, b, e, Effect(Cells("in", b, e),
                                                 Written("out", x, block[Part(s, b, e)]), x + (e - b))),
        Shift, AnswerOfRight, 1, Size(s), 1))

\* A moved range is transformed into a new one, which is the answer.
GroupedTransformRangeMove(s, _ \prec _, block) ==
    LET o == GroupedTransform(s, \prec, block) IN
    IF IsValue(o) THEN Value(After(s, "out", o.of.wr)) ELSE o

GroupedTransformContinuation(c, _ \prec _, block) ==
    Then(c, LAMBDA s : GroupedTransformRangeMove(s, \prec, block))

\* group_by_helper_1: the groups of s, in order.
Groups(s, _ \prec _) ==
    LET from[i \in 1 .. Size(s)] ==
          IF i = Size(s) THEN <<>>
          ELSE LET next == UpperBound(s, i, Size(s), s[i], \prec) IN
               <<Part(s, i, next)>> \o from[next]
    IN  from[1]

\* The output has a slot for every element; those that stay empty are
\* removed by parallel_find_all.
GroupBy(s, _ \prec _) ==
    LET o == GroupedTransform(s, \prec, [xs \in Seq(Range(s)) |-> Groups(xs, \prec)])
        slots == After([i \in DOMAIN s |-> <<>>], "out", o.of.wr)
    IN  IF ~IsValue(o) THEN o
        ELSE TopLevel(Divide(Cut,
                 LAMBDA b, e : Value(SelectSeq(Part(slots, b, e), LAMBDA g : g # <<>>)),
                 LAMBDA b, it, e, l, r : Both(l, r, l.of \o r.of), 1, Size(s)))

GroupByRangeMove(s, _ \prec _) == GroupBy(s, \prec)

GroupByContinuation(c, _ \prec _) == Then(c, LAMBDA s : GroupBy(s, \prec))

\* parallel_flatten: the sizes are scanned into offsets, then every inner
\* range is moved to its offset, by index.
Flatten(ss) ==
    LET sizes == [i \in DOMAIN ss |-> Len(ss[i])]
        o == TransformExclusiveScan(sizes, "out", +, [n \in Range(sizes) |-> n], 0)
        offsets == After(sizes, "out", o.of.wr)
        leaf[b \in 0 .. Len(ss), e \in 0 .. Len(ss)] ==
          LET parts == UNION {Cells("out", offsets[i + 1] + 1, offsets[i + 1] + 1 + sizes[i + 1]) :
                              i \in b .. e - 1}
              inner(c) == CHOOSE i \in b + 1 .. e :
                            c[2] > offsets[i] /\ c[2] <= offsets[i] + sizes[i]
          IN Value(Effect({}, [c \in parts |-> ss[inner(c)][c[2] - offsets[inner(c)]]], {}))
        moved == ForIndex(0, Len(ss), leaf)
    IN  IF ~IsValue(o) THEN o
        ELSE IF ~IsValue(moved) THEN moved
        ELSE Value(After([i \in 1 .. o.of.answer |-> 0], "out", moved.of.wr))

\* A moved range of ranges is kept until its elements have been moved out.
FlattenRangeMove(ss) == Flatten(ss)

FlattenContinuation(c) == Then(c, Flatten)
=============================================================================
