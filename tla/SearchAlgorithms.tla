-------------------------- MODULE SearchAlgorithms --------------------------
(***************************************************************************)
(* The algorithms of algorithm/ that only read their range: counting,      *)
(* searching, comparing, testing and reducing.  Each definition is the     *)
(* task of one header: what its leaf computes with the standard algorithm  *)
(* and how its done functor joins the answers of the two halves.           *)
(***************************************************************************)
EXTENDS ForkJoin, SequencesExt

CONSTANT Holds(_)             \* the caller's predicate

Size(s) == Len(s) + 1         \* the end position of s

-----------------------------------------------------------------------------
(* parallel_all_of, parallel_any_of, parallel_none_of share a helper; op    *)
(* says which.  stopped is the set of tasks [b, e) that find the shared     *)
(* stop event set when they look.  The leaf's subarrays are consecutive     *)
(* parts of its range, looked at in order.                                  *)

CancelValue(op) == op = "any"

\* Mutant of Merge: the answers are joined the same way for all three.
MergeAll(op, x, y) == x /\ y

Merge(op, x, y) == IF op = "any" THEN x \/ y ELSE x /\ y

\* The sequential algorithm: it stops at the element that decides.
Decided(op, s, b, e) ==
    LET o == First(s, b, e, LAMBDA x : Holds(x) = (op # "all")) IN
    IF o = Exception THEN Escaped
    ELSE Value(IF o.of < e THEN CancelValue(op) ELSE ~CancelValue(op))

AllOfHelper(op, s, stopped) ==
    LET task[r \in (1 .. Size(s)) \X (1 .. Size(s))] ==
          LET b == r[1]
              e == r[2]
              it == Cut(b, e)
              l == Posted(task[<<b, it>>])
              h == InPlace(task[<<it, e>>])
          IN IF it = e
             THEN IF r \in stopped THEN Value(TRUE) ELSE Decided(op, s, b, e)
             ELSE IF r \in stopped THEN Value(CancelValue(op))
             ELSE Joined(l, h, Both(l, h, Merge(op, l.of, h.of)))
    IN  TopLevel(task[<<1, Size(s)>>])

AllOf(s, stopped)  == AllOfHelper("all", s, stopped)
AnyOf(s, stopped)  == AllOfHelper("any", s, stopped)
NoneOf(s, stopped) == AllOfHelper("none", s, stopped)

AllOfContinuation(c)  == ThenUnguarded(c, LAMBDA s : AllOf(s, {}))
AnyOfContinuation(c)  == ThenUnguarded(c, LAMBDA s : AnyOf(s, {}))
NoneOfContinuation(c) == ThenUnguarded(c, LAMBDA s : NoneOf(s, {}))

-----------------------------------------------------------------------------
(* parallel_count_if, parallel_find_all *)

CountLeaf(s, b, e) ==
    Applied(s, b, e, Cardinality({i \in b .. e - 1 : Holds(s[i])}))

CountIf(s) ==
    TopLevel(Divide(Cut, LAMBDA b, e : CountLeaf(s, b, e),
                    LAMBDA b, it, e, l, r : Both(l, r, l.of + r.of), 1, Size(s)))

\* A range held by reference, or moved into the task, is cut once by a task of
\* its own; the subtasks are those of the iterators.
CountIfRange(s) == CountIf(s)
CountIfRangeMove(s) == CountIf(s)

CountIfSerializable(s) ==
    TopLevel(DivideCopies(LAMBDA r : CountLeaf(r, 1, Size(r)),
                          LAMBDA l, h : Both(l, h, l.of + h.of), s))

CountIfContinuation(c) == ThenUnguarded(c, CountIf)

FindAllLeaf(s, b, e) == Applied(s, b, e, SelectSeq(Part(s, b, e), Holds))

FindAll(s) ==
    TopLevel(Divide(Cut, LAMBDA b, e : FindAllLeaf(s, b, e),
                    LAMBDA b, it, e, l, r : Both(l, r, l.of \o r.of), 1, Size(s)))

FindAllRange(s) == FindAll(s)
FindAllRangeMove(s) == FindAll(s)

FindAllSerializable(s) ==
    TopLevel(DivideCopies(LAMBDA r : FindAllLeaf(r, 1, Size(r)),
                          LAMBDA l, h : Both(l, h, l.of \o h.of), s))

FindAllContinuation(c) == ThenUnguarded(c, FindAll)

-----------------------------------------------------------------------------
(* parallel_reduce, parallel_extremum, parallel_inner_product *)

\* An empty range answers a default-constructed element.
ReduceLeaf(s, b, e, _ \star _) ==
    IF b = e THEN Value(0)
    ELSE Applied(s, b, e, FoldLeft(\star, s[b], Part(s, b + 1, e)))

Reduce(s, _ \star _) ==
    TopLevel(Divide(Cut, LAMBDA b, e : ReduceLeaf(s, b, e, \star),
                    LAMBDA b, it, e, l, r : Both(l, r, l.of \star r.of), 1, Size(s)))

ReduceRange(s, _ \star _) == Reduce(s, \star)
ReduceRangeMove(s, _ \star _) == Reduce(s, \star)

ReduceSerializable(s, _ \star _) ==
    TopLevel(DivideCopies(LAMBDA r : ReduceLeaf(r, 1, Size(r), \star),
                          LAMBDA l, h : Both(l, h, l.of \star h.of), s))

ReduceContinuation(c, _ \star _) == ThenUnguarded(c, LAMBDA s : Reduce(s, \star))

\* selector: a when c(a, b), else b.
Extremum(s, _ \prec _) ==
    Reduce(s, LAMBDA x, y : IF x \prec y THEN x ELSE y)

InnerLeaf(s, t, b, e) ==
    LET prod == [i \in 1 .. e - b |-> s[b + i - 1] * t[b + i - 1]] IN
    Applied(s, b, e, FoldLeft(LAMBDA x, y : x + y, 0, prod))

\* An empty range answers the value; otherwise the value is reduced with the
\* result of the task, by invoke.
WithInit(s, init, o) ==
    IF s = <<>> THEN Value(init)
    ELSE IF IsValue(o) THEN Value(init + o.of) ELSE o

InnerProduct(s, t, init) ==
    WithInit(s, init,
        TopLevel(Divide(Cut, LAMBDA b, e : InnerLeaf(s, t, b, e),
                        LAMBDA b, it, e, l, r : Both(l, r, l.of + r.of), 1, Size(s))))

InnerProductRangeMove(s, t, init) == InnerProduct(s, t, init)

\* A stolen task is given a copy of its part of both ranges.
InnerProductSerializable(s, t, init) ==
    LET Ones(r) == [i \in DOMAIN r |-> r[i][1]]
        Twos(r) == [i \in DOMAIN r |-> r[i][2]]
    IN WithInit(s, init,
           TopLevel(DivideCopies(LAMBDA r : InnerLeaf(Ones(r), Twos(r), 1, Size(r)),
                                 LAMBDA l, h : Both(l, h, l.of + h.of),
                                 [i \in DOMAIN s |-> <<s[i], t[i]>>])))

\* Both ranges come from continuations.
InnerProductContinuation(c, d, init) ==
    LET o == IF ~IsValue(c) THEN c ELSE IF ~IsValue(d) THEN d ELSE InnerProduct(c.of, d.of, 0)
    IN  IF IsValue(o) THEN Value(init + o.of) ELSE o

-----------------------------------------------------------------------------
(* Searches: a position, or the end of the range.                           *)

\* The elements i and i + 1 are compared; a range of one has no pair.
AdjacentFind(s, _ \sim _) ==
    LET Hit(i) == s[i] \sim s[i + 1]
        Bad(i) == Throws(s[i]) \/ Throws(s[i + 1])
        Leaf(b, e) ==
          LET o == FirstAt(b, e - 1, Bad, Hit) IN
          IF o = Value(e - 1) THEN Value(e) ELSE o
        Join(b, it, e, l, r) ==
          LET prev == CutAndPrev(b, e)[1] IN
          IF l = Exception THEN Exception
          ELSE IF l.of # it THEN l
          ELSE IF Bad(prev) THEN Exception
          ELSE IF Hit(prev) THEN Value(prev)
          ELSE r
    IN  TopLevel(Divide(LAMBDA b, e : CutAndPrev(b, e)[2], Leaf, Join, 1, Size(s)))

FindFirstOf(s, t) ==
    LET Leaf(b, e) == First(s, b, e, LAMBDA x : \E k \in DOMAIN t : t[k] = x)
        Join(b, it, e, l, r) == Both(l, r, IF l.of = it THEN r.of ELSE l.of)
    IN  TopLevel(Divide(Cut, Leaf, Join, 1, Size(s)))

\* The second range comes from a continuation.
PatternFrom(c, s, Algorithm(_)) ==
    IF IsValue(c) THEN Rethrown(Algorithm(c.of), Size(s)) ELSE c

FindFirstOfContinuation(s, c) == PatternFrom(c, s, LAMBDA t : FindFirstOf(s, t))

\* Where t occurs in [b, e): all positions.
Occurrences(s, t, b, e) ==
    {i \in b .. e - Len(t) : \A k \in 1 .. Len(t) : s[i + k - 1] = t[k]}

FirstOccurrence(s, t, b, e) ==
    LET o == Occurrences(s, t, b, e) IN
    IF o = {} THEN e ELSE CHOOSE i \in o : \A j \in o : i <= j

\* An empty pattern is found at the end.
LastOccurrence(s, t, b, e) ==
    LET o == Occurrences(s, t, b, e) IN
    IF o = {} \/ t = <<>> THEN e ELSE CHOOSE i \in o : \A j \in o : j <= i

\* What the done functors of search and find_end hold as the pattern: beg2 is
\* initialised with end2_.
OverlapPattern(t) == <<>>

SearchLeaf(s, t, b, e) == Value(FirstOccurrence(s, t, b, e))

SearchJoin(s, t, it, e, l, r) ==
    LET n == Len(OverlapPattern(t))
        o == FirstOccurrence(s, OverlapPattern(t), it - n, it + n)
    IN Both(l, r, IF l.of # it THEN l.of
                  ELSE IF o # it + n THEN o
                  ELSE r.of)

Search(s, t) ==
    TopLevel(Divide(Cut, LAMBDA b, e : SearchLeaf(s, t, b, e),
                    LAMBDA b, it, e, l, r : SearchJoin(s, t, it, e, l, r), 1, Size(s)))

SearchContinuation(s, c) == PatternFrom(c, s, LAMBDA t : Search(s, t))

FindEndJoin(s, t, it, e, l, r) ==
    LET n == Len(OverlapPattern(t))
        o == LastOccurrence(s, OverlapPattern(t), it - n, it + n)
    IN Both(l, r, IF r.of # e THEN r.of
                  ELSE IF o # it + n THEN o
                  ELSE IF l.of # it THEN l.of
                  ELSE e)

FindEnd(s, t) ==
    TopLevel(Divide(Cut, LAMBDA b, e : Value(LastOccurrence(s, t, b, e)),
                    LAMBDA b, it, e, l, r : FindEndJoin(s, t, it, e, l, r), 1, Size(s)))

FindEndContinuation(s, c) == PatternFrom(c, s, LAMBDA t : FindEnd(s, t))

\* count copies of value; the overlap is count elements on either side of the
\* cut, wherever the halves begin and end.
SearchN(s, count, value) ==
    LET run == [k \in 1 .. count |-> value]
        Join(b, it, e, l, r) ==
          LET o == FirstOccurrence(s, run, it - count, it + count) IN
          IF l.of # it THEN l
          ELSE IF it - count < 1 \/ it + count > Size(s) THEN Undefined
          ELSE Value(IF o # it + count THEN o ELSE r.of)
    IN  TopLevel(Divide(Cut, LAMBDA b, e : SearchLeaf(s, run, b, e), Join, 1, Size(s)))

-----------------------------------------------------------------------------
(* Comparing two ranges: t has at least as many elements as s, but for       *)
(* parallel_lexicographical_compare, which cuts each range on its own.       *)

Mismatch(s, t) ==
    LET Bad(i) == Throws(s[i]) \/ Throws(t[i])
        Leaf(b, e) == FirstAt(b, e, Bad, LAMBDA i : s[i] # t[i])
        Join(b, it, e, l, r) == IF l = Value(it) THEN r ELSE l
    IN  TopLevel(Divide(Cut, Leaf, Join, 1, Size(s)))

Equal(s, t) ==
    LET Bad(i) == Throws(s[i]) \/ Throws(t[i])
        Leaf(b, e) ==
          LET o == FirstAt(b, e, Bad, LAMBDA i : s[i] # t[i]) IN
          IF o = Exception THEN o ELSE Value(o = Value(e))
        Join(b, it, e, l, r) == Both(l, r, l.of /\ r.of)
    IN  TopLevel(Divide(Cut, Leaf, Join, 1, Size(s)))

\* std::lexicographical_compare of two sequences.
Lexicographical(s, t) ==
    \E n \in 0 .. Least(Len(s), Len(t)) :
        /\ \A i \in 1 .. n : s[i] = t[i]
        /\ IF n = Len(s) THEN n < Len(t)
           ELSE n < Len(t) /\ s[n + 1] < t[n + 1]

\* A range is not divided further once one of the two cannot be cut.
LexicographicalCompare(s, t) ==
    LET Ranges == (1 .. Size(s)) \X (1 .. Size(s)) \X (1 .. Size(t)) \X (1 .. Size(t))
        task[r \in Ranges] ==
          LET it1 == Cut(r[1], r[2])
              it2 == Cut(r[3], r[4])
              l == Posted(task[<<r[1], it1, r[3], it2>>])
              h == InPlace(task[<<it1, r[2], it2, r[4]>>])
          IN IF it1 = r[2] \/ it2 = r[4]
             THEN Value(Lexicographical(Part(s, r[1], r[2]), Part(t, r[3], r[4])))
             ELSE Joined(l, h, Both(l, h, l.of \/ h.of))
    IN  TopLevel(task[<<1, Size(s), 1, Size(t)>>])

-----------------------------------------------------------------------------
(* Testing the order of a range.                                            *)

\* before is a strict order; a pair out of order at the cut ends the task.
IsSortedRange(s, _ \prec _) ==
    LET Inverted(b, e) == Cut(b, e) # e /\ s[Cut(b, e)] \prec s[Cut(b, e) - 1]
        Leaf(b, e) ==
          Value(~Inverted(b, e) /\ \A i \in b .. e - 2 : ~(s[i + 1] \prec s[i]))
        Join(b, it, e, l, r) == Both(l, r, l.of /\ r.of)
    IN  TopLevel(Divide(LAMBDA b, e : IF Inverted(b, e) THEN e ELSE Cut(b, e),
                        Leaf, Join, 1, Size(s)))

\* reverse_sorted swaps the arguments.
IsReverseSorted(s, _ \prec _) == IsSortedRange(s, LAMBDA x, y : y \prec x)

\* parallel_is_partitioned_state at the first and at the last element.
State(x) == IF Holds(x) THEN "true_" ELSE "false_"

IsPartitioned(s) ==
    LET error == <<"error_", "error_">>
        Leaf(b, e) ==
          LET o == FirstAt(b, e, LAMBDA i : Throws(s[i]),
                           LAMBDA i : i > b /\ ~Holds(s[i - 1]) /\ Holds(s[i]))
          IN IF b = e THEN Undefined
             ELSE IF o = Exception THEN Exception
             ELSE Value(IF o.of < e THEN error ELSE <<State(s[b]), State(s[e - 1])>>)
        Join(b, it, e, l, r) ==
          Both(l, r, IF error \in {l.of, r.of} \/ <<l.of[2], r.of[1]>> = <<"false_", "true_">>
                     THEN error ELSE <<l.of[1], r.of[2]>>)
        o == TopLevel(Divide(Cut, Leaf, Join, 1, Size(s)))
    IN  IF IsValue(o) THEN Value(o.of # error) ELSE o

-----------------------------------------------------------------------------
(* parallel_kmp: every position of the needle t in the haystack s.          *)

\* build_kmp_failure_function; indices from 0, -1 is "before the needle".
FailureFunction(t) ==
    LET Step(st, i) ==
          LET T == [st.T EXCEPT ![i] = IF t[i + 1] = t[st.candidate + 1]
                                       THEN st.T[st.candidate] ELSE st.candidate]
              back[c \in -1 .. Len(t)] ==
                IF c >= 0 /\ t[i + 1] # t[c + 1] THEN back[T[c]] ELSE c
              next == IF t[i + 1] = t[st.candidate + 1] THEN st.candidate
                      ELSE back[T[st.candidate]]
          IN [T |-> T, candidate |-> next + 1]
        start == [T |-> [i \in 0 .. Len(t) |-> IF i = 0 THEN -1 ELSE 0], candidate |-> 0]
        end == FoldLeft(Step, start, [i \in 1 .. Len(t) - 1 |-> i])
    IN  [end.T EXCEPT ![Len(t)] = end.candidate]

\* kmp_matcher: the haystack position h and the needle position n.
KmpMatches(s, t, b, e) ==
    LET T == FailureFunction(t)
        at[p \in (b .. e) \X (0 .. Len(t))] ==
          LET h == p[1]
              n == p[2]
          IN IF h = e THEN <<>>
             ELSE IF s[h] = t[n + 1]
             THEN IF n + 1 = Len(t) THEN <<h + 1 - Len(t)>> \o at[<<h + 1, T[n + 1]>>]
                  ELSE at[<<h + 1, n + 1>>]
             ELSE IF T[n] < 0 THEN at[<<h + 1, 0>>] ELSE at[<<h, T[n]>>]
    IN  at[<<b, 0>>]

\* The left half is longer by the needle's length less one.
Kmp(s, t) ==
    LET Padded(b, e) == Least(Cut(b, e) + Len(t) - 1, e)
        task[r \in (1 .. Size(s)) \X (1 .. Size(s))] ==
          LET l == Posted(task[<<r[1], Padded(r[1], r[2])>>])
              h == InPlace(task[<<Cut(r[1], r[2]), r[2]>>])
          IN IF Padded(r[1], r[2]) = r[2]
             THEN Value(KmpMatches(s, t, r[1], r[2]))
             ELSE Joined(l, h, Both(l, h, l.of \o h.of))
    IN  IF t = <<>> THEN Value(<<>>) ELSE TopLevel(task[<<1, Size(s)>>])

\* Haystack and needle may each come from a continuation, by then_job.
KmpArguments(c, d) == Then(c, LAMBDA s : Then(d, LAMBDA t : Kmp(s, t)))
=============================================================================
