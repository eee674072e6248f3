------------------------------- MODULE Placement -------------------------------
(***************************************************************************)
(* parallel_placement: constructs the elements of a range of raw memory in *)
(* parallel, and cleans up when a constructor throws.                      *)
(*                                                                         *)
(* An outcome says how often each cell was constructed and destroyed, and  *)
(* which answers the task has set: a leaf whose constructor has thrown     *)
(* goes on and answers again, so that there can be several.                *)
(***************************************************************************)
EXTENDS ForkJoin

CONSTANT Fails(_)             \* the constructor of this cell throws

Success == "success"
Handled == "error_handled"
NotHandled == "error_not_handled"

\* How often each of the cells 1 .. n is named in a sequence of ranges.
Outcome(built, destroyed, answers) ==
    [built |-> built, destroyed |-> destroyed, answers |-> answers]

Plus(f, g) == [i \in DOMAIN f |-> f[i] + g[i]]

Once(n, set) == [i \in 1 .. n |-> IF i \in set THEN 1 ELSE 0]

\* Every constructor that throws has the cells before it destroyed and answers;
\* the loop goes on, and in the end success is answered.
PlacementLeaf(n, b, e) ==
    LET failed == {i \in b .. e - 1 : Fails(i)} IN
    Outcome(Once(n, (b .. e - 1) \ failed),
            [i \in 1 .. n |-> IF i \in b .. e - 1 THEN Cardinality({k \in failed : i < k}) ELSE 0],
            [k \in 1 .. Cardinality(failed) + 1 |->
               IF k <= Cardinality(failed) THEN NotHandled ELSE Success])

\* What the done functor destroys and answers.
PlacementJoin(n, b, it, e, left, right) ==
    IF left = Success /\ right = Success THEN [destroyed |-> {}, answer |-> Success]
    ELSE IF left = NotHandled /\ right = NotHandled THEN [destroyed |-> {}, answer |-> Handled]
    ELSE [destroyed |-> IF left = NotHandled THEN it .. e - 1 ELSE b .. it - 1,
          answer |-> Handled]

\* The versions for an initial value and for iterators count the second half
\* from the beginning of the first one.
PlacementJoinRaw(n, b, it, e, left, right) ==
    IF left = NotHandled /\ right # NotHandled
    THEN [destroyed |-> b .. b + (e - it) - 1, answer |-> Handled]
    ELSE PlacementJoin(n, b, it, e, left, right)

\* The continuation counts answers, whoever gives them: it is done at the third
\* of the answers of both halves and the call of on_done, with what has been
\* answered until then (nothing is a success).  It is lost when three answers
\* come before on_done, which follows the right half if that is a leaf.
PlacementJoined(raw, n, b, it, e, l, r, leaf) ==
    LET nl == Len(l.answers)
        nr == Len(r.answers)
        built == Plus(l.built, r.built)
        destroyed == Plus(l.destroyed, r.destroyed)
        Last(o, k) == IF k = 0 THEN Success ELSE o.answers[k]
        Join(left, right) == IF raw THEN PlacementJoinRaw(n, b, it, e, left, right)
                             ELSE PlacementJoin(n, b, it, e, left, right)
    IN  {LET j == Join(Last(l, p[1]), Last(r, p[2])) IN
         Outcome(built, Plus(destroyed, Once(n, j.destroyed)), <<j.answer>>) :
           p \in {p \in (0 .. nl) \X (0 .. nr) : p[1] + p[2] = 2 /\ (leaf => p[2] = nr)}}
        \cup (IF nl + nr # 2 THEN {Outcome(built, destroyed, <<>>)} ELSE {})

\* All outcomes of the construction of the cells 1 .. n.
PlacementTask(raw, n) ==
    LET Split(b, e) == IF e - b <= cutoff THEN e ELSE b + (e - b) \div 2
        task[r \in (1 .. n + 1) \X (1 .. n + 1)] ==
          LET b == r[1]
              e == r[2]
              it == Split(b, e)
          IN IF it = e THEN {PlacementLeaf(n, b, e)}
             ELSE UNION {PlacementJoined(raw, n, b, it, e, left, right, Split(it, e) = e) :
                           left \in task[<<b, it>>], right \in task[<<it, e>>]}
    IN  task[<<1, n + 1>>]

\* The continuation of the top level waits for one answer and on_done, which
\* comes after the answers of a leaf.
TopLevelPlacement(o) == IF Len(o.answers) = 1 THEN o ELSE [o EXCEPT !.answers = <<>>]

ParallelPlacement(n) == {TopLevelPlacement(o) : o \in PlacementTask(FALSE, n)}

ParallelPlacementRaw(n) == {TopLevelPlacement(o) : o \in PlacementTask(TRUE, n)}

ParallelPlacementIterators(n) == ParallelPlacementRaw(n)

\* parallel_placement_delete
PlacementDelete(n, b, e) ==
    LET Split(x, y) == IF y - x <= cutoff THEN y ELSE x + (y - x) \div 2
        task[r \in (b .. e) \X (b .. e)] ==
          LET it == Split(r[1], r[2]) IN
          IF it = r[2] THEN Once(n, r[1] .. r[2] - 1) ELSE Plus(task[<<r[1], it>>], task[<<it, r[2]>>])
    IN  task[<<b, e>>]
=============================================================================
