--------------------------- MODULE TaskCombinators ---------------------------
(***************************************************************************)
(* Combining continuations: all_of, any_of, invoke, parallel_invoke,       *)
(* if_then_else, if_, else_if, else_.  The continuations that are combined *)
(* end in any order: order is the order in which their done functors pass  *)
(* the atomic counter that they share.                                     *)
(***************************************************************************)
EXTENDS ForkJoin, SequencesExt

-----------------------------------------------------------------------------
(* all_of and any_of.  Both give the sequence of the answers they set.      *)

\* A result is stored at its place before the count goes down; whoever brings
\* it to zero answers.  Every failure answers at once.
AllOfTasks(results, order) ==
    LET Done(st, i) ==
          IF ~IsValue(results[i]) THEN [st EXCEPT !.answers = Append(@, Exception)]
          ELSE LET values == [st.values EXCEPT ![i] = results[i].of] IN
               [values |-> values, count |-> st.count - 1,
                answers |-> IF st.count = 1 THEN Append(st.answers, Value(values))
                            ELSE st.answers]
    IN  FoldLeft(Done, [values |-> results, count |-> Len(results), answers |-> <<>>],
                 order).answers

\* The same for a vector, which may be empty.
AllOfVector(results, order) == AllOfTasks(results, order)

\* Mutant of AnyOfTasks: the first failure answers.
AnyOfTasksFailsEarly(results, order, hasValue) ==
    LET i == Head(order) IN
    IF IsValue(results[i]) THEN << Value(<<i, results[i].of>>) >> ELSE << Exception >>

\* The first value answers, with its index; the last one of as many failures
\* as there are continuations answers as well.  hasValue is an atomic_flag
\* which the constructor does not clear.
AnyOfTasks(results, order, hasValue) ==
    LET Done(st, i) ==
          IF IsValue(results[i])
          THEN [st EXCEPT !.hasValue = TRUE,
                          !.answers = IF st.hasValue THEN @
                                      ELSE Append(@, Value(<<i, results[i].of>>))]
          ELSE [st EXCEPT !.failures = @ - 1,
                          !.answers = IF st.failures = 1 THEN Append(@, Exception) ELSE @]
    IN  FoldLeft(Done, [hasValue |-> hasValue, failures |-> Len(results), answers |-> <<>>],
                 order).answers

-----------------------------------------------------------------------------
(* invoke and parallel_invoke.  f gives the outcome of the functor.         *)

Caught(o) == IF o = Escaped THEN Exception ELSE o

Invoke(c, f) == IF IsValue(c) THEN Caught(f[c.of]) ELSE c

\* to_continuation_task: what a functor throws is its answer.
ContinuationTask(o) == Caught(o)

\* The answer is all of the answers, exceptions included; all tasks but the
\* last one are posted.
ParallelInvoke(tasks) ==
    LET n == Len(tasks)
        answers == [i \in 1 .. n |-> IF i < n THEN Posted(tasks[i]) ELSE InPlace(tasks[i])]
    IN  IF Never \in Range(answers) THEN Never ELSE Value(answers)

-----------------------------------------------------------------------------
(* if_then_else, if_, else_if, else_: a clause gives [o, forked], the       *)
(* outcome of its continuation and whether that ends in another thread.     *)
(* The done functors set on the continuations of clauses have no try block. *)

Forwarded(clause) ==
    IF clause.o = Exception /\ clause.forked THEN Never
    ELSE clause.o

\* The condition may throw.
Condition(c, x, True, False) == IF c[x] = Escaped THEN Exception ELSE IF c[x].of THEN True ELSE False

IfThenElse(c, if, then, else) ==
    IF ~IsValue(c) THEN c
    ELSE Condition(if, c.of, Forwarded(then[c.of]),
                             Forwarded(else[c.of]))

\* The answer says whether a clause was taken.
Taken(o) == IF IsValue(o) THEN Value(<<TRUE, o.of>>) ELSE o

If(c, if, then) ==
    IF ~IsValue(c) THEN c
    ELSE Condition(if, c.of, Taken(Forwarded(then[c.of])),
                             Value(<<FALSE, c.of>>))

ElseIf(c, if, then) ==
    IF ~IsValue(c) \/ c.of[1] THEN c
    ELSE Condition(if, c.of[2], Taken(Forwarded(then[c.of[2]])), c)

Else(c, else) ==
    IF ~IsValue(c) THEN c
    ELSE IF c.of[1] THEN Value(c.of[2])
    ELSE Forwarded(else[c.of[2]])
=============================================================================
