------------------------------ MODULE ForkJoin ------------------------------
(***************************************************************************)
(* How the algorithms of algorithm/ divide a range, run its halves as      *)
(* subtasks and join their answers.  An algorithm is a task over a range   *)
(* [b, e) of positions 1 .. Len(s) + 1; as long as the range can be cut it *)
(* creates a callback continuation with one subtask for each half: the     *)
(* left one is posted to the pool, the right one is executed in place.     *)
(*                                                                         *)
(* What a task answers is an outcome: a value, the exception given to      *)
(* set_exception, nothing because operator() was left by an exception      *)
(* ("escaped"), nothing ever in some schedule ("never"), or whatever the   *)
(* build produces because the code reads outside its range ("undefined").  *)
(***************************************************************************)
EXTENDS Integers, Sequences, FiniteSets

CONSTANT Throws(_)            \* the caller's functor throws for this element

VARIABLES cutoff,             \* the cutoff given by the caller
          category            \* of the iterators: "random" or "input"

CutoffAssumption == cutoff \in Nat \ {0} /\ category \in {"random", "input"}

Value(v)  == [is |-> "value", of |-> v]
Exception == [is |-> "exception"]
Escaped   == [is |-> "escaped"]
Never     == [is |-> "never"]
Undefined == [is |-> "undefined"]

IsValue(o) == o.is = "value"

Least(a, b) == IF a <= b THEN a ELSE b

-----------------------------------------------------------------------------
(* find_cutoff, find_cutoff_and_prev *)

Cut(b, e) ==
    IF category = "random"
    THEN IF e - b <= cutoff THEN e ELSE b + (e - b) \div 2
    ELSE Least(b + cutoff, e)

\* The overload for integral iterators, whose cutoff is at least 2.
CutIndex(b, e) ==
    LET n == IF cutoff = 1 THEN 2 ELSE cutoff IN
    IF b + n < e THEN b + (e - b) \div 2 ELSE e

\* The cut and the position before it.
CutAndPrev(b, e) ==
    IF category = "random"
    THEN IF e - b <= cutoff THEN <<e, e>>
         ELSE <<b - 1 + (e - b) \div 2, b + (e - b) \div 2>>
    ELSE LET prev == Least(b + cutoff - 1, e) IN <<prev, Least(prev + 1, e)>>

-----------------------------------------------------------------------------
(* What the continuation is told of a subtask. *)

\* A posted subtask that throws never calls its done functor.
Posted(o) == IF o = Escaped THEN Never ELSE o

\* The exception of the subtask executed in place is caught and kept.
InPlace(o) == IF o = Escaped THEN Exception ELSE o

\* The done functor of the continuation runs when both answers are there.
Joined(l, r, done) ==
    IF Never \in {l, r} THEN Never
    ELSE IF Undefined \in {l, r} THEN Undefined
    ELSE done

\* The usual done functor: both answers are read before the result is set, in
\* a try block.
Both(l, r, v) == IF Exception \in {l, r} THEN Exception ELSE Value(v)

\* The task of an algorithm over [from, to): Split is the position of the
\* cut, Leaf what an uncut range answers, Join what the done functor sets
\* from the answers of [b, it) and [it, e).
Divide(Split(_, _), Leaf(_, _), Join(_, _, _, _, _), from, to) ==
    LET task[r \in (from .. to) \X (from .. to)] ==
          LET b == r[1]
              e == r[2]
              it == Split(b, e)
              left == Posted(task[<<b, it>>])
              right == InPlace(task[<<it, e>>])
          IN IF it = e THEN Leaf(b, e)
             ELSE Joined(left, right, Join(b, it, e, left, right))
    IN  task[<<from, to>>]

\* The same for a task that also carries x, say the position where it
\* writes: the left half keeps x, the right half gets Right(b, it, x).
DivideAt(X, Split(_, _), Leaf(_, _, _), Right(_, _, _), Join(_, _, _, _, _), from, to, start) ==
    LET task[r \in (from .. to) \X (from .. to) \X X] ==
          LET b == r[1]
              e == r[2]
              it == Split(b, e)
              left == Posted(task[<<b, it, r[3]>>])
              right == InPlace(task[<<it, e, Right(b, it, r[3])>>])
          IN IF it = e THEN Leaf(b, e, r[3])
             ELSE Joined(left, right, Join(b, it, e, left, right))
    IN  task[<<from, to, start>>]

\* A task with a serializable functor may be taken by another process, which is
\* given a copy of its part: such a task knows nothing of the rest of the range.
DivideCopies(Leaf(_), Join(_, _), s) ==
    LET task[r \in Seq({s[i] : i \in DOMAIN s})] ==
          LET e == Len(r) + 1
              it == Cut(1, e)
              left == Posted(task[SubSeq(r, 1, it - 1)])
              right == InPlace(task[SubSeq(r, it, e - 1)])
          IN IF it = e THEN Leaf(r) ELSE Joined(left, right, Join(left, right))
    IN  task[s]

\* top_level_callback_continuation executes its only task in place.
TopLevel(o) == InPlace(o)

-----------------------------------------------------------------------------
(* Versions of the algorithms for a range that a continuation returns: when *)
(* the continuation is done its range is given to the algorithm, whose      *)
(* result is passed on by a second done functor.                            *)

\* With a try block in the second done functor.
Then(c, Algorithm(_)) == IF IsValue(c) THEN Algorithm(c.of) ELSE c

\* Without: get() rethrows the exception of the algorithm.  When the
\* algorithm had forked its range 1 .. e, the done functor may run in the
\* worker that finished last and the exception is lost with its job;
\* otherwise it runs inside on_done, whose caller has the try block.
Rethrown(o, e) == IF o = Exception /\ Cut(1, e) # e THEN Never ELSE o

ThenUnguarded(c, Algorithm(_)) ==
    IF IsValue(c) THEN Rethrown(Algorithm(c.of), Len(c.of) + 1) ELSE c

-----------------------------------------------------------------------------
(* Sequential passes over [b, e) as a leaf makes them.                      *)

\* The functor is applied to every element.
Applied(s, b, e, v) ==
    IF \E i \in b .. e - 1 : Throws(s[i]) THEN Exception ELSE Value(v)

\* The first index in [b, e) that is a hit, or e; later ones are not looked
\* at.
FirstAt(b, e, bad(_), hit(_)) ==
    LET found == {i \in b .. e - 1 : bad(i) \/ hit(i)} IN
    IF found = {} THEN Value(e)
    ELSE LET i == CHOOSE i \in found : \A j \in found : i <= j IN
         IF bad(i) THEN Exception ELSE Value(i)

\* The first element where P holds.
First(s, b, e, P(_)) ==
    FirstAt(b, e, LAMBDA i : Throws(s[i]), LAMBDA i : P(s[i]))

\* The elements of [b, e).
Part(s, b, e) == SubSeq(s, b, e - 1)

-----------------------------------------------------------------------------
(* Tasks that write.  A cell <<array, i>> is the element i of a range.  The *)
(* value of such a task is an effect: the cells it reads, what it writes    *)
(* (a function of cells) and what it answers.                               *)

Cells(array, b, e) == {array} \X (b .. e - 1)

Effect(rd, wr, answer) == [rd |-> rd, wr |-> wr, answer |-> answer]

\* Neither half touches what the other one writes.
Apart(l, r) ==
    /\ DOMAIN l.wr \cap (r.rd \cup DOMAIN r.wr) = {}
    /\ DOMAIN r.wr \cap l.rd = {}

\* The halves run in two threads: what they do to the same cell is a data
\* race.
Together(l, r, answer) ==
    IF Exception \in {l, r} THEN Exception
    ELSE IF ~Apart(l.of, r.of) THEN Undefined
    ELSE Value(Effect(l.of.rd \cup r.of.rd,
                      [c \in DOMAIN l.of.wr \cup DOMAIN r.of.wr |->
                         IF c \in DOMAIN r.of.wr THEN r.of.wr[c] ELSE l.of.wr[c]],
                      answer))

\* The range s of array after what was written.
After(s, array, wr) ==
    [i \in DOMAIN s |-> IF <<array, i>> \in DOMAIN wr THEN wr[<<array, i>>] ELSE s[i]]
=============================================================================
