------------------------- MODULE CallbackContinuation -------------------------
(***************************************************************************)
(* callback_continuation and callback_continuation_as_seq: the counter     *)
(* that decides which thread calls on_done, when subtasks are posted to a  *)
(* pool, one of them is executed by the thread that creates the            *)
(* continuation, and an argument may itself be a continuation whose own    *)
(* subtasks have been posted before.                                       *)
(*                                                                         *)
(* subtask_finished is a record of slots, a counter and a functor.  Every  *)
(* subtask writes its slot and then increments the counter; setting the    *)
(* functor increments it too; whoever makes it n + 1 calls the functor.    *)
(* A thread is a program of such steps.                                    *)
(***************************************************************************)
EXTENDS Naturals, Sequences, FiniteSets, SequencesExt

CONSTANTS
  Conts,    \* continuations
  Root,     \* the one that is created with on_done
  Tasks,    \* leaf subtasks
  Cases,    \* ways of creating them, see CaseAssumption
  Lambda,   \* tasks that are lambda_continuation_wrappers
  Remote,   \* tasks that a tcp client takes from the pool
  Throws,   \* tasks that throw instead of giving a result
  Fails,    \* tasks that throw after they have given a result
  Creator,  \* the thread that creates the continuations
  None

\* A continuation is created from arguments, from a tuple of tasks or from a
\* vector of tasks or of continuations; "all" is the variant that posts every task.
Forms == {"arguments", "all", "tuple", "vector"}

\* The arguments and the form of every continuation, whether the creating task
\* is interruptible, whether there is a timeout, whether on_done throws.
ASSUME CaseAssumption ==
  /\ Root \in Conts /\ Creator \notin Tasks \cup Conts
  /\ IsFiniteSet(Conts) /\ Tasks \cap Conts = {}
  /\ \A c \in Cases :
       /\ c.args \in [Conts -> Seq(Tasks \cup Conts)] /\ c.form \in [Conts -> Forms]
       /\ c.state \in BOOLEAN /\ c.timed \in BOOLEAN /\ c.doneThrows \in BOOLEAN
       /\ \A k \in Conts : Root \notin ToSet(c.args[k])
       \* A continuation is an argument of another one, unless it is Root or not
       \* used, and every argument is moved into one continuation.
       /\ \A k \in Conts \ {Root} :
            c.args[k] # <<>> => \E j \in Conts : Contains(c.args[j], k)
       /\ \A j, k \in Conts : \A i \in DOMAIN c.args[j], h \in DOMAIN c.args[k] :
            c.args[j][i] = c.args[k][h] => j = k /\ i = h
       /\ \A k \in Conts : c.form[k] = "tuple" => ToSet(c.args[k]) \subseteq Tasks

Threads == Tasks \cup Conts \cup {Creator}

VARIABLES
  case,        \* the one of Cases that is created
  slots,       \* m_futures: [Conts -> the arguments whose result is there]
  ready,       \* m_ready_futures
  done,        \* continuations whose m_done is set
  todo,        \* [Threads -> the steps the thread still does]
  posted,      \* subtasks in the queue of the pool
  interrupted, \* the state of the creating task
  waiting,     \* Root is in the list of waiting continuations of a worker
  calls        \* what m_done of Root was called with, in that order

vars == <<case, slots, ready, done, todo, posted, interrupted, waiting, calls>>

\* The steps of a thread are these, with the argument a or continuation k that
\* they are about: <<"write", a>>, <<"construct", k>>, ...
Ops == {"construct", "arg", "set", "write", "count", "return", "end", "register"}

TypeOK ==
  /\ case \in Cases
  /\ slots \in [Conts -> SUBSET (Tasks \cup Conts)]
  /\ ready \in [Conts -> Nat]
  /\ done \subseteq Conts
  /\ todo \in [Threads -> Seq(Ops \X (Tasks \cup Conts))]
  /\ posted \subseteq Tasks \cup Conts
  /\ interrupted \in BOOLEAN /\ waiting \in BOOLEAN
  /\ calls \in Seq(SUBSET (Tasks \cup Conts))

Do(op, a) == <<op, a>>

ContOf(a) == CHOOSE k \in Conts : Contains(case.args[k], a)

IsLast(a) == a = Last(case.args[ContOf(a)])

\* tuple_size + 1
Full(k) == Len(case.args[k]) + 1

\* The last argument is executed in place, "to save one post": unless everything
\* is posted, and for arguments and tuples only without an interrupt_state.
InPlace(a) ==
  /\ IsLast(a)
  /\ \/ case.form[ContOf(a)] = "vector"
     \/ case.form[ContOf(a)] \in {"arguments", "tuple"} /\ ~case.state

\* The others are posted.  When the creating task has been interrupted they are
\* dropped, but a tuple looks at that for its last element only.
Posts(a) ==
  /\ ~InPlace(a)
  /\ interrupted => case.form[ContOf(a)] = "tuple" /\ ~IsLast(a)

-----------------------------------------------------------------------------
(* Subtasks                                                                *)

\* continuation_result::set_value, set_exception: the done functor, which writes
\* the slot and counts.
Give(a) == <<Do("write", a), Do("count", a)>>

\* lambda_continuation_wrapper gives the exception as well.
GivesException(t) == t \in Lambda

\* continuation_task::as_result: what a client answers is a value or an exception.
AsResult(t) == t \in Remote

\* A subtask that throws gives its exception if it is executed in place, by a
\* lambda_continuation_wrapper or by a client, and nothing if it was posted.
Silent(t) == t \in Throws /\ ~GivesException(t) /\ ~AsResult(t) /\ ~InPlace(t)

\* Somebody catches what the done functor throws, and gives that as well.
Caught(a) == a \in Conts \/ GivesException(a) \/ InPlace(a)

Results(t) ==
  IF Silent(t) THEN <<>>
  ELSE Give(t) \o (IF t \in Fails /\ InPlace(t) THEN Give(t) ELSE <<>>) \o <<Do("end", t)>>

\* callback_continuation_wrapper: a continuation in a vector is a task that sets
\* its on_done.
Wrapper(k) == <<Do("set", k)>>

IsWrapped(k) == case.form[ContOf(k)] = "vector"

\* What the thread that executes the argument does.
Executes(a) == IF a \in Conts THEN Wrapper(a) ELSE Results(a)

-----------------------------------------------------------------------------
(* Creation                                                                *)

\* task_type_selector::construct for one argument: a continuation among the
\* arguments only gets its on_done.
Construct(k, a) ==
  Do(IF a \in Conts /\ case.form[k] # "vector" THEN "set" ELSE "arg", a)

\* continuation_ctor_helper
ConstructAll(k) == [i \in DOMAIN case.args[k] |-> Construct(k, case.args[k][i])]

\* top_level_callback_continuation: created without on_done.
TopLevel(k) == Do("construct", k)

\* create_callback_continuation: the constructor sets on_done and goes through
\* its arguments.
CreateContinuation == <<Do("set", Root), Do("construct", Root)>>

\* create_callback_continuation_job_timeout: it is registered with the worker,
\* but not if it was made from a vector.
Timed ==
  IF case.timed /\ case.form[Root] # "vector" THEN <<Do("register", Root)>> ELSE <<>>

Nested == {k \in Conts : \E j \in Conts : Contains(case.args[j], k)}

Program ==
  LET nested == SetToSeq(Nested)
  IN [i \in DOMAIN nested |-> TopLevel(nested[i])] \o CreateContinuation \o Timed

Init ==
  /\ case \in Cases
  /\ slots = [k \in Conts |-> {}]
  /\ ready = [k \in Conts |-> 0]
  /\ done = {}
  /\ todo = [t \in Threads |-> IF t = Creator THEN Program ELSE <<>>]
  /\ posted = {}
  /\ interrupted = FALSE
  /\ waiting = FALSE
  /\ calls = <<>>

ToDo(t, op) == todo[t] # <<>> /\ Head(todo[t])[1] = op

Subject(t) == Head(todo[t])[2]

\* The thread goes on, after the given steps.
Continue(t, steps) == todo' = [todo EXCEPT ![t] = steps \o Tail(@)]

unchanged == <<case, interrupted, waiting>>

\* The constructor goes through the arguments.
ConstructArgs(t) ==
  /\ ToDo(t, "construct")
  /\ Continue(t, ConstructAll(Subject(t)))
  /\ UNCHANGED <<unchanged, slots, ready, done, posted, calls>>

\* post_future, interruptible_post_future
PostArg(t) ==
  /\ ToDo(t, "arg") /\ Posts(Subject(t))
  /\ posted' = posted \cup {Subject(t)}
  /\ Continue(t, <<>>)
  /\ UNCHANGED <<unchanged, slots, ready, done, calls>>

SkipArg(t) ==
  /\ ToDo(t, "arg") /\ ~InPlace(Subject(t)) /\ ~Posts(Subject(t))
  /\ Continue(t, <<>>)
  /\ UNCHANGED <<unchanged, slots, ready, done, posted, calls>>

\* Mutant of RunInPlace: without a catch.
RunInPlaceUncaught(t) ==
  /\ ToDo(t, "arg") /\ InPlace(Subject(t))
  /\ Continue(t, IF Subject(t) \in Throws \ Lambda THEN <<>> ELSE Executes(Subject(t)))
  /\ UNCHANGED <<unchanged, slots, ready, done, posted, calls>>

\* The last argument is executed in place, under a catch.
RunInPlace(t) ==
  /\ ToDo(t, "arg") /\ InPlace(Subject(t))
  /\ Continue(t, Executes(Subject(t)))
  /\ UNCHANGED <<unchanged, slots, ready, done, posted, calls>>

\* get_continuations().emplace_front
Register(t) ==
  /\ ToDo(t, "register")
  /\ waiting' = TRUE
  /\ Continue(t, <<>>)
  /\ UNCHANGED <<case, interrupted, slots, ready, done, posted, calls>>

\* A worker finds Root ready, interrupted or timed out: set_interrupted is "not
\* supported" and operator() does nothing.
Forget ==
  /\ waiting
  /\ waiting' = FALSE
  /\ UNCHANGED <<case, slots, ready, done, todo, posted, interrupted, calls>>

\* The creating task is interrupted.
Interrupt ==
  /\ case.state /\ ~interrupted
  /\ interrupted' = TRUE
  /\ UNCHANGED <<case, slots, ready, done, todo, posted, waiting, calls>>

-----------------------------------------------------------------------------
(* Execution                                                               *)

StartTask(a) ==
  /\ a \in posted
  /\ posted' = posted \ {a}
  /\ todo' = [todo EXCEPT ![a] = Executes(a)]
  /\ UNCHANGED <<unchanged, slots, ready, done, calls>>

\* An interruptible subtask that was interrupted before it starts returns.
DropTask(a) ==
  /\ a \in posted /\ interrupted
  /\ posted' = posted \ {a}
  /\ UNCHANGED <<unchanged, slots, ready, done, todo, calls>>

EndTask(t) ==
  /\ ToDo(t, "end")
  /\ Continue(t, <<>>)
  /\ UNCHANGED <<unchanged, slots, ready, done, posted, calls>>

\* (*finished).m_futures[index] = std::move(r)
WriteSlot(t) ==
  /\ ToDo(t, "write")
  /\ slots' = [slots EXCEPT ![ContOf(Subject(t))] = @ \cup {Subject(t)}]
  /\ Continue(t, <<>>)
  /\ UNCHANGED <<unchanged, ready, done, posted, calls>>

\* Mutants of Increment: the counter is compared with the number of arguments;
\* the comparison is ">=".
IncrementEarly(t, k) ==
  /\ ready' = [ready EXCEPT ![k] = @ + 1]
  /\ Continue(t, IF ready[k] + 1 = Len(case.args[k]) THEN <<Do("return", k)>> ELSE <<>>)

IncrementAtLeast(t, k) ==
  /\ ready' = [ready EXCEPT ![k] = @ + 1]
  /\ Continue(t, IF ready[k] + 1 >= Full(k) THEN <<Do("return", k)>> ELSE <<>>)

\* ++m_ready_futures == tuple_size + 1
Increment(t, k) ==
  /\ ready' = [ready EXCEPT ![k] = @ + 1]
  /\ Continue(t, IF ready[k] + 1 = Full(k) THEN <<Do("return", k)>> ELSE <<>>)

\* subtask_finished::done
Count(t) ==
  /\ ToDo(t, "count")
  /\ Increment(t, ContOf(Subject(t)))
  /\ UNCHANGED <<unchanged, slots, done, posted, calls>>

\* subtask_finished::on_done
SetDone(t) ==
  /\ ToDo(t, "set")
  /\ done' = done \cup {Subject(t)}
  /\ Increment(t, Subject(t))
  /\ UNCHANGED <<unchanged, slots, posted, calls>>

\* on_done of Root throws into the subtask that made the counter full, or into
\* the wrapper, which give that exception in turn.
Handler(t) ==
  LET rest == Tail(todo[t])
  IN IF case.doneThrows /\ rest # <<>> /\ Head(rest)[1] = "end" /\ Caught(Head(rest)[2])
     THEN Give(Head(rest)[2]) ELSE <<>>

\* return_result: m_done takes the results.  That of a nested continuation
\* gives its first result to the slot it has in Root.
ReturnResult(t) ==
  LET k == Subject(t)
  IN /\ ToDo(t, "return")
     /\ IF k = Root
        THEN calls' = Append(calls, slots[k]) /\ Continue(t, Handler(t))
        ELSE /\ calls' = calls
             /\ Continue(t, Give(k) \o (IF IsWrapped(k) THEN <<Do("end", k)>> ELSE <<>>))
     /\ UNCHANGED <<unchanged, slots, ready, done, posted>>

Step(t) ==
  \/ ConstructArgs(t) \/ PostArg(t) \/ SkipArg(t) \/ RunInPlace(t) \/ Register(t) \/ EndTask(t)
  \/ WriteSlot(t) \/ Count(t) \/ SetDone(t) \/ ReturnResult(t)

Terminated ==
  /\ \A t \in Threads : todo[t] = <<>>
  /\ posted = {}
  /\ UNCHANGED vars

Next ==
  \/ \E t \in Threads : Step(t)
  \/ \E a \in Tasks \cup Conts : StartTask(a) \/ DropTask(a)
  \/ Forget \/ Interrupt
  \/ Terminated

\* Threads run, the pool executes what is posted.
Spec == Init /\ [][Next]_vars
FairSpec ==
  /\ Spec
  /\ \A t \in Threads : WF_vars(Step(t))
  /\ \A a \in Tasks \cup Conts : WF_vars(StartTask(a) \/ DropTask(a))

-----------------------------------------------------------------------------
(* Properties                                                              *)

\* on_done is called once, whichever thread makes the counter full and even if
\* it throws, when the catch clauses on the way give their exception and count
\* once more.
CalledOnce == Len(calls) <= 1

\* create_callback_continuation: "Functor called upon completion of sub-tasks."
\* When on_done is called every result is there, those of the nested
\* continuations included, however the continuation was created.
CalledWithAllResults ==
  \A i \in DOMAIN calls : calls[i] = ToSet(case.args[Root])

\* on_done is called if every subtask gives a result or an exception and nobody
\* interrupts the creating task.
CallbackCalled ==
  <>(calls # <<>> \/ interrupted \/ \E t \in Tasks : (\E k \in Conts : Contains(case.args[k], t)) /\ Silent(t))

\* "A timeout for execution of sub-tasks is also provided"
\* (continuation_task.hpp:432): a subtask that never answers does not keep
\* on_done from being called.  The code does not keep this.
TimeoutEnds == <>(case.timed => calls # <<>>)
=============================================================================
