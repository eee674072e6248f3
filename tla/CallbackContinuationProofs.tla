--------------------- MODULE CallbackContinuationProofs ---------------------
(***************************************************************************)
(* on_done of a callback continuation is called once, and if no subtask    *)
(* throws after it has given its result, with all the results: for any     *)
(* tree of continuations, any number of subtasks, and every way of         *)
(* creating them.  parallel_partition, whose tasks fork by continuations,  *)
(* partitions: the second part.                                            *)
(***************************************************************************)
EXTENDS MCCallbackContinuation, FiniteSetTheorems, FunctionTheorems, WellFoundedInduction,
        SequenceTheorems, TLAPS

Steps == Ops \X (Tasks \cup Conts)

\* What follows speaks of a case c and of the programs td of the threads.
Args(c, k) == ToSet(c.args[k])

Cont(c, a) == CHOOSE k \in Conts : Contains(c.args[k], a)

\* The continuations that are created, and their arguments.
Made(c) == {k \in Conts : \E j \in Conts : Contains(c.args[j], k)} \cup {Root}
Mine(c, a) == \E k \in Conts : a \in Args(c, k)

\* Every step is about a continuation that is created, or an argument of one.
Known(c) ==
  {x \in Steps :
     IF x[1] \in {"construct", "set", "return", "register"} THEN x[2] \in Made(c)
                                                            ELSE Mine(c, x[2])}

Plain(c) == {x \in Known(c) : x[1] # "return"}

PlaceInv ==
  /\ todo \in [Threads -> Seq(Known(case))]
  /\ \A a \in posted : Mine(case, a)
  /\ \A k \in Conts : slots[k] \subseteq Args(case, k)

\* One step "return" of Root, for the thread that has made the counter full.
ReturnRoot == Do("return", Root)

CalledInv ==
  /\ \A t \in Threads : \A i \in DOMAIN todo[t] :
       todo[t][i] = ReturnRoot => i = 1 /\ ready[Root] >= Full(Root) /\ calls = <<>>
  /\ \A t, u \in Threads : \A i \in DOMAIN todo[t], j \in DOMAIN todo[u] :
       todo[t][i] = ReturnRoot /\ todo[u][j] = ReturnRoot => t = u
  /\ calls # <<>> => ready[Root] >= Full(Root) /\ Len(calls) = 1

\* Tokens say who will still count: an argument counts once, when it gives its
\* result, which takes its token "give"; a continuation counts once more when
\* its on_done is set, which takes its token "set".
Token(a) == IF a \in Tasks THEN Do("give", a) ELSE Do("set", a)

\* The tokens that a step uses or hands on.
Tokens(c, x) ==
  CASE x[1] = "construct" -> {Token(a) : a \in Args(c, x[2])}
    [] x[1] = "arg" -> {Token(x[2])}
    [] x[1] = "set" -> {Do("set", x[2])}
    [] x[1] \in {"count", "return"} -> {Do("give", x[2])}
    [] x[1] \in {"write", "end", "register"} -> {}

\* Two steps have no token in common, no step has one of S.
Apart(c, td) ==
  \A t, u \in Threads : \A i \in DOMAIN td[t], j \in DOMAIN td[u] :
    t # u \/ i # j => Tokens(c, td[t][i]) \cap Tokens(c, td[u][j]) = {}

Clear(c, td, S) ==
  \A t \in Threads : \A i \in DOMAIN td[t] : Tokens(c, td[t][i]) \cap S = {}

\* The tokens of the results of continuations whose counters are not full, of
\* what is posted, and of the arguments D that have counted.
Later(c, rd) == {Do("give", k) : k \in {j \in Conts : rd[j] < Len(c.args[j]) + 1}}
Posted(po)   == {Token(a) : a \in po}
Used(D, dn)  == {Do("give", a) : a \in D} \cup {Do("set", k) : k \in dn}

\* A slot is written just before it is counted.
WriteFirst(c, td, sl) ==
  \A t \in Threads : \A i \in DOMAIN td[t] :
    td[t][i][1] = "count" =>
      IF i = 1 THEN td[t][i][2] \in sl[Cont(c, td[t][i][2])]
               ELSE td[t][i - 1] = Do("write", td[t][i][2])

\* The counters count the arguments D, which are in their slots, and on_done.
Balanced(c, D, rd, dn, sl) ==
  /\ \A k \in Conts :
       Cardinality(D \cap Args(c, k)) + (IF k \in dn THEN 1 ELSE 0) = rd[k]
  /\ \A a \in D : a \in sl[Cont(c, a)]

CountedInv(c, D, td, rd, dn, po, sl) ==
  /\ Apart(c, td)
  /\ Clear(c, td, Later(c, rd) \cup Posted(po)) /\ Clear(c, td, Used(D, dn))
  /\ Used(D, dn) \cap (Later(c, rd) \cup Posted(po)) = {}
  /\ WriteFirst(c, td, sl)
  /\ Balanced(c, D, rd, dn, sl)

CountInv ==
  /\ calls = <<>> =>
       \E D \in SUBSET (Tasks \cup Conts) :
         CountedInv(case, D, todo, ready, done, posted, slots)
  /\ calls # <<>> => calls = <<Args(case, Root)>>

-----------------------------------------------------------------------------
(* The case                                                                *)

\* The arguments of a continuation are finitely many and belong to it.
LEMMA CaseFacts ==
  ASSUME NEW c \in Cases, NEW k \in Conts
  PROVE  /\ c.args[k] \in Seq(Tasks \cup Conts)
         /\ Args(c, k) \subseteq Tasks \cup Conts /\ Root \notin Args(c, k)
         /\ \A a : Contains(c.args[k], a) <=> a \in Args(c, k)
         /\ \A a \in Args(c, k) : Cont(c, a) = k
         /\ IsFiniteSet(Args(c, k)) /\ Cardinality(Args(c, k)) <= Len(c.args[k])
<1> DEFINE s == c.args[k]
<1>1. s \in Seq(Tasks \cup Conts) /\ Root \notin ToSet(s)
  BY CaseAssumption
<1>2. \A a : Contains(s, a) <=> \E i \in DOMAIN s : s[i] = a
  BY <1>1 DEF Contains
<1>3. \A a \in ToSet(s) : \A j \in Conts : Contains(c.args[j], a) => j = k
  <2> SUFFICES ASSUME NEW a \in ToSet(s), NEW j \in Conts, Contains(c.args[j], a)
               PROVE  j = k
    OBVIOUS
  <2>1. PICK i \in DOMAIN s : s[i] = a
    BY DEF ToSet
  <2>2. c.args[j] \in Seq(Tasks \cup Conts)
    BY CaseAssumption
  <2>3. PICK h \in DOMAIN c.args[j] : c.args[j][h] = a
    BY <2>2 DEF Contains
  <2> QED
    BY <2>1, <2>3, CaseAssumption
<1>4. \A a \in ToSet(s) : Cont(c, a) = k
  <2> SUFFICES ASSUME NEW a \in ToSet(s)
               PROVE  Cont(c, a) = k
    OBVIOUS
  <2>1. Contains(c.args[k], a)
    BY <1>2 DEF ToSet
  <2> QED
    BY <1>3, <2>1 DEF Cont
<1>5. IsFiniteSet(ToSet(s)) /\ Cardinality(ToSet(s)) <= Len(s)
  <2>1. Len(s) \in Nat /\ DOMAIN s = 1 .. Len(s)
    BY <1>1
  <2>2. IsFiniteSet(1 .. Len(s)) /\ Cardinality(1 .. Len(s)) = Len(s)
    BY <2>1, FS_Interval
  <2>3. [i \in 1 .. Len(s) |-> s[i]] \in Surjection(1 .. Len(s), ToSet(s))
    BY <2>1 DEF Surjection, ToSet
  <2> QED
    BY <2>1, <2>2, <2>3, FS_Surjection
<1> QED
  BY <1>1, <1>2, <1>4, <1>5 DEF Args, ToSet

\* The operators of the model in these terms.
LEMMA CaseOps ==
  /\ \A a : ContOf(a) = Cont(case, a)
  /\ Nested \cup {Root} = Made(case)
  /\ Made(case) \subseteq Conts
  BY CaseAssumption DEF ContOf, Cont, Nested, Made

\* An argument belongs to one continuation that is created; it is a task or a
\* continuation that is created.
LEMMA MineFacts ==
  ASSUME NEW c \in Cases, NEW a, Mine(c, a)
  PROVE  /\ Cont(c, a) \in Made(c) /\ Cont(c, a) \in Conts /\ a \in Args(c, Cont(c, a))
         /\ a \in Tasks \cup Conts /\ a # Root
         /\ a \in Conts => a \in Made(c)
<1>1. PICK k \in Conts : a \in Args(c, k)
  BY DEF Mine
<1>2. Cont(c, a) = k /\ Contains(c.args[k], a) /\ a \in Tasks \cup Conts /\ a # Root
  BY <1>1, CaseFacts
<1>3. k \in Made(c)
  <2>1. c.args[k] # <<>>
    BY <1>2, CaseFacts DEF Contains
  <2> QED
    BY <2>1, CaseAssumption DEF Made
<1> QED
  BY <1>1, <1>2, <1>3 DEF Made

\* What is created and is not Root is an argument.
LEMMA MadeIsMine ==
  ASSUME NEW c \in Cases, NEW k \in Made(c), k # Root
  PROVE  k \in Conts /\ Mine(c, k)
<1>1. PICK j \in Conts : Contains(c.args[j], k)
  BY DEF Made
<1>2. k \in Args(c, j)
  BY <1>1, CaseFacts
<1> QED
  BY <1>2 DEF Made, Mine

\* The case is chosen at the start.
LEMMA CaseKept == [Next]_vars => case' = case
<1> USE DEF vars, unchanged
<1> SUFFICES ASSUME [Next]_vars
             PROVE  case' = case
  OBVIOUS
<1>1. CASE \E t \in Threads : Step(t)
  BY <1>1 DEF Step, ConstructArgs, PostArg, SkipArg, RunInPlace, Register, EndTask,
              WriteSlot, Count, SetDone, ReturnResult
<1>2. CASE \E a \in Tasks \cup Conts : StartTask(a) \/ DropTask(a)
  BY <1>2 DEF StartTask, DropTask
<1> QED
  BY <1>1, <1>2 DEF Next, Forget, Interrupt, Terminated

-----------------------------------------------------------------------------
(* Programs                                                                *)

\* An argument that does not fail late gives its result at most once.
LEMMA StepsOfResults ==
  ASSUME NEW a, a \notin Fails, Results(a) # <<>>
  PROVE  /\ DOMAIN Results(a) = 1 .. 3
         /\ Results(a)[1] = Do("write", a) /\ Results(a)[2] = Do("count", a)
         /\ Results(a)[3] = Do("end", a)
<1> DEFINE w == Do("write", a)
           n == Do("count", a)
           e == Do("end", a)
<1>1. Results(a) = <<w, n>> \o <<>> \o <<e>>
  BY DEF Results, Give
<1> HIDE DEF w, n, e
<1>2. <<w, n>> \in Seq({w, n, e}) /\ <<e>> \in Seq({w, n, e}) /\ <<>> \in Seq({w, n, e})
  OBVIOUS
<1>3. <<w, n>> \o <<>> = <<w, n>>
  BY <1>2, ConcatEmptySeq
<1>4. /\ DOMAIN (<<w, n>> \o <<e>>) = 1 .. 3
      /\ (<<w, n>> \o <<e>>)[1] = w /\ (<<w, n>> \o <<e>>)[2] = n
      /\ (<<w, n>> \o <<e>>)[3] = e
  BY <1>2
<1> QED
  BY <1>1, <1>3, <1>4 DEF w, n, e

\* The steps of an argument are about it.
LEMMA KnownExecutes ==
  ASSUME NEW c \in Cases, NEW a, Mine(c, a)
  PROVE  /\ Give(a) \in Seq(Plain(c)) /\ Executes(a) \in Seq(Plain(c))
         /\ Do("end", a) \in Plain(c)
<1>1. a \in Tasks \cup Conts
  BY MineFacts
<1>2. Do("write", a) \in Plain(c) /\ Do("count", a) \in Plain(c) /\ Do("end", a) \in Plain(c)
  BY <1>1 DEF Plain, Known, Steps, Ops, Do
<1>3. Give(a) \in Seq(Plain(c))
  BY <1>2 DEF Give
<1>4. Results(a) \in Seq(Plain(c))
  <2>1. Give(a) \in Seq(Plain(c)) /\ <<Do("end", a)>> \in Seq(Plain(c)) /\ <<>> \in Seq(Plain(c))
    BY <1>2, <1>3
  <2>2. \A p, q, u \in Seq(Plain(c)) : p \o q \o u \in Seq(Plain(c))
    OBVIOUS
  <2> QED
    BY <2>1, <2>2 DEF Results
<1>5. ASSUME a \in Conts
      PROVE  Wrapper(a) \in Seq(Plain(c))
  <2>1. Do("set", a) \in Plain(c)
    BY <1>1, <1>5, MineFacts DEF Plain, Known, Steps, Ops, Do
  <2> QED
    BY <2>1 DEF Wrapper
<1> QED
  BY <1>2, <1>3, <1>4, <1>5 DEF Executes

\* The constructor's steps are about its arguments.
LEMMA KnownConstruct ==
  ASSUME case \in Cases, NEW k \in Conts
  PROVE  /\ ConstructAll(k) \in Seq(Plain(case))
         /\ Len(ConstructAll(k)) = Len(case.args[k])
         /\ \A i \in DOMAIN case.args[k] :
              ConstructAll(k)[i] = Construct(k, case.args[k][i])
<1> DEFINE s == case.args[k]
<1>1. s \in Seq(Tasks \cup Conts)
  BY CaseFacts
<1>2. ASSUME NEW i \in DOMAIN s
      PROVE  Construct(k, s[i]) \in Plain(case)
  <2>1. Mine(case, s[i])
    BY DEF Mine, Args, ToSet
  <2>2. s[i] \in Tasks \cup Conts /\ (s[i] \in Conts => s[i] \in Made(case))
    BY <2>1, MineFacts
  <2> QED
    BY <2>1, <2>2 DEF Construct, Plain, Known, Steps, Ops, Do
<1>3. ConstructAll(k) = [i \in DOMAIN s |-> Construct(k, s[i])]
  BY DEF ConstructAll
<1>4. DOMAIN s = 1 .. Len(s) /\ Len(s) \in Nat
  BY <1>1
<1>5. ConstructAll(k) \in Seq(Plain(case))
  BY <1>2, <1>3, <1>4
<1>6. Len(ConstructAll(k)) = Len(s)
  BY <1>3, <1>4
<1> QED
  BY <1>3, <1>5, <1>6

\* A thread goes on: its other steps keep their order behind the new ones.
LEMMA Continued ==
  ASSUME NEW S, NEW td \in [Threads -> Seq(S)], NEW t \in Threads, td[t] # <<>>,
         NEW steps \in Seq(S), NEW nt, nt = [td EXCEPT ![t] = steps \o Tail(@)]
  PROVE  /\ nt \in [Threads -> Seq(S)]
         /\ Len(steps) \in Nat /\ DOMAIN steps = 1 .. Len(steps) /\ 1 \in DOMAIN td[t]
         /\ Head(td[t]) = td[t][1]
         /\ \A u \in Threads : u # t => nt[u] = td[u]
         /\ \A i \in DOMAIN nt[t] :
              /\ i \in Nat /\ i >= 1
              /\ i \in DOMAIN steps => nt[t][i] = steps[i]
              /\ i \notin DOMAIN steps =>
                   /\ i > Len(steps) /\ i - Len(steps) + 1 \in DOMAIN td[t]
                   /\ nt[t][i] = td[t][i - Len(steps) + 1]
         /\ \A i \in DOMAIN steps : i \in DOMAIN nt[t]
<1> DEFINE s == td[t]
           r == steps \o Tail(s)
<1>1. s \in Seq(S) /\ s # <<>>
  OBVIOUS
<1>2. /\ Len(s) \in Nat /\ Len(s) >= 1 /\ DOMAIN s = 1 .. Len(s) /\ Head(s) = s[1]
      /\ Tail(s) \in Seq(S) /\ Len(Tail(s)) = Len(s) - 1
      /\ \A i \in 1 .. Len(s) - 1 : Tail(s)[i] = s[i + 1]
  BY <1>1
<1>3. Len(steps) \in Nat /\ DOMAIN steps = 1 .. Len(steps)
  OBVIOUS
<1>4. /\ r \in Seq(S) /\ Len(r) = Len(steps) + Len(s) - 1 /\ DOMAIN r = 1 .. Len(r)
      /\ \A i \in 1 .. Len(steps) : r[i] = steps[i]
      /\ \A i \in Len(steps) + 1 .. Len(r) : r[i] = Tail(s)[i - Len(steps)]
  BY <1>2, <1>3
<1>5. nt[t] = r /\ (\A u \in Threads : u # t => nt[u] = td[u]) /\ nt \in [Threads -> Seq(S)]
  BY <1>4
<1> HIDE DEF s, r
<1>6. ASSUME NEW i \in DOMAIN r
      PROVE  /\ i \in Nat /\ i >= 1
             /\ i \in DOMAIN steps => r[i] = steps[i]
             /\ i \notin DOMAIN steps =>
                  /\ i > Len(steps) /\ i - Len(steps) + 1 \in DOMAIN s
                  /\ r[i] = s[i - Len(steps) + 1]
  <2>1. i \in Nat /\ i >= 1 /\ i <= Len(steps) + Len(s) - 1
    BY <1>2, <1>3, <1>4
  <2>2. CASE i \in DOMAIN steps
    BY <1>3, <1>4, <2>1, <2>2
  <2>3. CASE i \notin DOMAIN steps
    <3>1. i > Len(steps) /\ i \in Len(steps) + 1 .. Len(r)
      BY <1>2, <1>3, <1>4, <2>1, <2>3
    <3>2. i - Len(steps) \in 1 .. Len(s) - 1 /\ i - Len(steps) + 1 \in 1 .. Len(s)
      BY <1>2, <1>3, <2>1, <3>1
    <3>3. r[i] = Tail(s)[i - Len(steps)]
      BY <1>4, <3>1
    <3>4. Tail(s)[i - Len(steps)] = s[i - Len(steps) + 1]
      BY <1>2, <3>2
    <3> QED
      BY <1>2, <2>1, <2>3, <3>1, <3>2, <3>3, <3>4
  <2> QED
    BY <2>2, <2>3
<1>7. \A i \in DOMAIN steps : i \in DOMAIN r
  BY <1>2, <1>3, <1>4
<1> QED
  BY <1>2, <1>3, <1>5, <1>6, <1>7 DEF s

\* It goes on after one new step.
LEMMA ContinuedOne ==
  ASSUME NEW S, NEW td \in [Threads -> Seq(S)], NEW t \in Threads, td[t] # <<>>,
         NEW x \in S, NEW nt, nt = [td EXCEPT ![t] = <<x>> \o Tail(@)]
  PROVE  /\ \A u \in Threads : u # t => nt[u] = td[u]
         /\ \A i \in DOMAIN nt[t] :
              /\ i = 1 => nt[t][i] = x
              /\ i # 1 => i \in Nat /\ i > 1 /\ i \in DOMAIN td[t] /\ nt[t][i] = td[t][i]
<1>1. PICK steps : steps = <<x>>
  OBVIOUS
<1>2. steps \in Seq(S) /\ Len(steps) = 1 /\ DOMAIN steps = {1} /\ steps[1] = x
  BY <1>1
<1>3. nt = [td EXCEPT ![t] = steps \o Tail(@)]
  BY <1>1
<1>4. /\ \A u \in Threads : u # t => nt[u] = td[u]
      /\ \A i \in DOMAIN nt[t] :
           /\ i \in Nat
           /\ i \in DOMAIN steps => nt[t][i] = steps[i]
           /\ i \notin DOMAIN steps =>
                /\ i > Len(steps) /\ i - Len(steps) + 1 \in DOMAIN td[t]
                /\ nt[t][i] = td[t][i - Len(steps) + 1]
  BY <1>2, <1>3, Continued
<1>5. \A i \in Nat : i - Len(steps) + 1 = i
  BY <1>2
<1> QED
  BY <1>2, <1>4, <1>5

-----------------------------------------------------------------------------
(* Types and places                                                        *)

\* The step that a thread does next.
LEMMA NextStep ==
  ASSUME TypeOK, PlaceInv, NEW t \in Threads, NEW op, ToDo(t, op)
  PROVE  /\ todo[t] # <<>> /\ todo[t] \in Seq(Known(case))
         /\ Head(todo[t]) \in Known(case) /\ Head(todo[t]) = Do(op, Subject(t))
         /\ Subject(t) \in Tasks \cup Conts
         /\ IF op \in {"construct", "set", "return", "register"}
            THEN Subject(t) \in Made(case) /\ Subject(t) \in Conts ELSE Mine(case, Subject(t))
<1>1. todo[t] \in Seq(Known(case)) /\ todo[t] # <<>>
  BY DEF PlaceInv, ToDo
<1>2. Head(todo[t]) \in Known(case)
  BY <1>1
<1>3. Head(todo[t])[1] = op /\ Head(todo[t])[2] = Subject(t)
  BY DEF ToDo, Subject
<1> HIDE DEF Subject
<1>4. Head(todo[t]) = <<op, Subject(t)>>
  BY <1>2, <1>3 DEF Known, Steps
<1> QED
  BY <1>1, <1>2, <1>3, <1>4, CaseOps DEF Known, Steps, Do

\* What a thread does when on_done throws.
LEMMA KnownHandler ==
  ASSUME TypeOK, PlaceInv, NEW t \in Threads, todo[t] # <<>>
  PROVE  Handler(t) \in Seq(Plain(case))
<1> DEFINE rest == Tail(todo[t])
<1>1. rest \in Seq(Known(case))
  BY DEF PlaceInv
<1>2. CASE rest # <<>> /\ Head(rest)[1] = "end" /\ case.doneThrows /\ Caught(Head(rest)[2])
  <2>1. Mine(case, Head(rest)[2])
    BY <1>1, <1>2 DEF Known
  <2>2. Handler(t) = Give(Head(rest)[2])
    BY <1>2 DEF Handler
  <2>3. case \in Cases
    BY DEF TypeOK
  <2> QED
    BY <2>1, <2>2, <2>3, KnownExecutes
<1>3. CASE ~(rest # <<>> /\ Head(rest)[1] = "end" /\ case.doneThrows /\ Caught(Head(rest)[2]))
  <2>1. Handler(t) = <<>>
    BY <1>3 DEF Handler
  <2> QED
    BY <2>1
<1> QED
  BY <1>2, <1>3

\* Of every step: the thread's program is replaced by steps and the rest; a
\* result is returned by the thread that makes the counter full.
LEMMA KnownStep ==
  ASSUME TypeOK, PlaceInv, NEW t \in Threads, Step(t)
  PROVE  /\ todo[t] # <<>>
         /\ \/ \E steps \in Seq(Plain(case)) : todo' = [todo EXCEPT ![t] = steps \o Tail(@)]
            \/ \E k \in Made(case) :
                 /\ ready[k] + 1 = Full(k) /\ ready' = [ready EXCEPT ![k] = @ + 1]
                 /\ UNCHANGED calls /\ Do("return", k) \in Known(case)
                 /\ todo' = [todo EXCEPT ![t] = <<Do("return", k)>> \o Tail(@)]
<1>1. case \in Cases /\ <<>> \in Seq(Plain(case))
  BY DEF TypeOK
<1>2. CASE ConstructArgs(t)
  BY <1>1, <1>2, NextStep, KnownConstruct DEF ConstructArgs, Continue
<1>3. CASE PostArg(t) \/ SkipArg(t) \/ Register(t) \/ EndTask(t) \/ WriteSlot(t)
  BY <1>1, <1>3, NextStep DEF PostArg, SkipArg, Register, EndTask, WriteSlot, Continue
<1>4. CASE RunInPlace(t)
  <2>1. Mine(case, Subject(t)) /\ todo[t] # <<>>
    BY <1>4, NextStep DEF RunInPlace
  <2> QED
    BY <1>1, <1>4, <2>1, KnownExecutes DEF RunInPlace, Continue
<1>5. ASSUME NEW k \in Made(case), Increment(t, k), todo[t] # <<>>
      PROVE  \/ \E steps \in Seq(Plain(case)) : todo' = [todo EXCEPT ![t] = steps \o Tail(@)]
             \/ /\ ready[k] + 1 = Full(k) /\ ready' = [ready EXCEPT ![k] = @ + 1]
                /\ Do("return", k) \in Known(case)
                /\ todo' = [todo EXCEPT ![t] = <<Do("return", k)>> \o Tail(@)]
  <2>1. Do("return", k) \in Known(case)
    BY CaseOps DEF Known, Steps, Ops, Do
  <2> QED
    BY <1>1, <1>5, <2>1 DEF Increment, Continue
<1>6. CASE Count(t)
  <2>1. Mine(case, Subject(t)) /\ todo[t] # <<>>
    BY <1>6, NextStep DEF Count
  <2>2. ContOf(Subject(t)) \in Made(case)
    BY <1>1, <2>1, MineFacts, CaseOps
  <2> QED
    BY <1>5, <1>6, <2>1, <2>2 DEF Count
<1>7. CASE SetDone(t)
  BY <1>5, <1>7, NextStep DEF SetDone
<1>8. CASE ReturnResult(t)
  <2>1. Subject(t) \in Made(case) /\ todo[t] # <<>>
    BY <1>8, NextStep DEF ReturnResult
  <2>2. CASE Subject(t) = Root
    BY <1>8, <2>1, <2>2, KnownHandler DEF ReturnResult, Continue
  <2>3. CASE Subject(t) # Root
    <3> DEFINE k == Subject(t)
               last == IF IsWrapped(k) THEN <<Do("end", k)>> ELSE <<>>
    <3>1. Mine(case, k)
      BY <1>1, <2>1, <2>3, MadeIsMine
    <3>2. Give(k) \in Seq(Plain(case)) /\ last \in Seq(Plain(case))
      BY <1>1, <3>1, KnownExecutes
    <3>3. Give(k) \o last \in Seq(Plain(case))
      BY <3>2
    <3> QED
      BY <1>8, <2>1, <2>3, <3>3 DEF ReturnResult, Continue
  <2> QED
    BY <2>1, <2>2, <2>3
<1> QED
  BY <1>2, <1>3, <1>4, <1>6, <1>7, <1>8, NextStep
  DEF Step, ConstructArgs, PostArg, SkipArg, RunInPlace, Register, EndTask, WriteSlot, Count,
      SetDone, ReturnResult

\* Every step keeps the types, and the steps about what is created.
LEMMA PlaceStep ==
  ASSUME TypeOK, PlaceInv, [Next]_vars
  PROVE  TypeOK' /\ PlaceInv'
<1>1. case' = case /\ case \in Cases
  BY CaseKept DEF TypeOK
<1>2. todo' \in [Threads -> Seq(Known(case))]
  <2>1. todo \in [Threads -> Seq(Known(case))]
    BY DEF PlaceInv
  <2>2. ASSUME NEW t \in Threads, Step(t)
        PROVE  todo' \in [Threads -> Seq(Known(case))]
    <3>1. PICK steps \in Seq(Known(case)) : todo' = [todo EXCEPT ![t] = steps \o Tail(@)]
      <4>1. \A s \in Seq(Plain(case)) : s \in Seq(Known(case))
        BY DEF Plain
      <4>2. \A k : Do("return", k) \in Known(case) => <<Do("return", k)>> \in Seq(Known(case))
        OBVIOUS
      <4> QED
        BY <2>2, <4>1, <4>2, KnownStep
    <3>2. todo[t] # <<>>
      BY <2>2, KnownStep
    <3> QED
      BY <2>1, <3>1, <3>2, Continued
  <2>3. ASSUME NEW a \in Tasks \cup Conts, StartTask(a)
        PROVE  todo' \in [Threads -> Seq(Known(case))]
    <3>1. Executes(a) \in Seq(Plain(case))
      BY <1>1, <2>3, KnownExecutes DEF StartTask, PlaceInv
    <3>2. Executes(a) \in Seq(Known(case))
      BY <3>1 DEF Plain
    <3> QED
      BY <2>1, <2>3, <3>2 DEF StartTask
  <2> QED
    BY <2>1, <2>2, <2>3 DEF Next, DropTask, Forget, Interrupt, Terminated, vars
<1>3. \A a \in posted' : Mine(case, a)
  <2>1. ASSUME NEW t \in Threads, Step(t)
        PROVE  \A a \in posted' : Mine(case, a)
    <3>1. CASE PostArg(t)
      BY <3>1, NextStep DEF PostArg, PlaceInv
    <3> QED
      BY <2>1, <3>1 DEF Step, ConstructArgs, SkipArg, RunInPlace, Register, EndTask, WriteSlot,
                        Count, SetDone, ReturnResult, PlaceInv
  <2> QED
    BY <2>1 DEF PlaceInv, Next, StartTask, DropTask, Forget, Interrupt, Terminated, vars
<1>4. /\ slots' \in [Conts -> SUBSET (Tasks \cup Conts)]
      /\ \A k \in Conts : slots'[k] \subseteq Args(case, k)
  <2>1. ASSUME NEW t \in Threads, WriteSlot(t)
        PROVE  slots' \in [Conts -> SUBSET (Tasks \cup Conts)]
               /\ \A k \in Conts : slots'[k] \subseteq Args(case, k)
    <3>1. Mine(case, Subject(t))
      BY <2>1, NextStep DEF WriteSlot
    <3>2. /\ ContOf(Subject(t)) \in Conts /\ Subject(t) \in Tasks \cup Conts
          /\ Subject(t) \in Args(case, ContOf(Subject(t)))
      BY <1>1, <3>1, MineFacts, CaseOps
    <3> QED
      BY <2>1, <3>2 DEF WriteSlot, TypeOK, PlaceInv
  <2>2. CASE slots' = slots
    BY <2>2 DEF TypeOK, PlaceInv
  <2> QED
    BY <2>1, <2>2
    DEF Next, Step, ConstructArgs, PostArg, SkipArg, RunInPlace, Register, EndTask, Count, SetDone,
        ReturnResult, StartTask, DropTask, Forget, Interrupt, Terminated, vars
<1>5. ready' \in [Conts -> Nat] /\ done' \subseteq Conts
  <2>1. ASSUME NEW t \in Threads, SetDone(t)
        PROVE  ready' \in [Conts -> Nat] /\ done' \subseteq Conts
    BY <2>1, NextStep DEF SetDone, Increment, TypeOK
  <2>2. ASSUME NEW t \in Threads, Count(t)
        PROVE  ready' \in [Conts -> Nat] /\ done' \subseteq Conts
    <3>1. Mine(case, Subject(t))
      BY <2>2, NextStep DEF Count
    <3>2. ContOf(Subject(t)) \in Conts
      BY <1>1, <3>1, MineFacts, CaseOps
    <3> QED
      BY <2>2, <3>2 DEF Count, Increment, TypeOK
  <2>3. CASE UNCHANGED <<ready, done>>
    BY <2>3 DEF TypeOK
  <2> QED
    BY <2>1, <2>2, <2>3
    DEF Next, Step, ConstructArgs, PostArg, SkipArg, RunInPlace, Register, EndTask, WriteSlot,
        ReturnResult, StartTask, DropTask, Forget, Interrupt, Terminated, vars
<1>6. calls' \in Seq(SUBSET (Tasks \cup Conts))
  <2>1. ASSUME NEW t \in Threads, ReturnResult(t)
        PROVE  calls' \in Seq(SUBSET (Tasks \cup Conts))
    <3>1. Subject(t) \in Conts
      BY <2>1, NextStep DEF ReturnResult
    <3>2. slots[Subject(t)] \in SUBSET (Tasks \cup Conts)
      BY <3>1 DEF TypeOK
    <3>3. \/ calls' = calls \/ calls' = Append(calls, slots[Subject(t)])
      BY <2>1 DEF ReturnResult
    <3>4. calls \in Seq(SUBSET (Tasks \cup Conts))
      BY DEF TypeOK
    <3> HIDE DEF Subject
    <3> QED
      BY <3>2, <3>3, <3>4
  <2>2. CASE calls' = calls
    BY <2>2 DEF TypeOK
  <2> QED
    BY <2>1, <2>2
    DEF Next, Step, ConstructArgs, PostArg, SkipArg, RunInPlace, Register, EndTask, WriteSlot,
        Count, SetDone, StartTask, DropTask, Forget, Interrupt, Terminated, vars
<1>7. interrupted' \in BOOLEAN /\ waiting' \in BOOLEAN
  BY DEF Next, Step, ConstructArgs, PostArg, SkipArg, RunInPlace, Register, EndTask, WriteSlot,
         Count, SetDone, ReturnResult, StartTask, DropTask, Forget, Interrupt, Terminated, vars,
         TypeOK, unchanged
<1>8. posted' \subseteq Tasks \cup Conts
  BY <1>1, <1>3, MineFacts
<1>9. todo' \in [Threads -> Seq(Steps)]
  <2>1. Known(case) \subseteq Steps
    BY DEF Known
  <2> QED
    BY <1>2, <2>1
<1>10. TypeOK'
  BY <1>1, <1>4, <1>5, <1>6, <1>7, <1>8, <1>9 DEF TypeOK, Steps
<1>11. PlaceInv'
  BY <1>1, <1>2, <1>3, <1>4 DEF PlaceInv
<1> QED
  BY <1>10, <1>11

-----------------------------------------------------------------------------
(* on_done is called once                                                  *)

\* The operators of the model do not change with the case.
LEMMA FullKept == [Next]_vars => \A k : Full(k)' = Full(k)
  BY CaseKept DEF Full

\* A step whose steps return nothing leaves no step "return" of Root behind.
LEMMA CalledPlain ==
  ASSUME PlaceInv, CalledInv, NEW t \in Threads, todo[t] # <<>>,
         NEW steps \in Seq(Plain(case)), todo' = [todo EXCEPT ![t] = steps \o Tail(@)]
  PROVE  \A u \in Threads : \A i \in DOMAIN todo'[u] :
           todo'[u][i] = ReturnRoot =>
             u # t /\ i \in DOMAIN todo[u] /\ todo[u][i] = ReturnRoot
<1>1. steps \in Seq(Known(case)) /\ \A i \in DOMAIN steps : steps[i] # ReturnRoot
  BY DEF Plain, ReturnRoot, Do
<1>2. /\ Len(steps) \in Nat
      /\ \A u \in Threads : u # t => todo'[u] = todo[u]
      /\ \A i \in DOMAIN todo'[t] :
           /\ i \in Nat
           /\ i \in DOMAIN steps => todo'[t][i] = steps[i]
           /\ i \notin DOMAIN steps =>
                /\ i > Len(steps) /\ i - Len(steps) + 1 \in DOMAIN todo[t]
                /\ todo'[t][i] = todo[t][i - Len(steps) + 1]
  <2>1. todo \in [Threads -> Seq(Known(case))]
    BY DEF PlaceInv
  <2> QED
    BY <1>1, <2>1, Continued
<1>3. ASSUME NEW i \in DOMAIN todo'[t]
      PROVE  todo'[t][i] # ReturnRoot
  <2>1. CASE i \in DOMAIN steps
    BY <1>1, <1>2, <2>1
  <2>2. CASE i \notin DOMAIN steps
    <3>1. i - Len(steps) + 1 # 1
      BY <1>2, <2>2
    <3> QED
      BY <1>2, <2>2, <3>1 DEF CalledInv
  <2> QED
    BY <2>1, <2>2
<1> QED
  BY <1>2, <1>3

\* Every step keeps the call of on_done unique: the counter of Root passes n + 1
\* once, and only the thread that takes it there returns the result.
LEMMA CalledStep ==
  ASSUME TypeOK, PlaceInv, CalledInv, [Next]_vars
  PROVE  CalledInv'
<1>1. /\ \A k : Full(k)' = Full(k)
      /\ Full(Root) \in Nat /\ ready[Root] \in Nat /\ Root \in Conts
      /\ calls \in Seq(SUBSET (Tasks \cup Conts))
  <2>1. case.args[Root] \in Seq(Tasks \cup Conts)
    BY CaseAssumption, CaseFacts DEF TypeOK
  <2> QED
    BY <2>1, FullKept, CaseAssumption DEF TypeOK, Full
<1>2. \A k : ready' = [ready EXCEPT ![k] = @ + 1] => ready'[Root] >= ready[Root]
  BY <1>1 DEF TypeOK
<1>3. ASSUME NEW t \in Threads, Step(t), ReturnResult(t) /\ Subject(t) = Root
      PROVE  CalledInv'
  <2>1. todo[t] # <<>> /\ Head(todo[t]) = ReturnRoot /\ todo[t] \in Seq(Known(case))
    BY <1>3, NextStep DEF ReturnResult, ReturnRoot
  <2>2. 1 \in DOMAIN todo[t] /\ todo[t][1] = ReturnRoot
    BY <2>1
  <2>3. calls = <<>> /\ ready[Root] >= Full(Root)
    BY <2>2 DEF CalledInv
  <2>4. /\ Handler(t) \in Seq(Plain(case)) /\ todo' = [todo EXCEPT ![t] = Handler(t) \o Tail(@)]
        /\ calls' = Append(calls, slots[Root]) /\ ready' = ready
    BY <1>3, <2>1, KnownHandler DEF ReturnResult, Continue
  <2>5. calls' # <<>> /\ Len(calls') = 1
    BY <2>3, <2>4
  <2>6. ASSUME NEW u \in Threads, NEW i \in DOMAIN todo'[u], todo'[u][i] = ReturnRoot
        PROVE  FALSE
    <3>1. u # t /\ i \in DOMAIN todo[u] /\ todo[u][i] = ReturnRoot
      BY <2>1, <2>4, <2>6, CalledPlain
    <3> QED
      BY <2>2, <3>1 DEF CalledInv
  <2> QED
    BY <1>1, <2>3, <2>4, <2>5, <2>6 DEF CalledInv, ReturnRoot, Do
<1>4. ASSUME NEW t \in Threads, Step(t), ~(ReturnResult(t) /\ Subject(t) = Root)
      PROVE  CalledInv'
  <2>1. calls' = calls
    BY <1>4 DEF Step, ConstructArgs, PostArg, SkipArg, RunInPlace, Register, EndTask, WriteSlot,
                Count, SetDone, ReturnResult
  <2>2. ready'[Root] >= ready[Root] /\ ready'[Root] \in Nat
    <3>1. ready' = ready \/ \E k : ready' = [ready EXCEPT ![k] = @ + 1]
      BY <1>4 DEF Step, ConstructArgs, PostArg, SkipArg, RunInPlace, Register, EndTask, WriteSlot,
                  Count, SetDone, ReturnResult, Increment
    <3>2. ready'[Root] \in Nat
      BY <1>1, PlaceStep DEF TypeOK
    <3> QED
      BY <1>1, <1>2, <3>1, <3>2
  <2>3. todo[t] # <<>>
    BY <1>4, KnownStep
  <2>4. CASE \E steps \in Seq(Plain(case)) : todo' = [todo EXCEPT ![t] = steps \o Tail(@)]
    <3>1. \A u \in Threads : \A i \in DOMAIN todo'[u] :
            todo'[u][i] = ReturnRoot => i \in DOMAIN todo[u] /\ todo[u][i] = ReturnRoot
      BY <2>3, <2>4, CalledPlain
    <3>2. \A u \in Threads : \A i \in DOMAIN todo'[u] :
            todo'[u][i] = ReturnRoot => i = 1 /\ ready'[Root] >= Full(Root) /\ calls' = <<>>
      BY <1>1, <2>1, <2>2, <3>1 DEF CalledInv
    <3>3. \A u, v \in Threads : \A i \in DOMAIN todo'[u], j \in DOMAIN todo'[v] :
            todo'[u][i] = ReturnRoot /\ todo'[v][j] = ReturnRoot => u = v
      BY <3>1 DEF CalledInv
    <3>4. calls' # <<>> => ready'[Root] >= Full(Root) /\ Len(calls') = 1
      BY <1>1, <2>1, <2>2 DEF CalledInv
    <3> QED
      BY <1>1, <3>2, <3>3, <3>4 DEF CalledInv, ReturnRoot, Do
  <2>5. ASSUME NEW k \in Made(case),
               ready[k] + 1 = Full(k), ready' = [ready EXCEPT ![k] = @ + 1],
               Do("return", k) \in Known(case),
               todo' = [todo EXCEPT ![t] = <<Do("return", k)>> \o Tail(@)]
        PROVE  CalledInv'
    <3>1. CASE k # Root
      <4>1. Do("return", k) # ReturnRoot
        BY <3>1 DEF ReturnRoot, Do
      <4>2. todo \in [Threads -> Seq(Known(case))]
        BY DEF PlaceInv
      <4>3. /\ \A u \in Threads : u # t => todo'[u] = todo[u]
            /\ \A i \in DOMAIN todo'[t] :
                 /\ i = 1 => todo'[t][i] = Do("return", k)
                 /\ i # 1 => i \in Nat /\ i > 1 /\ i \in DOMAIN todo[t] /\ todo'[t][i] = todo[t][i]
        BY <2>3, <2>5, <4>2, ContinuedOne
      <4>4. \A i \in DOMAIN todo'[t] : todo'[t][i] # ReturnRoot
        BY <4>1, <4>3 DEF CalledInv
      <4>5. \A u \in Threads : \A i \in DOMAIN todo'[u] :
              todo'[u][i] = ReturnRoot => i \in DOMAIN todo[u] /\ todo[u][i] = ReturnRoot
        BY <4>3, <4>4
      <4>6. \A u \in Threads : \A i \in DOMAIN todo'[u] :
              todo'[u][i] = ReturnRoot => i = 1 /\ ready'[Root] >= Full(Root) /\ calls' = <<>>
        BY <1>1, <2>1, <2>2, <4>5 DEF CalledInv
      <4>7. \A u, v \in Threads : \A i \in DOMAIN todo'[u], j \in DOMAIN todo'[v] :
              todo'[u][i] = ReturnRoot /\ todo'[v][j] = ReturnRoot => u = v
        BY <4>5 DEF CalledInv
      <4>8. calls' # <<>> => ready'[Root] >= Full(Root) /\ Len(calls') = 1
        BY <1>1, <2>1, <2>2 DEF CalledInv
      <4> QED
        BY <1>1, <4>6, <4>7, <4>8 DEF CalledInv, ReturnRoot, Do
    <3>2. CASE k = Root
      <4>1. ready[Root] + 1 = Full(Root) /\ ready'[Root] = Full(Root)
        BY <1>1, <2>5, <3>2 DEF TypeOK
      <4>2. calls = <<>> /\ \A u \in Threads : \A i \in DOMAIN todo[u] : todo[u][i] # ReturnRoot
        BY <1>1, <4>1 DEF CalledInv
      <4>3. todo \in [Threads -> Seq(Known(case))]
        BY DEF PlaceInv
      <4>4. /\ \A u \in Threads : u # t => todo'[u] = todo[u]
            /\ \A i \in DOMAIN todo'[t] :
                 /\ i = 1 => todo'[t][i] = Do("return", k)
                 /\ i # 1 => i \in Nat /\ i > 1 /\ i \in DOMAIN todo[t] /\ todo'[t][i] = todo[t][i]
        BY <2>3, <2>5, <4>3, ContinuedOne
      <4>5. \A u \in Threads : \A i \in DOMAIN todo'[u] : todo'[u][i] = ReturnRoot => u = t /\ i = 1
        BY <4>2, <4>4
      <4> QED
        BY <1>1, <2>1, <4>1, <4>2, <4>5 DEF CalledInv, ReturnRoot, Do
    <3> QED
      BY <3>1, <3>2
  <2> QED
    BY <1>4, <2>4, <2>5, KnownStep
<1>5. ASSUME NEW a \in Tasks \cup Conts, StartTask(a)
      PROVE  CalledInv'
  <2>1. Executes(a) \in Seq(Plain(case))
    BY <1>5, KnownExecutes DEF StartTask, PlaceInv, TypeOK
  <2>2. \A i \in DOMAIN Executes(a) : Executes(a)[i] # ReturnRoot
    BY <2>1 DEF Plain, ReturnRoot, Do
  <2>3. \A u \in Threads : todo'[u] = IF u = a THEN Executes(a) ELSE todo[u]
    BY <1>5 DEF StartTask, TypeOK
  <2>4. \A u \in Threads : \A i \in DOMAIN todo'[u] :
          todo'[u][i] = ReturnRoot => i \in DOMAIN todo[u] /\ todo[u][i] = ReturnRoot
    BY <2>2, <2>3
  <2>5. UNCHANGED <<ready, calls>>
    BY <1>5 DEF StartTask
  <2>6. \A u \in Threads : \A i \in DOMAIN todo'[u] :
          todo'[u][i] = ReturnRoot => i = 1 /\ ready'[Root] >= Full(Root) /\ calls' = <<>>
    BY <2>4, <2>5 DEF CalledInv
  <2>7. \A u, v \in Threads : \A i \in DOMAIN todo'[u], j \in DOMAIN todo'[v] :
          todo'[u][i] = ReturnRoot /\ todo'[v][j] = ReturnRoot => u = v
    BY <2>4 DEF CalledInv
  <2>8. calls' # <<>> => ready'[Root] >= Full(Root) /\ Len(calls') = 1
    BY <2>5 DEF CalledInv
  <2> QED
    BY <1>1, <2>6, <2>7, <2>8 DEF CalledInv, ReturnRoot, Do
<1>6. CASE UNCHANGED <<todo, ready, calls>>
  BY <1>1, <1>6 DEF CalledInv, ReturnRoot, Do
<1> QED
  BY <1>3, <1>4, <1>5, <1>6 DEF Next, DropTask, Forget, Interrupt, Terminated, vars

\* The positions of a concatenation.
LEMMA Joined ==
  ASSUME NEW S, NEW p \in Seq(S), NEW q \in Seq(S), NEW r, r = p \o q
  PROVE  /\ r \in Seq(S) /\ Len(p) \in Nat /\ Len(q) \in Nat /\ Len(r) = Len(p) + Len(q)
         /\ DOMAIN r = 1 .. Len(p) + Len(q)
         /\ \A i \in 1 .. Len(p) : r[i] = p[i]
         /\ \A i \in Len(p) + 1 .. Len(p) + Len(q) : r[i] = q[i - Len(p)]
  OBVIOUS

\* The program of the creating thread, step by step.
LEMMA StepsOfProgram ==
  ASSUME case \in Cases
  PROVE  \E n \in Nat : \E nested \in [1 .. n -> Nested] :
           /\ \A i, j \in 1 .. n : nested[i] = nested[j] => i = j
           /\ Program \in Seq(Plain(case)) /\ n + 2 \in DOMAIN Program
           /\ \A i \in DOMAIN Program :
                /\ i \in 1 .. n => Program[i] = Do("construct", nested[i])
                /\ i = n + 1 => Program[i] = Do("set", Root)
                /\ i = n + 2 => Program[i] = Do("construct", Root)
                /\ i \notin 1 .. n + 2 => Program[i] = Do("register", Root)
<1>1. IsFiniteSet(Nested) /\ Nested \subseteq Made(case) /\ Root \in Made(case)
  BY CaseOps, CaseAssumption, FS_Subset
<1> DEFINE n == Cardinality(Nested)
           s == SetToSeq(Nested)
<1>2. n \in Nat /\ \E f \in [1 .. n -> Nested] : IsInjective(f)
  BY <1>1, FS_CardinalityType DEF ExistsBijection, Bijection, Injection, IsInjective
<1>3. s \in [1 .. n -> Nested] /\ \A i, j \in 1 .. n : s[i] = s[j] => i = j
  BY <1>2 DEF SetToSeq, IsInjective
<1> HIDE DEF n, s
<1>4. /\ \A k \in Made(case) : Do("construct", k) \in Plain(case) /\ Do("set", k) \in Plain(case)
      /\ Do("register", Root) \in Plain(case)
  BY <1>1, CaseOps DEF Plain, Known, Steps, Ops, Do
<1>5. PICK p : p = [i \in 1 .. n |-> Do("construct", s[i])]
  OBVIOUS
<1>6. PICK q : q = CreateContinuation
  OBVIOUS
<1>7. PICK r : r = Timed
  OBVIOUS
<1>8. p \in Seq(Plain(case)) /\ Len(p) = n
  BY <1>1, <1>2, <1>3, <1>4, <1>5
<1>9. /\ q \in Seq(Plain(case)) /\ Len(q) = 2
      /\ q[1] = Do("set", Root) /\ q[2] = Do("construct", Root)
  BY <1>1, <1>4, <1>6 DEF CreateContinuation
<1>10. r \in Seq(Plain(case)) /\ \A i \in DOMAIN r : r[i] = Do("register", Root)
  BY <1>4, <1>7 DEF Timed
<1>11. Program = p \o q \o r
  <2>1. DOMAIN s = 1 .. n
    BY <1>3
  <2>2. Program = [i \in DOMAIN s |-> Do("construct", s[i])] \o q \o r
    BY <1>6, <1>7 DEF Program, s, TopLevel
  <2> QED
    BY <1>5, <1>6, <1>7, <2>1, <2>2
<1>12. PICK pq : pq = p \o q
  OBVIOUS
<1>13. /\ pq \in Seq(Plain(case)) /\ Len(pq) = Len(p) + Len(q)
       /\ \A i \in 1 .. Len(p) : pq[i] = p[i]
       /\ \A i \in Len(p) + 1 .. Len(p) + Len(q) : pq[i] = q[i - Len(p)]
  <2>1. p \in Seq(Plain(case)) /\ q \in Seq(Plain(case))
    BY <1>8, <1>9
  <2> QED
    BY <1>12, <2>1, Joined
<1>14. Len(pq) = n + 2 /\ \A i \in 1 .. n : pq[i] = p[i]
  BY <1>8, <1>9, <1>13
<1>15. ASSUME NEW i \in n + 1 .. n + 2
        PROVE  pq[i] = IF i = n + 1 THEN Do("set", Root) ELSE Do("construct", Root)
  <2>1. PICK j : j = i - n
    OBVIOUS
  <2>2. pq[i] = q[j]
    BY <1>8, <1>9, <1>13, <2>1
  <2>3. q[1] = Do("set", Root) /\ q[2] = Do("construct", Root)
    BY <1>9
  <2>4. CASE i = n + 1
    <3>1. j = 1
      BY <1>2, <2>1, <2>4
    <3> QED
      BY <2>2, <2>3, <2>4, <3>1
  <2>5. CASE i # n + 1
    <3>1. j = 2
      BY <1>2, <2>1, <2>5
    <3> QED
      BY <2>2, <2>3, <2>5, <3>1
  <2> QED
    BY <2>4, <2>5
<1>16. /\ Program \in Seq(Plain(case)) /\ Len(r) \in Nat
       /\ Len(Program) = n + 2 + Len(r) /\ DOMAIN Program = 1 .. n + 2 + Len(r)
       /\ \A i \in 1 .. n + 2 : Program[i] = pq[i]
       /\ \A i \in n + 3 .. n + 2 + Len(r) : Program[i] = r[i - (n + 2)]
  <2>1. Program = pq \o r
    BY <1>11, <1>12
  <2> QED
    <3>1. /\ Program \in Seq(Plain(case)) /\ Len(r) \in Nat
          /\ Len(Program) = Len(pq) + Len(r) /\ DOMAIN Program = 1 .. Len(pq) + Len(r)
          /\ \A i \in 1 .. Len(pq) : Program[i] = pq[i]
          /\ \A i \in Len(pq) + 1 .. Len(pq) + Len(r) : Program[i] = r[i - Len(pq)]
      <4>1. pq \in Seq(Plain(case)) /\ r \in Seq(Plain(case))
        BY <1>10, <1>13
      <4> QED
        BY <2>1, <4>1, Joined
    <3>2. n + 2 + 1 = n + 3
      BY <1>2
    <3> QED
      BY <1>14, <3>1, <3>2
<1>17. ASSUME NEW i \in DOMAIN Program
       PROVE  /\ i \in 1 .. n => Program[i] = Do("construct", s[i])
              /\ i = n + 1 => Program[i] = Do("set", Root)
              /\ i = n + 2 => Program[i] = Do("construct", Root)
              /\ i \notin 1 .. n + 2 => Program[i] = Do("register", Root)
  <2>1. CASE i \in 1 .. n
    <3>1. i \in 1 .. n + 2 /\ i # n + 1 /\ i # n + 2
      BY <1>2, <2>1
    <3>2. p[i] = Do("construct", s[i])
      BY <1>5, <2>1
    <3> QED
      BY <1>14, <1>16, <2>1, <3>1, <3>2
  <2>2. CASE i = n + 1 \/ i = n + 2
    <3>1. i \in 1 .. n + 2 /\ i \notin 1 .. n /\ n + 1 # n + 2
      BY <1>2, <2>2
    <3>2. Program[i] = pq[i]
      BY <1>16, <3>1
    <3>3. i \in n + 1 .. n + 2
      BY <1>2, <2>2
    <3> QED
      BY <1>15, <2>2, <3>1, <3>2, <3>3
  <2>3. CASE i \notin 1 .. n + 2
    <3>1. i \in n + 3 .. n + 2 + Len(r) /\ i - (n + 2) \in 1 .. Len(r)
      BY <1>2, <1>16, <2>3
    <3>2. DOMAIN r = 1 .. Len(r)
      BY <1>10
    <3>3. i # n + 1 /\ i # n + 2 /\ i \notin 1 .. n
      BY <1>2, <2>3
    <3> QED
      BY <1>10, <1>16, <2>3, <3>1, <3>2, <3>3
  <2>4. i \in 1 .. n \/ i = n + 1 \/ i = n + 2 \/ i \notin 1 .. n + 2
    BY <1>2
  <2> QED
    BY <2>1, <2>2, <2>3, <2>4
<1>18. n + 2 \in DOMAIN Program
  BY <1>2, <1>16
<1> QED
  BY <1>2, <1>3, <1>16, <1>17, <1>18

\* The initial states.
LEMMA InitPlace == Init => TypeOK /\ PlaceInv /\ CalledInv
<1> SUFFICES ASSUME Init
             PROVE  TypeOK /\ PlaceInv /\ CalledInv
  OBVIOUS
<1>1. case \in Cases /\ calls = <<>> /\ ready \in [Conts -> Nat]
  BY DEF Init
<1>2. Program \in Seq(Plain(case)) /\ <<>> \in Seq(Plain(case))
  BY <1>1, StepsOfProgram
<1>3. todo \in [Threads -> Seq(Plain(case))]
  BY <1>2 DEF Init
<1>4. Plain(case) \subseteq Known(case) /\ Known(case) \subseteq Ops \X (Tasks \cup Conts)
      /\ ReturnRoot \notin Plain(case)
  BY DEF Plain, Known, Steps, ReturnRoot, Do
<1>5. /\ todo \in [Threads -> Seq(Known(case))]
      /\ todo \in [Threads -> Seq(Ops \X (Tasks \cup Conts))]
  BY <1>3, <1>4
<1>6. \A t \in Threads : \A i \in DOMAIN todo[t] : todo[t][i] # ReturnRoot
  BY <1>3, <1>4
<1>7. TypeOK
  <2>1. slots \in [Conts -> SUBSET (Tasks \cup Conts)] /\ calls \in Seq(SUBSET (Tasks \cup Conts))
    BY DEF Init
  <2>2. done \subseteq Conts /\ posted \subseteq Tasks \cup Conts
        /\ interrupted \in BOOLEAN /\ waiting \in BOOLEAN
    BY DEF Init
  <2> QED
    BY <1>1, <1>5, <2>1, <2>2 DEF TypeOK
<1>8. PlaceInv
  BY <1>5 DEF Init, PlaceInv
<1>9. CalledInv
  BY <1>1, <1>6 DEF CalledInv
<1> QED
  BY <1>7, <1>8, <1>9

\* Every thread's steps are about continuations that are created and their
\* arguments, and at most one of them returns the result of Root, when the
\* counter is full and on_done has not been called.
THEOREM CallbackCorrect == Spec => [](TypeOK /\ PlaceInv /\ CalledInv)
<1>1. TypeOK /\ PlaceInv /\ CalledInv /\ [Next]_vars => (TypeOK /\ PlaceInv /\ CalledInv)'
  BY PlaceStep, CalledStep
<1> QED
  BY InitPlace, <1>1, PTL DEF Spec

\* on_done is called once, whichever thread makes the counter full and even if
\* it throws (continuation_impl.hpp: subtask_finished::done, on_done).
THEOREM CallsOnce == Spec => []CalledOnce
<1>1. TypeOK /\ CalledInv => CalledOnce
  <2> SUFFICES ASSUME TypeOK, CalledInv
               PROVE  CalledOnce
    OBVIOUS
  <2>1. Len(<<>>) = 0
    OBVIOUS
  <2>2. calls # <<>> => Len(calls) = 1
    BY DEF CalledInv
  <2>3. Len(calls) \in {0, 1}
    BY <2>1, <2>2
  <2>4. \A n \in {0, 1} : n <= 1
    OBVIOUS
  <2> QED
    BY <2>3, <2>4 DEF CalledOnce
<1> QED
  BY CallbackCorrect, <1>1, PTL

-----------------------------------------------------------------------------
(* on_done is called with all the results                                  *)

\* A thread goes on after steps that have only tokens of its last step, or of N.
LEMMA ApartKept ==
  ASSUME NEW c, NEW td \in [Threads -> Seq(Known(c))], NEW t \in Threads, td[t] # <<>>,
         Apart(c, td), NEW N, Clear(c, td, N),
         NEW steps \in Seq(Known(c)), NEW nt, nt = [td EXCEPT ![t] = steps \o Tail(@)],
         \A i \in DOMAIN steps : Tokens(c, steps[i]) \subseteq Tokens(c, Head(td[t])) \cup N,
         \A i, j \in DOMAIN steps : i # j => Tokens(c, steps[i]) \cap Tokens(c, steps[j]) = {}
  PROVE  Apart(c, nt)
<1>1. /\ 1 \in DOMAIN td[t] /\ Head(td[t]) = td[t][1] /\ Len(steps) \in Nat
      /\ \A u \in Threads : u # t => nt[u] = td[u]
      /\ \A i \in DOMAIN nt[t] :
           /\ i \in Nat
           /\ i \in DOMAIN steps => nt[t][i] = steps[i]
           /\ i \notin DOMAIN steps =>
                /\ i > Len(steps) /\ i - Len(steps) + 1 \in DOMAIN td[t]
                /\ nt[t][i] = td[t][i - Len(steps) + 1]
  BY Continued
\* Every step was there before, behind the last one, or is a new one.
<1> DEFINE Old(u, i, j) == j \in DOMAIN td[u] /\ nt[u][i] = td[u][j] /\ (u = t => j # 1)
           New(u, i) == u = t /\ i \in DOMAIN steps /\ nt[u][i] = steps[i]
           At(u, i) == IF u = t THEN i - Len(steps) + 1 ELSE i
<1>2. ASSUME NEW u \in Threads, NEW i \in DOMAIN nt[u], ~New(u, i)
      PROVE  Old(u, i, At(u, i))
  <2>1. CASE u # t
    BY <1>1, <1>2, <2>1
  <2>2. CASE u = t
    <3>1. i \notin DOMAIN steps /\ i \in Nat /\ i > Len(steps)
      BY <1>1, <1>2, <2>2
    <3>2. i - Len(steps) + 1 # 1
      BY <1>1, <3>1
    <3> QED
      BY <1>1, <2>2, <3>1, <3>2
  <2> QED
    BY <2>1, <2>2
<1>3. ASSUME NEW u \in Threads, NEW i \in DOMAIN nt[u], ~New(u, i),
             NEW j \in DOMAIN nt[u], ~New(u, j), i # j
      PROVE  At(u, i) # At(u, j)
  <2>1. CASE u # t
    BY <1>3, <2>1
  <2>2. CASE u = t
    <3>1. i \in Nat /\ j \in Nat
      BY <1>1, <2>2
    <3> QED
      BY <1>1, <1>3, <2>2, <3>1
  <2> QED
    BY <2>1, <2>2
<1> HIDE DEF Old, New, At
<1>4. ASSUME NEW u \in Threads, NEW i \in DOMAIN nt[u], NEW v \in Threads, NEW j \in DOMAIN nt[v],
             u # v \/ i # j, New(u, i), ~New(v, j)
      PROVE  Tokens(c, nt[u][i]) \cap Tokens(c, nt[v][j]) = {}
  <2>1. Old(v, j, At(v, j))
    BY <1>2, <1>4
  <2>2. Tokens(c, nt[u][i]) \subseteq Tokens(c, td[t][1]) \cup N
    BY <1>1, <1>4 DEF New
  <2>3. Tokens(c, td[t][1]) \cap Tokens(c, nt[v][j]) = {}
    BY <1>1, <2>1 DEF Old, Apart
  <2>4. N \cap Tokens(c, nt[v][j]) = {}
    BY <2>1 DEF Old, Clear
  <2> QED
    BY <2>2, <2>3, <2>4
<1>5. ASSUME NEW u \in Threads, NEW v \in Threads, NEW i \in DOMAIN nt[u], NEW j \in DOMAIN nt[v],
             u # v \/ i # j
      PROVE  Tokens(c, nt[u][i]) \cap Tokens(c, nt[v][j]) = {}
  <2>1. CASE New(u, i) /\ New(v, j)
    BY <1>5, <2>1 DEF New
  <2>2. CASE New(u, i) /\ ~New(v, j)
    BY <1>4, <1>5, <2>2
  <2>3. CASE ~New(u, i) /\ New(v, j)
    <3>1. Tokens(c, nt[v][j]) \cap Tokens(c, nt[u][i]) = {}
      BY <1>4, <1>5, <2>3
    <3> QED
      BY <3>1
  <2>4. CASE ~New(u, i) /\ ~New(v, j)
    <3>1. PICK a, b : a = At(u, i) /\ b = At(v, j)
      OBVIOUS
    <3>2. Old(u, i, a) /\ Old(v, j, b)
      BY <1>2, <1>5, <2>4, <3>1
    <3>3. u # v \/ a # b
      BY <1>3, <1>5, <2>4, <3>1
    <3>4. /\ a \in DOMAIN td[u] /\ b \in DOMAIN td[v]
          /\ nt[u][i] = td[u][a] /\ nt[v][j] = td[v][b]
      BY <3>2 DEF Old
    <3>5. Tokens(c, td[u][a]) \cap Tokens(c, td[v][b]) = {}
      BY <3>3, <3>4 DEF Apart
    <3> QED
      BY <3>4, <3>5
  <2> QED
    BY <2>1, <2>2, <2>3, <2>4
<1> QED
  BY <1>5 DEF Apart

\* It leaves the tokens of its last step to S if the new steps do not have them.
LEMMA ClearKept ==
  ASSUME NEW c, NEW td \in [Threads -> Seq(Known(c))], NEW t \in Threads, td[t] # <<>>,
         Apart(c, td), NEW R, Clear(c, td, R),
         NEW steps \in Seq(Known(c)), NEW nt, nt = [td EXCEPT ![t] = steps \o Tail(@)],
         NEW S, S \subseteq R \cup Tokens(c, Head(td[t])),
         \A i \in DOMAIN steps : Tokens(c, steps[i]) \cap S = {}
  PROVE  Clear(c, nt, S)
<1>1. /\ 1 \in DOMAIN td[t] /\ Head(td[t]) = td[t][1] /\ Len(steps) \in Nat
      /\ \A u \in Threads : u # t => nt[u] = td[u]
      /\ \A i \in DOMAIN nt[t] :
           /\ i \in Nat
           /\ i \in DOMAIN steps => nt[t][i] = steps[i]
           /\ i \notin DOMAIN steps =>
                /\ i > Len(steps) /\ i - Len(steps) + 1 \in DOMAIN td[t]
                /\ nt[t][i] = td[t][i - Len(steps) + 1]
  BY Continued
<1>2. ASSUME NEW u \in Threads, NEW j \in DOMAIN td[u], u # t \/ j # 1
      PROVE  Tokens(c, td[u][j]) \cap S = {}
  <2>1. Tokens(c, td[u][j]) \cap R = {}
    BY DEF Clear
  <2>2. Tokens(c, td[u][j]) \cap Tokens(c, td[t][1]) = {}
    BY <1>1, <1>2 DEF Apart
  <2> QED
    BY <1>1, <2>1, <2>2
<1>3. ASSUME NEW u \in Threads, NEW i \in DOMAIN nt[u]
      PROVE  Tokens(c, nt[u][i]) \cap S = {}
  <2>1. CASE u # t
    BY <1>1, <1>2, <2>1
  <2>2. CASE u = t /\ i \in DOMAIN steps
    BY <1>1, <2>2
  <2>3. CASE u = t /\ i \notin DOMAIN steps
    <3>1. i \in Nat /\ i > Len(steps)
      BY <1>1, <2>3
    <3>2. i - Len(steps) + 1 # 1
      BY <1>1, <3>1
    <3> QED
      BY <1>1, <1>2, <2>3, <3>2
  <2> QED
    BY <2>1, <2>2, <2>3
<1> QED
  BY <1>3 DEF Clear

\* Every new step that counts follows the one that writes.
Paired(steps) ==
  \A i \in DOMAIN steps :
    steps[i][1] = "count" =>
      i # 1 /\ i - 1 \in DOMAIN steps /\ steps[i - 1] = Do("write", steps[i][2])

\* A thread goes on: what counts still follows what writes.
LEMMA WriteKept ==
  ASSUME NEW c, NEW td \in [Threads -> Seq(Known(c))], NEW t \in Threads, td[t] # <<>>,
         NEW sl, WriteFirst(c, td, sl),
         NEW steps \in Seq(Known(c)), NEW nt, nt = [td EXCEPT ![t] = steps \o Tail(@)],
         Paired(steps),
         NEW nsl, \A a : a \in sl[Cont(c, a)] => a \in nsl[Cont(c, a)],
         \A a : Head(td[t]) = Do("write", a) => steps = <<>> /\ a \in nsl[Cont(c, a)]
  PROVE  WriteFirst(c, nt, nsl)
<1>1. /\ 1 \in DOMAIN td[t] /\ Head(td[t]) = td[t][1]
      /\ Len(steps) \in Nat /\ DOMAIN steps = 1 .. Len(steps)
      /\ \A u \in Threads : u # t => nt[u] = td[u]
      /\ \A i \in DOMAIN nt[t] :
           /\ i \in Nat /\ i >= 1
           /\ i \in DOMAIN steps => nt[t][i] = steps[i]
           /\ i \notin DOMAIN steps =>
                /\ i > Len(steps) /\ i - Len(steps) + 1 \in DOMAIN td[t]
                /\ nt[t][i] = td[t][i - Len(steps) + 1]
      /\ \A i \in DOMAIN steps : i \in DOMAIN nt[t]
  BY Continued
<1> DEFINE First(u, i) ==
             IF i = 1 THEN nt[u][i][2] \in nsl[Cont(c, nt[u][i][2])]
                      ELSE nt[u][i - 1] = Do("write", nt[u][i][2])
<1>2. ASSUME NEW u \in Threads, NEW i \in DOMAIN nt[u], nt[u][i][1] = "count"
      PROVE  First(u, i)
  <2>1. CASE u # t
    <3>1. nt[u] = td[u]
      BY <1>1, <2>1
    <3>2. IF i = 1 THEN td[u][i][2] \in sl[Cont(c, td[u][i][2])]
                   ELSE td[u][i - 1] = Do("write", td[u][i][2])
      BY <1>2, <3>1 DEF WriteFirst
    <3> QED
      BY <3>1, <3>2
  <2>2. CASE u = t /\ i \in DOMAIN steps
    <3>1. i # 1 /\ i - 1 \in DOMAIN steps /\ steps[i - 1] = Do("write", steps[i][2])
      BY <1>1, <1>2, <2>2 DEF Paired
    <3>2. nt[t][i - 1] = steps[i - 1] /\ nt[t][i] = steps[i]
      BY <1>1, <2>2, <3>1
    <3> QED
      BY <2>2, <3>1, <3>2
  <2>3. CASE u = t /\ i \notin DOMAIN steps
    <3> DEFINE j == i - Len(steps) + 1
    <3>1. /\ i \in Nat /\ i > Len(steps) /\ j \in DOMAIN td[t] /\ nt[t][i] = td[t][j]
          /\ j # 1 /\ j \in Nat
      BY <1>1, <2>3
    <3>2. td[t][j - 1] = Do("write", td[t][j][2])
      BY <1>2, <2>3, <3>1 DEF WriteFirst
    <3>3. CASE j = 2
      <4>1. Head(td[t]) = Do("write", nt[t][i][2])
        BY <1>1, <3>1, <3>2, <3>3
      <4>2. steps = <<>> /\ nt[t][i][2] \in nsl[Cont(c, nt[t][i][2])]
        BY <4>1
      <4>3. Len(steps) = 0
        BY <4>2
      <4>4. i = 1
        BY <3>1, <3>3, <4>3
      <4> QED
        BY <2>3, <4>2, <4>4
    <3>4. CASE j # 2
      <4>1. i - 1 \in Nat /\ i - 1 > Len(steps) /\ i # 1 /\ i - 1 - Len(steps) + 1 = j - 1
        BY <1>1, <3>1, <3>4
      <4>2. i - 1 \in DOMAIN nt[t]
        <5>1. nt[t] \in Seq(Known(c))
          BY Continued
        <5>2. DOMAIN nt[t] = 1 .. Len(nt[t]) /\ Len(nt[t]) \in Nat /\ i \in DOMAIN nt[t]
          BY <2>3, <5>1
        <5> QED
          BY <1>1, <2>3, <3>1, <4>1, <5>2
      <4>3. i - 1 \notin DOMAIN steps
        BY <1>1, <4>1
      <4>4. nt[t][i - 1] = td[t][i - 1 - Len(steps) + 1]
        BY <1>1, <4>2, <4>3
      <4> QED
        BY <2>3, <3>1, <3>2, <4>1, <4>4
    <3> QED
      BY <3>3, <3>4
  <2> QED
    BY <2>1, <2>2, <2>3
<1> QED
  BY <1>2 DEF WriteFirst

\* New steps that have only the tokens T, each of them once.
Handed(c, steps, T) ==
  /\ Paired(steps)
  /\ \A i \in DOMAIN steps : Tokens(c, steps[i]) \subseteq T
  /\ \A i, j \in DOMAIN steps : i # j => Tokens(c, steps[i]) \cap Tokens(c, steps[j]) = {}

\* The tokens of each kind of step.
LEMMA TokensOf ==
  ASSUME NEW c, NEW a
  PROVE  /\ Tokens(c, Do("construct", a)) = {Token(b) : b \in Args(c, a)}
         /\ Tokens(c, Do("arg", a)) = {Token(a)} /\ Tokens(c, Do("set", a)) = {Do("set", a)}
         /\ Tokens(c, Do("count", a)) = {Do("give", a)}
         /\ Tokens(c, Do("return", a)) = {Do("give", a)}
         /\ Tokens(c, Do("write", a)) = {} /\ Tokens(c, Do("end", a)) = {}
         /\ Tokens(c, Do("register", a)) = {}
         /\ \A op : Do(op, a)[1] = op /\ Do(op, a)[2] = a
  BY DEF Tokens, Do

\* Arguments have different tokens, and "give" is not "set".
LEMMA TokenOf ==
  /\ \A a, b \in Tasks \cup Conts : Token(a) = Token(b) => a = b
  /\ \A a \in Conts : Token(a) = Do("set", a)
  /\ \A a \in Tasks : Token(a) = Do("give", a)
  /\ \A a, b : Do("give", a) # Do("set", b)
  /\ \A a, b, op : Do(op, a) = Do(op, b) => a = b
  BY CaseAssumption DEF Token, Do

\* A step has one kind.
LEMMA OpOf == \A a, b, o, p : Do(o, a) = Do(p, b) => o = p
  BY DEF Do

\* What an argument executes, when nothing fails after its result.
LEMMA HandedExecutes ==
  ASSUME Fails = {}, NEW a \in Tasks \cup Conts
  PROVE  Handed(case, Executes(a), {Token(a)})
<1>1. CASE a \in Conts
  <2>1. PICK s : s = Executes(a)
    OBVIOUS
  <2>2. DOMAIN s = {1} /\ s[1] = Do("set", a)
    BY <1>1, <2>1 DEF Executes, Wrapper
  <2>3. Tokens(case, s[1]) = {Token(a)} /\ s[1][1] # "count"
    BY <1>1, <2>2, TokensOf, TokenOf
  <2> QED
    BY <2>1, <2>2, <2>3 DEF Handed, Paired
<1>2. CASE a \notin Conts /\ Results(a) = <<>>
  <2>1. Executes(a) = <<>>
    BY <1>2 DEF Executes
  <2> QED
    BY <2>1 DEF Handed, Paired
<1>3. CASE a \notin Conts /\ Results(a) # <<>>
  <2>1. PICK s : s = Executes(a)
    OBVIOUS
  <2>2. s = Results(a)
    BY <1>3, <2>1 DEF Executes
  <2>3. /\ DOMAIN s = 1 .. 3 /\ s[1] = Do("write", a) /\ s[2] = Do("count", a)
        /\ s[3] = Do("end", a)
    BY <1>3, <2>2, StepsOfResults
  <2>4. /\ Tokens(case, s[1]) = {} /\ Tokens(case, s[2]) = {Token(a)} /\ Tokens(case, s[3]) = {}
        /\ s[1][1] # "count" /\ s[3][1] # "count" /\ s[2][2] = a
    BY <1>3, <2>3, TokensOf, TokenOf
  <2>5. \A i \in DOMAIN s : i = 1 \/ i = 2 \/ i = 3
    BY <2>3
  <2>6. Paired(s)
    BY <2>3, <2>4, <2>5 DEF Paired
  <2>7. \A i \in DOMAIN s : Tokens(case, s[i]) \subseteq {Token(a)}
    BY <2>4, <2>5
  <2>8. \A i, j \in DOMAIN s : i # j => Tokens(case, s[i]) \cap Tokens(case, s[j]) = {}
    BY <2>4, <2>5
  <2> QED
    BY <2>1, <2>6, <2>7, <2>8 DEF Handed
<1> QED
  BY <1>1, <1>2, <1>3

\* The arguments of a continuation have different tokens.
LEMMA HandedConstruct ==
  ASSUME case \in Cases, NEW k \in Conts
  PROVE  Handed(case, ConstructAll(k), Tokens(case, Do("construct", k)))
<1> DEFINE s == case.args[k]
<1>1. PICK p : p = ConstructAll(k)
  OBVIOUS
<1>2. /\ s \in Seq(Tasks \cup Conts) /\ DOMAIN p = DOMAIN s
      /\ \A i \in DOMAIN s : p[i] = Construct(k, s[i])
  BY <1>1, CaseFacts, KnownConstruct DEF ConstructAll
<1>3. ASSUME NEW a \in Tasks \cup Conts
      PROVE  Tokens(case, Construct(k, a)) = {Token(a)} /\ Construct(k, a)[1] # "count"
  <2>1. CASE a \in Conts /\ case.form[k] # "vector"
    <3>1. Construct(k, a) = Do("set", a)
      BY <2>1 DEF Construct
    <3> QED
      BY <2>1, <3>1, TokensOf, TokenOf
  <2>2. CASE ~(a \in Conts /\ case.form[k] # "vector")
    <3>1. Construct(k, a) = Do("arg", a)
      BY <2>2 DEF Construct
    <3> QED
      BY <3>1, TokensOf
  <2> QED
    BY <2>1, <2>2
<1>4. \A i \in DOMAIN s : s[i] \in Tasks \cup Conts /\ s[i] \in Args(case, k)
  BY <1>2 DEF Args, ToSet
<1>5. \A i, j \in DOMAIN s : i # j => s[i] # s[j]
  BY CaseAssumption
<1>6. \A i \in DOMAIN p : Tokens(case, p[i]) = {Token(s[i])} /\ p[i][1] # "count"
  BY <1>2, <1>3, <1>4
<1>7. Paired(p)
  BY <1>6 DEF Paired
<1>8. \A i \in DOMAIN p : Tokens(case, p[i]) \subseteq Tokens(case, Do("construct", k))
  <2>1. Tokens(case, Do("construct", k)) = {Token(b) : b \in Args(case, k)}
    BY TokensOf
  <2>2. \A i \in DOMAIN p : Token(s[i]) \in {Token(b) : b \in Args(case, k)}
    BY <1>2, <1>4
  <2> QED
    BY <1>6, <2>1, <2>2
<1>9. \A i, j \in DOMAIN p : i # j => Tokens(case, p[i]) \cap Tokens(case, p[j]) = {}
  <2> SUFFICES ASSUME NEW i \in DOMAIN p, NEW j \in DOMAIN p, i # j
               PROVE  Tokens(case, p[i]) \cap Tokens(case, p[j]) = {}
    OBVIOUS
  <2>1. Token(s[i]) # Token(s[j])
    BY <1>2, <1>4, <1>5, TokenOf
  <2> QED
    BY <1>6, <2>1
<1> QED
  BY <1>1, <1>7, <1>8, <1>9 DEF Handed

\* The result of a nested continuation.
LEMMA HandedGive ==
  ASSUME NEW k, NEW e, e = <<>> \/ e = <<Do("end", k)>>
  PROVE  Handed(case, Give(k) \o e, {Do("give", k)})
<1>1. PICK w, n, d : w = Do("write", k) /\ n = Do("count", k) /\ d = Do("end", k)
  OBVIOUS
<1>2. /\ Tokens(case, w) = {} /\ Tokens(case, n) = {Do("give", k)} /\ Tokens(case, d) = {}
      /\ w[1] # "count" /\ d[1] # "count" /\ n[2] = k
  BY <1>1, TokensOf
<1>3. PICK s : s = Give(k) \o e
  OBVIOUS
<1>4. PICK g : g = <<w, n>>
  OBVIOUS
<1>5. /\ g \in Seq({w, n, d}) /\ e \in Seq({w, n, d}) /\ Len(g) = 2 /\ Len(e) \in {0, 1}
      /\ g[1] = w /\ g[2] = n /\ (Len(e) = 1 => e[1] = d)
  <2>1. g \in Seq({w, n, d}) /\ Len(g) = 2 /\ g[1] = w /\ g[2] = n
    BY <1>4
  <2>2. CASE e = <<>>
    <3>1. e \in Seq({w, n, d}) /\ Len(e) = 0
      BY <2>2
    <3> QED
      BY <2>1, <3>1
  <2>3. CASE e = <<Do("end", k)>>
    <3>1. e = <<d>>
      BY <1>1, <2>3
    <3>2. e \in Seq({w, n, d}) /\ Len(e) = 1 /\ e[1] = d
      BY <3>1
    <3> QED
      BY <2>1, <3>2
  <2> QED
    BY <2>2, <2>3
<1>6. s = g \o e
  BY <1>1, <1>3, <1>4 DEF Give
<1>7. /\ DOMAIN s = 1 .. Len(g) + Len(e) /\ \A i \in 1 .. Len(g) : s[i] = g[i]
      /\ \A i \in Len(g) + 1 .. Len(g) + Len(e) : s[i] = e[i - Len(g)]
  <2>1. g \in Seq({w, n, d}) /\ e \in Seq({w, n, d})
    BY <1>5
  <2> QED
    BY <1>6, <2>1, Joined
<1>8. /\ 1 \in DOMAIN s /\ s[1] = w /\ s[2] = n
      /\ \A i \in DOMAIN s : i = 1 \/ i = 2 \/ (i = 3 /\ s[i] = d)
  <2>1. 1 \in 1 .. Len(g) /\ 2 \in 1 .. Len(g) /\ 1 \in 1 .. Len(g) + Len(e)
    BY <1>5
  <2>2. ASSUME NEW i \in DOMAIN s, i # 1, i # 2
        PROVE  i = 3 /\ s[i] = d
    <3>1. i \in 1 .. Len(g) + Len(e)
      BY <1>7
    <3>2. i = 3 /\ Len(e) = 1
      <4>1. CASE Len(e) = 0
        BY <1>5, <2>2, <3>1, <4>1
      <4>2. CASE Len(e) = 1
        BY <1>5, <2>2, <3>1, <4>2
      <4> QED
        BY <1>5, <4>1, <4>2
    <3>3. i \in Len(g) + 1 .. Len(g) + Len(e) /\ i - Len(g) = 1
      BY <1>5, <3>2
    <3> QED
      BY <1>5, <1>7, <3>2, <3>3
  <2> QED
    BY <1>5, <1>7, <2>1, <2>2
<1>9. Paired(s)
  BY <1>1, <1>2, <1>8 DEF Paired
<1>10. \A i \in DOMAIN s : Tokens(case, s[i]) \subseteq {Do("give", k)}
  BY <1>2, <1>8
<1>11. \A i, j \in DOMAIN s : i # j => Tokens(case, s[i]) \cap Tokens(case, s[j]) = {}
  <2> SUFFICES ASSUME NEW i \in DOMAIN s, NEW j \in DOMAIN s, i # j
               PROVE  Tokens(case, s[i]) = {} \/ Tokens(case, s[j]) = {}
    OBVIOUS
  <2> QED
    BY <1>2, <1>8
<1> QED
  BY <1>3, <1>9, <1>10, <1>11 DEF Handed

\* A thread goes on after steps with tokens of its last step, or with tokens N
\* that nobody has.
LEMMA CountKept ==
  ASSUME PlaceInv, NEW D, CountedInv(case, D, todo, ready, done, posted, slots),
         NEW t \in Threads, todo[t] # <<>>,
         NEW steps \in Seq(Known(case)), NEW td, td = [todo EXCEPT ![t] = steps \o Tail(@)],
         NEW N \in SUBSET (Later(case, ready) \cup Posted(posted)),
         NEW T, T = Tokens(case, Head(todo[t])), Handed(case, steps, T \cup N),
         NEW D1, NEW rd, NEW dn, NEW po, NEW sl,
         Later(case, rd) \cup Posted(po) \subseteq Later(case, ready) \cup Posted(posted) \cup T,
         Used(D1, dn) \subseteq Used(D, done) \cup T,
         Used(D1, dn) \cap (Later(case, rd) \cup Posted(po)) = {},
         \A i \in DOMAIN steps :
           /\ Tokens(case, steps[i]) \cap (Later(case, rd) \cup Posted(po)) = {}
           /\ Tokens(case, steps[i]) \cap Used(D1, dn) = {},
         Balanced(case, D1, rd, dn, sl),
         \A a : a \in slots[Cont(case, a)] => a \in sl[Cont(case, a)],
         \A a : Head(todo[t]) = Do("write", a) => steps = <<>> /\ a \in sl[Cont(case, a)]
  PROVE  CountedInv(case, D1, td, rd, dn, po, sl)
<1>1. todo \in [Threads -> Seq(Known(case))]
  BY DEF PlaceInv
<1>2. /\ Apart(case, todo) /\ Clear(case, todo, Later(case, ready) \cup Posted(posted))
      /\ Clear(case, todo, Used(D, done)) /\ WriteFirst(case, todo, slots)
  BY DEF CountedInv
<1>3. Apart(case, td)
  <2>1. Clear(case, todo, N)
    BY <1>2 DEF Clear
  <2>2. /\ \A i \in DOMAIN steps :
             Tokens(case, steps[i]) \subseteq Tokens(case, Head(todo[t])) \cup N
        /\ \A i, j \in DOMAIN steps :
             i # j => Tokens(case, steps[i]) \cap Tokens(case, steps[j]) = {}
    BY DEF Handed
  <2> QED
    BY <1>1, <1>2, <2>1, <2>2, ApartKept
<1>4. Clear(case, td, Later(case, rd) \cup Posted(po))
  BY <1>1, <1>2, ClearKept
<1>5. Clear(case, td, Used(D1, dn))
  BY <1>1, <1>2, ClearKept
<1>6. WriteFirst(case, td, sl)
  BY <1>1, <1>2, WriteKept DEF Handed
<1> QED
  BY <1>3, <1>4, <1>5, <1>6 DEF CountedInv

\* The same when nothing is posted, counted or set.
LEMMA CountSame ==
  ASSUME PlaceInv, NEW D, CountedInv(case, D, todo, ready, done, posted, slots),
         NEW t \in Threads, todo[t] # <<>>,
         NEW steps \in Seq(Known(case)), todo' = [todo EXCEPT ![t] = steps \o Tail(@)],
         Handed(case, steps, Tokens(case, Head(todo[t]))),
         \A a : a \in slots[Cont(case, a)] => a \in slots'[Cont(case, a)],
         \A a : Head(todo[t]) = Do("write", a) => steps = <<>> /\ a \in slots'[Cont(case, a)],
         case' = case, UNCHANGED <<ready, done, posted>>
  PROVE  CountedInv(case, D, todo, ready, done, posted, slots)'
<1> DEFINE L == Later(case, ready) \cup Posted(posted)
           U == Used(D, done)
           T == Tokens(case, Head(todo[t]))
<1>1. 1 \in DOMAIN todo[t] /\ Head(todo[t]) = todo[t][1]
  BY DEF PlaceInv
<1>2. /\ Clear(case, todo, L) /\ Clear(case, todo, U) /\ U \cap L = {}
      /\ Balanced(case, D, ready, done, slots)
  BY DEF CountedInv
<1>3. T \cap L = {} /\ T \cap U = {}
  BY <1>1, <1>2 DEF Clear
<1>4. \A i \in DOMAIN steps : Tokens(case, steps[i]) \subseteq T
  BY DEF Handed
<1>5. \A i \in DOMAIN steps : Tokens(case, steps[i]) \cap L = {} /\ Tokens(case, steps[i]) \cap U = {}
  BY <1>3, <1>4
<1>6. Balanced(case, D, ready, done, slots')
  BY <1>2 DEF Balanced
<1>7. Handed(case, steps, T \cup {}) /\ L \subseteq L \cup T /\ U \subseteq U \cup T
      /\ {} \in SUBSET L
  <2>1. T \cup {} = T
    OBVIOUS
  <2> QED
    BY <2>1
<1>8. CountedInv(case, D, todo', ready, done, posted, slots')
  BY <1>2, <1>5, <1>6, <1>7, CountKept
<1> QED
  BY <1>8

\* A step that is no "write" and changes nothing else.
LEMMA CountSameOp ==
  ASSUME TypeOK, PlaceInv, NEW D, CountedInv(case, D, todo, ready, done, posted, slots),
         NEW t \in Threads, NEW op, ToDo(t, op), op # "write",
         NEW steps \in Seq(Known(case)), todo' = [todo EXCEPT ![t] = steps \o Tail(@)],
         Handed(case, steps, Tokens(case, Do(op, Subject(t)))),
         UNCHANGED <<case, slots, ready, done, posted>>
  PROVE  CountedInv(case, D, todo, ready, done, posted, slots)'
<1>1. todo[t] # <<>> /\ Head(todo[t]) = Do(op, Subject(t))
  BY NextStep
<1>2. \A a : Head(todo[t]) # Do("write", a)
  BY <1>1, OpOf
<1>3. case' = case /\ slots' = slots /\ ready' = ready /\ done' = done /\ posted' = posted
  OBVIOUS
<1> QED
  BY <1>1, <1>2, <1>3, CountSame

\* The steps that count nothing.
LEMMA CountSameSteps ==
  ASSUME Fails = {}, TypeOK, PlaceInv,
         NEW D, CountedInv(case, D, todo, ready, done, posted, slots), NEW t \in Threads,
         \/ ConstructArgs(t) \/ SkipArg(t) \/ RunInPlace(t) \/ Register(t) \/ EndTask(t)
         \/ WriteSlot(t) \/ (ReturnResult(t) /\ Subject(t) # Root)
  PROVE  CountedInv(case, D, todo, ready, done, posted, slots)'
<1> DEFINE x == Subject(t)
           Same == UNCHANGED <<case, slots, ready, done, posted>>
           Goal == CountedInv(case, D, todo, ready, done, posted, slots)'
<1>1. case \in Cases /\ <<>> \in Seq(Known(case)) /\ Plain(case) \subseteq Known(case)
  BY DEF TypeOK, Plain
<1>2. \A s \in Seq(Plain(case)) : s \in Seq(Known(case))
  BY <1>1
<1>3. \A S : Handed(case, <<>>, S)
  BY DEF Handed, Paired
<1> HIDE DEF x, Same, Goal
<1>4. CASE ConstructArgs(t)
  <2>1. ToDo(t, "construct") /\ todo' = [todo EXCEPT ![t] = ConstructAll(x) \o Tail(@)]
        /\ Same
    BY <1>4 DEF ConstructArgs, unchanged, Continue, x, Same
  <2>2. x \in Conts
    BY <2>1, NextStep DEF x
  <2>3. /\ ConstructAll(x) \in Seq(Known(case))
        /\ Handed(case, ConstructAll(x), Tokens(case, Do("construct", x)))
    BY <1>1, <1>2, <2>2, KnownConstruct, HandedConstruct
  <2>4. "construct" # "write"
    OBVIOUS
  <2> QED
    BY <2>1, <2>3, <2>4, CountSameOp DEF x, Same, Goal
<1>5. CASE SkipArg(t) \/ Register(t) \/ EndTask(t)
  <2>1. PICK op \in {"arg", "register", "end"} :
          ToDo(t, op) /\ todo' = [todo EXCEPT ![t] = <<>> \o Tail(@)] /\ Same
    BY <1>5 DEF SkipArg, Register, EndTask, unchanged, Continue, Same
  <2>2. op # "write"
    BY <2>1
  <2> QED
    BY <1>1, <1>3, <2>1, <2>2, CountSameOp DEF Same, Goal
<1>6. CASE RunInPlace(t)
  <2>1. ToDo(t, "arg") /\ todo' = [todo EXCEPT ![t] = Executes(x) \o Tail(@)] /\ Same
    BY <1>6 DEF RunInPlace, unchanged, Continue, x, Same
  <2>2. Mine(case, x) /\ x \in Tasks \cup Conts
    BY <2>1, NextStep DEF x
  <2>3. Executes(x) \in Seq(Known(case)) /\ Handed(case, Executes(x), {Token(x)})
    BY <1>1, <1>2, <2>2, KnownExecutes, HandedExecutes
  <2>4. Tokens(case, Do("arg", x)) = {Token(x)} /\ "arg" # "write"
    BY TokensOf
  <2> QED
    BY <2>1, <2>3, <2>4, CountSameOp DEF x, Same, Goal
<1>7. CASE WriteSlot(t)
  <2>1. /\ ToDo(t, "write") /\ UNCHANGED <<case, ready, done, posted>>
        /\ slots' = [slots EXCEPT ![ContOf(x)] = @ \cup {x}]
        /\ todo' = [todo EXCEPT ![t] = <<>> \o Tail(@)]
    BY <1>7 DEF WriteSlot, unchanged, Continue, x
  <2>2. todo[t] # <<>> /\ Head(todo[t]) = Do("write", x) /\ Mine(case, x)
    BY <2>1, NextStep DEF x
  <2>3. ContOf(x) = Cont(case, x) /\ Cont(case, x) \in Conts
    BY <1>1, <2>2, MineFacts, CaseOps
  <2>4. \A a : a \in slots[Cont(case, a)] => a \in slots'[Cont(case, a)]
    BY <2>1, <2>3 DEF TypeOK
  <2>5. x \in slots'[Cont(case, x)]
    BY <2>1, <2>3 DEF TypeOK
  <2>6. \A a : Head(todo[t]) = Do("write", a) => a = x
    BY <2>2, TokenOf
  <2> QED
    BY <1>1, <1>3, <2>1, <2>2, <2>4, <2>5, <2>6, CountSame DEF Goal
<1>8. CASE ReturnResult(t) /\ Subject(t) # Root
  <2>1. PICK e : e = IF IsWrapped(x) THEN <<Do("end", x)>> ELSE <<>>
    OBVIOUS
  <2>2. /\ ToDo(t, "return") /\ todo' = [todo EXCEPT ![t] = (Give(x) \o e) \o Tail(@)]
        /\ Same
    BY <1>8, <2>1 DEF ReturnResult, unchanged, Continue, x, Same
  <2>3. x \in Made(case) /\ x # Root
    BY <1>8, <2>2, NextStep DEF x
  <2>4. Mine(case, x)
    BY <1>1, <2>3, MadeIsMine
  <2>5. Give(x) \in Seq(Known(case)) /\ e \in Seq(Known(case))
    <3>1. Give(x) \in Seq(Known(case)) /\ Do("end", x) \in Known(case)
      BY <1>1, <1>2, <2>4, KnownExecutes
    <3> QED
      BY <1>1, <2>1, <3>1
  <2>6. Give(x) \o e \in Seq(Known(case))
    BY <2>5
  <2>7. Handed(case, Give(x) \o e, {Do("give", x)})
    BY <2>1, HandedGive
  <2>8. Tokens(case, Do("return", x)) = {Do("give", x)} /\ "return" # "write"
    BY TokensOf
  <2> QED
    BY <2>2, <2>6, <2>7, <2>8, CountSameOp DEF x, Same, Goal
<1> QED
  BY <1>4, <1>5, <1>6, <1>7, <1>8 DEF Goal

\* A step that counts uses one token; the thread that makes a counter full takes
\* the token of the result.
LEMMA CountOne ==
  ASSUME TypeOK, PlaceInv, NEW D, CountedInv(case, D, todo, ready, done, posted, slots),
         NEW t \in Threads, todo[t] # <<>>, \A a : Head(todo[t]) # Do("write", a),
         NEW k \in Made(case), Increment(t, k),
         NEW x, Tokens(case, Head(todo[t])) = {x},
         NEW D1, NEW dn, Used(D1, dn) = Used(D, done) \cup {x},
         Balanced(case, D1, ready', dn, slots)
  PROVE  CountedInv(case, D1, todo', ready', dn, posted, slots)
<1> DEFINE L == Later(case, ready) \cup Posted(posted)
           M == Later(case, ready') \cup Posted(posted)
           U == Used(D, done)
           V == Used(D1, dn)
<1>1. k \in Conts /\ Do("return", k) \in Known(case)
  BY CaseOps DEF Known, Steps, Ops, Do
<1>2. 1 \in DOMAIN todo[t] /\ Head(todo[t]) = todo[t][1]
  BY DEF PlaceInv
<1>3. Clear(case, todo, L) /\ Clear(case, todo, U) /\ U \cap L = {}
  BY DEF CountedInv
<1>4. x \notin L /\ x \notin U
  BY <1>2, <1>3 DEF Clear
<1>5. /\ ready' = [ready EXCEPT ![k] = @ + 1] /\ ready[k] \in Nat
      /\ \A j \in Conts : ready[j] \in Nat /\ Len(case.args[j]) \in Nat
  BY <1>1, CaseFacts DEF Increment, TypeOK
<1>6. Later(case, ready') \subseteq Later(case, ready)
  BY <1>1, <1>5 DEF Later
<1>7. M \subseteq L /\ V = U \cup {x} /\ V \cap M = {}
  BY <1>3, <1>4, <1>6
<1>8. L \subseteq L \cup {x} /\ V \subseteq U \cup {x} /\ M \subseteq L \cup {x}
  BY <1>7
<1>9. CASE ready[k] + 1 = Full(k)
  <2> DEFINE r == Do("return", k)
             g == Do("give", k)
  <2>1. PICK steps : steps = <<r>>
    OBVIOUS
  <2>2. steps \in Seq(Known(case)) /\ DOMAIN steps = {1} /\ steps[1] = r
    BY <1>1, <2>1
  <2>3. todo' = [todo EXCEPT ![t] = steps \o Tail(@)]
    BY <1>9, <2>1 DEF Increment, Continue
  <2>4. Tokens(case, r) = {g} /\ r[1] # "count"
    BY TokensOf
  <2>5. g \in Later(case, ready) /\ g \notin Later(case, ready')
    <3>1. ready[k] < Len(case.args[k]) + 1 /\ ~(ready'[k] < Len(case.args[k]) + 1)
      BY <1>1, <1>5, <1>9 DEF Full, TypeOK
    <3> QED
      BY <1>1, <3>1, TokenOf DEF Later
  <2>6. g \notin Posted(posted)
    <3> SUFFICES ASSUME NEW a \in posted, Token(a) = g
                 PROVE  FALSE
      BY DEF Posted
    <3>1. a \in Tasks \cup Conts
      BY DEF TypeOK
    <3>2. a \in Tasks
      BY <3>1, TokenOf
    <3>3. a = k
      BY <3>2, TokenOf
    <3> QED
      BY <1>1, <3>2, <3>3, CaseAssumption
  <2>7. g # x /\ g \notin M /\ g \notin V
    BY <1>3, <1>4, <1>7, <2>5, <2>6
  <2> HIDE DEF g, r, L, M, U, V
  <2>8. Handed(case, steps, {x} \cup {g}) /\ {g} \in SUBSET L
    BY <2>2, <2>4, <2>5 DEF Handed, Paired, L
  <2>9. \A i \in DOMAIN steps : Tokens(case, steps[i]) \cap M = {} /\ Tokens(case, steps[i]) \cap V = {}
    BY <2>2, <2>4, <2>7
  <2> QED
    BY <1>7, <1>8, <2>2, <2>3, <2>8, <2>9, CountKept DEF L, M, U, V
<1>10. CASE ready[k] + 1 # Full(k)
  <2>1. todo' = [todo EXCEPT ![t] = <<>> \o Tail(@)] /\ <<>> \in Seq(Known(case))
    BY <1>10 DEF Increment, Continue
  <2>2. Handed(case, <<>>, {x} \cup {}) /\ {} \in SUBSET L
    BY DEF Handed, Paired
  <2>3. \A i \in DOMAIN <<>> : Tokens(case, <<>>[i]) \cap M = {} /\ Tokens(case, <<>>[i]) \cap V = {}
    OBVIOUS
  <2> HIDE DEF L, M, U, V
  <2> QED
    BY <1>7, <1>8, <2>1, <2>2, <2>3, CountKept DEF L, M, U, V
<1> QED
  BY <1>9, <1>10

\* An argument counts.
LEMMA CountStepCount ==
  ASSUME TypeOK, PlaceInv, NEW D \in SUBSET (Tasks \cup Conts),
         CountedInv(case, D, todo, ready, done, posted, slots), NEW t \in Threads, Count(t)
  PROVE  \E D1 \in SUBSET (Tasks \cup Conts) :
           CountedInv(case, D1, todo', ready', done, posted, slots)
<1>1. PICK a, k : a = Subject(t) /\ k = Cont(case, a)
  OBVIOUS
<1>2. /\ todo[t] # <<>> /\ Head(todo[t]) = Do("count", a) /\ Mine(case, a)
      /\ 1 \in DOMAIN todo[t] /\ todo[t][1] = Do("count", a)
  <2>1. todo[t] # <<>> /\ Head(todo[t]) = Do("count", a) /\ Mine(case, a)
    BY <1>1, NextStep DEF Count
  <2> QED
    BY <2>1 DEF PlaceInv
<1>3. /\ k \in Made(case) /\ k \in Conts /\ a \in Args(case, k) /\ a \in Tasks \cup Conts
      /\ Increment(t, k)
  BY <1>1, <1>2, MineFacts, CaseOps DEF Count, TypeOK
<1>4. \A b : Head(todo[t]) # Do("write", b)
  BY <1>2, OpOf
<1>5. Tokens(case, Head(todo[t])) = {Do("give", a)}
  BY <1>2, TokensOf
<1>6. a \notin D
  <2>1. Tokens(case, todo[t][1]) \cap Used(D, done) = {}
    BY <1>2 DEF CountedInv, Clear
  <2>2. Do("give", a) \notin Used(D, done)
    BY <1>2, <1>5, <2>1
  <2> QED
    BY <2>2 DEF Used
<1>7. a \in slots[Cont(case, a)]
  <2>1. WriteFirst(case, todo, slots)
    BY DEF CountedInv
  <2>2. todo[t][1][1] = "count" /\ todo[t][1][2] = a
    BY <1>2 DEF Do
  <2> QED
    BY <1>2, <2>1, <2>2 DEF WriteFirst
<1>8. Used(D \cup {a}, done) = Used(D, done) \cup {Do("give", a)}
  BY DEF Used
<1>9. ready' = [ready EXCEPT ![k] = @ + 1]
  BY <1>3 DEF Increment
<1>10. ASSUME NEW j \in Conts
       PROVE  Cardinality((D \cup {a}) \cap Args(case, j)) + (IF j \in done THEN 1 ELSE 0)
                = ready'[j]
  <2>1. Cardinality(D \cap Args(case, j)) + (IF j \in done THEN 1 ELSE 0) = ready[j]
    BY DEF CountedInv, Balanced
  <2>2. IsFiniteSet(D \cap Args(case, j)) /\ ready[j] \in Nat
    BY CaseFacts, FS_Intersection DEF TypeOK
  <2>3. CASE j = k
    <3>1. (D \cup {a}) \cap Args(case, j) = (D \cap Args(case, j)) \cup {a}
      BY <1>3, <2>3
    <3>2. Cardinality((D \cap Args(case, j)) \cup {a}) = Cardinality(D \cap Args(case, j)) + 1
      BY <1>6, <2>2, FS_AddElement
    <3>3. Cardinality(D \cap Args(case, j)) \in Nat
      BY <2>2, FS_CardinalityType
    <3>4. ready'[j] = ready[j] + 1
      BY <1>3, <1>9, <2>3 DEF TypeOK
    <3>5. PICK n \in Nat : n = Cardinality(D \cap Args(case, j))
      BY <3>3
    <3>6. Cardinality((D \cup {a}) \cap Args(case, j)) = n + 1
      BY <3>1, <3>2, <3>5
    <3>7. PICK b \in {0, 1} : b = IF j \in done THEN 1 ELSE 0
      OBVIOUS
    <3>8. n + b = ready[j]
      BY <2>1, <3>5, <3>7
    <3>9. n + 1 + b = ready'[j]
      BY <3>4, <3>8
    <3> QED
      BY <3>6, <3>7, <3>9
  <2>4. CASE j # k
    <3>1. a \notin Args(case, j)
      BY <1>1, <2>4, CaseFacts DEF TypeOK
    <3>2. (D \cup {a}) \cap Args(case, j) = D \cap Args(case, j)
      BY <3>1
    <3>3. ready'[j] = ready[j]
      BY <1>3, <1>9, <2>4 DEF TypeOK
    <3> QED
      BY <2>1, <3>2, <3>3
  <2> QED
    BY <2>3, <2>4
<1>11. Balanced(case, D \cup {a}, ready', done, slots)
  BY <1>7, <1>10 DEF Balanced, CountedInv
<1>12. CountedInv(case, D \cup {a}, todo', ready', done, posted, slots)
  BY <1>2, <1>3, <1>4, <1>5, <1>8, <1>11, CountOne
<1> QED
  BY <1>3, <1>12

\* on_done is set, and counts.
LEMMA CountStepSet ==
  ASSUME TypeOK, PlaceInv, NEW D,
         CountedInv(case, D, todo, ready, done, posted, slots), NEW t \in Threads, SetDone(t)
  PROVE  CountedInv(case, D, todo', ready', done', posted, slots)
<1>1. PICK k : k = Subject(t)
  OBVIOUS
<1>2. /\ todo[t] # <<>> /\ Head(todo[t]) = Do("set", k) /\ k \in Made(case) /\ k \in Conts
      /\ 1 \in DOMAIN todo[t] /\ todo[t][1] = Do("set", k)
  <2>1. /\ todo[t] # <<>> /\ Head(todo[t]) = Do("set", k) /\ k \in Made(case) /\ k \in Conts
    BY <1>1, NextStep DEF SetDone
  <2> QED
    BY <2>1 DEF PlaceInv
<1>3. Increment(t, k) /\ done' = done \cup {k}
  BY <1>1 DEF SetDone
<1>4. \A b : Head(todo[t]) # Do("write", b)
  BY <1>2, OpOf
<1>5. Tokens(case, Head(todo[t])) = {Do("set", k)}
  BY <1>2, TokensOf
<1>6. k \notin done
  BY <1>2, <1>5 DEF CountedInv, Clear, Used
<1>7. Used(D, done') = Used(D, done) \cup {Do("set", k)}
  BY <1>3 DEF Used
<1>8. ready' = [ready EXCEPT ![k] = @ + 1]
  BY <1>3 DEF Increment
<1>9. ASSUME NEW j \in Conts
      PROVE  Cardinality(D \cap Args(case, j)) + (IF j \in done' THEN 1 ELSE 0) = ready'[j]
  <2>1. Cardinality(D \cap Args(case, j)) + (IF j \in done THEN 1 ELSE 0) = ready[j]
    BY DEF CountedInv, Balanced
  <2>2. IsFiniteSet(D \cap Args(case, j)) /\ ready[j] \in Nat
    BY CaseFacts, FS_Intersection DEF TypeOK
  <2>3. Cardinality(D \cap Args(case, j)) \in Nat
    BY <2>2, FS_CardinalityType
  <2>4. CASE j = k
    <3>1. ready'[j] = ready[j] + 1 /\ j \in done' /\ j \notin done
      BY <1>2, <1>3, <1>6, <1>8, <2>4 DEF TypeOK
    <3> QED
      BY <2>1, <2>3, <3>1
  <2>5. CASE j # k
    <3>1. ready'[j] = ready[j] /\ (j \in done' <=> j \in done)
      BY <1>2, <1>3, <1>8, <2>5 DEF TypeOK
    <3> QED
      BY <2>1, <3>1
  <2> QED
    BY <2>4, <2>5
<1>10. Balanced(case, D, ready', done', slots)
  BY <1>9 DEF Balanced, CountedInv
<1> QED
  BY <1>2, <1>3, <1>4, <1>5, <1>7, <1>10, CountOne

\* An argument is posted.
LEMMA CountStepPost ==
  ASSUME TypeOK, PlaceInv, NEW D,
         CountedInv(case, D, todo, ready, done, posted, slots), NEW t \in Threads, PostArg(t)
  PROVE  CountedInv(case, D, todo', ready, done, posted', slots)
<1>1. PICK a : a = Subject(t)
  OBVIOUS
<1>2. /\ todo[t] # <<>> /\ Head(todo[t]) = Do("arg", a)
      /\ 1 \in DOMAIN todo[t] /\ todo[t][1] = Do("arg", a)
  <2>1. todo[t] # <<>> /\ Head(todo[t]) = Do("arg", a)
    BY <1>1, NextStep DEF PostArg
  <2> QED
    BY <2>1 DEF PlaceInv
<1>3. posted' = posted \cup {a} /\ todo' = [todo EXCEPT ![t] = <<>> \o Tail(@)]
  BY <1>1 DEF PostArg, Continue
<1>4. \A b : Head(todo[t]) # Do("write", b)
  BY <1>2, OpOf
<1>5. Tokens(case, Head(todo[t])) = {Token(a)}
  BY <1>2, TokensOf
<1>6. Token(a) \notin Used(D, done)
  BY <1>2, <1>5 DEF CountedInv, Clear
<1>7. Posted(posted') = Posted(posted) \cup {Token(a)}
  BY <1>3 DEF Posted
<1>8. /\ Later(case, ready) \cup Posted(posted')
           \subseteq Later(case, ready) \cup Posted(posted) \cup {Token(a)}
      /\ Used(D, done) \subseteq Used(D, done) \cup {Token(a)}
      /\ Used(D, done) \cap (Later(case, ready) \cup Posted(posted')) = {}
  BY <1>6, <1>7 DEF CountedInv
<1>9. Handed(case, <<>>, {Token(a)} \cup {}) /\ <<>> \in Seq(Known(case))
      /\ {} \in SUBSET (Later(case, ready) \cup Posted(posted))
  BY DEF Handed, Paired
<1>10. Balanced(case, D, ready, done, slots)
  BY DEF CountedInv
<1>11. \A i \in DOMAIN <<>> :
         /\ Tokens(case, <<>>[i]) \cap (Later(case, ready) \cup Posted(posted')) = {}
         /\ Tokens(case, <<>>[i]) \cap Used(D, done) = {}
  OBVIOUS
<1> QED
  BY <1>2, <1>3, <1>4, <1>5, <1>8, <1>9, <1>10, <1>11, CountKept

\* A posted argument is executed.
LEMMA CountStepStart ==
  ASSUME Fails = {}, TypeOK, PlaceInv, NEW D,
         CountedInv(case, D, todo, ready, done, posted, slots),
         NEW a \in Tasks \cup Conts, StartTask(a)
  PROVE  CountedInv(case, D, todo', ready, done, posted', slots)
<1>1. PICK s : s = Executes(a)
  OBVIOUS
<1>2. a \in posted /\ posted' = posted \ {a} /\ Handed(case, s, {Token(a)})
  BY <1>1, HandedExecutes DEF StartTask
<1>3. \A u \in Threads : todo'[u] = IF u = a THEN s ELSE todo[u]
  BY <1>1 DEF StartTask, TypeOK
<1>4. Token(a) \in Posted(posted) /\ Token(a) \notin Posted(posted')
  <2>1. posted \subseteq Tasks \cup Conts
    BY DEF TypeOK
  <2> QED
    BY <1>2, <2>1, TokenOf DEF Posted
<1>5. Posted(posted') \subseteq Posted(posted)
  BY <1>2 DEF Posted
<1>6. Token(a) \notin Later(case, ready)
  <2> SUFFICES ASSUME NEW k \in Conts, Token(a) = Do("give", k)
               PROVE  FALSE
    BY DEF Later
  <2>1. a \in Tasks
    BY TokenOf
  <2>2. a = k
    BY <2>1, TokenOf
  <2> QED
    BY <2>1, <2>2, CaseAssumption
<1>7. Token(a) \notin Used(D, done)
  BY <1>4 DEF CountedInv
<1>8. \A u \in Threads : \A i \in DOMAIN todo[u] : Token(a) \notin Tokens(case, todo[u][i])
  BY <1>4 DEF CountedInv, Clear
<1>9. \A i \in DOMAIN s : Tokens(case, s[i]) \subseteq {Token(a)}
  BY <1>2 DEF Handed
<1>10. Apart(case, todo')
  <2> SUFFICES ASSUME NEW t \in Threads, NEW u \in Threads,
                      NEW i \in DOMAIN todo'[t], NEW j \in DOMAIN todo'[u], t # u \/ i # j
               PROVE  Tokens(case, todo'[t][i]) \cap Tokens(case, todo'[u][j]) = {}
    BY DEF Apart
  <2>1. CASE t = a /\ u = a
    BY <1>2, <1>3, <2>1 DEF Handed
  <2>2. CASE t = a /\ u # a
    BY <1>3, <1>8, <1>9, <2>2
  <2>3. CASE t # a /\ u = a
    BY <1>3, <1>8, <1>9, <2>3
  <2>4. CASE t # a /\ u # a
    BY <1>3, <2>4 DEF CountedInv, Apart
  <2> QED
    BY <2>1, <2>2, <2>3, <2>4
<1>11. ASSUME NEW R, Clear(case, todo, R), NEW S, S \subseteq R, Token(a) \notin S
       PROVE  Clear(case, todo', S)
  <2> SUFFICES ASSUME NEW t \in Threads, NEW i \in DOMAIN todo'[t]
               PROVE  Tokens(case, todo'[t][i]) \cap S = {}
    BY DEF Clear
  <2>1. CASE t = a
    BY <1>3, <1>9, <1>11, <2>1
  <2>2. CASE t # a
    BY <1>3, <1>11, <2>2 DEF Clear
  <2> QED
    BY <2>1, <2>2
<1>12. Clear(case, todo', Later(case, ready) \cup Posted(posted'))
  <2>1. /\ Later(case, ready) \cup Posted(posted') \subseteq Later(case, ready) \cup Posted(posted)
        /\ Token(a) \notin Later(case, ready) \cup Posted(posted')
    BY <1>4, <1>5, <1>6
  <2>2. Clear(case, todo, Later(case, ready) \cup Posted(posted))
    BY DEF CountedInv
  <2> QED
    BY <1>11, <2>1, <2>2
<1>13. Clear(case, todo', Used(D, done))
  <2>1. Clear(case, todo, Used(D, done)) /\ Used(D, done) \subseteq Used(D, done)
    BY DEF CountedInv
  <2> QED
    BY <1>7, <1>11, <2>1
<1>14. WriteFirst(case, todo', slots)
  <2> SUFFICES ASSUME NEW t \in Threads, NEW i \in DOMAIN todo'[t], todo'[t][i][1] = "count"
               PROVE  IF i = 1 THEN todo'[t][i][2] \in slots[Cont(case, todo'[t][i][2])]
                      ELSE todo'[t][i - 1] = Do("write", todo'[t][i][2])
    BY DEF WriteFirst
  <2>1. CASE t = a
    BY <1>2, <1>3, <2>1 DEF Handed, Paired
  <2>2. CASE t # a
    <3>1. todo'[t] = todo[t]
      BY <1>3, <2>2
    <3> QED
      BY <3>1 DEF CountedInv, WriteFirst
  <2> QED
    BY <2>1, <2>2
<1>15. Used(D, done) \cap (Later(case, ready) \cup Posted(posted')) = {}
  BY <1>5 DEF CountedInv
<1> QED
  BY <1>10, <1>12, <1>13, <1>14, <1>15 DEF CountedInv

\* At the start every argument has one token, in the step that constructs it.
LEMMA InitCount == Init => CountInv
<1> SUFFICES ASSUME Init
             PROVE  CountInv
  OBVIOUS
<1>1. /\ case \in Cases /\ calls = <<>> /\ done = {} /\ posted = {}
      /\ \A k \in Conts : ready[k] = 0
      /\ \A u \in Threads : todo[u] = IF u = Creator THEN Program ELSE <<>>
  BY DEF Init
<1>2. PICK n \in Nat : \E nested \in [1 .. n -> Nested] :
        /\ \A i, j \in 1 .. n : nested[i] = nested[j] => i = j
        /\ \A i \in DOMAIN Program :
             /\ i \in 1 .. n => Program[i] = Do("construct", nested[i])
             /\ i = n + 1 => Program[i] = Do("set", Root)
             /\ i = n + 2 => Program[i] = Do("construct", Root)
             /\ i \notin 1 .. n + 2 => Program[i] = Do("register", Root)
  BY <1>1, StepsOfProgram
<1>3. PICK nested \in [1 .. n -> Nested] :
        /\ \A i, j \in 1 .. n : nested[i] = nested[j] => i = j
        /\ \A i \in DOMAIN Program :
             /\ i \in 1 .. n => Program[i] = Do("construct", nested[i])
             /\ i = n + 1 => Program[i] = Do("set", Root)
             /\ i = n + 2 => Program[i] = Do("construct", Root)
             /\ i \notin 1 .. n + 2 => Program[i] = Do("register", Root)
  BY <1>2
<1>4. \A i \in 1 .. n : nested[i] \in Conts /\ nested[i] # Root
  <2> SUFFICES ASSUME NEW k \in Nested
               PROVE  k \in Conts /\ k # Root
    OBVIOUS
  <2>1. PICK j \in Conts : Contains(case.args[j], k)
    BY DEF Nested
  <2>2. k \in Args(case, j) /\ Root \notin Args(case, j)
    BY <1>1, <2>1, CaseFacts
  <2> QED
    BY <2>2 DEF Nested
<1> DEFINE Builds(i) == i \in 1 .. n \/ i = n + 2
           Of(i) == IF i \in 1 .. n THEN nested[i] ELSE Root
<1>5. ASSUME NEW i \in DOMAIN Program
      PROVE  /\ Builds(i) => Program[i] = Do("construct", Of(i)) /\ Of(i) \in Conts
             /\ i = n + 1 => Program[i] = Do("set", Root)
             /\ ~Builds(i) /\ i # n + 1 => Program[i] = Do("register", Root)
  <2>1. CASE i \in 1 .. n
    <3>1. i # n + 1
      BY <2>1
    <3> QED
      BY <1>3, <1>4, <2>1, <3>1
  <2>2. CASE i \notin 1 .. n
    <3>1. n + 2 \notin 1 .. n /\ n + 1 # n + 2
      OBVIOUS
    <3>2. i # n + 1 /\ i # n + 2 => i \notin 1 .. n + 2
      BY <2>2
    <3> QED
      BY <1>3, <2>2, <3>1, <3>2, CaseAssumption
  <2> QED
    BY <2>1, <2>2
<1>6. \A i, j : Builds(i) /\ Builds(j) /\ i # j => Of(i) # Of(j)
  <2>1. n + 2 \notin 1 .. n
    OBVIOUS
  <2> QED
    BY <1>3, <1>4, <2>1
<1>7. ~Builds(n + 1)
  OBVIOUS
<1> HIDE DEF Builds, Of
<1>8. ASSUME NEW i \in DOMAIN Program
      PROVE  /\ Builds(i) => Tokens(case, Program[i]) = {Token(b) : b \in Args(case, Of(i))}
             /\ i = n + 1 => Tokens(case, Program[i]) = {Do("set", Root)}
             /\ ~Builds(i) /\ i # n + 1 => Tokens(case, Program[i]) = {}
  BY <1>5, TokensOf
<1>9. ASSUME NEW b, NEW k \in Conts, b \in Args(case, k)
      PROVE  /\ Token(b) # Do("set", Root) /\ \A j \in Conts : Token(b) # Do("give", j)
             /\ b \in Tasks \cup Conts /\ \A j \in Conts : b \in Args(case, j) => j = k
  <2>1. b \in Tasks \cup Conts /\ b # Root /\ \A j \in Conts : b \in Args(case, j) => j = k
    BY <1>1, <1>9, CaseFacts
  <2>2. CASE b \in Tasks
    <3>1. Token(b) = Do("give", b) /\ b \notin Conts
      BY <2>2, TokenOf, CaseAssumption
    <3> QED
      BY <2>1, <3>1, TokenOf
  <2>3. CASE b \in Conts
    <3>1. Token(b) = Do("set", b)
      BY <2>3, TokenOf
    <3> QED
      BY <2>1, <3>1, TokenOf
  <2> QED
    BY <2>1, <2>2, <2>3
<1>10. \A t \in Threads : \A i \in DOMAIN todo[t] : t = Creator /\ i \in DOMAIN Program
                                                    /\ todo[t][i] = Program[i]
  BY <1>1
<1>11. Apart(case, todo)
  <2> SUFFICES ASSUME NEW i \in DOMAIN Program, NEW j \in DOMAIN Program, i # j
               PROVE  Tokens(case, Program[i]) \cap Tokens(case, Program[j]) = {}
    BY <1>10 DEF Apart
  <2>1. ASSUME NEW x, x \in Tokens(case, Program[i]), x \in Tokens(case, Program[j])
        PROVE  FALSE
    <3>1. CASE Builds(i) /\ Builds(j)
      <4>1. PICK b, d : /\ b \in Args(case, Of(i)) /\ x = Token(b)
                        /\ d \in Args(case, Of(j)) /\ x = Token(d)
        BY <1>8, <2>1, <3>1
      <4>2. b = d
        BY <1>5, <1>9, <3>1, <4>1, TokenOf
      <4> QED
        BY <1>5, <1>6, <1>9, <3>1, <4>1, <4>2
    <3>2. CASE Builds(i) /\ ~Builds(j)
      <4>1. x = Do("set", Root)
        BY <1>8, <2>1, <3>2
      <4>2. PICK b : b \in Args(case, Of(i)) /\ x = Token(b)
        BY <1>8, <2>1, <3>2
      <4> QED
        BY <1>5, <1>9, <3>2, <4>1, <4>2
    <3>3. CASE ~Builds(i) /\ Builds(j)
      <4>1. x = Do("set", Root)
        BY <1>8, <2>1, <3>3
      <4>2. PICK b : b \in Args(case, Of(j)) /\ x = Token(b)
        BY <1>8, <2>1, <3>3
      <4> QED
        BY <1>5, <1>9, <3>3, <4>1, <4>2
    <3>4. CASE ~Builds(i) /\ ~Builds(j)
      BY <1>8, <2>1, <3>4
    <3> QED
      BY <3>1, <3>2, <3>3, <3>4
  <2> QED
    BY <2>1
<1>12. Clear(case, todo, Later(case, ready) \cup Posted(posted))
  <2> SUFFICES ASSUME NEW i \in DOMAIN Program, NEW k \in Conts,
                      Do("give", k) \in Tokens(case, Program[i])
               PROVE  FALSE
    <3>1. Posted(posted) = {}
      BY <1>1 DEF Posted
    <3> QED
      BY <1>10, <3>1 DEF Clear, Later
  <2>1. CASE Builds(i)
    BY <1>5, <1>8, <1>9, <2>1
  <2>2. CASE ~Builds(i)
    BY <1>8, <2>2, TokenOf
  <2> QED
    BY <2>1, <2>2
<1>13. Used({}, done) = {}
  BY <1>1 DEF Used
<1>14. WriteFirst(case, todo, slots)
  <2>1. \A i \in DOMAIN Program : Program[i][1] # "count"
    <3>1. \A a : Do("construct", a)[1] # "count" /\ Do("set", a)[1] # "count"
                 /\ Do("register", a)[1] # "count"
      BY DEF Do
    <3> QED
      BY <1>5, <3>1
  <2> QED
    BY <1>10, <2>1 DEF WriteFirst
<1>15. Balanced(case, {}, ready, done, slots)
  <2>1. \A k \in Conts : {} \cap Args(case, k) = {} /\ k \notin done
    BY <1>1
  <2>2. Cardinality({}) = 0
    BY FS_EmptySet
  <2> QED
    BY <1>1, <2>1, <2>2 DEF Balanced
<1>16. CountedInv(case, {}, todo, ready, done, posted, slots)
  BY <1>11, <1>12, <1>13, <1>14, <1>15 DEF CountedInv, Clear
<1> QED
  BY <1>1, <1>16 DEF CountInv

\* Every step keeps the tokens apart and the counters true.
LEMMA CountStep ==
  ASSUME Fails = {}, TypeOK, PlaceInv, CalledInv, CountInv, [Next]_vars
  PROVE  CountInv'
<1>1. case' = case
  BY CaseKept
<1>2. ASSUME NEW t \in Threads, ReturnResult(t), Subject(t) = Root
      PROVE  CountInv'
  <2>1. todo[t] # <<>> /\ Head(todo[t]) = ReturnRoot /\ todo[t] \in Seq(Known(case))
    BY <1>2, NextStep DEF ReturnResult, ReturnRoot
  <2>2. 1 \in DOMAIN todo[t] /\ todo[t][1] = ReturnRoot
    BY <2>1
  <2>3. calls = <<>> /\ ready[Root] >= Full(Root)
    BY <2>2 DEF CalledInv
  <2>4. calls' = <<slots[Root]>>
    BY <1>2, <2>3 DEF ReturnResult
  <2>5. PICK D \in SUBSET (Tasks \cup Conts) :
          CountedInv(case, D, todo, ready, done, posted, slots)
    BY <2>3 DEF CountInv
  <2> DEFINE A == Args(case, Root)
             n == Cardinality(D \cap A)
  <2>6. /\ Root \in Conts /\ IsFiniteSet(A) /\ Cardinality(A) <= Len(case.args[Root])
        /\ Len(case.args[Root]) \in Nat /\ ready[Root] \in Nat
        /\ \A a \in A : Cont(case, a) = Root
    BY CaseFacts, CaseAssumption DEF TypeOK
  <2>7. n + (IF Root \in done THEN 1 ELSE 0) = ready[Root]
    BY <2>5, <2>6 DEF CountedInv, Balanced
  <2>8. /\ D \cap A \subseteq A /\ n <= Cardinality(A) /\ n \in Nat /\ Cardinality(A) \in Nat
        /\ (n = Cardinality(A) => D \cap A = A)
    BY <2>6, FS_Subset, FS_CardinalityType
  <2>9. n >= Cardinality(A)
    <3> HIDE DEF n, A
    <3>1. PICK b \in {0, 1} : b = IF Root \in done THEN 1 ELSE 0
      OBVIOUS
    <3>2. n + b >= Len(case.args[Root]) + 1
      BY <2>3, <2>7, <3>1 DEF Full
    <3> QED
      BY <2>6, <2>8, <3>1, <3>2
  <2>10. D \cap A = A
    BY <2>8, <2>9
  <2>11. A \subseteq slots[Root]
    BY <2>5, <2>6, <2>10 DEF CountedInv, Balanced
  <2>12. slots[Root] = A
    BY <2>6, <2>11 DEF PlaceInv
  <2> QED
    BY <1>1, <2>4, <2>12 DEF CountInv
<1>3. CASE calls # <<>> /\ \A t \in Threads : ~(ReturnResult(t) /\ Subject(t) = Root)
  <2>1. calls' = calls
    BY <1>3 DEF Next, Step, ConstructArgs, PostArg, SkipArg, RunInPlace, Register, EndTask,
                WriteSlot, Count, SetDone, ReturnResult, StartTask, DropTask, Forget, Interrupt,
                Terminated, vars
  <2> QED
    BY <1>1, <1>3, <2>1 DEF CountInv
<1>4. ASSUME calls = <<>>, NEW D \in SUBSET (Tasks \cup Conts),
             CountedInv(case, D, todo, ready, done, posted, slots),
             \A t \in Threads : ~(ReturnResult(t) /\ Subject(t) = Root)
      PROVE  CountInv'
  <2> DEFINE Goal == \E D1 \in SUBSET (Tasks \cup Conts) :
                       CountedInv(case, D1, todo', ready', done', posted', slots')
  <2>1. calls' = calls
    BY <1>4 DEF Next, Step, ConstructArgs, PostArg, SkipArg, RunInPlace, Register, EndTask,
                WriteSlot, Count, SetDone, ReturnResult, StartTask, DropTask, Forget, Interrupt,
                Terminated, vars
  <2>2. ASSUME NEW t \in Threads, Step(t)
        PROVE  Goal
    <3>1. CASE \/ ConstructArgs(t) \/ SkipArg(t) \/ RunInPlace(t) \/ Register(t) \/ EndTask(t)
               \/ WriteSlot(t) \/ ReturnResult(t)
      <4>1. \/ ConstructArgs(t) \/ SkipArg(t) \/ RunInPlace(t) \/ Register(t) \/ EndTask(t)
            \/ WriteSlot(t) \/ (ReturnResult(t) /\ Subject(t) # Root)
        BY <1>4, <3>1
      <4>2. CountedInv(case, D, todo, ready, done, posted, slots)'
        BY <1>4, <4>1, CountSameSteps
      <4> QED
        BY <1>1, <4>2
    <3>2. CASE Count(t)
      <4>1. UNCHANGED <<done, posted, slots>>
        BY <3>2 DEF Count
      <4> QED
        BY <1>4, <3>2, <4>1, CountStepCount
    <3>3. CASE SetDone(t)
      <4>1. UNCHANGED <<posted, slots>>
        BY <3>3 DEF SetDone
      <4> QED
        BY <1>4, <3>3, <4>1, CountStepSet
    <3>4. CASE PostArg(t)
      <4>1. UNCHANGED <<ready, done, slots>>
        BY <3>4 DEF PostArg
      <4> QED
        BY <1>4, <3>4, <4>1, CountStepPost
    <3> QED
      BY <2>2, <3>1, <3>2, <3>3, <3>4 DEF Step
  <2>3. ASSUME NEW a \in Tasks \cup Conts, StartTask(a)
        PROVE  Goal
    <3>1. UNCHANGED <<ready, done, slots>>
      BY <2>3 DEF StartTask
    <3> QED
      BY <1>4, <2>3, <3>1, CountStepStart
  <2>4. ASSUME NEW a \in Tasks \cup Conts, DropTask(a)
        PROVE  Goal
    <3>1. UNCHANGED <<todo, ready, done, slots>> /\ posted' \subseteq posted
      BY <2>4 DEF DropTask
    <3>2. Posted(posted') \subseteq Posted(posted)
      BY <3>1 DEF Posted
    <3>3. CountedInv(case, D, todo, ready, done, posted', slots)
      BY <1>4, <3>2 DEF CountedInv, Clear
    <3> QED
      BY <3>1, <3>3
  <2>5. ASSUME UNCHANGED <<todo, ready, done, posted, slots>>
        PROVE  Goal
    <3>1. todo' = todo /\ ready' = ready /\ done' = done /\ posted' = posted /\ slots' = slots
      BY <2>5
    <3>2. CountedInv(case, D, todo', ready', done', posted', slots')
      BY <1>4, <3>1
    <3> QED
      BY <3>2
  <2>6. Goal
    <3>1. \/ \E t \in Threads : Step(t)
          \/ \E a \in Tasks \cup Conts : StartTask(a) \/ DropTask(a)
          \/ UNCHANGED <<todo, ready, done, posted, slots>>
      BY DEF Next, Forget, Interrupt, Terminated, vars
    <3> HIDE DEF Goal
    <3> QED
      BY <2>2, <2>3, <2>4, <2>5, <3>1
  <2> QED
    BY <1>1, <1>4, <2>1, <2>6 DEF CountInv
<1>5. CASE \A t \in Threads : ~(ReturnResult(t) /\ Subject(t) = Root)
  <2>1. CASE calls # <<>>
    BY <1>3, <1>5, <2>1
  <2>2. CASE calls = <<>>
    <3>1. PICK D \in SUBSET (Tasks \cup Conts) :
            CountedInv(case, D, todo, ready, done, posted, slots)
      BY <2>2 DEF CountInv
    <3> QED
      BY <1>4, <1>5, <2>2, <3>1
  <2> QED
    BY <2>1, <2>2
<1> QED
  BY <1>2, <1>5

\* on_done is called with the results of all the arguments, if no task throws
\* after it has given its result (continuation_task.hpp:432, "Functor called
\* upon completion of sub-tasks").
THEOREM CalledWithAll ==
  ASSUME Fails = {}
  PROVE  Spec => []CalledWithAllResults
<1>1. TypeOK /\ PlaceInv /\ CalledInv /\ CountInv /\ [Next]_vars => CountInv'
  BY CountStep
<1>2. CountInv => CalledWithAllResults
  <2> SUFFICES ASSUME CountInv, NEW i \in DOMAIN calls
               PROVE  calls[i] = Args(case, Root)
    BY DEF CalledWithAllResults, Args
  <2>1. CASE calls = <<>>
    BY <2>1
  <2>2. CASE calls # <<>>
    BY <2>2 DEF CountInv
  <2> QED
    BY <2>1, <2>2
<1> QED
  BY CallbackCorrect, InitCount, <1>1, <1>2, PTL DEF Spec

-----------------------------------------------------------------------------
(***************************************************************************)
(* parallel_partition: its tasks never hold the same element, and where it *)
(* answers the range is partitioned, for any range, number of threads and  *)
(* size of blocks, as long as the int that holds the size of a block can   *)
(* hold the values of the counter it is read from.                         *)
(*                                                                         *)
(* The elements that are taken from the counter and those that are taken   *)
(* from the two ends add up to the range, so that the ends never meet; the *)
(* blocks of a task lie between an end and the middle and are no other     *)
(* task's.  What has been taken and is on the wrong side is in the blocks  *)
(* of a task, and the tasks have counted the elements that hold, but for   *)
(* those in the blocks they are busy with.  When the first task ends it    *)
(* holds all that is wrong, and as many elements on one side of the answer *)
(* as on the other.                                                        *)
(***************************************************************************)


\* A set of natural numbers has a least element.
LEMMA Least ==
  ASSUME NEW S \in SUBSET Nat, NEW k \in S
  PROVE  \E m \in S : \A n \in S : m <= n
<1> DEFINE R == StrictSubsetOrdering(Nat)
           F == FiniteSubsetsOf(Nat)
           T == {1 .. n : n \in S}
<1>1. IsWellFoundedOn(R, F)
  BY FS_StrictSubsetOrderingWellFounded
<1>2. \A n \in S : 1 .. n \in F
  <2> SUFFICES ASSUME NEW n \in S PROVE 1 .. n \in F
    OBVIOUS
  <2>1. IsFiniteSet(1 .. n)
    BY FS_Interval
  <2>2. 1 .. n \in SUBSET Nat
    OBVIOUS
  <2> QED
    BY <2>1, <2>2 DEF FiniteSubsetsOf
<1>3. T \subseteq F /\ 1 .. k \in T
  BY <1>2
<1> HIDE DEF R, F
<1>4. PICK x \in T : \A y \in T : ~(<<y, x>> \in R)
  BY <1>1, <1>3, WFMin
<1>5. PICK m \in S : x = 1 .. m
  BY <1>4
<1>6. ASSUME NEW n \in S, n < m PROVE FALSE
  <2>1. 1 .. n \in T /\ <<1 .. n, x>> \notin R
    BY <1>4
  <2>2. 1 .. n \subseteq 1 .. m /\ m \in 1 .. m /\ m \notin 1 .. n
    BY <1>6
  <2>3. 1 .. n \in SUBSET Nat /\ 1 .. m \in SUBSET Nat /\ 1 .. n # 1 .. m
    BY <2>2
  <2> QED
    BY <2>1, <2>2, <2>3, <1>5 DEF R, StrictSubsetOrdering
<1> QED
  BY <1>6

-----------------------------------------------------------------------------
(* Sequences of positions                                                  *)

\* s is what of the first m members of p has the value x in d, in that order.
PickedOf(s, p, d, x, m) ==
  /\ s \in Seq(Int)
  /\ \A a \in DOMAIN s : d[s[a]] = x /\ \E c \in 1 .. m : p[c] = s[a]
  /\ \A a, b \in DOMAIN s : a < b => \E c, e \in 1 .. m : c < e /\ p[c] = s[a] /\ p[e] = s[b]
  /\ \A c \in 1 .. m : d[p[c]] = x => \E a \in DOMAIN s : s[a] = p[c]

Picks(f, p, d, x, m) ==
  f = [n \in 0 .. m |-> IF n = 0 THEN <<>>
                        ELSE IF d[p[n]] = x THEN Append(f[n - 1], p[n])
                        ELSE f[n - 1]]

\* One more member is appended or not.
LEMMA PickedMore ==
  ASSUME NEW p \in Seq(Int), NEW d, NEW x, NEW m \in 0 .. Len(p) - 1, NEW n, n = m + 1,
         NEW s, PickedOf(s, p, d, x, m)
  PROVE  PickedOf(IF d[p[n]] = x THEN Append(s, p[n]) ELSE s, p, d, x, n)
<1>1. /\ s \in Seq(Int) /\ n \in DOMAIN p /\ p[n] \in Int /\ m \in Nat /\ n \in Nat /\ m < n
      /\ \A c : c \in 1 .. n <=> c \in 1 .. m \/ c = n
  BY DEF PickedOf
<1>2. /\ \A a \in DOMAIN s : d[s[a]] = x
      /\ \A a \in DOMAIN s : \E c \in 1 .. m : p[c] = s[a]
      /\ \A a, b \in DOMAIN s : a < b => \E c, e \in 1 .. m : c < e /\ p[c] = s[a] /\ p[e] = s[b]
      /\ \A c \in 1 .. m : d[p[c]] = x => \E a \in DOMAIN s : s[a] = p[c]
  BY DEF PickedOf
<1>3. CASE d[p[n]] # x
  BY <1>1, <1>2, <1>3 DEF PickedOf
<1>4. CASE d[p[n]] = x
  <2> DEFINE t == Append(s, p[n])
             k == Len(s) + 1
             q == p[n]
             S == DOMAIN s
             T == DOMAIN t
             M == 1 .. m
             N == 1 .. n
  <2>1. /\ t \in Seq(Int) /\ t[k] = q /\ k \in T
        /\ \A a \in S : t[a] = s[a] /\ a \in T /\ a < k
        /\ \A a \in T : a \in Int /\ (a \in S \/ a = k)
    <3>1. /\ DOMAIN t = 1 .. k /\ DOMAIN s = 1 .. Len(s) /\ k \in Nat /\ Len(s) \in Nat
          /\ t \in Seq(Int) /\ t[k] = q /\ \A a \in 1 .. Len(s) : t[a] = s[a]
      BY <1>1
    <3> QED
      BY <3>1
  <2>2. /\ n \in N /\ p[n] = q /\ d[q] = x /\ k \in Int
        /\ \A c \in M : c \in N /\ c < n
        /\ \A c \in N : c \in M \/ c = n
    BY <1>1, <1>4, <2>1
  <2>3. /\ \A a \in S : d[s[a]] = x
        /\ \A a \in S : \E c \in M : p[c] = s[a]
        /\ \A a, b \in S : a < b => \E c, e \in M : c < e /\ p[c] = s[a] /\ p[e] = s[b]
        /\ \A c \in M : d[p[c]] = x => \E a \in S : s[a] = p[c]
    BY <1>2
  <2> HIDE DEF t, k, q, S, T, M, N
  <2>4. \A a \in T : d[t[a]] = x /\ \E c \in N : p[c] = t[a]
    <3> SUFFICES ASSUME NEW a \in T PROVE d[t[a]] = x /\ \E c \in N : p[c] = t[a]
      OBVIOUS
    <3>1. CASE a = k
      BY <2>1, <2>2, <3>1
    <3>2. CASE a \in S
      <4>1. PICK c \in M : p[c] = s[a]
        BY <2>3, <3>2
      <4> QED
        BY <2>1, <2>2, <2>3, <3>2, <4>1
    <3> QED
      BY <2>1, <3>1, <3>2
  <2>5. \A a, b \in T : a < b => \E c, e \in N : c < e /\ p[c] = t[a] /\ p[e] = t[b]
    <3> SUFFICES ASSUME NEW a \in T, NEW b \in T, a < b
                 PROVE  \E c, e \in N : c < e /\ p[c] = t[a] /\ p[e] = t[b]
      OBVIOUS
    <3>1. a \in S
      <4>1. b \in Int /\ a \in Int /\ k \in Int /\ b <= k
        BY <2>1, <2>2
      <4>2. a # k
        BY <4>1
      <4> QED
        BY <2>1, <4>2
    <3>2. CASE b \in S
      <4>1. PICK c \in M, e \in M : c < e /\ p[c] = s[a] /\ p[e] = s[b]
        BY <2>3, <3>1, <3>2
      <4> QED
        BY <2>1, <2>2, <3>1, <3>2, <4>1
    <3>3. CASE b = k
      <4>1. PICK c \in M : p[c] = s[a]
        BY <2>3, <3>1
      <4> QED
        BY <2>1, <2>2, <3>1, <3>3, <4>1
    <3> QED
      BY <2>1, <3>2, <3>3
  <2>6. \A c \in N : d[p[c]] = x => \E a \in T : t[a] = p[c]
    <3> SUFFICES ASSUME NEW c \in N, d[p[c]] = x PROVE \E a \in T : t[a] = p[c]
      OBVIOUS
    <3>1. CASE c = n
      BY <2>1, <2>2, <3>1
    <3>2. CASE c \in M
      <4>1. PICK a \in S : s[a] = p[c]
        BY <2>3, <3>2
      <4> QED
        BY <2>1, <4>1
    <3> QED
      BY <2>2, <3>1, <3>2
  <2>7. PickedOf(t, p, d, x, n)
    BY <2>1, <2>4, <2>5, <2>6 DEF PickedOf, T, N
  <2> QED
    BY <1>4, <2>7 DEF t, q
<1> QED
  BY <1>3, <1>4

\* The picks of the first m members can be extended to one more.
LEMMA PicksMore ==
  ASSUME NEW p \in Seq(Int), NEW d, NEW x, NEW m \in Nat, NEW n, n = m + 1,
         NEW g, Picks(g, p, d, x, m)
  PROVE  \E f : Picks(f, p, d, x, n)
<1> DEFINE f == [k \in 0 .. n |-> IF k <= m THEN g[k]
                                  ELSE IF d[p[k]] = x THEN Append(g[m], p[k]) ELSE g[m]]
<1>1. \A k \in 0 .. m : f[k] = g[k]
  OBVIOUS
<1>2. \A k \in 0 .. m : g[k] = IF k = 0 THEN <<>>
                               ELSE IF d[p[k]] = x THEN Append(g[k - 1], p[k]) ELSE g[k - 1]
  BY DEF Picks
<1>3. \A k \in 0 .. n : f[k] = IF k = 0 THEN <<>>
                               ELSE IF d[p[k]] = x THEN Append(f[k - 1], p[k]) ELSE f[k - 1]
  <2> SUFFICES ASSUME NEW k \in 0 .. n
               PROVE  f[k] = IF k = 0 THEN <<>>
                             ELSE IF d[p[k]] = x THEN Append(f[k - 1], p[k]) ELSE f[k - 1]
    OBVIOUS
  <2>1. CASE k = 0
    BY <1>1, <1>2, <2>1
  <2>2. CASE k \in 1 .. m
    <3>1. k \in 0 .. m /\ k - 1 \in 0 .. m /\ k # 0
      BY <2>2
    <3>2. f[k] = g[k] /\ f[k - 1] = g[k - 1]
      BY <1>1, <3>1
    <3> HIDE DEF f
    <3> QED
      BY <1>2, <3>1, <3>2
  <2>3. CASE k = n
    <3>1. k # 0 /\ ~(k <= m) /\ k - 1 = m /\ m \in 0 .. m
      BY <2>3
    <3>2. f[k - 1] = g[m]
      BY <1>1, <3>1
    <3> QED
      BY <3>1, <3>2
  <2> QED
    BY <2>1, <2>2, <2>3
<1>4. f = [k \in 0 .. n |-> f[k]]
  OBVIOUS
<1> HIDE DEF f
<1>5. Picks(f, p, d, x, n)
  BY <1>3, <1>4 DEF Picks
<1> QED
  BY <1>5

\* What Picked computes, for every sequence of positions.
LEMMA PickedFacts ==
  ASSUME NEW p \in Seq(Int), NEW x
  PROVE  PickedOf(Part!Picked(p, x), p, data, x, Len(p))
<1> DEFINE n == Len(p)
           Without == {m \in 0 .. n : ~ \E f : Picks(f, p, data, x, m)}
<1>1. Without = {}
  <2> SUFFICES ASSUME Without # {} PROVE FALSE
    OBVIOUS
  <2>1. PICK m \in Without : \A k \in Without : m <= k
    <3>1. Without \in SUBSET Nat
      OBVIOUS
    <3> QED
      BY <3>1, Least
  <2>2. m # 0
    <3> DEFINE f == [k \in 0 .. 0 |-> <<>>]
    <3>1. f = [k \in 0 .. 0 |-> IF k = 0 THEN <<>>
                                ELSE IF data[p[k]] = x THEN Append(f[k - 1], p[k]) ELSE f[k - 1]]
      OBVIOUS
    <3> HIDE DEF f
    <3>2. Picks(f, p, data, x, 0)
      BY <3>1 DEF Picks
    <3> QED
      BY <3>2
  <2> DEFINE l == m - 1
  <2>3. l \in 0 .. n /\ l \in Nat /\ m = l + 1 /\ ~(m <= l)
    BY <2>2
  <2> HIDE DEF l, n
  <2>4. PICK g : Picks(g, p, data, x, l)
    BY <2>1, <2>3
  <2>5. \E f : Picks(f, p, data, x, m)
    BY <2>3, <2>4, PicksMore
  <2> QED
    BY <2>5
<1> DEFINE picked == CHOOSE f : Picks(f, p, data, x, n)
           Bad == {m \in 0 .. n : ~PickedOf(picked[m], p, data, x, m)}
<1>2. Picks(picked, p, data, x, n)
  <2>1. n \in 0 .. n
    OBVIOUS
  <2> QED
    BY <1>1, <2>1
<1>3. \A m \in 0 .. n : picked[m] = IF m = 0 THEN <<>>
                                    ELSE IF data[p[m]] = x THEN Append(picked[m - 1], p[m])
                                    ELSE picked[m - 1]
  <2> HIDE DEF picked, n
  <2> QED
    BY <1>2 DEF Picks
<1>4. Bad = {}
  <2> HIDE DEF picked
  <2> SUFFICES ASSUME Bad # {} PROVE FALSE
    OBVIOUS
  <2>1. PICK m \in Bad : \A k \in Bad : m <= k
    <3>1. Bad \in SUBSET Nat
      OBVIOUS
    <3> QED
      BY <3>1, Least
  <2>2. m # 0
    <3>1. PickedOf(<<>>, p, data, x, 0)
      <4>1. DOMAIN <<>> = {} /\ <<>> \in Seq(Int) /\ 1 .. 0 = {}
        OBVIOUS
      <4> QED
        BY <4>1 DEF PickedOf
    <3> QED
      BY <1>3, <3>1
  <2> DEFINE l == m - 1
  <2>3. l \in 0 .. n /\ l \in 0 .. Len(p) - 1 /\ m = l + 1 /\ ~(m <= l)
    BY <2>2
  <2>4. picked[m] = IF data[p[m]] = x THEN Append(picked[l], p[m]) ELSE picked[l]
    BY <1>3, <2>2
  <2> HIDE DEF l
  <2>5. PickedOf(picked[l], p, data, x, l)
    BY <2>1, <2>3
  <2>6. PickedOf(picked[m], p, data, x, m)
    BY <2>3, <2>4, <2>5, PickedMore
  <2> QED
    BY <2>6
<1>5. Part!Picked(p, x) = picked[n]
  BY DEF Part!Picked, Picks
<1>6. n \in 0 .. n
  OBVIOUS
<1> QED
  BY <1>4, <1>5, <1>6

\* s is the cells of S that have the value x in d, each once.
Finds(s, d, S, x) ==
  /\ s \in Seq(Int)
  /\ \A a \in DOMAIN s : s[a] \in S /\ d[s[a]] = x
  /\ \A i \in S : d[i] = x => \E a \in DOMAIN s : s[a] = i
  /\ \A a, b \in DOMAIN s : s[a] = s[b] => a = b

\* The members of s are in the order that p has.
InOrderOf(s, p) ==
  \A a, b \in DOMAIN s : a < b =>
    \E c, e \in DOMAIN p : c < e /\ p[c] = s[a] /\ p[e] = s[b]

\* p is the cells of S, each once.
Lists(p, S) ==
  /\ p \in Seq(Int)
  /\ \A c \in DOMAIN p : p[c] \in S
  /\ \A i \in S : \E c \in DOMAIN p : p[c] = i
  /\ \A c, e \in DOMAIN p : p[c] = p[e] => c = e

\* Picked finds what it looks for, in order.
LEMMA PickedFinds ==
  ASSUME NEW p, NEW S, Lists(p, S), NEW x
  PROVE  Finds(Part!Picked(p, x), data, S, x) /\ InOrderOf(Part!Picked(p, x), p)
<1> DEFINE s == Part!Picked(p, x)
           D == DOMAIN p
           E == DOMAIN s
<1>1. /\ s \in Seq(Int)
      /\ \A a \in E : data[s[a]] = x
      /\ \A a \in E : \E c \in D : p[c] = s[a]
      /\ \A a, b \in E : a < b => \E c, e \in D : c < e /\ p[c] = s[a] /\ p[e] = s[b]
      /\ \A c \in D : data[p[c]] = x => \E a \in E : s[a] = p[c]
  <2>1. p \in Seq(Int) /\ D = 1 .. Len(p)
    BY DEF Lists
  <2> HIDE DEF s, D
  <2> QED
    BY <2>1, PickedFacts DEF PickedOf, s
<1>2. \A a \in E : a \in Int
  <2>1. E = 1 .. Len(s) /\ Len(s) \in Nat
    BY <1>1
  <2> HIDE DEF E
  <2> QED
    BY <2>1
<1>3. /\ \A c \in D : p[c] \in S
      /\ \A i \in S : \E c \in D : p[c] = i
      /\ \A c, e \in D : p[c] = p[e] => c = e
      /\ \A c \in D : c \in Int
  BY DEF Lists
<1> HIDE DEF s, D, E
<1>4. \A a \in E : s[a] \in S
  BY <1>1, <1>3
<1>5. \A i \in S : data[i] = x => \E a \in E : s[a] = i
  <2> SUFFICES ASSUME NEW i \in S, data[i] = x PROVE \E a \in E : s[a] = i
    OBVIOUS
  <2>1. PICK c \in D : p[c] = i
    BY <1>3
  <2> QED
    BY <1>1, <2>1
<1>6. \A a, b \in E : a < b => s[a] # s[b]
  <2> SUFFICES ASSUME NEW a \in E, NEW b \in E, a < b, s[a] = s[b] PROVE FALSE
    OBVIOUS
  <2>1. PICK c \in D, e \in D : c < e /\ p[c] = s[a] /\ p[e] = s[b]
    BY <1>1
  <2>2. c = e /\ c \in Int
    BY <1>3, <2>1
  <2> QED
    BY <2>1, <2>2
<1>7. \A a, b \in E : s[a] = s[b] => a = b
  <2> SUFFICES ASSUME NEW a \in E, NEW b \in E, s[a] = s[b], a # b PROVE FALSE
    OBVIOUS
  <2>1. a < b \/ b < a
    BY <1>2
  <2> QED
    BY <1>6, <2>1
<1>8. Finds(s, data, S, x)
  BY <1>1, <1>4, <1>5, <1>7 DEF Finds, E
<1>9. InOrderOf(s, p)
  BY <1>1 DEF InOrderOf, E, D
<1> QED
  BY <1>8, <1>9 DEF s

\* The positions of a block, upwards and downwards.
LEMMA UpLists ==
  ASSUME NEW b \in Int, NEW e \in Int
  PROVE  /\ Lists(Part!Up(b, e), b .. e - 1)
         /\ \A c, h \in DOMAIN Part!Up(b, e) : c < h => Part!Up(b, e)[c] < Part!Up(b, e)[h]
<1> DEFINE p == Part!Up(b, e)
<1>1. p = [i \in 1 .. e - b |-> b + i - 1]
  BY DEF Part!Up
<1>2. p \in Seq(Int)
  <2>1. CASE e - b \in Nat
    BY <1>1, <2>1
  <2>2. CASE e - b \notin Nat
    <3>1. 1 .. e - b = 1 .. 0
      BY <2>2
    <3> QED
      BY <1>1, <3>1
  <2> QED
    BY <2>1, <2>2
<1>3. DOMAIN p = 1 .. e - b /\ \A i \in 1 .. e - b : p[i] = b + i - 1
  BY <1>1
<1> HIDE DEF p
<1>4. \A i \in b .. e - 1 : \E c \in DOMAIN p : p[c] = i
  <2> SUFFICES ASSUME NEW i \in b .. e - 1 PROVE \E c \in DOMAIN p : p[c] = i
    OBVIOUS
  <2>1. i - b + 1 \in 1 .. e - b /\ b + (i - b + 1) - 1 = i
    OBVIOUS
  <2> QED
    BY <1>3, <2>1
<1>5. Lists(p, b .. e - 1)
  <2>1. \A c \in DOMAIN p : p[c] \in b .. e - 1
    BY <1>3
  <2>2. \A c, h \in DOMAIN p : p[c] = p[h] => c = h
    BY <1>3
  <2> QED
    BY <1>2, <1>4, <2>1, <2>2 DEF Lists
<1>6. \A c, h \in DOMAIN p : c < h => p[c] < p[h]
  BY <1>3
<1> QED
  BY <1>5, <1>6 DEF p

\* The same for the other direction.
LEMMA DownLists ==
  ASSUME NEW b \in Int, NEW e \in Int
  PROVE  /\ Lists(Part!Down(e, b), b + 1 .. e)
         /\ \A c, h \in DOMAIN Part!Down(e, b) : c < h => Part!Down(e, b)[c] > Part!Down(e, b)[h]
<1> DEFINE p == Part!Down(e, b)
<1>1. p = [i \in 1 .. e - b |-> e - i + 1]
  BY DEF Part!Down
<1>2. p \in Seq(Int)
  <2>1. CASE e - b \in Nat
    BY <1>1, <2>1
  <2>2. CASE e - b \notin Nat
    <3>1. 1 .. e - b = 1 .. 0
      BY <2>2
    <3> QED
      BY <1>1, <3>1
  <2> QED
    BY <2>1, <2>2
<1>3. DOMAIN p = 1 .. e - b /\ \A i \in 1 .. e - b : p[i] = e - i + 1
  BY <1>1
<1> HIDE DEF p
<1>4. \A i \in b + 1 .. e : \E c \in DOMAIN p : p[c] = i
  <2> SUFFICES ASSUME NEW i \in b + 1 .. e PROVE \E c \in DOMAIN p : p[c] = i
    OBVIOUS
  <2>1. e - i + 1 \in 1 .. e - b /\ e - (e - i + 1) + 1 = i
    OBVIOUS
  <2> QED
    BY <1>3, <2>1
<1>5. Lists(p, b + 1 .. e)
  <2>1. \A c \in DOMAIN p : p[c] \in b + 1 .. e
    BY <1>3
  <2>2. \A c, h \in DOMAIN p : p[c] = p[h] => c = h
    BY <1>3
  <2> QED
    BY <1>2, <1>4, <2>1, <2>2 DEF Lists
<1>6. \A c, h \in DOMAIN p : c < h => p[c] > p[h]
  BY <1>3
<1> QED
  BY <1>5, <1>6 DEF p

\* Two lists of different cells, one after the other.
LEMMA ListsBoth ==
  ASSUME NEW p, NEW S, Lists(p, S), NEW q, NEW T, Lists(q, T), S \cap T = {}
  PROVE  Lists(p \o q, S \cup T)
<1> DEFINE r == p \o q
           n == Len(p)
           m == Len(q)
<1>1. /\ n \in Nat /\ m \in Nat /\ r \in Seq(Int)
      /\ DOMAIN p = 1 .. n /\ DOMAIN q = 1 .. m /\ DOMAIN r = 1 .. n + m
      /\ \A c \in 1 .. n : r[c] = p[c]
      /\ \A c \in 1 .. m : r[n + c] = q[c]
  BY DEF Lists
<1> HIDE DEF r, n, m
<1>2. \A c \in 1 .. n + m : c \in 1 .. n \/ \E h \in 1 .. m : c = n + h
  <2> SUFFICES ASSUME NEW c \in 1 .. n + m, c \notin 1 .. n PROVE \E h \in 1 .. m : c = n + h
    OBVIOUS
  <2>1. c - n \in 1 .. m /\ c = n + (c - n)
    BY <1>1
  <2> QED
    BY <2>1
<1>3. \A c \in 1 .. m : n + c \in 1 .. n + m
  BY <1>1
<1>4. \A c \in 1 .. n : c \in 1 .. n + m
  BY <1>1
<1>5. /\ \A c \in 1 .. n : p[c] \in S
      /\ \A i \in S : \E c \in 1 .. n : p[c] = i
      /\ \A c, e \in 1 .. n : p[c] = p[e] => c = e
      /\ \A c \in 1 .. m : q[c] \in T
      /\ \A i \in T : \E c \in 1 .. m : q[c] = i
      /\ \A c, e \in 1 .. m : q[c] = q[e] => c = e
  BY <1>1 DEF Lists
<1>6. /\ \A c \in 1 .. n : r[c] \in S
      /\ \A c \in 1 .. n + m : c \notin 1 .. n => r[c] \in T
  <2>1. \A c \in 1 .. n : r[c] \in S
    BY <1>1, <1>5
  <2>2. ASSUME NEW c \in 1 .. n + m, c \notin 1 .. n PROVE r[c] \in T
    <3>1. PICK h \in 1 .. m : c = n + h
      BY <1>2, <2>2
    <3> QED
      BY <1>1, <1>5, <3>1
  <2> QED
    BY <2>1, <2>2
<1>7. \A i \in S \cup T : \E c \in 1 .. n + m : r[c] = i
  BY <1>1, <1>3, <1>4, <1>5
<1>8. \A c, e \in 1 .. n + m : r[c] = r[e] => c = e
  <2> SUFFICES ASSUME NEW c \in 1 .. n + m, NEW e \in 1 .. n + m, r[c] = r[e] PROVE c = e
    OBVIOUS
  <2>1. CASE c \in 1 .. n /\ e \in 1 .. n
    BY <1>1, <1>5, <2>1
  <2>2. CASE c \in 1 .. n /\ e \notin 1 .. n
    BY <1>6, <2>2
  <2>3. CASE c \notin 1 .. n /\ e \in 1 .. n
    BY <1>6, <2>3
  <2>4. CASE c \notin 1 .. n /\ e \notin 1 .. n
    <3>1. PICK h \in 1 .. m : c = n + h
      BY <1>2, <2>4
    <3>2. PICK k \in 1 .. m : e = n + k
      BY <1>2, <2>4
    <3>3. r[c] = q[h] /\ r[e] = q[k]
      BY <1>1, <3>1, <3>2
    <3>4. h = k
      BY <1>5, <3>3
    <3> QED
      BY <3>1, <3>2, <3>4
  <2> QED
    BY <2>1, <2>2, <2>3, <2>4
<1>9. Lists(r, S \cup T)
  BY <1>1, <1>6, <1>7, <1>8 DEF Lists
<1> QED
  BY <1>9 DEF r

-----------------------------------------------------------------------------
(* Lists of blocks                                                         *)

Cell(b) == b[1] .. b[2] - 1

\* The cells of the first m blocks, of all of them, and those of a working task.
CellsTo(bs, m) == {i \in Int : \E j \in 1 .. m : i \in Cell(bs[j])}
Cells(bs) == {i \in Int : \E j \in DOMAIN bs : i \in Cell(bs[j])}

Separate(bs) == \A j, k \in DOMAIN bs : j # k => Cell(bs[j]) \cap Cell(bs[k]) = {}

\* p goes through the first m blocks one after the other.
ByBlocks(p, bs, m) ==
  \A a, b \in DOMAIN p : a < b =>
    \E j, k \in 1 .. m : /\ p[a] \in Cell(bs[j]) /\ p[b] \in Cell(bs[k])
                         /\ j < k \/ (j = k /\ p[a] < p[b])

\* A sequence of positions goes on with those of the next block.
LEMMA OneBlockMore ==
  ASSUME NEW bs \in Seq(Int \X Int), Separate(bs), NEW m \in 0 .. Len(bs) - 1, NEW n, n = m + 1,
         NEW p, Lists(p, CellsTo(bs, m)), ByBlocks(p, bs, m)
  PROVE  LET q == p \o Part!Up(bs[n][1], bs[n][2])
         IN  Lists(q, CellsTo(bs, n)) /\ ByBlocks(q, bs, n)
<1> DEFINE u == Part!Up(bs[n][1], bs[n][2])
           q == p \o u
           S == CellsTo(bs, m)
           T == Cell(bs[n])
<1>1. n \in DOMAIN bs /\ m \in Nat /\ bs[n] \in Int \X Int /\ bs[n][1] \in Int /\ bs[n][2] \in Int
  <2>1. n \in DOMAIN bs /\ m \in Nat
    OBVIOUS
  <2>2. bs[n] \in Int \X Int
    BY <2>1
  <2> QED
    BY <2>1, <2>2
<1>2. Lists(u, T) /\ \A c, h \in DOMAIN u : c < h => u[c] < u[h]
  BY <1>1, UpLists DEF Cell
<1>3. T \subseteq Int
  BY <1>1 DEF Cell
<1>4. \A j \in 1 .. m : j \in DOMAIN bs /\ j # n
  BY <1>1
<1>5. S \cap T = {}
  BY <1>1, <1>4 DEF Separate, CellsTo
<1>6. CellsTo(bs, n) = S \cup T
  <2>1. \A j : j \in 1 .. n <=> j \in 1 .. m \/ j = n
    BY <1>1
  <2> HIDE DEF T
  <2>2. T = Cell(bs[n])
    BY DEF T
  <2> QED
    BY <1>3, <2>1, <2>2 DEF CellsTo
<1> HIDE DEF u, S, T
<1>7. Lists(q, S \cup T)
  BY <1>2, <1>5, ListsBoth DEF S
<1>8. ByBlocks(q, bs, n)
  <2> DEFINE k == Len(p)
             h == Len(u)
  <2>1. /\ k \in Nat /\ h \in Nat
        /\ DOMAIN p = 1 .. k /\ DOMAIN u = 1 .. h /\ DOMAIN q = 1 .. k + h
        /\ \A c \in 1 .. k : q[c] = p[c]
        /\ \A c \in 1 .. h : q[k + c] = u[c]
    BY <1>2 DEF Lists
  <2> HIDE DEF q, k, h
  <2>2. /\ \A c \in 1 .. k : p[c] \in S
        /\ \A c \in 1 .. h : u[c] \in T
    BY <1>2, <2>1 DEF Lists, S
  <2>3. n \in 1 .. n /\ \A j \in 1 .. m : j \in 1 .. n /\ j < n
    BY <1>1
  <2>4. \A i \in S : \E j \in 1 .. m : i \in Cell(bs[j])
    BY DEF S, CellsTo
  <2>5. \A c \in 1 .. k + h : c \notin 1 .. k => c - k \in 1 .. h /\ c = k + (c - k)
    BY <2>1
  <2> SUFFICES ASSUME NEW a \in 1 .. k + h, NEW b \in 1 .. k + h, a < b
               PROVE  \E j, l \in 1 .. n :
                        /\ q[a] \in Cell(bs[j]) /\ q[b] \in Cell(bs[l])
                        /\ j < l \/ (j = l /\ q[a] < q[b])
    BY <2>1 DEF ByBlocks
  <2>6. CASE b \in 1 .. k
    <3>1. a \in 1 .. k
      BY <2>1, <2>6
    <3>2. PICK j \in 1 .. m, l \in 1 .. m :
            /\ p[a] \in Cell(bs[j]) /\ p[b] \in Cell(bs[l])
            /\ j < l \/ (j = l /\ p[a] < p[b])
      BY <2>1, <2>6, <3>1 DEF ByBlocks
    <3>3. q[a] = p[a] /\ q[b] = p[b] /\ j \in 1 .. n /\ l \in 1 .. n
      BY <2>1, <2>3, <2>6, <3>1
    <3> QED
      BY <3>2, <3>3
  <2>7. CASE b \notin 1 .. k
    <3>1. b - k \in 1 .. h /\ q[b] = u[b - k] /\ q[b] \in Cell(bs[n])
      <4>1. b - k \in 1 .. h /\ b = k + (b - k)
        BY <2>5, <2>7
      <4>2. q[b] = u[b - k]
        BY <2>1, <4>1
      <4> QED
        BY <2>2, <4>1, <4>2 DEF T
    <3>2. CASE a \in 1 .. k
      <4>1. q[a] \in S
        BY <2>1, <2>2, <3>2
      <4>2. PICK j \in 1 .. m : q[a] \in Cell(bs[j])
        BY <2>4, <4>1
      <4> QED
        BY <2>3, <3>1, <4>2
    <3>3. CASE a \notin 1 .. k
      <4>1. a - k \in 1 .. h /\ a = k + (a - k)
        BY <2>5, <3>3
      <4>2. q[a] = u[a - k]
        BY <2>1, <4>1
      <4>3. q[a] \in Cell(bs[n])
        BY <2>2, <4>1, <4>2 DEF T
      <4>4. a - k < b - k
        BY <2>1
      <4>5. u[a - k] < u[b - k]
        BY <1>2, <2>1, <3>1, <4>1, <4>4
      <4> QED
        BY <2>3, <3>1, <4>2, <4>3, <4>5
    <3> QED
      BY <3>2, <3>3
  <2> QED
    BY <2>6, <2>7
<1> QED
  BY <1>6, <1>7, <1>8 DEF u

\* f appends the first m sequences of s one after the other.
Flattens(f, s, m) ==
  f = [i \in 1 .. m |-> IF i = 1 THEN s[i] ELSE f[i - 1] \o s[i]]

\* A function that does this for some of them can be extended.
LEMMA FlattensMore ==
  ASSUME NEW T, NEW s \in Seq(Seq(T)), NEW m \in 0 .. Len(s) - 1, NEW g, Flattens(g, s, m)
  PROVE  \E f : Flattens(f, s, m + 1)
<1> DEFINE f == [i \in 1 .. m + 1 |->
                   IF i <= m THEN g[i] ELSE IF i = 1 THEN s[i] ELSE g[m] \o s[i]]
<1>1. \A i \in 1 .. m : f[i] = g[i]
  OBVIOUS
<1>2. \A i \in 1 .. m + 1 : f[i] = IF i = 1 THEN s[i] ELSE f[i - 1] \o s[i]
  <2> SUFFICES ASSUME NEW i \in 1 .. m + 1
               PROVE  f[i] = IF i = 1 THEN s[i] ELSE f[i - 1] \o s[i]
    OBVIOUS
  <2>1. CASE i <= m
    <3>1. g[i] = IF i = 1 THEN s[i] ELSE g[i - 1] \o s[i]
      <4>1. i \in 1 .. m
        BY <2>1
      <4>2. g[i] = [k \in 1 .. m |-> IF k = 1 THEN s[k] ELSE g[k - 1] \o s[k]][i]
        BY DEF Flattens
      <4> QED
        BY <4>1, <4>2
    <3>2. i # 1 => i - 1 \in 1 .. m
      BY <2>1
    <3>3. i # 1 => f[i - 1] = g[i - 1]
      BY <1>1, <3>2
    <3> QED
      BY <1>1, <2>1, <3>1, <3>3
  <2>2. CASE i = m + 1 /\ i = 1
    BY <2>2
  <2>3. CASE i = m + 1 /\ i # 1
    <3>1. i - 1 = m /\ m \in 1 .. m /\ ~(i <= m)
      BY <2>3
    <3>2. f[i - 1] = g[m]
      BY <1>1, <3>1
    <3> QED
      BY <2>3, <3>1, <3>2
  <2> QED
    BY <2>1, <2>2, <2>3
<1>3. f = [i \in 1 .. m + 1 |-> f[i]]
  OBVIOUS
<1> HIDE DEF f
<1>4. f = [i \in 1 .. m + 1 |-> IF i = 1 THEN s[i] ELSE f[i - 1] \o s[i]]
  BY <1>2, <1>3
<1> QED
  BY <1>4 DEF Flattens


\* The positions in the blocks of a list, block by block.
LEMMA PositionsList ==
  ASSUME NEW bs \in Seq(Int \X Int), Separate(bs)
  PROVE  /\ Lists(Part!Positions(bs), Cells(bs))
         /\ ByBlocks(Part!Positions(bs), bs, Len(bs))
<1> DEFINE s == [i \in DOMAIN bs |-> Part!Up(bs[i][1], bs[i][2])]
           n == Len(bs)
           Without == {m \in 0 .. n : ~ \E f : Flattens(f, s, m)}
<1>1. s \in Seq(Seq(Int)) /\ Len(s) = n /\ n \in Nat /\ \A i \in 1 .. n : s[i] = Part!Up(bs[i][1], bs[i][2])
  <2>1. DOMAIN bs = 1 .. n /\ n \in Nat
    OBVIOUS
  <2>2. \A i \in DOMAIN bs : Part!Up(bs[i][1], bs[i][2]) \in Seq(Int)
    <3> SUFFICES ASSUME NEW i \in DOMAIN bs PROVE Part!Up(bs[i][1], bs[i][2]) \in Seq(Int)
      OBVIOUS
    <3>1. bs[i] \in Int \X Int
      OBVIOUS
    <3> DEFINE b == bs[i][1]
               e == bs[i][2]
               u == Part!Up(b, e)
    <3>2. b \in Int /\ e \in Int
      BY <3>1
    <3> HIDE DEF b, e
    <3>3. Lists(u, b .. e - 1)
      BY <3>2, UpLists
    <3> HIDE DEF u
    <3>4. u \in Seq(Int)
      BY <3>3 DEF Lists
    <3> QED
      BY <3>4 DEF u, b, e
  <2>3. s \in [1 .. n -> Seq(Int)]
    BY <2>1, <2>2
  <2> QED
    BY <2>1, <2>3
<1> HIDE DEF s
<1>2. Without = {}
  <2> SUFFICES ASSUME Without # {} PROVE FALSE
    OBVIOUS
  <2>1. PICK m \in Without : \A k \in Without : m <= k
    <3>1. Without \in SUBSET Nat
      OBVIOUS
    <3> QED
      BY <3>1, Least
  <2>2. m # 0
    <3>1. Flattens(<<>>, s, 0)
      BY DEF Flattens
    <3> QED
      BY <3>1
  <2> DEFINE l == m - 1
  <2>3. l \in 0 .. n /\ l \in 0 .. Len(s) - 1 /\ m = l + 1 /\ ~(m <= l)
    BY <1>1, <2>2
  <2> HIDE DEF l, n
  <2>4. PICK g : Flattens(g, s, l)
    BY <2>1, <2>3
  <2>5. \E f : Flattens(f, s, l + 1)
    BY <1>1, <2>3, <2>4, FlattensMore
  <2> QED
    BY <2>3, <2>5
<1>3. CASE n = 0
  <2>1. bs = <<>>
    BY <1>3
  <2>2. Part!Positions(bs) = <<>>
    <3>1. Part!Positions(bs) = Part!FlattenSeq(s)
      BY DEF Part!Positions, s
    <3>2. s = <<>> /\ Len(s) = 0
      BY <1>1, <1>3
    <3> QED
      BY <3>1, <3>2 DEF Part!FlattenSeq
  <2>3. DOMAIN <<>> = {} /\ <<>> \in Seq(Int)
    OBVIOUS
  <2> QED
    BY <2>1, <2>2, <2>3 DEF Lists, ByBlocks, Cells
<1>4. CASE n # 0
  <2> DEFINE flatten == CHOOSE f : Flattens(f, s, n)
             Good(i) == Lists(flatten[i], CellsTo(bs, i)) /\ ByBlocks(flatten[i], bs, i)
             Bad == {i \in 1 .. n : ~Good(i)}
  <2>1. Flattens(flatten, s, n)
    <3>1. n \in 0 .. n
      BY <1>1
    <3> QED
      BY <1>2, <3>1
  <2>2. \A i \in 1 .. n : flatten[i] = IF i = 1 THEN s[i] ELSE flatten[i - 1] \o s[i]
    <3> HIDE DEF flatten, n
    <3> QED
      BY <2>1 DEF Flattens
  <2>3. Bad = {}
    <3> HIDE DEF flatten
    <3> SUFFICES ASSUME Bad # {} PROVE FALSE
      OBVIOUS
    <3>1. PICK i \in Bad : \A k \in Bad : i <= k
      <4>1. Bad \in SUBSET Nat
        OBVIOUS
      <4> QED
        BY <4>1, Least
    <3> DEFINE l == i - 1
    <3>2. l \in 0 .. n - 1 /\ i = l + 1 /\ i \in 1 .. n
      OBVIOUS
    <3>3. CASE i = 1
      <4>1. Lists(<<>>, CellsTo(bs, 0)) /\ ByBlocks(<<>>, bs, 0)
        <5>1. DOMAIN <<>> = {} /\ <<>> \in Seq(Int) /\ 1 .. 0 = {}
          OBVIOUS
        <5> QED
          BY <5>1 DEF Lists, ByBlocks, CellsTo
      <4>2. 0 \in 0 .. Len(bs) - 1 /\ i = 0 + 1
        BY <3>2, <3>3
      <4>3. Lists(<<>> \o s[i], CellsTo(bs, i)) /\ ByBlocks(<<>> \o s[i], bs, i)
        BY <1>1, <3>2, <4>1, <4>2, OneBlockMore
      <4>4. <<>> \o s[i] = s[i] /\ flatten[i] = s[i]
        BY <1>1, <2>2, <3>2, <3>3
      <4> QED
        BY <4>3, <4>4
    <3>4. CASE i # 1
      <4>1. l \in 1 .. n /\ l \notin Bad
        BY <3>1, <3>2, <3>4
      <4>2. Lists(flatten[l], CellsTo(bs, l)) /\ ByBlocks(flatten[l], bs, l)
        BY <4>1
      <4>3. flatten[i] = flatten[l] \o s[i]
        BY <2>2, <3>2, <3>4
      <4> HIDE DEF l
      <4>4. Lists(flatten[l] \o s[i], CellsTo(bs, i)) /\ ByBlocks(flatten[l] \o s[i], bs, i)
        BY <1>1, <3>2, <4>2, OneBlockMore
      <4> QED
        BY <4>3, <4>4
    <3> QED
      BY <3>3, <3>4
  <2>4. Part!Positions(bs) = flatten[n]
    <3>1. Part!Positions(bs) = Part!FlattenSeq(s)
      BY DEF Part!Positions, s
    <3>2. Len(s) # 0 /\ Len(s) = n
      BY <1>1, <1>4
    <3> QED
      BY <3>1, <3>2 DEF Part!FlattenSeq, Flattens
  <2>5. n \in 1 .. n /\ n = Len(bs)
    BY <1>1, <1>4
  <2>6. CellsTo(bs, n) = Cells(bs)
    BY DEF CellsTo, Cells
  <2>7. Good(n)
    BY <2>3, <2>5
  <2> HIDE DEF flatten, n
  <2> QED
    BY <2>4, <2>5, <2>6, <2>7
<1> QED
  BY <1>3, <1>4

-----------------------------------------------------------------------------
(* Exchange                                                                *)

\* The positions of a left block are its cells.
LEMMA UpRange ==
  ASSUME NEW b \in Int, NEW e \in Int
  PROVE  Part!Range(Part!Up(b, e)) = b .. e - 1
<1> DEFINE p == Part!Up(b, e)
<1>1. /\ \A c \in DOMAIN p : p[c] \in b .. e - 1
      /\ \A i \in b .. e - 1 : \E c \in DOMAIN p : p[c] = i
  BY UpLists DEF Lists
<1> HIDE DEF p
<1>2. Part!Range(p) = b .. e - 1
  BY <1>1 DEF Part!Range
<1> QED
  BY <1>2 DEF p

\* The positions of a right block are its cells.
LEMMA DownRange ==
  ASSUME NEW b \in Int, NEW e \in Int
  PROVE  Part!Range(Part!Down(e, b)) = b + 1 .. e
<1> DEFINE p == Part!Down(e, b)
<1>1. /\ \A c \in DOMAIN p : p[c] \in b + 1 .. e
      /\ \A i \in b + 1 .. e : \E c \in DOMAIN p : p[c] = i
  BY DownLists DEF Lists
<1> HIDE DEF p
<1>2. Part!Range(p) = b + 1 .. e
  BY <1>1 DEF Part!Range
<1> QED
  BY <1>2 DEF p

\* The first k of s.
Head_(s, k) == {s[a] : a \in 1 .. k}

\* N is what data is when as many cells of S as of T, the first k members of ls
\* and of rs, have been exchanged.
Exchanged(N, ls, S, rs, T, k) ==
  /\ k \in 0 .. Len(ls) /\ k \in 0 .. Len(rs) /\ k \in Nat /\ (k = Len(ls) \/ k = Len(rs))
  /\ \A i \in Part!Range0 : N[i] =
       IF i \in Head_(ls, k) THEN "yes" ELSE IF i \in Head_(rs, k) THEN "no" ELSE data[i]
  /\ Head_(ls, k) \subseteq S /\ Head_(rs, k) \subseteq T
  /\ \A i \in Head_(ls, k) : data[i] = "no"
  /\ \A i \in Head_(rs, k) : data[i] = "yes"
  /\ IsFiniteSet(Head_(ls, k)) /\ Cardinality(Head_(ls, k)) = k
  /\ IsFiniteSet(Head_(rs, k)) /\ Cardinality(Head_(rs, k)) = k

\* The first k members of a sequence without duplicates.
LEMMA HeadCard ==
  ASSUME NEW s, NEW k \in Nat, \A a, b \in 1 .. k : s[a] = s[b] => a = b
  PROVE  IsFiniteSet(Head_(s, k)) /\ Cardinality(Head_(s, k)) = k
<1> DEFINE f == [a \in 1 .. k |-> s[a]]
           H == Head_(s, k)
<1>1. f \in Bijection(1 .. k, H)
  <2>1. f \in [1 .. k -> H]
    BY DEF Head_
  <2>2. \A a, b \in 1 .. k : f[a] = f[b] => a = b
    OBVIOUS
  <2>3. \A i \in H : \E a \in 1 .. k : f[a] = i
    BY DEF Head_
  <2> HIDE DEF f, H
  <2> QED
    BY <2>1, <2>2, <2>3 DEF Bijection, Injection, Surjection, IsInjective
<1>2. IsFiniteSet(1 .. k) /\ Cardinality(1 .. k) = k
  <2>1. 1 \in Int /\ k \in Int /\ (1 > k => k = 0)
    OBVIOUS
  <2> QED
    BY <2>1, FS_Interval
<1> HIDE DEF f, H
<1>3. IsFiniteSet(H) /\ Cardinality(H) = Cardinality(1 .. k)
  BY <1>1, <1>2, FS_Bijection DEF ExistsBijection
<1> QED
  BY <1>2, <1>3 DEF H

\* This is what Swapped does.
LEMMA SwappedFacts ==
  ASSUME NEW S, NEW T, NEW ls, Finds(ls, data, S, "no"), NEW rs, Finds(rs, data, T, "yes")
  PROVE  Exchanged(Part!Swapped(ls, rs), ls, S, rs, T, Part!Pairs(ls, rs))
<1> DEFINE k == Part!Pairs(ls, rs)
<1>1. /\ ls \in Seq(Int) /\ rs \in Seq(Int) /\ Len(ls) \in Nat /\ Len(rs) \in Nat
      /\ DOMAIN ls = 1 .. Len(ls) /\ DOMAIN rs = 1 .. Len(rs)
  BY DEF Finds
<1>2. k \in 0 .. Len(ls) /\ k \in 0 .. Len(rs) /\ k \in Nat /\ (k = Len(ls) \/ k = Len(rs))
  BY <1>1 DEF Part!Pairs, Part!Least0
<1> HIDE DEF k
<1>3. \A a \in 1 .. k : a \in DOMAIN ls /\ a \in DOMAIN rs
  <2> DEFINE n == Len(ls)
             m == Len(rs)
  <2>1. n \in Nat /\ m \in Nat /\ k \in 0 .. n /\ k \in 0 .. m
    BY <1>1, <1>2
  <2> HIDE DEF n, m
  <2>2. \A a \in 1 .. k : a \in 1 .. n /\ a \in 1 .. m
    BY <2>1
  <2> QED
    BY <1>1, <2>2 DEF n, m
<1>4. /\ Head_(ls, k) \subseteq S /\ \A i \in Head_(ls, k) : data[i] = "no"
      /\ Head_(rs, k) \subseteq T /\ \A i \in Head_(rs, k) : data[i] = "yes"
  BY <1>3 DEF Head_, Finds
<1>6. IsFiniteSet(Head_(ls, k)) /\ Cardinality(Head_(ls, k)) = k
  <2>1. \A a, b \in 1 .. k : ls[a] = ls[b] => a = b
    BY <1>3 DEF Finds
  <2> QED
    BY <1>2, <2>1, HeadCard
<1>7. IsFiniteSet(Head_(rs, k)) /\ Cardinality(Head_(rs, k)) = k
  <2>1. \A a, b \in 1 .. k : rs[a] = rs[b] => a = b
    BY <1>3 DEF Finds
  <2> QED
    BY <1>2, <2>1, HeadCard
<1>8. \A i \in Part!Range0 : Part!Swapped(ls, rs)[i] =
        IF i \in Head_(ls, k) THEN "yes" ELSE IF i \in Head_(rs, k) THEN "no" ELSE data[i]
  BY DEF Part!Swapped, Head_, k
<1> QED
  BY <1>2, <1>4, <1>6, <1>7, <1>8 DEF Exchanged, k

\* The elements stay what they can be.
LEMMA SwappedType ==
  ASSUME NEW V, {"yes", "no"} \subseteq V, data \in [Part!Range0 -> V], NEW ls, NEW rs
  PROVE  Part!Swapped(ls, rs) \in [Part!Range0 -> V]
BY DEF Part!Swapped

\* The blocks from lb to le and from rb down to re have been gone through up to
\* l and r, in data that becomes N.
PassedTo(lb, le, re, rb, l, r, N) ==
  /\ l \in lb .. le /\ r \in re .. rb /\ (l = le \/ r = re)
  /\ \A i \in Part!Range0 :
       IF i \in lb .. l - 1
       THEN data[i] \in {"yes", "no"} => N[i] = "yes"
       ELSE IF i \in r + 1 .. rb
       THEN data[i] \in {"yes", "no"} => N[i] = "no"
       ELSE N[i] = data[i]

\* Where the pointers stop that go through a block on each side, and what the
\* blocks hold then.
LEMMA ScanFacts ==
  ASSUME NEW lb \in Int, NEW le \in Int, lb <= le, NEW re \in Int, NEW rb \in Int, re <= rb,
         NEW ls, ls = Part!Picked(Part!Up(lb, le), "no"),
         NEW rs, rs = Part!Picked(Part!Down(rb, re), "yes"),
         NEW k, k = Part!Pairs(ls, rs),
         NEW l, l = Part!Stop(ls, k, le), NEW r, r = Part!Stop(rs, k, re),
         (lb .. le - 1) \cap (re + 1 .. rb) = {}
  PROVE  PassedTo(lb, le, re, rb, l, r, Part!Swapped(ls, rs))
<1> DEFINE p == Part!Up(lb, le)
           q == Part!Down(rb, re)
           S == lb .. le - 1
           T == re + 1 .. rb
           H == Head_(ls, k)
           J == Head_(rs, k)
           N == Part!Swapped(ls, rs)
<1>1. Lists(p, S) /\ \A c, h \in DOMAIN p : c < h => p[c] < p[h]
  BY UpLists
<1>2. Lists(q, T) /\ \A c, h \in DOMAIN q : c < h => q[c] > q[h]
  BY DownLists
<1> HIDE DEF p, q
<1>3. Finds(ls, data, S, "no") /\ InOrderOf(ls, p)
  BY <1>1, PickedFinds DEF p
<1>4. Finds(rs, data, T, "yes") /\ InOrderOf(rs, q)
  BY <1>2, PickedFinds DEF q
<1> HIDE DEF S, T
<1>5. /\ k \in 0 .. Len(ls) /\ k \in 0 .. Len(rs) /\ k \in Nat /\ (k = Len(ls) \/ k = Len(rs))
      /\ \A i \in Part!Range0 : N[i] = IF i \in H THEN "yes" ELSE IF i \in J THEN "no" ELSE data[i]
      /\ H \subseteq S /\ J \subseteq T
      /\ \A i \in H : data[i] = "no"
      /\ \A i \in J : data[i] = "yes"
  <2>1. Exchanged(N, ls, S, rs, T, k)
    BY <1>3, <1>4, SwappedFacts
  <2> HIDE DEF N
  <2> QED
    BY <2>1 DEF Exchanged
<1>6. /\ ls \in Seq(Int) /\ rs \in Seq(Int)
      /\ DOMAIN ls = 1 .. Len(ls) /\ DOMAIN rs = 1 .. Len(rs)
  BY <1>3, <1>4 DEF Finds
<1>7. \A a, b \in DOMAIN ls : a < b => ls[a] < ls[b]
  BY <1>1, <1>3 DEF InOrderOf
<1>8. \A a, b \in DOMAIN rs : a < b => rs[a] > rs[b]
  BY <1>2, <1>4 DEF InOrderOf
<1>9. /\ l \in lb .. le /\ (k = Len(ls) => l = le)
      /\ H \subseteq lb .. l - 1
      /\ \A i \in lb .. l - 1 : data[i] = "no" => i \in H
  <2>1. CASE Len(ls) > k
    <3>1. l = ls[k + 1] /\ k + 1 \in DOMAIN ls
      BY <1>5, <1>6, <2>1 DEF Part!Stop
    <3>2. l \in lb .. le - 1
      BY <1>3, <3>1 DEF Finds, S
    <3>3. \A a \in 1 .. k : a \in DOMAIN ls /\ a < k + 1
      BY <1>5, <1>6
    <3>4. \A a \in 1 .. k : ls[a] < l /\ ls[a] \in lb .. le - 1
      BY <1>3, <1>7, <3>1, <3>3 DEF Finds, S
    <3>5. H \subseteq lb .. l - 1
      <4>1. \A a \in 1 .. k : ls[a] \in lb .. l - 1
        BY <3>2, <3>4
      <4> QED
        BY <4>1 DEF Head_
    <3>6. ASSUME NEW i \in lb .. l - 1, data[i] = "no" PROVE i \in H
      <4>1. i \in S
        BY <3>2 DEF S
      <4>2. PICK a \in DOMAIN ls : ls[a] = i
        BY <1>3, <3>6, <4>1 DEF Finds
      <4>3. ~(k + 1 < a) /\ a # k + 1
        BY <1>7, <3>1, <3>2, <4>2
      <4>4. a \in Int /\ 1 <= a /\ k \in Int
        BY <1>5, <1>6, <4>2
      <4>5. a \in 1 .. k
        BY <4>3, <4>4
      <4> QED
        BY <4>2, <4>5 DEF Head_
    <3> QED
      BY <2>1, <3>2, <3>5, <3>6
  <2>2. CASE ~(Len(ls) > k)
    <3>1. l = le /\ k = Len(ls)
      BY <1>5, <1>6, <2>2 DEF Part!Stop
    <3>2. lb .. l - 1 = S
      BY <3>1 DEF S
    <3>3. ASSUME NEW i \in S, data[i] = "no" PROVE i \in H
      <4>1. PICK a \in DOMAIN ls : ls[a] = i
        BY <1>3, <3>2, <3>3 DEF Finds
      <4> QED
        BY <1>6, <3>1, <4>1 DEF Head_
    <3> QED
      BY <1>5, <3>1, <3>2, <3>3
  <2> QED
    BY <2>1, <2>2
<1>10. /\ r \in re .. rb /\ (k = Len(rs) => r = re)
       /\ J \subseteq r + 1 .. rb
       /\ \A i \in r + 1 .. rb : data[i] = "yes" => i \in J
  <2>1. CASE Len(rs) > k
    <3>1. r = rs[k + 1] /\ k + 1 \in DOMAIN rs
      BY <1>5, <1>6, <2>1 DEF Part!Stop
    <3>2. r \in re + 1 .. rb
      BY <1>4, <3>1 DEF Finds, T
    <3>3. \A a \in 1 .. k : a \in DOMAIN rs /\ a < k + 1
      BY <1>5, <1>6
    <3>4. \A a \in 1 .. k : rs[a] > r /\ rs[a] \in re + 1 .. rb
      BY <1>4, <1>8, <3>1, <3>3 DEF Finds, T
    <3>5. J \subseteq r + 1 .. rb
      <4>1. \A a \in 1 .. k : rs[a] \in r + 1 .. rb
        BY <3>2, <3>4
      <4> QED
        BY <4>1 DEF Head_
    <3>6. ASSUME NEW i \in r + 1 .. rb, data[i] = "yes" PROVE i \in J
      <4>1. i \in T
        BY <3>2 DEF T
      <4>2. PICK a \in DOMAIN rs : rs[a] = i
        BY <1>4, <3>6, <4>1 DEF Finds
      <4>3. ~(k + 1 < a) /\ a # k + 1
        BY <1>8, <3>1, <3>2, <4>2
      <4>4. a \in Int /\ 1 <= a /\ k \in Int
        BY <1>5, <1>6, <4>2
      <4>5. a \in 1 .. k
        BY <4>3, <4>4
      <4> QED
        BY <4>2, <4>5 DEF Head_
    <3> QED
      BY <2>1, <3>2, <3>5, <3>6
  <2>2. CASE ~(Len(rs) > k)
    <3>1. r = re /\ k = Len(rs)
      BY <1>5, <1>6, <2>2 DEF Part!Stop
    <3>2. r + 1 .. rb = T
      BY <3>1 DEF T
    <3>3. ASSUME NEW i \in T, data[i] = "yes" PROVE i \in J
      <4>1. PICK a \in DOMAIN rs : rs[a] = i
        BY <1>4, <3>2, <3>3 DEF Finds
      <4> QED
        BY <1>6, <3>1, <4>1 DEF Head_
    <3> QED
      BY <1>5, <3>1, <3>2, <3>3
  <2> QED
    BY <2>1, <2>2
<1>11. \A i : i \in lb .. l - 1 => i \in S
  BY <1>9 DEF S
<1>12. \A i : i \in r + 1 .. rb => i \in T
  BY <1>10 DEF T
<1>13. S \cap T = {}
  BY DEF S, T
<1> HIDE DEF H, J, N
<1>14. ASSUME NEW i \in Part!Range0
       PROVE  IF i \in lb .. l - 1 THEN data[i] \in {"yes", "no"} => N[i] = "yes"
              ELSE IF i \in r + 1 .. rb THEN data[i] \in {"yes", "no"} => N[i] = "no"
              ELSE N[i] = data[i]
  <2>1. N[i] = IF i \in H THEN "yes" ELSE IF i \in J THEN "no" ELSE data[i]
    BY <1>5
  <2>2. i \in H => i \in lb .. l - 1
    BY <1>9
  <2>3. i \in J => i \in r + 1 .. rb
    BY <1>10
  <2>4. CASE i \in lb .. l - 1
    <3>1. i \notin J
      BY <1>11, <1>12, <1>13, <2>3, <2>4
    <3>2. data[i] = "no" => i \in H
      BY <1>9, <2>4
    <3> QED
      BY <2>1, <2>4, <3>1, <3>2
  <2>5. CASE i \notin lb .. l - 1 /\ i \in r + 1 .. rb
    <3>1. data[i] = "yes" => i \in J
      BY <1>10, <2>5
    <3> QED
      BY <2>1, <2>2, <2>5, <3>1
  <2>6. CASE i \notin lb .. l - 1 /\ i \notin r + 1 .. rb
    BY <2>1, <2>2, <2>3, <2>6
  <2> QED
    BY <2>4, <2>5, <2>6
<1> QED
  BY <1>5, <1>9, <1>10, <1>14 DEF N, PassedTo

\* The blocks that are kept hold every cell with something wrong that was not
\* exchanged.
LEMMA UnfinishedFacts ==
  ASSUME NEW bs \in Seq(Int \X Int), Separate(bs), NEW x,
         NEW s, s = Part!Picked(Part!Positions(bs), x), NEW k \in 0 .. Len(s),
         NEW u, u = Part!Unfinished(bs, s, k)
  PROVE  /\ u \in Seq(Int \X Int) /\ Separate(u) /\ Cells(u) \subseteq Cells(bs)
         /\ \A i \in Cells(bs) : data[i] = x /\ i \notin Cells(u) => i \in Head_(s, k)
<1> DEFINE p == Part!Positions(bs)
           D == DOMAIN bs
           n == Len(bs)
<1>1. Lists(p, Cells(bs)) /\ ByBlocks(p, bs, n)
  BY PositionsList
<1> HIDE DEF p
<1>2. Finds(s, data, Cells(bs), x) /\ InOrderOf(s, p)
  BY <1>1, PickedFinds DEF p
<1>3. s \in Seq(Int) /\ Len(s) \in Nat /\ DOMAIN s = 1 .. Len(s)
  BY <1>2 DEF Finds
<1>4. D = 1 .. n /\ n \in Nat
  OBVIOUS
<1>5. \A i \in Cells(bs) : data[i] = x => \E a \in DOMAIN s : s[a] = i
  BY <1>2 DEF Finds
<1>6. CASE Len(s) = k
  <2>1. u = <<>>
    BY <1>6 DEF Part!Unfinished
  <2>2. u \in Seq(Int \X Int) /\ DOMAIN u = {}
    BY <2>1
  <2>3. Separate(u) /\ Cells(u) = {}
    BY <2>2 DEF Separate, Cells
  <2>4. \A i \in Cells(bs) : data[i] = x => i \in Head_(s, k)
    BY <1>3, <1>5, <1>6 DEF Head_
  <2> QED
    BY <2>2, <2>3, <2>4
<1>7. CASE Len(s) # k
  <2> DEFINE v == s[k + 1]
             j == CHOOSE h \in DOMAIN bs : v \in Part!Range(Part!Up(bs[h][1], bs[h][2]))
  <2>1. k + 1 \in DOMAIN s /\ k \in Nat /\ v \in Cells(bs) /\ v \in Int
    <3>1. k + 1 \in DOMAIN s /\ k \in Nat
      <4> DEFINE l == Len(s)
      <4>1. l \in Nat /\ k \in 0 .. l /\ l # k
        BY <1>3, <1>7
      <4> HIDE DEF l
      <4>2. k \in Nat /\ k + 1 \in 1 .. l
        BY <4>1
      <4> QED
        BY <1>3, <4>2 DEF l
    <3>2. v \in Cells(bs)
      BY <1>2, <3>1 DEF Finds
    <3> QED
      BY <3>1, <3>2 DEF Cells
  <2> HIDE DEF v
  <2>2. \A h \in D : /\ bs[h] \in Int \X Int /\ bs[h][1] \in Int /\ bs[h][2] \in Int
                     /\ Part!Range(Part!Up(bs[h][1], bs[h][2])) = Cell(bs[h])
    <3> SUFFICES ASSUME NEW h \in D
                 PROVE  /\ bs[h] \in Int \X Int /\ bs[h][1] \in Int /\ bs[h][2] \in Int
                        /\ Part!Range(Part!Up(bs[h][1], bs[h][2])) = Cell(bs[h])
      OBVIOUS
    <3>1. bs[h] \in Int \X Int
      OBVIOUS
    <3>2. bs[h][1] \in Int /\ bs[h][2] \in Int
      BY <3>1
    <3> QED
      BY <3>1, <3>2, UpRange DEF Cell
  <2>3. \E h \in D : v \in Part!Range(Part!Up(bs[h][1], bs[h][2]))
    BY <2>1, <2>2 DEF Cells
  <2>4. j \in D /\ v \in Cell(bs[j])
    <3>1. j \in D /\ v \in Part!Range(Part!Up(bs[j][1], bs[j][2]))
      BY <2>3
    <3> HIDE DEF j
    <3> QED
      BY <2>2, <3>1
  <2>5. u = Append(SubSeq(bs, j + 1, Len(bs)), <<v, bs[j][2]>>)
    BY <1>7 DEF Part!Unfinished, v
  <2> HIDE DEF j, D, n
  <2> DEFINE m == n - j + 1
  <2>6. j \in 1 .. n /\ j \in Int /\ m \in Nat /\ m \in 1 .. m /\ m # 0
    BY <1>4, <2>4
  <2>7. /\ u \in Seq(Int \X Int) /\ DOMAIN u = 1 .. m
        /\ \A h \in 1 .. m : h # m => u[h] = bs[j + h]
        /\ u[m] = <<v, bs[j][2]>>
    <3> DEFINE w == SubSeq(bs, j + 1, n)
               y == <<v, bs[j][2]>>
    <3>1. w \in Seq(Int \X Int) /\ Len(w) = n - j /\ \A h \in 1 .. n - j : w[h] = bs[j + h]
      <4>1. j + 1 \in 1 .. n + 1 /\ n \in j + 1 - 1 .. n /\ n - (j + 1) + 1 = n - j
        BY <1>4, <2>6
      <4>2. /\ w \in Seq(Int \X Int) /\ Len(w) = n - (j + 1) + 1
            /\ \A h \in 1 .. n - (j + 1) + 1 : w[h] = bs[j + 1 + h - 1]
        <5> HIDE DEF w
        <5>1. n = Len(bs) /\ w = SubSeq(bs, j + 1, n)
          BY DEF n, w
        <5> QED
          <6> DEFINE c == j + 1
                     S == Int \X Int
          <6>1. c \in Int /\ n \in Int /\ c \in 1 .. n + 1 /\ n - c + 1 = n - j
            BY <4>1
          <6>2. \A i \in c .. n : i \in DOMAIN bs
            BY <1>4, <6>1 DEF D
          <6>3. \A i \in c .. n : bs[i] \in S
            BY <6>2
          <6>4. w = SubSeq(bs, c, n)
            BY <5>1
          <6>5. IF c <= n THEN n - c + 1 = n - j ELSE 0 = n - j
            BY <6>1
          <6> HIDE DEF c, S
          <6>6. /\ w \in Seq(S)
                /\ Len(w) = IF c <= n THEN n - c + 1 ELSE 0
                /\ \A i \in 1 .. n - c + 1 : w[i] = bs[c + i - 1]
            BY <6>1, <6>3, <6>4, SubSeqProperties
          <6>7. Len(w) = n - c + 1
            BY <6>1, <6>5, <6>6
          <6> QED
            BY <6>6, <6>7 DEF c, S
      <4>3. \A h \in 1 .. n - j : j + 1 + h - 1 = j + h
        BY <2>6
      <4> HIDE DEF w
      <4> QED
        BY <4>1, <4>2, <4>3
    <3>2. y \in Int \X Int
      BY <2>1, <2>2, <2>4
    <3>3. u = Append(w, y) /\ n - j \in Nat /\ m = n - j + 1
      BY <1>4, <2>5, <2>6 DEF n
    <3> HIDE DEF w, y, m
    <3>4. /\ u \in Seq(Int \X Int) /\ Len(u) = m /\ DOMAIN u = 1 .. m /\ u[m] = y
          /\ \A h \in 1 .. n - j : u[h] = w[h]
      BY <3>1, <3>2, <3>3
    <3>5. \A h \in 1 .. m : h # m => h \in 1 .. n - j
      BY <3>3
    <3> QED
      BY <3>1, <3>4, <3>5 DEF y
  <2>8. Cell(u[m]) = v .. bs[j][2] - 1 /\ Cell(u[m]) \subseteq Cell(bs[j])
    <3>1. u[m][1] = v /\ u[m][2] = bs[j][2]
      BY <2>7
    <3>2. bs[j][1] <= v /\ bs[j][1] \in Int /\ bs[j][2] \in Int
      BY <2>1, <2>2, <2>4 DEF Cell
    <3> QED
      BY <2>1, <3>1, <3>2 DEF Cell
  <2>9. \A h \in 1 .. m : h # m => j + h \in D /\ j + h # j
    BY <1>4, <2>6
  <2> HIDE DEF m
  <2>10. Separate(u)
    <3> SUFFICES ASSUME NEW g \in 1 .. m, NEW h \in 1 .. m, g # h
                 PROVE  Cell(u[g]) \cap Cell(u[h]) = {}
      BY <2>7 DEF Separate
    <3>1. \A a, b \in D : a # b => Cell(bs[a]) \cap Cell(bs[b]) = {}
      BY DEF Separate, D
    <3>2. CASE g # m /\ h # m
      <4>1. j + g # j + h
        BY <2>6
      <4> QED
        BY <2>7, <2>9, <3>1, <3>2, <4>1
    <3>3. CASE g = m
      BY <2>4, <2>7, <2>8, <2>9, <3>1, <3>3
    <3>4. CASE h = m
      BY <2>4, <2>7, <2>8, <2>9, <3>1, <3>4
    <3> QED
      BY <3>2, <3>3, <3>4
  <2>11. Cells(u) \subseteq Cells(bs)
    <3> SUFFICES ASSUME NEW i \in Int, NEW h \in 1 .. m, i \in Cell(u[h])
                 PROVE  \E a \in D : i \in Cell(bs[a])
      BY <2>7 DEF Cells, D
    <3>1. CASE h = m
      BY <2>4, <2>8, <3>1
    <3>2. CASE h # m
      BY <2>7, <2>9, <3>2
    <3> QED
      BY <3>1, <3>2
  <2>12. ASSUME NEW i \in Cells(bs), data[i] = x, i \notin Cells(u)
         PROVE  i \in Head_(s, k)
    <3>1. PICK a \in DOMAIN s : s[a] = i
      BY <1>5, <2>12
    <3>2. i \in Int /\ \A h \in 1 .. m : i \notin Cell(u[h])
      BY <2>7, <2>12 DEF Cells
    <3>3. i \notin v .. bs[j][2] - 1
      BY <2>6, <2>8, <3>2
    <3>4. a # k + 1
      <4>1. v <= bs[j][2] - 1 /\ bs[j][2] \in Int
        BY <2>1, <2>2, <2>4 DEF Cell
      <4>2. i # v
        BY <2>1, <3>3, <4>1
      <4> QED
        BY <3>1, <4>2 DEF v
    <3>5. ~(k + 1 < a)
      <4> SUFFICES ASSUME k + 1 < a PROVE FALSE
        OBVIOUS
      <4>1. PICK c \in DOMAIN p, e \in DOMAIN p : c < e /\ p[c] = v /\ p[e] = i
        BY <1>2, <2>1, <3>1 DEF InOrderOf, v
      <4>2. PICK g \in 1 .. n, h \in 1 .. n :
              /\ v \in Cell(bs[g]) /\ i \in Cell(bs[h])
              /\ g < h \/ (g = h /\ v < i)
        BY <1>1, <4>1 DEF ByBlocks
      <4>3. g = j
        BY <1>4, <2>4, <4>2 DEF Separate, D
      <4>4. CASE j < h
        <5>1. h - j \in 1 .. m /\ h - j # m /\ j + (h - j) = h
          BY <1>4, <2>6, <4>4 DEF m
        <5>2. u[h - j] = bs[h]
          BY <2>7, <5>1
        <5> QED
          BY <3>2, <4>2, <5>1, <5>2
      <4>5. CASE h = j /\ v < i
        <5>1. i <= bs[j][2] - 1 /\ bs[j][2] \in Int
          BY <2>2, <2>4, <4>2, <4>5 DEF Cell
        <5> QED
          BY <2>1, <3>2, <3>3, <4>5, <5>1
      <4> QED
        BY <4>2, <4>3, <4>4, <4>5
    <3>6. a \in 1 .. k
      <4>1. a \in Int /\ 1 <= a
        BY <1>3, <3>1
      <4> QED
        BY <2>1, <3>4, <3>5, <4>1
    <3> QED
      BY <3>1, <3>6 DEF Head_
  <2> QED
    BY <2>7, <2>10, <2>11, <2>12
<1> QED
  BY <1>6, <1>7

\* Two lists bs and cs have become u and w by an exchange that turns data into N.
JoinedTo(bs, cs, u, w, N) ==
  /\ u \in Seq(Int \X Int) /\ Separate(u) /\ Cells(u) \subseteq Cells(bs)
  /\ w \in Seq(Int \X Int) /\ Separate(w) /\ Cells(w) \subseteq Cells(cs)
  /\ \A i \in Part!Range0 : i \notin Cells(bs) /\ i \notin Cells(cs) => N[i] = data[i]
  /\ \A i \in Part!Range0 :
       /\ N[i] \in {"yes", "no", data[i]}
       /\ i \in Cells(bs) /\ i \notin Cells(u) /\ data[i] \in {"yes", "no"} => N[i] = "yes"
       /\ i \in Cells(cs) /\ i \notin Cells(w) /\ data[i] \in {"yes", "no"} => N[i] = "no"

\* What the done functor of a fork does with the lists of its subtasks.
LEMMA JoinFacts ==
  ASSUME NEW bs \in Seq(Int \X Int), Separate(bs), NEW cs \in Seq(Int \X Int), Separate(cs),
         Cells(bs) \cap Cells(cs) = {},
         NEW ls, ls = Part!Picked(Part!Positions(bs), "no"),
         NEW rs, rs = Part!Picked(Part!Positions(cs), "yes"),
         NEW k, k = Part!Pairs(ls, rs),
         NEW u, u = Part!Unfinished(bs, ls, k), NEW w, w = Part!Unfinished(cs, rs, k),
         NEW N, N = Part!Swapped(ls, rs)
  PROVE  JoinedTo(bs, cs, u, w, N) /\ Exchanged(N, ls, Cells(bs), rs, Cells(cs), k)
<1>1. Finds(ls, data, Cells(bs), "no") /\ Finds(rs, data, Cells(cs), "yes")
  BY PositionsList, PickedFinds
<1>2. Exchanged(N, ls, Cells(bs), rs, Cells(cs), k)
  BY <1>1, SwappedFacts
<1>3. k \in 0 .. Len(ls) /\ k \in 0 .. Len(rs)
  BY <1>2 DEF Exchanged
<1>4. /\ u \in Seq(Int \X Int) /\ Separate(u) /\ Cells(u) \subseteq Cells(bs)
      /\ \A i \in Cells(bs) : data[i] = "no" /\ i \notin Cells(u) => i \in Head_(ls, k)
  BY <1>3, UnfinishedFacts
<1>5. /\ w \in Seq(Int \X Int) /\ Separate(w) /\ Cells(w) \subseteq Cells(cs)
      /\ \A i \in Cells(cs) : data[i] = "yes" /\ i \notin Cells(w) => i \in Head_(rs, k)
  BY <1>3, UnfinishedFacts
<1> DEFINE B == Cells(bs)
           C == Cells(cs)
           U == Cells(u)
           W == Cells(w)
           H == Head_(ls, k)
           J == Head_(rs, k)
<1>6. /\ \A i \in Part!Range0 : N[i] = IF i \in H THEN "yes" ELSE IF i \in J THEN "no" ELSE data[i]
      /\ H \subseteq B /\ J \subseteq C /\ B \cap C = {}
      /\ \A i \in B : data[i] = "no" /\ i \notin U => i \in H
      /\ \A i \in C : data[i] = "yes" /\ i \notin W => i \in J
  BY <1>2, <1>4, <1>5 DEF Exchanged
<1> HIDE DEF B, C, U, W, H, J
<1>7. \A i \in Part!Range0 : i \notin B /\ i \notin C => N[i] = data[i]
  BY <1>6
<1>8. \A i \in Part!Range0 : N[i] \in {"yes", "no", data[i]}
  BY <1>6
<1>9. \A i \in Part!Range0 :
        /\ i \in B /\ i \notin U /\ data[i] \in {"yes", "no"} => N[i] = "yes"
        /\ i \in C /\ i \notin W /\ data[i] \in {"yes", "no"} => N[i] = "no"
  BY <1>6
<1> QED
  BY <1>2, <1>4, <1>5, <1>7, <1>8, <1>9 DEF B, C, U, W, JoinedTo

-----------------------------------------------------------------------------
(* Tasks                                                                   *)

\* The path of t is the beginning of that of u.
Ext(t, u) == Len(t) < Len(u) /\ \A i \in 1 .. Len(t) : u[i] = t[i]

\* One thread at least is opened; the range and the blocks are not empty.
LEMMA OpenedFacts == Part!Opened \in Nat \ {0} /\ Size \in Nat \ {0} /\ BlockSize \in Nat \ {0}
BY PartitionAssumption DEF Part!PartitionAssumption, Part!Opened

\* A task is a path of forks, as long as the number of opened threads at most.
LEMMA TasksFacts ==
  \A t : t \in Part!Paths <=> t \in Seq({1, 2}) /\ Len(t) <= Part!Opened
<1>1. ASSUME NEW t \in Part!Paths PROVE t \in Seq({1, 2}) /\ Len(t) <= Part!Opened
  <2>1. PICK n \in 0 .. Part!Opened : t \in [1 .. n -> {1, 2}]
    BY <1>1 DEF Part!Paths
  <2>2. n \in Nat /\ n <= Part!Opened
    BY <2>1, OpenedFacts
  <2>3. t \in Seq({1, 2}) /\ Len(t) = n
    BY <2>1, <2>2
  <2> QED
    BY <2>2, <2>3
<1>2. ASSUME NEW t \in Seq({1, 2}), Len(t) <= Part!Opened PROVE t \in Part!Paths
  <2> DEFINE n == Len(t)
  <2>1. t \in [1 .. n -> {1, 2}] /\ n \in Nat
    OBVIOUS
  <2>2. n \in 0 .. Part!Opened
    BY <1>2, <2>1, OpenedFacts
  <2> QED
    BY <2>1, <2>2 DEF Part!Paths
<1> QED
  BY <1>1, <1>2

\* The first task is above all others.
LEMMA TaskFacts ==
  /\ Part!First \in Part!Paths /\ Len(Part!First) = 0
  /\ \A t \in Part!Paths : Len(t) \in Nat /\ Len(t) <= Part!Opened /\ ~Ext(t, Part!First)
  /\ \A t \in Part!Paths : t # Part!First => Ext(Part!First, t)
<1>1. Part!First \in Part!Paths /\ Len(Part!First) = 0
  <2>1. <<>> \in Seq({1, 2}) /\ Len(<<>>) = 0 /\ 0 <= Part!Opened
    BY OpenedFacts
  <2> QED
    BY <2>1, TasksFacts DEF Part!First
<1>2. ASSUME NEW t \in Part!Paths
      PROVE  Len(t) \in Nat /\ Len(t) <= Part!Opened /\ t \in Seq({1, 2})
  BY TasksFacts
<1>3. ASSUME NEW t \in Part!Paths, t # Part!First PROVE Ext(Part!First, t)
  <2>1. Len(t) # 0
    BY <1>2, <1>3 DEF Part!First
  <2>2. 0 < Len(t) /\ 1 .. 0 = {}
    BY <1>2, <2>1
  <2> QED
    BY <1>1, <2>2 DEF Ext
<1>4. ASSUME NEW t \in Part!Paths PROVE ~Ext(t, Part!First)
  <2>1. Len(t) \in Nat
    BY <1>2
  <2> QED
    BY <1>1, <2>1 DEF Ext
<1> QED
  BY <1>1, <1>2, <1>3, <1>4

\* The two subtasks of a task.
LEMMA ChildFacts ==
  ASSUME NEW t \in Part!Paths
  PROVE  /\ Part!Children(t) = {Append(t, 1), Append(t, 2)}
         /\ Append(t, 1) # Append(t, 2)
         /\ \A c \in Part!Children(t) : c # t /\ Len(c) = Len(t) + 1 /\ Ext(t, c)
         /\ Len(t) < Part!Opened => Part!Children(t) \subseteq Part!Paths
         /\ \A u \in Part!Paths : Ext(t, u) =>
              /\ Part!Children(t) \subseteq Part!Paths
              /\ \E c \in Part!Children(t) : c = u \/ Ext(c, u)
         /\ \A c \in Part!Children(t), u \in Part!Paths : Ext(u, c) => u = t \/ Ext(u, t)
         /\ \A c \in Part!Children(t), u \in Part!Paths : Ext(c, u) => Ext(t, u)
         /\ \A u \in Part!Paths : Ext(t, u) => u # t
<1> DEFINE n == Len(t)
<1>1. t \in Seq({1, 2}) /\ n \in Nat /\ n <= Part!Opened /\ Part!Opened \in Nat
  BY TasksFacts, OpenedFacts
<1>2. ASSUME NEW x \in {1, 2}
      PROVE  /\ Append(t, x) \in Seq({1, 2}) /\ Len(Append(t, x)) = n + 1
             /\ Append(t, x)[n + 1] = x /\ \A i \in 1 .. n : Append(t, x)[i] = t[i]
  BY <1>1
<1>3. Part!Children(t) = {Append(t, 1), Append(t, 2)}
  BY DEF Part!Children
<1>4. \A c \in Part!Children(t) : c \in Seq({1, 2}) /\ Len(c) = n + 1 /\ \A i \in 1 .. n : c[i] = t[i]
  BY <1>2, <1>3
<1>5. \A c \in Part!Children(t) : c # t /\ Len(c) = Len(t) + 1 /\ Ext(t, c)
  <2>1. \A c \in Part!Children(t) : Len(c) # n
    BY <1>1, <1>4
  <2>2. \A c \in Part!Children(t) : n < Len(c)
    BY <1>1, <1>4
  <2> QED
    BY <1>4, <2>1, <2>2 DEF Ext
<1>6. Append(t, 1) # Append(t, 2)
  <2>1. Append(t, 1)[n + 1] = 1 /\ Append(t, 2)[n + 1] = 2
    BY <1>2
  <2> QED
    BY <2>1
<1>7. n < Part!Opened => Part!Children(t) \subseteq Part!Paths
  <2>1. n < Part!Opened => \A c \in Part!Children(t) : Len(c) <= Part!Opened
    BY <1>1, <1>4
  <2> QED
    BY <1>4, <2>1, TasksFacts
<1>8. ASSUME NEW u \in Part!Paths, Ext(t, u)
      PROVE  /\ Part!Children(t) \subseteq Part!Paths
             /\ \E c \in Part!Children(t) : c = u \/ Ext(c, u)
  <2>1. u \in Seq({1, 2}) /\ Len(u) \in Nat /\ Len(u) <= Part!Opened /\ n < Len(u)
    BY <1>8, TasksFacts DEF Ext
  <2>2. Part!Children(t) \subseteq Part!Paths
    BY <1>1, <1>7, <2>1
  <2> DEFINE x == u[n + 1]
             c == Append(t, x)
  <2>3. x \in {1, 2}
    <3>1. n + 1 \in 1 .. Len(u)
      BY <1>1, <2>1
    <3> QED
      BY <2>1, <3>1
  <2>4. c \in Part!Children(t) /\ c \in Seq({1, 2}) /\ Len(c) = n + 1
    BY <1>2, <1>3, <2>3
  <2>5. \A i \in 1 .. n + 1 : u[i] = c[i]
    <3>1. c[n + 1] = x /\ \A i \in 1 .. n : c[i] = t[i] /\ u[i] = t[i]
      BY <1>2, <1>8, <2>3 DEF Ext
    <3>2. \A i \in 1 .. n + 1 : i = n + 1 \/ i \in 1 .. n
      BY <1>1
    <3> HIDE DEF c, n
    <3> QED
      BY <3>1, <3>2
  <2> HIDE DEF c, x
  <2>6. CASE Len(u) = n + 1
    <3>1. c = u
      <4>1. DOMAIN c = 1 .. n + 1 /\ DOMAIN u = 1 .. n + 1
        BY <2>1, <2>4, <2>6
      <4>2. c = [i \in 1 .. n + 1 |-> c[i]] /\ u = [i \in 1 .. n + 1 |-> u[i]]
        BY <2>1, <2>4, <4>1
      <4> QED
        BY <2>5, <4>2
    <3> QED
      BY <2>2, <2>4, <3>1
  <2>7. CASE Len(u) # n + 1
    <3>1. n + 1 < Len(u)
      BY <1>1, <2>1, <2>7
    <3>2. Ext(c, u)
      BY <2>4, <2>5, <3>1 DEF Ext
    <3> QED
      BY <2>2, <2>4, <3>2
  <2> QED
    BY <2>6, <2>7
<1>9. ASSUME NEW c \in Part!Children(t), NEW u \in Part!Paths, Ext(u, c)
      PROVE  u = t \/ Ext(u, t)
  <2>1. u \in Seq({1, 2}) /\ Len(u) \in Nat /\ Len(u) < n + 1 /\ \A i \in 1 .. Len(u) : c[i] = u[i]
    BY <1>4, <1>9, TasksFacts DEF Ext
  <2>2. \A i \in 1 .. Len(u) : i \in 1 .. n
    BY <1>1, <2>1
  <2>3. \A i \in 1 .. Len(u) : t[i] = u[i]
    BY <1>4, <2>1, <2>2
  <2>4. CASE Len(u) = n
    <3>1. DOMAIN t = 1 .. n /\ DOMAIN u = 1 .. n
      BY <1>1, <2>1, <2>4
    <3>2. t = [i \in 1 .. n |-> t[i]] /\ u = [i \in 1 .. n |-> u[i]]
      BY <1>1, <2>1, <3>1
    <3> QED
      BY <2>3, <2>4, <3>2
  <2>5. CASE Len(u) # n
    <3>1. Len(u) < n
      BY <1>1, <2>1, <2>5
    <3> QED
      BY <2>3, <3>1 DEF Ext
  <2> QED
    BY <2>4, <2>5
<1>10. ASSUME NEW c \in Part!Children(t), NEW u \in Part!Paths, Ext(c, u)
       PROVE  Ext(t, u)
  <2>1. Len(u) \in Nat /\ n + 1 < Len(u) /\ \A i \in 1 .. n + 1 : u[i] = c[i]
    BY <1>4, <1>10, TasksFacts DEF Ext
  <2>2. \A i \in 1 .. n : i \in 1 .. n + 1
    BY <1>1
  <2>3. \A i \in 1 .. n : u[i] = t[i]
    BY <1>4, <2>1, <2>2
  <2>4. n < Len(u)
    BY <1>1, <2>1
  <2> QED
    BY <2>3, <2>4 DEF Ext
<1>11. \A u \in Part!Paths : Ext(t, u) => u # t
  <2>1. ~(n < n)
    BY <1>1
  <2> QED
    BY <2>1 DEF Ext
<1> QED
  BY <1>3, <1>5, <1>6, <1>7, <1>8, <1>9, <1>10, <1>11

-----------------------------------------------------------------------------
(* The invariant: what a task may hold                                     *)

PCs == {"idle", "start", "restore", "forked", "test", "take", "claim", "finish", "failed",
        "done", "answered"}

\* Who may have blocks, and who may take part or fork.
Working == {"test", "take", "claim", "finish", "failed", "answered"}
Looking == {"start", "restore", "test", "take", "claim"}

TaskRec == [pc : PCs, lbs : Int, lbe : Int, rbs : Int, rbe : Int, mysize : Int, trues : Nat,
            left : Seq(Int \X Int), right : Seq(Int \X Int)]

\* One of the blocks has been gone through; only a task that has ended has lists.
Shape(w) ==
  /\ w \in TaskRec
  /\ w.lbs <= w.lbe /\ w.rbe <= w.rbs /\ (w.lbs = w.lbe \/ w.rbs = w.rbe)
  /\ w.pc \notin Working => w.lbs = w.lbe /\ w.rbs = w.rbe /\ w.trues = 0
  /\ w.pc \notin {"done", "answered"} => w.left = <<>> /\ w.right = <<>>
  /\ w.pc = "claim" => w.mysize \in 1 .. BlockSize
  /\ Separate(w.left) /\ Separate(w.right)

TypeInv ==
  /\ data \in [Part!Range0 -> {"yes", "no", "bad"}]
  /\ openThreads \in Int /\ size \in Int /\ lmove \in Int /\ rmove \in Int
  /\ rtrue \in Int /\ answer \in Int
  /\ task = [t \in Part!Paths |-> task[t]]
  /\ \A t \in Part!Paths : Shape(task[t])

\* A task that takes part has ancestors that wait for it, and those of the
\* others have not ended either.
TreeInv ==
  \A t, u \in Part!Paths : Ext(t, u) /\ task[u].pc # "idle" =>
    /\ task[t].pc \in {"forked", "failed", "answered"}
    /\ task[u].pc \notin {"done", "failed"} => task[t].pc = "forked"

\* How many tasks have forked, and how many still may take from size.
Restoring(tk) == {t \in Part!Paths : tk[t].pc = "restore"}
Active(tk) == {t \in Part!Paths : tk[t].pc \in Looking}
Forks(tk, open) == Part!Opened - open - Cardinality(Restoring(tk))

\* The tasks that have been forked bound how far size is below zero.
SizeOf(sz, forks, active) ==
  /\ forks \in 0 .. Part!Opened /\ active \in 0 .. 2 * forks + 1
  /\ sz <= Size /\ sz > -(BlockSize * (2 * forks + 2 - active))

ThreadsInv ==
  /\ IsFiniteSet(Restoring(task)) /\ IsFiniteSet(Active(task))
  /\ \A t \in Part!Paths :
       /\ task[t].pc # "idle" => Len(t) <= Forks(task, openThreads)
       /\ task[t].pc = "forked" => Len(t) < Forks(task, openThreads)
  /\ SizeOf(size, Forks(task, openThreads), Cardinality(Active(task)))

\* The elements that have been taken from size and not yet from the ends.
Pending(tk) ==
  {p \in Part!Paths \X Nat : tk[p[1]].pc = "claim" /\ p[2] \in 1 .. tk[p[1]].mysize}

SpaceInv ==
  /\ IsFiniteSet(Pending(task)) /\ lmove \in Nat /\ rmove <= Size
  /\ Cardinality(Pending(task)) + lmove + (Size - rmove) + (IF size > 0 THEN size ELSE 0) = Size

\* What a task holds on either side.
LeftBlock(w) == w.lbs .. w.lbe - 1
RightBlock(w) == w.rbe + 1 .. w.rbs
LeftCells(w) == LeftBlock(w) \cup Cells(w.left)
RightCells(w) == RightBlock(w) \cup Cells(w.right)

CellsInv(tk, lm, rm) ==
  /\ \A t \in Part!Paths :
       LeftCells(tk[t]) \subseteq 0 .. lm - 1 /\ RightCells(tk[t]) \subseteq rm .. Size - 1
  /\ \A t, u \in Part!Paths : t # u =>
       /\ LeftCells(tk[t]) \cap LeftCells(tk[u]) = {}
       /\ RightCells(tk[t]) \cap RightCells(tk[u]) = {}

BlocksInv ==
  TypeInv /\ TreeInv /\ ThreadsInv /\ SpaceInv /\ CellsInv(task, lmove, rmove)

\* The int that holds the size of a block can hold every value of size.
IntHolds ==
  \A n \in -(BlockSize * (2 * Part!Opened + 2)) .. Size : Part!ToInt(n) = n

-----------------------------------------------------------------------------
(* What the steps do with the tasks                                        *)

\* Blocks, lists and what has been counted are left alone.
Same(w, v) ==
  /\ v.lbs = w.lbs /\ v.lbe = w.lbe /\ v.rbs = w.rbs /\ v.rbe = w.rbe
  /\ v.trues = w.trues /\ v.left = w.left /\ v.right = w.right

\* A step that only goes on keeps the blocks of its task.
LEMMA GotoFacts ==
  ASSUME TypeInv, NEW t \in Part!Paths, NEW x \in PCs, Part!Goto(t, x)
  PROVE  /\ task' = [u \in Part!Paths |-> task'[u]]
         /\ task'[t] \in TaskRec /\ task'[t].pc = x /\ Same(task[t], task'[t])
         /\ task'[t].mysize = task[t].mysize
         /\ \A u \in Part!Paths : u # t => task'[u] = task[u]
<1>1. task[t] \in TaskRec /\ task = [u \in Part!Paths |-> task[u]]
  BY DEF TypeInv, Shape
<1>2. task' = [task EXCEPT ![t].pc = x]
  BY DEF Part!Goto
<1>3. task'[t] = [task[t] EXCEPT !.pc = x] /\ \A u \in Part!Paths : u # t => task'[u] = task[u]
  BY <1>1, <1>2
<1>4. task' = [u \in Part!Paths |-> task'[u]]
  BY <1>1, <1>2
<1>5. task'[t] \in TaskRec /\ task'[t].pc = x /\ Same(task[t], task'[t])
      /\ task'[t].mysize = task[t].mysize
  BY <1>1, <1>3 DEF TaskRec, Same
<1> QED
  BY <1>3, <1>4, <1>5

\* A shape with another pc.
LEMMA SameShape ==
  ASSUME NEW w, Shape(w), NEW v \in TaskRec, Same(w, v),
         w.pc \in Working => v.pc \in Working \/ (w.lbs = w.lbe /\ w.rbs = w.rbe /\ w.trues = 0),
         w.pc \in {"done", "answered"} => v.pc \in {"done", "answered"},
         v.pc = "claim" => v.mysize \in 1 .. BlockSize
  PROVE  Shape(v)
BY DEF Shape, Same

\* The fields of an idle task.
LEMMA IdleFacts ==
  ASSUME NEW x \in PCs \ {"claim"}, NEW w, w = [Part!Idle EXCEPT !.pc = x]
  PROVE  /\ w.pc = x /\ w.lbs = Size /\ w.lbe = Size /\ w.rbs = Size /\ w.rbe = Size
         /\ w.trues = 0 /\ w.left = <<>> /\ w.right = <<>> /\ Shape(w)
<1>1. Size \in Int /\ <<>> \in Seq(Int \X Int) /\ DOMAIN <<>> = {}
  BY OpenedFacts
<1>2. w = [pc |-> x, lbs |-> Size, lbe |-> Size, rbs |-> Size, rbe |-> Size,
           mysize |-> 0, trues |-> 0, left |-> <<>>, right |-> <<>>]
  BY DEF Part!Idle
<1>3. w \in TaskRec
  <2> DEFINE S == Seq(Int \X Int)
             e == <<>>
  <2>1. x \in PCs /\ 0 \in Int /\ 0 \in Nat /\ e \in S /\ Size \in Int
    BY <1>1
  <2>2. w = [pc |-> x, lbs |-> Size, lbe |-> Size, rbs |-> Size, rbe |-> Size,
             mysize |-> 0, trues |-> 0, left |-> e, right |-> e]
    BY <1>2
  <2> HIDE DEF S, e
  <2>3. w \in [pc : PCs, lbs : Int, lbe : Int, rbs : Int, rbe : Int, mysize : Int, trues : Nat,
               left : S, right : S]
    BY ONLY <2>1, <2>2
  <2> QED
    BY <2>3 DEF TaskRec, S
<1>4. Separate(<<>>)
  BY <1>1 DEF Separate
<1>5. /\ w.pc = x /\ w.lbs = Size /\ w.lbe = Size /\ w.rbs = Size /\ w.rbe = Size
      /\ w.trues = 0 /\ w.left = <<>> /\ w.right = <<>>
  BY <1>2
<1> QED
  BY <1>1, <1>3, <1>4, <1>5 DEF Shape

\* A task that forks has idle subtasks, and they start.
LEMMA ForkFacts ==
  ASSUME BlocksInv, NEW t \in Part!Paths, Part!Fork(t)
  PROVE  /\ task' = [u \in Part!Paths |-> task'[u]]
         /\ task[t].pc = "start" /\ task'[t] \in TaskRec /\ task'[t].pc = "forked"
         /\ Same(task[t], task'[t])
         /\ Part!Children(t) \subseteq Part!Paths
         /\ \A c \in Part!Children(t) :
              task[c].pc = "idle" /\ task'[c] = [Part!Idle EXCEPT !.pc = "start"]
         /\ \A u \in Part!Paths : u # t /\ u \notin Part!Children(t) => task'[u] = task[u]
         /\ \A u \in Part!Paths : Ext(t, u) => task[u].pc = "idle"
<1>1. task[t].pc = "start" /\ openThreads >= 1 /\ task[t] \in TaskRec
  BY DEF Part!Fork, BlocksInv, TypeInv, Shape
<1>2. Part!Children(t) \subseteq Part!Paths
  <2> DEFINE k == Cardinality(Restoring(task))
  <2>1. Len(t) \in Nat /\ Len(t) <= Forks(task, openThreads)
    BY <1>1, TaskFacts DEF BlocksInv, ThreadsInv
  <2>2. k \in Nat
    BY FS_CardinalityType DEF BlocksInv, ThreadsInv
  <2>3. Forks(task, openThreads) = Part!Opened - openThreads - k
    BY DEF Forks
  <2>4. Part!Opened \in Nat /\ openThreads \in Int
    BY OpenedFacts DEF BlocksInv, TypeInv
  <2> HIDE DEF k
  <2>5. Len(t) < Part!Opened
    BY <1>1, <2>1, <2>2, <2>3, <2>4
  <2> QED
    BY <2>5, ChildFacts
<1>3. \A u \in Part!Paths : Ext(t, u) => task[u].pc = "idle"
  BY <1>1 DEF BlocksInv, TreeInv
<1>4. \A c \in Part!Children(t) : c # t /\ task[c].pc = "idle"
  BY <1>2, <1>3, ChildFacts
<1>5. task' = [c \in Part!Paths |-> IF c = t THEN [task[t] EXCEPT !.pc = "forked"]
                                    ELSE IF c \in Part!Children(t) THEN [Part!Idle EXCEPT !.pc = "start"]
                                    ELSE task[c]]
  BY DEF Part!Fork
<1>6. task' = [u \in Part!Paths |-> task'[u]] /\ task'[t] = [task[t] EXCEPT !.pc = "forked"]
  BY <1>5
<1>7. \A c \in Part!Children(t) : task'[c] = [Part!Idle EXCEPT !.pc = "start"]
  BY <1>2, <1>4, <1>5
<1>8. \A u \in Part!Paths : u # t /\ u \notin Part!Children(t) => task'[u] = task[u]
  BY <1>5
<1>9. task'[t] \in TaskRec /\ task'[t].pc = "forked" /\ Same(task[t], task'[t])
  <2> DEFINE w == task[t]
             v == task'[t]
  <2>1. w \in TaskRec /\ v = [w EXCEPT !.pc = "forked"] /\ "forked" \in PCs
    BY <1>1, <1>6 DEF PCs
  <2> HIDE DEF w, v
  <2>2. v \in TaskRec /\ v.pc = "forked" /\ Same(w, v)
    BY <2>1 DEF TaskRec, Same
  <2> QED
    BY <2>2 DEF w, v
<1> QED
  BY <1>1, <1>2, <1>3, <1>4, <1>6, <1>7, <1>8, <1>9

\* What t is then, when nothing in the blocks has thrown.
Scanned(t, lb, le, rb, re, l, r, v, N) ==
  /\ PassedTo(lb, le, re, rb, l, r, N)
  /\ v \in TaskRec /\ v.pc = "test" /\ v.lbs = l /\ v.lbe = le /\ v.rbs = r /\ v.rbe = re
  /\ v.trues = task[t].trues + (l - lb) /\ v.left = task[t].left /\ v.right = task[t].right
  /\ N \in [Part!Range0 -> {"yes", "no", "bad"}]
  /\ \A i \in lb .. le - 1 : data[i] # "bad"
  /\ \A i \in re + 1 .. rb : data[i] # "bad"

\* What the exchange between two blocks does with the elements and the task.
LEMMA ScanEffect ==
  ASSUME TypeInv, NEW t \in Part!Paths,
         NEW lb \in Int, NEW le \in Int, lb <= le, NEW re \in Int, NEW rb \in Int, re <= rb,
         (lb .. le - 1) \cap (re + 1 .. rb) = {},
         Part!Scan(t, lb, le, rb, re)
  PROVE  \/ Part!Goto(t, "failed") /\ data' = data
         \/ /\ task' = [u \in Part!Paths |-> task'[u]]
            /\ \A u \in Part!Paths : u # t => task'[u] = task[u]
            /\ \E l, r \in Int : Scanned(t, lb, le, rb, re, l, r, task'[t], data')
<1> DEFINE p == Part!Up(lb, le)
           q == Part!Down(rb, re)
           ls == Part!Picked(p, "no")
           rs == Part!Picked(q, "yes")
           k == Part!Pairs(ls, rs)
           l == Part!Stop(ls, k, le)
           r == Part!Stop(rs, k, re)
           N == Part!Swapped(ls, rs)
<1>1. \/ Part!Goto(t, "failed") /\ data' = data
      \/ /\ ~Part!Bad(p \o q)
         /\ data' = N
         /\ task' = [task EXCEPT ![t] = [task[t] EXCEPT !.pc = "test",
                       !.lbs = l, !.lbe = le, !.rbs = r, !.rbe = re,
                       !.trues = task[t].trues + (l - lb)]]
  BY DEF Part!Scan
<1>2. PassedTo(lb, le, re, rb, l, r, N)
  BY ScanFacts
<1>3. N \in [Part!Range0 -> {"yes", "no", "bad"}]
  BY SwappedType DEF TypeInv
<1>4. Lists(p, lb .. le - 1) /\ Lists(q, re + 1 .. rb)
  BY UpLists, DownLists
<1> HIDE DEF p, q
<1>5. Lists(p \o q, (lb .. le - 1) \cup (re + 1 .. rb))
  BY <1>4, ListsBoth
<1>6. ASSUME ~Part!Bad(p \o q)
      PROVE  /\ \A i \in lb .. le - 1 : data[i] # "bad"
             /\ \A i \in re + 1 .. rb : data[i] # "bad"
  <2> DEFINE s == p \o q
             S == (lb .. le - 1) \cup (re + 1 .. rb)
  <2>1. \A i \in S : \E c \in DOMAIN s : s[c] = i
    BY <1>5 DEF Lists
  <2> HIDE DEF s
  <2>2. \A i \in S : i \in Part!Range(s)
    BY <2>1 DEF Part!Range
  <2>3. \A i \in Part!Range(s) : data[i] # "bad"
    BY <1>6 DEF Part!Bad, s
  <2> QED
    BY <2>2, <2>3
<1> HIDE DEF ls, rs, k, l, r, N
<1>7. CASE /\ ~Part!Bad(p \o q)
           /\ data' = N
           /\ task' = [task EXCEPT ![t] = [task[t] EXCEPT !.pc = "test",
                         !.lbs = l, !.lbe = le, !.rbs = r, !.rbe = re,
                         !.trues = task[t].trues + (l - lb)]]
  <2> DEFINE w == task[t]
             v == [w EXCEPT !.pc = "test", !.lbs = l, !.lbe = le, !.rbs = r, !.rbe = re,
                            !.trues = w.trues + (l - lb)]
  <2>1. task = [u \in Part!Paths |-> task[u]] /\ w \in TaskRec
    BY DEF TypeInv, Shape
  <2>2. task'[t] = v
    BY <1>7, <2>1
  <2> HIDE DEF v, w
  <2>3. task' = [u \in Part!Paths |-> task'[u]] /\ task'[t] = v
        /\ \A u \in Part!Paths : u # t => task'[u] = task[u]
    BY <1>7, <2>1, <2>2
  <2>4. l \in Int /\ r \in Int /\ l - lb \in Nat
    BY <1>2 DEF PassedTo
  <2>5. /\ v \in TaskRec /\ v.pc = "test" /\ v.lbs = l /\ v.lbe = le /\ v.rbs = r /\ v.rbe = re
        /\ v.trues = w.trues + (l - lb) /\ v.left = w.left /\ v.right = w.right
    <3>1. w.trues \in Nat
      BY <2>1 DEF TaskRec
    <3>2. w.trues + (l - lb) \in Nat
      BY <2>4, <3>1
    <3>3. "test" \in PCs
      BY DEF PCs
    <3> DEFINE n == w.trues + (l - lb)
    <3>4. v = [w EXCEPT !.pc = "test", !.lbs = l, !.lbe = le, !.rbs = r, !.rbe = re, !.trues = n]
      BY DEF v
    <3> HIDE DEF n
    <3>5. /\ v \in TaskRec /\ v.pc = "test" /\ v.lbs = l /\ v.lbe = le /\ v.rbs = r /\ v.rbe = re
          /\ v.trues = n /\ v.left = w.left /\ v.right = w.right
      BY <2>1, <2>4, <3>2, <3>3, <3>4 DEF TaskRec, n
    <3> QED
      BY <3>5 DEF n
  <2>6. Scanned(t, lb, le, rb, re, l, r, v, N)
    BY <1>2, <1>3, <1>6, <1>7, <2>5 DEF Scanned, w
  <2> QED
    BY <1>7, <2>3, <2>4, <2>6
<1> QED
  BY <1>1, <1>7 DEF N, l, r, k

\* The conversion to int keeps the value of size.
LEMMA SizeFits ==
  ASSUME BlocksInv, IntHolds
  PROVE  Part!ToInt(size) = size
<1> DEFINE f == Forks(task, openThreads)
           a == Cardinality(Active(task))
           g == 2 * f + 2 - a
           h == 2 * Part!Opened + 2
<1>1. f \in 0 .. Part!Opened /\ a \in 0 .. 2 * f + 1 /\ size <= Size /\ size > -(BlockSize * g)
  BY DEF BlocksInv, ThreadsInv, SizeOf
<1>2. Part!Opened \in Nat /\ BlockSize \in Nat /\ Size \in Nat /\ size \in Int
  BY OpenedFacts DEF BlocksInv, TypeInv
<1> HIDE DEF f, a
<1>3. g \in Nat /\ h \in Nat /\ g <= h /\ h - g \in Nat
  BY <1>1, <1>2
<1> HIDE DEF g, h
<1>4. BlockSize * g \in Int /\ BlockSize * h \in Int /\ BlockSize * (h - g) \in Nat
  BY <1>2, <1>3
<1>5. BlockSize * h = BlockSize * g + BlockSize * (h - g)
  BY <1>2, <1>3
<1>6. size >= -(BlockSize * h)
  BY <1>1, <1>2, <1>4, <1>5
<1>7. size \in -(BlockSize * h) .. Size
  BY <1>1, <1>2, <1>4, <1>6
<1> QED
  BY <1>7 DEF IntHolds, h

\* The elements that one task has taken from size.
LEMMA RowFacts ==
  ASSUME NEW t, NEW m \in Nat \ {0}
  PROVE  IsFiniteSet({t} \X (1 .. m)) /\ Cardinality({t} \X (1 .. m)) = m
<1>1. IsFiniteSet({t}) /\ Cardinality({t}) = 1
  BY FS_Singleton
<1>2. IsFiniteSet(1 .. m) /\ Cardinality(1 .. m) = m
  <2>1. 1 \in Int /\ m \in Int /\ ~(1 > m) /\ m - 1 + 1 = m
    OBVIOUS
  <2> QED
    BY <2>1, FS_Interval
<1> DEFINE S == {t}
           T == 1 .. m
<1>3. IsFiniteSet(S) /\ IsFiniteSet(T) /\ Cardinality(S) = 1 /\ Cardinality(T) = m
  BY <1>1, <1>2
<1> HIDE DEF S, T
<1>4. IsFiniteSet(S \X T) /\ Cardinality(S \X T) = Cardinality(S) * Cardinality(T)
  BY <1>3, FS_Product
<1> QED
  BY <1>3, <1>4 DEF S, T

\* What a task has taken from size there is between the ends.
LEMMA ClaimRoom ==
  ASSUME BlocksInv, NEW t \in Part!Paths, task[t].pc = "claim"
  PROVE  task[t].mysize \in 1 .. BlockSize /\ lmove + task[t].mysize <= rmove
<1> DEFINE m == task[t].mysize
           P == Pending(task)
           Q == {t} \X (1 .. m)
           c == Cardinality(P)
<1>1. m \in 1 .. BlockSize /\ m \in Nat
  <2>1. m \in 1 .. BlockSize
    BY DEF BlocksInv, TypeInv, Shape
  <2> QED
    BY <2>1, OpenedFacts
<1>2. Q \subseteq P
  <2> SUFFICES ASSUME NEW n \in 1 .. m PROVE <<t, n>> \in P
    OBVIOUS
  <2>1. n \in Nat
    BY <1>1
  <2> QED
    BY <2>1 DEF Pending
<1>3. IsFiniteSet(Q) /\ Cardinality(Q) = m
  <2>1. m \in Nat \ {0}
    BY <1>1
  <2> HIDE DEF m
  <2> QED
    BY <2>1, RowFacts
<1>4. IsFiniteSet(P) /\ lmove \in Nat /\ rmove <= Size
      /\ c + lmove + (Size - rmove) + (IF size > 0 THEN size ELSE 0) = Size
  BY DEF BlocksInv, SpaceInv
<1> HIDE DEF P, Q, m
<1>5. m <= c /\ c \in Nat
  BY <1>2, <1>3, <1>4, FS_Subset, FS_CardinalityType
<1>6. rmove \in Int /\ size \in Int /\ Size \in Nat
  BY OpenedFacts DEF BlocksInv, TypeInv
<1> HIDE DEF c
<1>7. lmove + m <= rmove
  BY <1>1, <1>4, <1>5, <1>6
<1> QED
  BY <1>1, <1>7 DEF m

\* A block that is taken from one of the ends, to be gone through with the one
\* that is left of the other side.
Claims(t, lb, le, re, rb, nlm, nrm) ==
  /\ task[t].pc = "claim" /\ task[t].mysize \in 1 .. BlockSize
  /\ \/ nlm = lmove + task[t].mysize /\ nrm = rmove
     \/ nlm = lmove /\ nrm = rmove - task[t].mysize
  /\ nlm <= nrm /\ lmove <= nlm /\ nrm <= rmove
  /\ lb <= le /\ re <= rb
  /\ lb .. le - 1 = LeftBlock(task[t]) \cup (lmove .. nlm - 1)
  /\ re + 1 .. rb = RightBlock(task[t]) \cup (nrm .. rmove - 1)

\* A claim exchanges the elements of the new block and the rest of the old one.
LEMMA ClaimFacts ==
  ASSUME BlocksInv, NEW t \in Part!Paths, Part!ClaimLeft(t) \/ Part!ClaimRight(t)
  PROVE  \E lb, le, re, rb \in Int :
           /\ Claims(t, lb, le, re, rb, lmove', rmove')
           /\ lmove' \in Int /\ rmove' \in Int
           /\ UNCHANGED <<openThreads, size, rtrue, answer>>
           /\ \/ Part!Goto(t, "failed") /\ data' = data
              \/ /\ task' = [u \in Part!Paths |-> task'[u]]
                 /\ \A u \in Part!Paths : u # t => task'[u] = task[u]
                 /\ \E l, r \in Int : Scanned(t, lb, le, rb, re, l, r, task'[t], data')
<1> DEFINE w == task[t]
           m == w.mysize
<1>1. /\ w.lbs \in Int /\ w.lbe \in Int /\ w.rbs \in Int /\ w.rbe \in Int
      /\ w.lbs <= w.lbe /\ w.rbe <= w.rbs /\ (w.lbs = w.lbe \/ w.rbs = w.rbe)
  BY DEF BlocksInv, TypeInv, Shape, TaskRec
<1>2. w.pc = "claim"
  BY DEF Part!ClaimLeft, Part!ClaimRight
<1>3. m \in 1 .. BlockSize /\ lmove + m <= rmove /\ m \in Nat /\ m # 0
  <2>1. m \in 1 .. BlockSize /\ lmove + m <= rmove
    BY <1>2, ClaimRoom
  <2> QED
    BY <2>1, OpenedFacts
<1>4. lmove \in Nat /\ rmove \in Int /\ rmove <= Size /\ Size \in Nat
  BY OpenedFacts DEF BlocksInv, TypeInv, SpaceInv
<1>5. /\ w.lbs .. w.lbe - 1 \subseteq 0 .. lmove - 1
      /\ w.rbe + 1 .. w.rbs \subseteq rmove .. Size - 1
  BY DEF BlocksInv, CellsInv, LeftCells, RightCells, LeftBlock, RightBlock
<1>6. CASE Part!ClaimLeft(t)
  <2> DEFINE lb == lmove
             le == lmove + m
             re == w.rbe
             rb == w.rbs
  <2>1. /\ w.lbs = w.lbe /\ lmove' = lmove + m /\ rmove' = rmove
        /\ Part!Scan(t, lb, le, rb, re) /\ UNCHANGED <<openThreads, size, rtrue, answer>>
    BY <1>6 DEF Part!ClaimLeft
  <2> HIDE DEF w, m
  <2>2. /\ lb \in Int /\ le \in Int /\ lb <= le /\ re \in Int /\ rb \in Int /\ re <= rb
        /\ (lb .. le - 1) \cap (re + 1 .. rb) = {}
    <3>1. lb \in Int /\ le \in Int /\ lb <= le /\ re \in Int /\ rb \in Int /\ re <= rb
      BY <1>1, <1>3, <1>4
    <3>2. \A i \in re + 1 .. rb : i >= rmove
      BY <1>4, <1>5
    <3>3. \A i \in lb .. le - 1 : i < rmove
      BY <1>3, <1>4
    <3> QED
      BY <1>4, <3>1, <3>2, <3>3
  <2>3. Claims(t, lb, le, re, rb, lmove', rmove')
    <3>1. LeftBlock(w) = {} /\ rmove' .. rmove - 1 = {}
      BY <1>1, <1>4, <2>1 DEF LeftBlock
    <3>2. lb .. le - 1 = LeftBlock(w) \cup (lmove .. lmove' - 1)
      BY <2>1, <3>1
    <3>3. re + 1 .. rb = RightBlock(w) \cup (rmove' .. rmove - 1)
      BY <3>1 DEF RightBlock
    <3>4. lmove' <= rmove' /\ lmove <= lmove' /\ rmove' <= rmove
      BY <1>3, <1>4, <2>1
    <3> QED
      BY <1>2, <1>3, <2>1, <2>2, <3>2, <3>3, <3>4 DEF Claims, w, m
  <2>4. lmove' \in Int /\ rmove' \in Int
    BY <1>3, <1>4, <2>1
  <2>5. TypeInv
    BY DEF BlocksInv
  <2> HIDE DEF lb, le, re, rb
  <2>6. \/ Part!Goto(t, "failed") /\ data' = data
        \/ /\ task' = [u \in Part!Paths |-> task'[u]]
           /\ \A u \in Part!Paths : u # t => task'[u] = task[u]
           /\ \E l, r \in Int : Scanned(t, lb, le, rb, re, l, r, task'[t], data')
    BY <2>1, <2>2, <2>5, ScanEffect
  <2> QED
    BY <2>1, <2>2, <2>3, <2>4, <2>6
<1>7. CASE Part!ClaimRight(t)
  <2> DEFINE lb == w.lbs
             le == w.lbe
             re == rmove - m - 1
             rb == rmove - 1
  <2>1. /\ w.lbs # w.lbe /\ lmove' = lmove /\ rmove' = rmove - m
        /\ Part!Scan(t, lb, le, rb, re) /\ UNCHANGED <<openThreads, size, rtrue, answer>>
    BY <1>7 DEF Part!ClaimRight
  <2> HIDE DEF w, m
  <2>2. /\ lb \in Int /\ le \in Int /\ lb <= le /\ re \in Int /\ rb \in Int /\ re <= rb
        /\ (lb .. le - 1) \cap (re + 1 .. rb) = {}
    <3>1. lb \in Int /\ le \in Int /\ lb <= le /\ re \in Int /\ rb \in Int /\ re <= rb
      BY <1>1, <1>3, <1>4
    <3>2. \A i \in re + 1 .. rb : i >= lmove
      BY <1>3, <1>4
    <3>3. \A i \in lb .. le - 1 : i < lmove
      BY <1>4, <1>5
    <3> QED
      BY <1>4, <3>1, <3>2, <3>3
  <2>3. Claims(t, lb, le, re, rb, lmove', rmove')
    <3>1. RightBlock(w) = {} /\ lmove .. lmove' - 1 = {} /\ re + 1 = rmove'
      BY <1>1, <1>3, <1>4, <2>1 DEF RightBlock
    <3>2. lb .. le - 1 = LeftBlock(w) \cup (lmove .. lmove' - 1)
      BY <3>1 DEF LeftBlock
    <3>3. re + 1 .. rb = RightBlock(w) \cup (rmove' .. rmove - 1)
      BY <3>1
    <3>4. lmove' <= rmove' /\ lmove <= lmove' /\ rmove' <= rmove
      BY <1>3, <1>4, <2>1
    <3> QED
      BY <1>2, <1>3, <2>1, <2>2, <3>2, <3>3, <3>4 DEF Claims, w, m
  <2>4. lmove' \in Int /\ rmove' \in Int
    BY <1>3, <1>4, <2>1
  <2>5. TypeInv
    BY DEF BlocksInv
  <2> HIDE DEF lb, le, re, rb
  <2>6. \/ Part!Goto(t, "failed") /\ data' = data
        \/ /\ task' = [u \in Part!Paths |-> task'[u]]
           /\ \A u \in Part!Paths : u # t => task'[u] = task[u]
           /\ \E l, r \in Int : Scanned(t, lb, le, rb, re, l, r, task'[t], data')
    BY <2>1, <2>2, <2>5, ScanEffect
  <2> QED
    BY <2>1, <2>2, <2>3, <2>4, <2>6
<1> QED
  BY <1>6, <1>7

\* The lists of a task that gets its last two blocks as lists.
HandedOn(w, v) ==
  /\ v.pc = "done" /\ Shape(v)
  /\ v.lbs = v.lbe /\ v.rbs = v.rbe /\ v.trues = 0
  /\ Cells(v.left) = LeftBlock(w) /\ Cells(v.right) = RightBlock(w)

\* One block as a list of blocks.
LEMMA OneBlock ==
  ASSUME NEW b \in Int, NEW e \in Int, NEW s, s = IF b # e THEN <<<<b, e>>>> ELSE <<>>
  PROVE  s \in Seq(Int \X Int) /\ Separate(s) /\ Cells(s) = b .. e - 1
<1>1. CASE b # e
  <2>1. s = <<<<b, e>>>> /\ s \in Seq(Int \X Int) /\ DOMAIN s = {1} /\ s[1] = <<b, e>>
    BY <1>1
  <2>2. Cell(s[1]) = b .. e - 1
    BY <2>1 DEF Cell
  <2>3. Cells(s) = b .. e - 1
    BY <2>1, <2>2 DEF Cells
  <2> QED
    BY <2>1, <2>3 DEF Separate
<1>2. CASE b = e
  <2>1. s = <<>> /\ s \in Seq(Int \X Int) /\ DOMAIN s = {} /\ b .. e - 1 = {}
    BY <1>2
  <2> QED
    BY <2>1 DEF Cells, Separate
<1> QED
  BY <1>1, <1>2

\* A task that finishes hands on the rest of its blocks.
LEMMA FinishFacts ==
  ASSUME TypeInv, NEW t \in Part!Paths, Part!Finish(t)
  PROVE  /\ task[t].pc = "finish"
         /\ task' = [u \in Part!Paths |-> task'[u]]
         /\ \A u \in Part!Paths : u # t => task'[u] = task[u]
         /\ HandedOn(task[t], task'[t])
<1> DEFINE w == task[t]
           a == IF w.lbs # w.lbe THEN <<<<w.lbs, w.lbe>>>> ELSE <<>>
           b == IF w.rbs # w.rbe THEN <<<<w.rbe + 1, w.rbs + 1>>>> ELSE <<>>
           v == [Part!Idle EXCEPT !.pc = "done", !.left = a, !.right = b]
<1>1. w.pc = "finish" /\ task' = [task EXCEPT ![t] = v]
  BY DEF Part!Finish
<1>2. /\ w.lbs \in Int /\ w.lbe \in Int /\ w.rbs \in Int /\ w.rbe \in Int
      /\ task = [u \in Part!Paths |-> task[u]]
  BY DEF TypeInv, Shape, TaskRec
<1>3. a \in Seq(Int \X Int) /\ Separate(a) /\ Cells(a) = LeftBlock(w)
  BY <1>2, OneBlock DEF LeftBlock
<1>4. b \in Seq(Int \X Int) /\ Separate(b) /\ Cells(b) = RightBlock(w)
  <2> DEFINE c == w.rbe + 1
             e == w.rbs + 1
  <2>1. c \in Int /\ e \in Int /\ (c # e <=> w.rbs # w.rbe) /\ e - 1 = w.rbs
    BY <1>2
  <2>2. b = IF c # e THEN <<<<c, e>>>> ELSE <<>>
    BY <2>1
  <2> HIDE DEF c, e, b
  <2>3. b \in Seq(Int \X Int) /\ Separate(b) /\ Cells(b) = c .. e - 1
    BY <2>1, <2>2, OneBlock
  <2> QED
    BY <2>1, <2>3 DEF RightBlock, c
<1> HIDE DEF w, a, b
<1>5. HandedOn(w, v)
  <2> DEFINE I == Part!Idle
  <2>1. /\ I \in TaskRec /\ I.lbs = Size /\ I.lbe = Size /\ I.rbs = Size /\ I.rbe = Size
        /\ I.trues = 0
    <3>1. "idle" \in PCs \ {"claim"} /\ I = [I EXCEPT !.pc = "idle"]
      BY DEF PCs, Part!Idle
    <3> HIDE DEF I
    <3>2. I = [Part!Idle EXCEPT !.pc = "idle"]
      BY <3>1 DEF I
    <3> QED
      BY <3>1, <3>2, IdleFacts DEF Shape
  <2>2. "done" \in PCs /\ Size \in Int
    BY OpenedFacts DEF PCs
  <2> HIDE DEF I
  <2>3. v = [I EXCEPT !.pc = "done", !.left = a, !.right = b]
    BY DEF I
  <2> HIDE DEF v
  <2>4. /\ v \in TaskRec /\ v.pc = "done" /\ v.left = a /\ v.right = b
        /\ v.lbs = I.lbs /\ v.lbe = I.lbe /\ v.rbs = I.rbs /\ v.rbe = I.rbe /\ v.trues = I.trues
    BY <1>3, <1>4, <2>1, <2>2, <2>3 DEF TaskRec
  <2>5. Shape(v)
    BY <1>3, <1>4, <2>1, <2>2, <2>4 DEF Shape
  <2> QED
    BY <1>3, <1>4, <2>1, <2>4, <2>5 DEF HandedOn
<1> HIDE DEF v
<1>6. /\ task'[t] = v /\ task' = [u \in Part!Paths |-> task'[u]]
      /\ \A u \in Part!Paths : u # t => task'[u] = task[u]
  BY <1>1, <1>2
<1> QED
  BY <1>1, <1>5, <1>6 DEF w

\* Two lists with different cells, one after the other.
LEMMA BlocksBoth ==
  ASSUME NEW x \in Seq(Int \X Int), Separate(x), NEW y \in Seq(Int \X Int), Separate(y),
         Cells(x) \cap Cells(y) = {}
  PROVE  x \o y \in Seq(Int \X Int) /\ Separate(x \o y) /\ Cells(x \o y) = Cells(x) \cup Cells(y)
<1> DEFINE r == x \o y
           n == Len(x)
           m == Len(y)
<1>1. /\ n \in Nat /\ m \in Nat /\ r \in Seq(Int \X Int)
      /\ DOMAIN x = 1 .. n /\ DOMAIN y = 1 .. m /\ DOMAIN r = 1 .. n + m
      /\ \A c \in 1 .. n : r[c] = x[c]
      /\ \A c \in 1 .. m : r[n + c] = y[c]
  OBVIOUS
<1> HIDE DEF r, n, m
<1>2. \A c \in 1 .. n + m : c \notin 1 .. n => c - n \in 1 .. m /\ c = n + (c - n)
  BY <1>1
<1>3. \A c \in 1 .. m : n + c \in 1 .. n + m
  BY <1>1
<1>4. \A c \in 1 .. n : c \in 1 .. n + m
  BY <1>1
<1>5. \A c \in 1 .. n + m : c \notin 1 .. n => r[c] = y[c - n]
  BY <1>1, <1>2
<1>6. Cells(r) = Cells(x) \cup Cells(y)
  <2>1. ASSUME NEW i \in Int, NEW c \in 1 .. n + m, i \in Cell(r[c])
        PROVE  (\E j \in 1 .. n : i \in Cell(x[j])) \/ (\E j \in 1 .. m : i \in Cell(y[j]))
    BY <1>1, <1>2, <1>5, <2>1
  <2>2. ASSUME NEW i \in Int, NEW j \in 1 .. n, i \in Cell(x[j])
        PROVE  \E c \in 1 .. n + m : i \in Cell(r[c])
    BY <1>1, <1>4, <2>2
  <2>3. ASSUME NEW i \in Int, NEW j \in 1 .. m, i \in Cell(y[j])
        PROVE  \E c \in 1 .. n + m : i \in Cell(r[c])
    BY <1>1, <1>3, <2>3
  <2> QED
    BY <1>1, <2>1, <2>2, <2>3 DEF Cells
<1>7. Separate(r)
  <2> SUFFICES ASSUME NEW j \in 1 .. n + m, NEW k \in 1 .. n + m, j # k, NEW i,
                      i \in Cell(r[j]), i \in Cell(r[k])
               PROVE  FALSE
    BY <1>1 DEF Separate
  <2>1. ASSUME NEW a \in 1 .. n, NEW b \in 1 .. n, a # b PROVE Cell(x[a]) \cap Cell(x[b]) = {}
    BY <1>1, <2>1 DEF Separate
  <2>2. ASSUME NEW a \in 1 .. m, NEW b \in 1 .. m, a # b PROVE Cell(y[a]) \cap Cell(y[b]) = {}
    BY <1>1, <2>2 DEF Separate
  <2>3. ASSUME NEW a \in 1 .. n, NEW b \in 1 .. m, i \in Cell(x[a]), i \in Cell(y[b]) PROVE FALSE
    <3>1. i \in Int
      <4>0. a \in DOMAIN x
        BY <1>1
      <4>1. x[a] \in Int \X Int
        BY <4>0
      <4>2. x[a][1] \in Int
        BY <4>1
      <4> QED
        BY <2>3, <4>2 DEF Cell
    <3>2. i \in Cells(x) /\ i \in Cells(y)
      BY <1>1, <2>3, <3>1 DEF Cells
    <3> QED
      BY <3>2
  <2>4. CASE j \in 1 .. n /\ k \in 1 .. n
    BY <1>1, <2>1, <2>4
  <2>5. CASE j \in 1 .. n /\ k \notin 1 .. n
    BY <1>1, <1>2, <1>5, <2>3, <2>5
  <2>6. CASE j \notin 1 .. n /\ k \in 1 .. n
    BY <1>1, <1>2, <1>5, <2>3, <2>6
  <2>7. CASE j \notin 1 .. n /\ k \notin 1 .. n
    BY <1>2, <1>5, <2>2, <2>7
  <2> QED
    BY <2>4, <2>5, <2>6, <2>7
<1> QED
  BY <1>1, <1>6, <1>7 DEF r

\* The ends have not met.
LEMMA EndsApart ==
  ASSUME BlocksInv
  PROVE  lmove \in Nat /\ rmove \in Int /\ lmove <= rmove /\ rmove <= Size /\ Size \in Nat
<1> DEFINE c == Cardinality(Pending(task))
<1>1. /\ IsFiniteSet(Pending(task)) /\ lmove \in Nat /\ rmove <= Size
      /\ c + lmove + (Size - rmove) + (IF size > 0 THEN size ELSE 0) = Size
  BY DEF BlocksInv, SpaceInv
<1>2. c \in Nat
  BY <1>1, FS_CardinalityType
<1>3. size \in Int /\ rmove \in Int /\ Size \in Nat
  BY OpenedFacts DEF BlocksInv, TypeInv
<1> HIDE DEF c
<1> QED
  BY <1>1, <1>2, <1>3

\* What the done functor of a fork does.
LEMMA JoinTasksFacts ==
  ASSUME BlocksInv, NEW t \in Part!Paths, Part!JoinTasks(t),
         NEW c, c = Append(t, 1), NEW d, d = Append(t, 2)
  PROVE  /\ c \in Part!Paths /\ d \in Part!Paths /\ c # d /\ c # t /\ d # t
         /\ task[t].pc = "forked" /\ task[c].pc = "done" /\ task[d].pc = "done"
         /\ task' = [u \in Part!Paths |-> task'[u]]
         /\ task'[c] = Part!Idle /\ task'[d] = Part!Idle
         /\ \A u \in Part!Paths : u # t /\ u # c /\ u # d => task'[u] = task[u]
         /\ task'[t].pc = "done" /\ Shape(task'[t])
         /\ \E bs, cs \in Seq(Int \X Int) :
              /\ Cells(bs) = Cells(task[c].left) \cup Cells(task[d].left)
              /\ Cells(cs) = Cells(task[c].right) \cup Cells(task[d].right)
              /\ Cells(bs) \cap Cells(cs) = {}
              /\ JoinedTo(bs, cs, task'[t].left, task'[t].right, data')
              /\ \E ls, rs, k : Exchanged(data', ls, Cells(bs), rs, Cells(cs), k)
         /\ data' \in [Part!Range0 -> {"yes", "no", "bad"}]
<1> DEFINE bs == task[c].left \o task[d].left
           cs == task[c].right \o task[d].right
           ls == Part!Picked(Part!Positions(bs), "no")
           rs == Part!Picked(Part!Positions(cs), "yes")
           k == Part!Pairs(ls, rs)
           x == Part!Unfinished(bs, ls, k)
           y == Part!Unfinished(cs, rs, k)
           N == Part!Swapped(ls, rs)
           w == task[t]
<1>1. /\ w.pc = "forked" /\ task[c].pc = "done" /\ task[d].pc = "done"
      /\ data' = N
      /\ task' = [task EXCEPT ![t].pc = "done", ![t].left = x, ![t].right = y,
                              ![c] = Part!Idle, ![d] = Part!Idle]
  BY DEF Part!JoinTasks
<1>2. c \in Part!Paths /\ d \in Part!Paths /\ c # d /\ c # t /\ d # t
  <2>1. Len(t) < Part!Opened
    <3> DEFINE f == Forks(task, openThreads)
    <3>1. Len(t) < f
      BY <1>1 DEF BlocksInv, ThreadsInv
    <3>2. f \in 0 .. Part!Opened
      BY DEF BlocksInv, ThreadsInv, SizeOf
    <3>3. Len(t) \in Nat /\ Part!Opened \in Nat
      BY TaskFacts, OpenedFacts
    <3> HIDE DEF f
    <3> QED
      BY <3>1, <3>2, <3>3
  <2> QED
    BY <2>1, ChildFacts
<1>3. /\ task[c].left \in Seq(Int \X Int) /\ Separate(task[c].left)
      /\ task[d].left \in Seq(Int \X Int) /\ Separate(task[d].left)
      /\ task[c].right \in Seq(Int \X Int) /\ Separate(task[c].right)
      /\ task[d].right \in Seq(Int \X Int) /\ Separate(task[d].right)
  BY <1>2 DEF BlocksInv, TypeInv, Shape, TaskRec
<1>4. /\ Cells(task[c].left) \cap Cells(task[d].left) = {}
      /\ Cells(task[c].right) \cap Cells(task[d].right) = {}
  BY <1>2 DEF BlocksInv, CellsInv, LeftCells, RightCells
<1>5. /\ Cells(task[c].left) \subseteq 0 .. lmove - 1 /\ Cells(task[d].left) \subseteq 0 .. lmove - 1
      /\ Cells(task[c].right) \subseteq rmove .. Size - 1
      /\ Cells(task[d].right) \subseteq rmove .. Size - 1
  BY <1>2 DEF BlocksInv, CellsInv, LeftCells, RightCells
<1>6. /\ bs \in Seq(Int \X Int) /\ Separate(bs)
      /\ Cells(bs) = Cells(task[c].left) \cup Cells(task[d].left)
  BY <1>3, <1>4, BlocksBoth
<1>7. /\ cs \in Seq(Int \X Int) /\ Separate(cs)
      /\ Cells(cs) = Cells(task[c].right) \cup Cells(task[d].right)
  BY <1>3, <1>4, BlocksBoth
<1> HIDE DEF bs, cs
<1>8. Cells(bs) \cap Cells(cs) = {}
  <2>1. (0 .. lmove - 1) \cap (rmove .. Size - 1) = {}
    BY EndsApart
  <2> QED
    BY <1>5, <1>6, <1>7, <2>1
<1>9. JoinedTo(bs, cs, x, y, N) /\ Exchanged(N, ls, Cells(bs), rs, Cells(cs), k)
  BY <1>6, <1>7, <1>8, JoinFacts
<1>10. N \in [Part!Range0 -> {"yes", "no", "bad"}]
  BY SwappedType DEF BlocksInv, TypeInv
<1> HIDE DEF ls, rs, k, x, y, N
<1>11. task = [u \in Part!Paths |-> task[u]] /\ w \in TaskRec /\ Shape(w)
  BY DEF BlocksInv, TypeInv, Shape
<1>12. /\ task' = [u \in Part!Paths |-> task'[u]]
       /\ task'[c] = Part!Idle /\ task'[d] = Part!Idle
       /\ \A u \in Part!Paths : u # t /\ u # c /\ u # d => task'[u] = task[u]
       /\ task'[t] = [w EXCEPT !.pc = "done", !.left = x, !.right = y]
  BY <1>1, <1>2, <1>11
<1>13. task'[t].pc = "done" /\ Shape(task'[t]) /\ task'[t].left = x /\ task'[t].right = y
  <2> DEFINE v == task'[t]
  <2>1. /\ x \in Seq(Int \X Int) /\ y \in Seq(Int \X Int) /\ "done" \in PCs /\ Separate(x) /\ Separate(y)
    BY <1>9 DEF JoinedTo, PCs
  <2>2. v = [w EXCEPT !.pc = "done", !.left = x, !.right = y]
    BY <1>12
  <2>3. w.lbs = w.lbe /\ w.rbs = w.rbe /\ w.trues = 0
    BY <1>1, <1>11 DEF Shape, Working
  <2> HIDE DEF v, w
  <2>4. /\ v \in TaskRec /\ v.pc = "done" /\ v.left = x /\ v.right = y
        /\ v.lbs = w.lbs /\ v.lbe = w.lbe /\ v.rbs = w.rbs /\ v.rbe = w.rbe /\ v.trues = w.trues
    BY <1>11, <2>1, <2>2 DEF TaskRec
  <2>5. w.lbs \in Int /\ w.rbs \in Int
    BY <1>11 DEF TaskRec
  <2>6. Shape(v)
    BY <2>1, <2>3, <2>4, <2>5 DEF Shape
  <2> QED
    BY <2>4, <2>6 DEF v
<1>14. /\ JoinedTo(bs, cs, task'[t].left, task'[t].right, data')
       /\ Exchanged(data', ls, Cells(bs), rs, Cells(cs), k)
       /\ data' \in [Part!Range0 -> {"yes", "no", "bad"}]
  BY <1>1, <1>9, <1>10, <1>13
<1>15. \E b, e \in Seq(Int \X Int) :
         /\ Cells(b) = Cells(task[c].left) \cup Cells(task[d].left)
         /\ Cells(e) = Cells(task[c].right) \cup Cells(task[d].right)
         /\ Cells(b) \cap Cells(e) = {}
         /\ JoinedTo(b, e, task'[t].left, task'[t].right, data')
         /\ \E l, r, n : Exchanged(data', l, Cells(b), r, Cells(e), n)
  <2> HIDE DEF w
  <2> QED
    BY ONLY <1>6, <1>7, <1>8, <1>14
<1> QED
  BY <1>1, <1>2, <1>12, <1>13, <1>14, <1>15

-----------------------------------------------------------------------------
(* Every step keeps the blocks apart                                       *)

\* The types are kept when the changed variables have theirs.
LEMMA TypeKept ==
  ASSUME data' \in [Part!Range0 -> {"yes", "no", "bad"}],
         openThreads' \in Int, size' \in Int, lmove' \in Int, rmove' \in Int,
         rtrue' \in Int, answer' \in Int,
         task' = [t \in Part!Paths |-> task'[t]],
         \A t \in Part!Paths : Shape(task'[t])
  PROVE  TypeInv'
BY DEF TypeInv

\* The tree is kept by a step of one task that is not idle.
LEMMA TreeKept ==
  ASSUME TreeInv, NEW t \in Part!Paths, task[t].pc # "idle",
         \A u \in Part!Paths : u # t => task'[u].pc = task[u].pc,
         \/ task'[t].pc \in {"forked", "failed", "answered"}
         \/ task[t].pc \notin {"forked", "failed", "answered"},
         \/ task[t].pc \notin {"done", "failed"} \/ task'[t].pc \in {"done", "failed"}
         \/ t = Part!First,
         \/ task[t].pc # "forked" \/ task'[t].pc = "forked"
         \/ \A u \in Part!Paths : Ext(t, u) => task[u].pc \in {"idle", "done", "failed"}
  PROVE  TreeInv'
<1> SUFFICES ASSUME NEW a \in Part!Paths, NEW b \in Part!Paths, Ext(a, b), task'[b].pc # "idle"
             PROVE  /\ task'[a].pc \in {"forked", "failed", "answered"}
                    /\ task'[b].pc \notin {"done", "failed"} => task'[a].pc = "forked"
  BY DEF TreeInv
<1>1. task[b].pc # "idle"
  OBVIOUS
<1>2. /\ task[a].pc \in {"forked", "failed", "answered"}
      /\ task[b].pc \notin {"done", "failed"} => task[a].pc = "forked"
  BY <1>1 DEF TreeInv
<1>3. a # b
  BY ChildFacts
<1>4. CASE a # t /\ b # t
  BY <1>2, <1>4
<1>5. CASE b = t
  BY <1>2, <1>3, <1>5, TaskFacts
<1>6. CASE a = t
  BY <1>1, <1>2, <1>3, <1>6
<1> QED
  BY <1>4, <1>5, <1>6

\* With fewer that are active the bound is weaker.
LEMMA SizeOfLess ==
  ASSUME NEW sz \in Int, NEW f, NEW a, SizeOf(sz, f, a), NEW b \in 0 .. a
  PROVE  SizeOf(sz, f, b)
<1>1. f \in Nat /\ a \in Nat /\ b \in Nat /\ b <= a /\ a <= 2 * f + 1 /\ BlockSize \in Nat
  BY OpenedFacts DEF SizeOf
<1> DEFINE g == 2 * f + 2 - a
           n == a - b
<1>2. g \in Nat /\ n \in Nat /\ 2 * f + 2 - b = g + n
  BY <1>1
<1> HIDE DEF g, n
<1>3. BlockSize * (g + n) = BlockSize * g + BlockSize * n /\ BlockSize * g \in Nat /\ BlockSize * n \in Nat
  BY <1>1, <1>2
<1>4. sz > -(BlockSize * g)
  BY DEF SizeOf, g
<1>5. sz > -(BlockSize * (g + n))
  BY <1>3, <1>4
<1> QED
  BY <1>1, <1>2, <1>5 DEF SizeOf

\* The counts are kept by a step that does not fork or take.
LEMMA ThreadsKept ==
  ASSUME BlocksInv, NEW t \in Part!Paths,
         openThreads' = openThreads, size' = size,
         Restoring(task') = Restoring(task),
         Active(task') = Active(task) \/ Active(task') = Active(task) \ {t},
         \A u \in Part!Paths :
           /\ task'[u].pc # "idle" => task[u].pc # "idle"
           /\ task'[u].pc = "forked" => task[u].pc = "forked"
  PROVE  ThreadsInv'
<1> DEFINE A == Active(task)
           B == Active(task')
           f == Forks(task, openThreads)
<1>1. Forks(task', openThreads') = f
  BY DEF Forks
<1>2. /\ IsFiniteSet(A) /\ IsFiniteSet(Restoring(task)) /\ SizeOf(size, f, Cardinality(A))
      /\ \A u \in Part!Paths :
           /\ task[u].pc # "idle" => Len(u) <= f
           /\ task[u].pc = "forked" => Len(u) < f
  BY DEF BlocksInv, ThreadsInv
<1>3. B \subseteq A
  OBVIOUS
<1> HIDE DEF A, B, f
<1>4. IsFiniteSet(B) /\ Cardinality(B) <= Cardinality(A) /\ Cardinality(B) \in Nat /\ Cardinality(A) \in Nat
  BY <1>2, <1>3, FS_Subset, FS_CardinalityType
<1>5. size \in Int
  BY DEF BlocksInv, TypeInv
<1>6. Cardinality(B) \in 0 .. Cardinality(A)
  BY <1>4
<1>7. SizeOf(size, f, Cardinality(B))
  BY <1>2, <1>5, <1>6, SizeOfLess
<1>8. \A u \in Part!Paths :
        /\ task'[u].pc # "idle" => Len(u) <= f
        /\ task'[u].pc = "forked" => Len(u) < f
  BY <1>2
<1>9. /\ IsFiniteSet(Restoring(task')) /\ IsFiniteSet(Active(task'))
      /\ \A u \in Part!Paths :
           /\ task'[u].pc # "idle" => Len(u) <= Forks(task', openThreads')
           /\ task'[u].pc = "forked" => Len(u) < Forks(task', openThreads')
      /\ SizeOf(size', Forks(task', openThreads'), Cardinality(Active(task')))
  BY <1>1, <1>2, <1>4, <1>7, <1>8 DEF B
<1> QED
  BY <1>9 DEF ThreadsInv

\* What the tasks hold may only become less, but for what is taken from the ends.
LEMMA CellsKept ==
  ASSUME NEW tk, NEW lm \in Int, NEW rm \in Int, CellsInv(tk, lm, rm),
         NEW nt, NEW nlm \in Int, NEW nrm \in Int, lm <= nlm, nrm <= rm, 0 <= lm, rm <= Size,
         0 <= nrm, Size \in Int, NEW t \in Part!Paths,
         LeftCells(nt[t]) \subseteq LeftCells(tk[t]) \cup (lm .. nlm - 1),
         RightCells(nt[t]) \subseteq RightCells(tk[t]) \cup (nrm .. rm - 1),
         \A u \in Part!Paths : u # t =>
           /\ LeftCells(nt[u]) \subseteq LeftCells(tk[u])
           /\ RightCells(nt[u]) \subseteq RightCells(tk[u])
  PROVE  CellsInv(nt, nlm, nrm)
<1> DEFINE L(u) == LeftCells(tk[u])
           R(u) == RightCells(tk[u])
           M(u) == LeftCells(nt[u])
           S(u) == RightCells(nt[u])
<1>1. /\ \A u \in Part!Paths : L(u) \subseteq 0 .. lm - 1 /\ R(u) \subseteq rm .. Size - 1
      /\ \A u, v \in Part!Paths : u # v => L(u) \cap L(v) = {} /\ R(u) \cap R(v) = {}
  BY DEF CellsInv
<1>2. /\ M(t) \subseteq L(t) \cup (lm .. nlm - 1) /\ S(t) \subseteq R(t) \cup (nrm .. rm - 1)
      /\ \A u \in Part!Paths : u # t => M(u) \subseteq L(u) /\ S(u) \subseteq R(u)
  OBVIOUS
<1> HIDE DEF L, R, M, S
<1>3. /\ 0 .. lm - 1 \subseteq 0 .. nlm - 1 /\ rm .. Size - 1 \subseteq nrm .. Size - 1
      /\ lm .. nlm - 1 \subseteq 0 .. nlm - 1 /\ nrm .. rm - 1 \subseteq nrm .. Size - 1
      /\ (0 .. lm - 1) \cap (lm .. nlm - 1) = {} /\ (rm .. Size - 1) \cap (nrm .. rm - 1) = {}
  OBVIOUS
<1>4. \A u \in Part!Paths : M(u) \subseteq 0 .. nlm - 1 /\ S(u) \subseteq nrm .. Size - 1
  <2> SUFFICES ASSUME NEW u \in Part!Paths
               PROVE  M(u) \subseteq 0 .. nlm - 1 /\ S(u) \subseteq nrm .. Size - 1
    OBVIOUS
  <2> DEFINE I == 0 .. lm - 1
             J == rm .. Size - 1
             K == lm .. nlm - 1
             H == nrm .. rm - 1
             P == 0 .. nlm - 1
             Q == nrm .. Size - 1
  <2>1. /\ I \subseteq P /\ J \subseteq Q /\ K \subseteq P /\ H \subseteq Q
        /\ L(u) \subseteq I /\ R(u) \subseteq J
        /\ M(u) \subseteq L(u) \cup K /\ S(u) \subseteq R(u) \cup H
    BY <1>1, <1>2, <1>3
  <2> HIDE DEF I, J, K, H, P, Q
  <2>2. M(u) \subseteq P /\ S(u) \subseteq Q
    BY <2>1
  <2> QED
    BY <2>2 DEF P, Q
<1>5. ASSUME NEW u \in Part!Paths, NEW v \in Part!Paths, u # v
      PROVE  M(u) \cap M(v) = {} /\ S(u) \cap S(v) = {}
  <2> DEFINE I == 0 .. lm - 1
             J == rm .. Size - 1
             K == lm .. nlm - 1
             H == nrm .. rm - 1
  <2>1. /\ L(u) \subseteq I /\ R(u) \subseteq J /\ L(v) \subseteq I /\ R(v) \subseteq J
        /\ I \cap K = {} /\ J \cap H = {}
        /\ L(u) \cap L(v) = {} /\ R(u) \cap R(v) = {}
    BY <1>1, <1>3, <1>5
  <2> HIDE DEF I, J, K, H
  <2>2. CASE u = t
    <3>1. M(u) \subseteq L(u) \cup K /\ S(u) \subseteq R(u) \cup H
          /\ M(v) \subseteq L(v) /\ S(v) \subseteq R(v)
      BY <1>2, <1>5, <2>2 DEF K, H
    <3> QED
      BY <2>1, <3>1
  <2>3. CASE v = t
    <3>1. M(v) \subseteq L(v) \cup K /\ S(v) \subseteq R(v) \cup H
          /\ M(u) \subseteq L(u) /\ S(u) \subseteq R(u)
      BY <1>2, <1>5, <2>3 DEF K, H
    <3> QED
      BY <2>1, <3>1
  <2>4. CASE u # t /\ v # t
    BY <1>2, <2>1, <2>4
  <2> QED
    BY <2>2, <2>3, <2>4
<1>6. /\ \A u \in Part!Paths : LeftCells(nt[u]) \subseteq 0 .. nlm - 1 /\ RightCells(nt[u]) \subseteq nrm .. Size - 1
      /\ \A u, v \in Part!Paths : u # v =>
           /\ LeftCells(nt[u]) \cap LeftCells(nt[v]) = {}
           /\ RightCells(nt[u]) \cap RightCells(nt[v]) = {}
  BY <1>4, <1>5 DEF M, S
<1> QED
  BY <1>6 DEF CellsInv

\* Nothing is taken from size and from the ends.
LEMMA SpaceKept ==
  ASSUME BlocksInv, size' = size, lmove' = lmove, rmove' = rmove,
         \A u \in Part!Paths : task'[u].pc = "claim" <=> task[u].pc = "claim",
         \A u \in Part!Paths : task[u].pc = "claim" => task'[u].mysize = task[u].mysize
  PROVE  SpaceInv'
<1>1. Pending(task') = Pending(task)
  <2> SUFFICES ASSUME NEW u \in Part!Paths, NEW n \in Nat
               PROVE  (task'[u].pc = "claim" /\ n \in 1 .. task'[u].mysize)
                        <=> (task[u].pc = "claim" /\ n \in 1 .. task[u].mysize)
    BY DEF Pending
  <2> QED
    OBVIOUS
<1>2. /\ IsFiniteSet(Pending(task')) /\ lmove' \in Nat /\ rmove' <= Size
      /\ Cardinality(Pending(task')) + lmove' + (Size - rmove') + (IF size' > 0 THEN size' ELSE 0) = Size
  BY <1>1 DEF BlocksInv, SpaceInv
<1> QED
  BY <1>2 DEF SpaceInv

\* A task that changes its pc only holds what it held.
LEMMA SameCells ==
  ASSUME NEW w, NEW v, Same(w, v)
  PROVE  LeftCells(v) = LeftCells(w) /\ RightCells(v) = RightCells(w)
         /\ LeftBlock(v) = LeftBlock(w) /\ RightBlock(v) = RightBlock(w)
BY DEF Same, LeftCells, RightCells, LeftBlock, RightBlock

\* A step that changes the pc of one task.
LEMMA GotoKept ==
  ASSUME BlocksInv, NEW t \in Part!Paths, NEW x \in PCs \ {"claim", "idle"}, Part!Goto(t, x),
         task[t].pc \notin {"idle", "claim"},
         \/ x \in {"forked", "failed", "answered"}
         \/ task[t].pc \notin {"forked", "failed", "answered"},
         \/ task[t].pc \notin {"done", "failed"} \/ x \in {"done", "failed"}
         \/ t = Part!First,
         \/ task[t].pc # "forked" \/ x = "forked"
         \/ \A u \in Part!Paths : Ext(t, u) => task[u].pc \in {"idle", "done", "failed"},
         x \in Working \/ task[t].pc \notin Working,
         x \in {"done", "answered"} \/ task[t].pc \notin {"done", "answered"},
         data' \in [Part!Range0 -> {"yes", "no", "bad"}],
         openThreads' \in Int, answer' \in Int, rtrue' = rtrue,
         size' = size, lmove' = lmove, rmove' = rmove
  PROVE  TypeInv' /\ TreeInv' /\ SpaceInv' /\ CellsInv(task', lmove', rmove')
<1>1. /\ task' = [u \in Part!Paths |-> task'[u]]
      /\ task'[t] \in TaskRec /\ task'[t].pc = x /\ Same(task[t], task'[t])
      /\ task'[t].mysize = task[t].mysize
      /\ \A u \in Part!Paths : u # t => task'[u] = task[u]
  BY GotoFacts DEF BlocksInv
<1>2. \A u \in Part!Paths : Shape(task[u])
  BY DEF BlocksInv, TypeInv
<1>3. Shape(task'[t])
  <2> DEFINE w == task[t]
             v == task'[t]
  <2>1. /\ Shape(w) /\ v \in TaskRec /\ Same(w, v) /\ v.pc # "claim"
        /\ v.pc \in Working \/ w.pc \notin Working
        /\ v.pc \in {"done", "answered"} \/ w.pc \notin {"done", "answered"}
    BY <1>1, <1>2
  <2> HIDE DEF w, v
  <2>2. Shape(v)
    BY <2>1, SameShape
  <2> QED
    BY <2>2 DEF v
<1>4. TypeInv'
  <2>1. \A u \in Part!Paths : Shape(task'[u])
    BY <1>1, <1>2, <1>3
  <2>2. size' \in Int /\ lmove' \in Int /\ rmove' \in Int /\ rtrue' \in Int
    BY DEF BlocksInv, TypeInv
  <2> QED
    BY <1>1, <2>1, <2>2, TypeKept
<1>5. TreeInv'
  BY <1>1, TreeKept DEF BlocksInv
<1>6. SpaceInv'
  BY <1>1, SpaceKept
<1>7. CellsInv(task', lmove', rmove')
  <2>1. /\ lmove \in Int /\ rmove \in Int /\ Size \in Int /\ 0 <= lmove /\ lmove <= rmove
        /\ rmove <= Size /\ 0 <= rmove /\ CellsInv(task, lmove, rmove)
    BY EndsApart DEF BlocksInv
  <2>2. LeftCells(task'[t]) \subseteq LeftCells(task[t]) /\ RightCells(task'[t]) \subseteq RightCells(task[t])
    BY <1>1, SameCells
  <2>3. \A u \in Part!Paths : u # t =>
          /\ LeftCells(task'[u]) \subseteq LeftCells(task[u])
          /\ RightCells(task'[u]) \subseteq RightCells(task[u])
    BY <1>1
  <2> DEFINE nt == task'
             lm == lmove
             rm == rmove
  <2> HIDE DEF nt, lm, rm
  <2>4. CellsInv(nt, lm, rm)
    BY <2>1, <2>2, <2>3, CellsKept DEF nt, lm, rm
  <2> QED
    BY <2>4 DEF nt, lm, rm
<1> QED
  BY <1>4, <1>5, <1>6, <1>7

\* A task that does not fork takes a thread for a moment, and gives it back.
LEMMA DoNotForkBlocks ==
  ASSUME BlocksInv, NEW t \in Part!Paths, Part!DoNotFork(t)
  PROVE  BlocksInv'
<1>1. /\ task[t].pc = "start" /\ openThreads' = openThreads - 1 /\ Part!Goto(t, "restore")
      /\ data' = data /\ size' = size /\ lmove' = lmove /\ rmove' = rmove /\ rtrue' = rtrue
      /\ answer' = answer
  BY DEF Part!DoNotFork
<1>2. openThreads \in Int /\ answer \in Int /\ data \in [Part!Range0 -> {"yes", "no", "bad"}]
  BY DEF BlocksInv, TypeInv
<1>3. TypeInv' /\ TreeInv' /\ SpaceInv' /\ CellsInv(task', lmove', rmove')
  <2>1. "restore" \in PCs \ {"claim", "idle"} /\ "restore" \notin Working /\ "start" \notin Working
    BY DEF PCs, Working
  <2> QED
    BY <1>1, <1>2, <2>1, GotoKept
<1>4. task'[t].pc = "restore" /\ \A u \in Part!Paths : u # t => task'[u] = task[u]
  <2>1. "restore" \in PCs
    BY DEF PCs
  <2> QED
    BY <1>1, <2>1, GotoFacts DEF BlocksInv
<1> DEFINE R == Restoring(task)
           k == Cardinality(R)
<1>5. Restoring(task') = R \cup {t} /\ t \notin R /\ Active(task') = Active(task)
  BY <1>1, <1>4 DEF Restoring, Active, Looking
<1>6. IsFiniteSet(R)
  BY DEF BlocksInv, ThreadsInv
<1> HIDE DEF R
<1>7. IsFiniteSet(R \cup {t}) /\ Cardinality(R \cup {t}) = k + 1 /\ k \in Nat
  BY <1>5, <1>6, FS_AddElement, FS_CardinalityType
<1>8. Forks(task', openThreads') = Forks(task, openThreads)
  <2>1. Part!Opened \in Int
    BY OpenedFacts
  <2>2. Forks(task', openThreads') = Part!Opened - (openThreads - 1) - (k + 1)
    BY <1>1, <1>5, <1>7 DEF Forks
  <2>3. Forks(task, openThreads) = Part!Opened - openThreads - k
    BY DEF Forks, R
  <2> HIDE DEF k
  <2> QED
    BY <1>2, <1>7, <2>1, <2>2, <2>3
<1>9. ThreadsInv'
  <2>1. IsFiniteSet(Active(task))
        /\ SizeOf(size, Forks(task, openThreads), Cardinality(Active(task)))
        /\ \A u \in Part!Paths :
             /\ task[u].pc # "idle" => Len(u) <= Forks(task, openThreads)
             /\ task[u].pc = "forked" => Len(u) < Forks(task, openThreads)
    BY DEF BlocksInv, ThreadsInv
  <2> DEFINE f == Forks(task, openThreads)
  <2>2. \A u \in Part!Paths :
          /\ task'[u].pc # "idle" => Len(u) <= f
          /\ task'[u].pc = "forked" => Len(u) < f
    BY <1>1, <1>4, <2>1
  <2>3. /\ IsFiniteSet(Restoring(task')) /\ IsFiniteSet(Active(task'))
        /\ \A u \in Part!Paths :
             /\ task'[u].pc # "idle" => Len(u) <= Forks(task', openThreads')
             /\ task'[u].pc = "forked" => Len(u) < Forks(task', openThreads')
        /\ SizeOf(size', Forks(task', openThreads'), Cardinality(Active(task')))
    BY <1>1, <1>5, <1>7, <1>8, <2>1, <2>2
  <2> QED
    BY <2>3 DEF ThreadsInv
<1> QED
  BY <1>3, <1>9 DEF BlocksInv

\* The thread that was not taken is given back.
LEMMA RestoreBlocks ==
  ASSUME BlocksInv, NEW t \in Part!Paths, Part!Restore(t)
  PROVE  BlocksInv'
<1>1. /\ task[t].pc = "restore" /\ openThreads' = openThreads + 1 /\ Part!Goto(t, "test")
      /\ data' = data /\ size' = size /\ lmove' = lmove /\ rmove' = rmove /\ rtrue' = rtrue
      /\ answer' = answer
  BY DEF Part!Restore
<1>2. openThreads \in Int /\ answer \in Int /\ data \in [Part!Range0 -> {"yes", "no", "bad"}]
  BY DEF BlocksInv, TypeInv
<1>3. TypeInv' /\ TreeInv' /\ SpaceInv' /\ CellsInv(task', lmove', rmove')
  <2>1. "test" \in PCs \ {"claim", "idle"} /\ "test" \in Working
    BY DEF PCs, Working
  <2> QED
    BY <1>1, <1>2, <2>1, GotoKept
<1>4. task'[t].pc = "test" /\ \A u \in Part!Paths : u # t => task'[u] = task[u]
  <2>1. "test" \in PCs
    BY DEF PCs
  <2> QED
    BY <1>1, <2>1, GotoFacts DEF BlocksInv
<1> DEFINE R == Restoring(task)
           k == Cardinality(R)
<1>5. Restoring(task') = R \ {t} /\ t \in R /\ Active(task') = Active(task)
  BY <1>1, <1>4 DEF Restoring, Active, Looking
<1>6. IsFiniteSet(R)
  BY DEF BlocksInv, ThreadsInv
<1> HIDE DEF R
<1>7. IsFiniteSet(R \ {t}) /\ Cardinality(R \ {t}) = k - 1 /\ k \in Nat
  BY <1>5, <1>6, FS_RemoveElement, FS_CardinalityType
<1>8. Forks(task', openThreads') = Forks(task, openThreads)
  <2>1. Part!Opened \in Int
    BY OpenedFacts
  <2>2. Forks(task', openThreads') = Part!Opened - (openThreads + 1) - (k - 1)
    BY <1>1, <1>5, <1>7 DEF Forks
  <2>3. Forks(task, openThreads) = Part!Opened - openThreads - k
    BY DEF Forks, R
  <2> HIDE DEF k
  <2> QED
    BY <1>2, <1>7, <2>1, <2>2, <2>3
<1>9. ThreadsInv'
  <2>1. IsFiniteSet(Active(task))
        /\ SizeOf(size, Forks(task, openThreads), Cardinality(Active(task)))
        /\ \A u \in Part!Paths :
             /\ task[u].pc # "idle" => Len(u) <= Forks(task, openThreads)
             /\ task[u].pc = "forked" => Len(u) < Forks(task, openThreads)
    BY DEF BlocksInv, ThreadsInv
  <2> DEFINE f == Forks(task, openThreads)
  <2>2. \A u \in Part!Paths :
          /\ task'[u].pc # "idle" => Len(u) <= f
          /\ task'[u].pc = "forked" => Len(u) < f
    BY <1>1, <1>4, <2>1
  <2>3. /\ IsFiniteSet(Restoring(task')) /\ IsFiniteSet(Active(task'))
        /\ \A u \in Part!Paths :
             /\ task'[u].pc # "idle" => Len(u) <= Forks(task', openThreads')
             /\ task'[u].pc = "forked" => Len(u) < Forks(task', openThreads')
        /\ SizeOf(size', Forks(task', openThreads'), Cardinality(Active(task')))
    BY <1>1, <1>5, <1>7, <1>8, <2>1, <2>2
  <2> QED
    BY <2>3 DEF ThreadsInv
<1> QED
  BY <1>3, <1>9 DEF BlocksInv

\* A task tests size, fails when a subtask has failed, or hands the failure on.
LEMMA PassingBlocks ==
  ASSUME BlocksInv, NEW t \in Part!Paths,
         \/ Part!TestSize(t) \/ Part!JoinFails(t)
         \/ Part!AnswerFails /\ t = Part!First
  PROVE  BlocksInv'
<1>1. /\ openThreads' = openThreads /\ data' = data /\ size' = size /\ lmove' = lmove
      /\ rmove' = rmove /\ rtrue' = rtrue
      /\ answer' = answer \/ answer' \in {Part!NoAnswer, Part!Exception}
  BY DEF Part!TestSize, Part!JoinFails, Part!AnswerFails, Part!counters
<1>2. /\ openThreads \in Int /\ answer \in Int /\ data \in [Part!Range0 -> {"yes", "no", "bad"}]
      /\ answer' \in Int
  BY <1>1 DEF BlocksInv, TypeInv, Part!NoAnswer, Part!Exception
<1>3. ASSUME NEW x \in {"take", "finish", "failed", "answered"}, Part!Goto(t, x),
             task[t].pc \in {"test", "forked", "failed"},
             x \in {"take", "finish"} => task[t].pc = "test",
             task[t].pc = "failed" => t = Part!First /\ x = "answered",
             task[t].pc = "forked" =>
               x = "failed" /\ \A u \in Part!Paths : Ext(t, u) => task[u].pc \in {"idle", "done", "failed"}
      PROVE  BlocksInv'
  <2>1. /\ x \in PCs \ {"claim", "idle"} /\ x \in PCs /\ x \in Working
        /\ x \notin {"idle", "claim", "restore", "start", "forked"}
    BY DEF PCs, Working
  <2>2. TypeInv' /\ TreeInv' /\ SpaceInv' /\ CellsInv(task', lmove', rmove')
    BY <1>1, <1>2, <1>3, <2>1, GotoKept
  <2>3. task'[t].pc = x /\ \A u \in Part!Paths : u # t => task'[u] = task[u]
    BY <1>3, <2>1, GotoFacts DEF BlocksInv
  <2>4. Restoring(task') = Restoring(task)
    BY <1>3, <2>1, <2>3 DEF Restoring
  <2>5. Active(task') = Active(task) \/ Active(task') = Active(task) \ {t}
    <3>1. CASE x = "take"
      BY <1>3, <2>3, <3>1 DEF Active, Looking
    <3>2. CASE x # "take"
      <4>1. Active(task') = Active(task) \ {t}
        BY <1>3, <2>3, <3>2 DEF Active, Looking
      <4> QED
        BY <4>1
    <3> QED
      BY <3>1, <3>2
  <2>6. ThreadsInv'
    BY <1>1, <1>3, <2>1, <2>3, <2>4, <2>5, ThreadsKept
  <2> QED
    BY <2>2, <2>6 DEF BlocksInv
<1>4. CASE Part!TestSize(t)
  <2>1. task[t].pc = "test" /\ (Part!Goto(t, "take") \/ Part!Goto(t, "finish"))
    BY <1>4 DEF Part!TestSize
  <2> QED
    BY <1>3, <2>1
<1>5. CASE Part!JoinFails(t)
  <2>1. /\ task[t].pc = "forked" /\ Part!Goto(t, "failed")
        /\ \A c \in Part!Children(t) : task[c].pc \in {"done", "failed"}
    BY <1>5 DEF Part!JoinFails
  <2>2. \A u \in Part!Paths : Ext(t, u) => task[u].pc \in {"idle", "done", "failed"}
    <3> SUFFICES ASSUME NEW u \in Part!Paths, Ext(t, u), task[u].pc \notin {"idle", "done", "failed"}
                 PROVE  FALSE
      OBVIOUS
    <3>1. PICK c \in Part!Children(t) : c = u \/ Ext(c, u)
      BY ChildFacts
    <3>2. c \in Part!Paths /\ task[c].pc \in {"done", "failed"}
      BY <2>1, ChildFacts
    <3>3. Ext(c, u) => task[c].pc = "forked"
      BY <3>2 DEF BlocksInv, TreeInv
    <3> QED
      BY <3>1, <3>2, <3>3
  <2> QED
    BY <1>3, <2>1, <2>2
<1>6. CASE Part!AnswerFails /\ t = Part!First
  <2>1. task[t].pc = "failed" /\ Part!Goto(t, "answered")
    BY <1>6 DEF Part!AnswerFails
  <2> QED
    BY <1>3, <1>6, <2>1
<1> QED
  BY <1>4, <1>5, <1>6

\* A task without blocks and lists holds nothing.
LEMMA NoCells ==
  ASSUME NEW w, w.lbs \in Int, w.rbs \in Int, w.lbe = w.lbs, w.rbe = w.rbs,
         w.left = <<>>, w.right = <<>>
  PROVE  LeftCells(w) = {} /\ RightCells(w) = {} /\ LeftBlock(w) = {} /\ RightBlock(w) = {}
<1>1. DOMAIN <<>> = {}
  OBVIOUS
<1>2. Cells(<<>>) = {}
  BY <1>1 DEF Cells
<1> QED
  BY <1>2 DEF LeftCells, RightCells, LeftBlock, RightBlock

\* A task forks: two more may take part, one less, and a thread is taken.
LEMMA ForkBlocks ==
  ASSUME BlocksInv, NEW t \in Part!Paths, Part!Fork(t)
  PROVE  BlocksInv'
<1> DEFINE C == Part!Children(t)
<1>1. /\ task' = [u \in Part!Paths |-> task'[u]]
      /\ task[t].pc = "start" /\ task'[t] \in TaskRec /\ task'[t].pc = "forked"
      /\ Same(task[t], task'[t])
      /\ C \subseteq Part!Paths
      /\ \A c \in C : task[c].pc = "idle" /\ task'[c] = [Part!Idle EXCEPT !.pc = "start"]
      /\ \A u \in Part!Paths : u # t /\ u \notin C => task'[u] = task[u]
      /\ \A u \in Part!Paths : Ext(t, u) => task[u].pc = "idle"
  BY ForkFacts
<1>2. /\ openThreads' = openThreads - 1 /\ openThreads >= 1
      /\ data' = data /\ size' = size /\ lmove' = lmove /\ rmove' = rmove /\ rtrue' = rtrue
      /\ answer' = answer
  BY DEF Part!Fork
<1>3. /\ openThreads \in Int /\ answer \in Int /\ data \in [Part!Range0 -> {"yes", "no", "bad"}]
      /\ size \in Int /\ lmove \in Int /\ rmove \in Int /\ rtrue \in Int
      /\ \A u \in Part!Paths : Shape(task[u])
  BY DEF BlocksInv, TypeInv
<1>4. \A c \in C : /\ task'[c].pc = "start" /\ Shape(task'[c])
                   /\ LeftCells(task'[c]) = {} /\ RightCells(task'[c]) = {}
  <2> SUFFICES ASSUME NEW c \in C
               PROVE  /\ task'[c].pc = "start" /\ Shape(task'[c])
                      /\ LeftCells(task'[c]) = {} /\ RightCells(task'[c]) = {}
    OBVIOUS
  <2> DEFINE w == task'[c]
  <2>1. "start" \in PCs \ {"claim"} /\ w = [Part!Idle EXCEPT !.pc = "start"]
    BY <1>1 DEF PCs
  <2> HIDE DEF w
  <2>2. /\ w.pc = "start" /\ w.lbs = Size /\ w.lbe = Size /\ w.rbs = Size /\ w.rbe = Size
        /\ w.left = <<>> /\ w.right = <<>> /\ Shape(w)
    BY <2>1, IdleFacts
  <2>3. Size \in Int
    BY OpenedFacts
  <2>4. LeftCells(w) = {} /\ RightCells(w) = {}
    BY <2>2, <2>3, NoCells
  <2> QED
    BY <2>2, <2>4 DEF w
<1>5. \A c \in C : c # t /\ Len(c) = Len(t) + 1 /\ Ext(t, c)
  BY ChildFacts
<1> HIDE DEF C
<1>6. Shape(task'[t])
  <2> DEFINE w == task[t]
             v == task'[t]
  <2>1. /\ Shape(w) /\ v \in TaskRec /\ Same(w, v) /\ v.pc = "forked" /\ w.pc = "start"
        /\ "start" \notin Working
    BY <1>1, <1>3 DEF Working
  <2> HIDE DEF w, v
  <2>2. Shape(v)
    BY <2>1, SameShape
  <2> QED
    BY <2>2 DEF v
<1>7. TypeInv'
  <2>1. \A u \in Part!Paths : Shape(task'[u])
    BY <1>1, <1>3, <1>4, <1>6
  <2>2. openThreads' \in Int
    BY <1>2, <1>3
  <2> QED
    BY <1>1, <1>2, <1>3, <2>1, <2>2, TypeKept
<1>8. TreeInv'
  <2> SUFFICES ASSUME NEW a \in Part!Paths, NEW b \in Part!Paths, Ext(a, b), task'[b].pc # "idle"
               PROVE  /\ task'[a].pc \in {"forked", "failed", "answered"}
                      /\ task'[b].pc \notin {"done", "failed"} => task'[a].pc = "forked"
    BY DEF TreeInv
  <2>1. \A u \in Part!Paths : Ext(u, t) => task'[u].pc = "forked"
    <3> SUFFICES ASSUME NEW u \in Part!Paths, Ext(u, t) PROVE task'[u].pc = "forked"
      OBVIOUS
    <3>1. task[u].pc = "forked"
      BY <1>1 DEF BlocksInv, TreeInv
    <3>2. u # t /\ u \notin C
      BY <1>1, <3>1
    <3> QED
      BY <1>1, <3>1, <3>2
  <2>2. CASE b \in C
    <3>1. a = t \/ Ext(a, t)
      BY <2>2, ChildFacts DEF C
    <3> QED
      BY <1>1, <2>1, <3>1
  <2>3. CASE b = t
    BY <2>1, <2>3
  <2>4. CASE b # t /\ b \notin C
    <3>1. task'[b] = task[b] /\ ~Ext(t, b)
      BY <1>1, <2>4
    <3>2. a # t /\ a \notin C
      BY <3>1, ChildFacts DEF C
    <3>3. task'[a] = task[a]
      BY <1>1, <3>2
    <3> QED
      BY <3>1, <3>3 DEF BlocksInv, TreeInv
  <2> QED
    BY <2>2, <2>3, <2>4
<1>9. SpaceInv'
  <2>1. \A u \in Part!Paths : task'[u].pc = "claim" <=> task[u].pc = "claim"
    BY <1>1, <1>4
  <2>2. \A u \in Part!Paths : task[u].pc = "claim" => task'[u].mysize = task[u].mysize
    BY <1>1
  <2> QED
    BY <1>2, <2>1, <2>2, SpaceKept
<1>10. CellsInv(task', lmove', rmove')
  <2>1. /\ lmove \in Int /\ rmove \in Int /\ Size \in Int /\ 0 <= lmove /\ lmove <= rmove
        /\ rmove <= Size /\ 0 <= rmove /\ CellsInv(task, lmove, rmove)
    BY EndsApart DEF BlocksInv
  <2>2. LeftCells(task'[t]) \subseteq LeftCells(task[t]) /\ RightCells(task'[t]) \subseteq RightCells(task[t])
    BY <1>1, SameCells
  <2>3. \A u \in Part!Paths : u # t =>
          /\ LeftCells(task'[u]) \subseteq LeftCells(task[u])
          /\ RightCells(task'[u]) \subseteq RightCells(task[u])
    BY <1>1, <1>4
  <2> DEFINE nt == task'
             lm == lmove
             rm == rmove
  <2> HIDE DEF nt, lm, rm
  <2>4. CellsInv(nt, lm, rm)
    BY <2>1, <2>2, <2>3, CellsKept DEF nt, lm, rm
  <2> QED
    BY <1>2, <2>4 DEF nt, lm, rm
<1>11. ThreadsInv'
  <2> DEFINE R == Restoring(task)
             A == Active(task)
             f == Forks(task, openThreads)
             k == Cardinality(R)
             n == Cardinality(A)
             B == A \ {t}
             c == Append(t, 1)
             d == Append(t, 2)
             D == B \cup {c} \cup {d}
  <2>1. /\ IsFiniteSet(R) /\ IsFiniteSet(A) /\ SizeOf(size, f, n)
        /\ \A u \in Part!Paths :
             /\ task[u].pc # "idle" => Len(u) <= f
             /\ task[u].pc = "forked" => Len(u) < f
    BY DEF BlocksInv, ThreadsInv
  <2>2. C = {c, d} /\ c # d
    BY ChildFacts DEF C
  <2> HIDE DEF c, d
  <2>3. Restoring(task') = R
    BY <1>1, <1>4 DEF Restoring
  <2>4. Active(task') = D /\ t \in A /\ c \notin B /\ d \notin B \cup {c}
    BY <1>1, <1>4, <2>2 DEF Active, Looking
  <2> HIDE DEF R, A, B
  <2>5. IsFiniteSet(D) /\ Cardinality(D) = n + 1 /\ n \in Nat
    <3>1. IsFiniteSet(B) /\ Cardinality(B) = n - 1 /\ n \in Nat
      BY <2>1, <2>4, FS_RemoveElement, FS_CardinalityType DEF B
    <3>2. IsFiniteSet(B \cup {c}) /\ Cardinality(B \cup {c}) = Cardinality(B) + 1
      BY <2>4, <3>1, FS_AddElement
    <3>3. IsFiniteSet(D) /\ Cardinality(D) = Cardinality(B \cup {c}) + 1
      BY <2>4, <3>2, FS_AddElement
    <3> HIDE DEF n, D
    <3> QED
      BY <3>1, <3>2, <3>3
  <2>6. k \in Nat /\ Part!Opened \in Nat /\ BlockSize \in Nat
    BY <2>1, FS_CardinalityType, OpenedFacts
  <2>7. f = Part!Opened - openThreads - k /\ Forks(task', openThreads') = Part!Opened - openThreads' - k
    BY <2>3 DEF Forks, R
  <2> HIDE DEF k, f, n, D
  <2>8. Forks(task', openThreads') = f + 1 /\ f + 1 <= Part!Opened /\ f \in Nat
    BY <1>2, <1>3, <2>1, <2>6, <2>7 DEF SizeOf
  <2>9. SizeOf(size, f + 1, n + 1)
    <3> DEFINE g == 2 * f + 2 - n
    <3>1. n \in 0 .. 2 * f + 1 /\ size <= Size /\ size > -(BlockSize * g)
      BY <2>1 DEF SizeOf
    <3>2. g \in Nat /\ 2 * (f + 1) + 2 - (n + 1) = g + 1 /\ n + 1 \in 0 .. 2 * (f + 1) + 1
      BY <2>5, <2>8, <3>1
    <3> HIDE DEF g
    <3>3. BlockSize * (g + 1) = BlockSize * g + BlockSize /\ BlockSize * g \in Nat
      BY <2>6, <3>2
    <3>4. size > -(BlockSize * (g + 1))
      BY <1>3, <2>6, <3>1, <3>3
    <3>5. f + 1 \in 0 .. Part!Opened
      BY <2>6, <2>8
    <3> QED
      BY <3>1, <3>2, <3>4, <3>5 DEF SizeOf
  <2>10. \A u \in Part!Paths :
           /\ task'[u].pc # "idle" => Len(u) <= f + 1
           /\ task'[u].pc = "forked" => Len(u) < f + 1
    <3> SUFFICES ASSUME NEW u \in Part!Paths
                 PROVE  /\ task'[u].pc # "idle" => Len(u) <= f + 1
                        /\ task'[u].pc = "forked" => Len(u) < f + 1
      OBVIOUS
    <3>1. Len(u) \in Nat /\ Len(t) \in Nat /\ Len(t) <= f
      BY <1>1, <2>1, TaskFacts
    <3>2. CASE u \in C
      BY <1>4, <1>5, <2>8, <3>1, <3>2
    <3>3. CASE u = t
      BY <2>8, <3>1, <3>3
    <3>4. CASE u # t /\ u \notin C
      BY <1>1, <2>1, <2>8, <3>1, <3>4
    <3> QED
      BY <3>2, <3>3, <3>4
  <2>11. /\ IsFiniteSet(Restoring(task')) /\ IsFiniteSet(Active(task'))
         /\ \A u \in Part!Paths :
              /\ task'[u].pc # "idle" => Len(u) <= Forks(task', openThreads')
              /\ task'[u].pc = "forked" => Len(u) < Forks(task', openThreads')
         /\ SizeOf(size', Forks(task', openThreads'), Cardinality(Active(task')))
    BY <1>2, <2>1, <2>3, <2>4, <2>5, <2>8, <2>9, <2>10
  <2> QED
    BY <2>11 DEF ThreadsInv
<1> QED
  BY <1>7, <1>8, <1>9, <1>10, <1>11 DEF BlocksInv

\* What taking a part of size does with the task.
LEMMA TakeFacts ==
  ASSUME BlocksInv, IntHolds, NEW t \in Part!Paths, Part!TakeSize(t)
  PROVE  /\ task[t].pc = "take" /\ size' = size - BlockSize
         /\ task' = [u \in Part!Paths |-> task'[u]]
         /\ task'[t] \in TaskRec /\ Same(task[t], task'[t])
         /\ task'[t].pc = (IF size <= 0 THEN "finish" ELSE "claim")
         /\ task'[t].mysize = (IF size <= BlockSize THEN size ELSE BlockSize)
         /\ \A u \in Part!Paths : u # t => task'[u] = task[u]
         /\ UNCHANGED <<data, openThreads, lmove, rmove, rtrue, answer>>
<1> DEFINE x == IF size <= 0 THEN "finish" ELSE "claim"
           m == IF size <= BlockSize THEN size ELSE BlockSize
           w == task[t]
           v == task'[t]
<1>1. Part!ToInt(size) = size
  BY SizeFits
<1>2. task' = [task EXCEPT ![t].pc = x, ![t].mysize = m]
  BY <1>1 DEF Part!TakeSize, Part!Least0
<1>3. task = [u \in Part!Paths |-> task[u]] /\ w \in TaskRec /\ size \in Int
  BY DEF BlocksInv, TypeInv, Shape
<1>4. x \in PCs /\ m \in Int
  BY <1>3, OpenedFacts DEF PCs
<1> HIDE DEF x, m
<1>5. v = [w EXCEPT !.pc = x, !.mysize = m]
  BY <1>2, <1>3
<1>6. task' = [u \in Part!Paths |-> task'[u]] /\ \A u \in Part!Paths : u # t => task'[u] = task[u]
  BY <1>2, <1>3
<1> HIDE DEF w, v
<1>7. v \in TaskRec /\ Same(w, v) /\ v.pc = x /\ v.mysize = m
  BY <1>3, <1>4, <1>5 DEF TaskRec, Same
<1>8. /\ w.pc = "take" /\ size' = size - BlockSize
      /\ UNCHANGED <<data, openThreads, lmove, rmove, rtrue, answer>>
  BY DEF Part!TakeSize, w
<1> QED
  BY <1>6, <1>7, <1>8 DEF w, v, x, m

\* What is taken from size becomes pending.
LEMMA TakeSpace ==
  ASSUME BlocksInv, IntHolds, NEW t \in Part!Paths, Part!TakeSize(t)
  PROVE  SpaceInv'
<1> DEFINE m == task'[t].mysize
           P == Pending(task)
           Q == {t} \X (1 .. m)
           c == Cardinality(P)
<1>1. /\ task[t].pc = "take" /\ size' = size - BlockSize
      /\ task'[t].pc = (IF size <= 0 THEN "finish" ELSE "claim")
      /\ task'[t].mysize = (IF size <= BlockSize THEN size ELSE BlockSize)
      /\ \A u \in Part!Paths : u # t => task'[u] = task[u]
      /\ lmove' = lmove /\ rmove' = rmove
  BY TakeFacts
<1>2. /\ IsFiniteSet(P) /\ lmove \in Nat /\ rmove <= Size
      /\ c + lmove + (Size - rmove) + (IF size > 0 THEN size ELSE 0) = Size
  BY DEF BlocksInv, SpaceInv
<1>3. /\ size \in Int /\ rmove \in Int /\ Size \in Nat /\ BlockSize \in Nat \ {0} /\ c \in Nat
  BY <1>2, OpenedFacts, FS_CardinalityType DEF BlocksInv, TypeInv
<1>4. CASE size <= 0
  <2>1. Pending(task') = P
    <3> SUFFICES ASSUME NEW u \in Part!Paths, NEW n \in Nat
                 PROVE  (task'[u].pc = "claim" /\ n \in 1 .. task'[u].mysize)
                          <=> (task[u].pc = "claim" /\ n \in 1 .. task[u].mysize)
      BY DEF Pending
    <3> QED
      BY <1>1, <1>4
  <2> HIDE DEF P, c
  <2>2. size' <= 0 /\ size' \in Int
    BY <1>1, <1>3, <1>4
  <2>3. c + lmove' + (Size - rmove') + (IF size' > 0 THEN size' ELSE 0) = Size
    BY <1>1, <1>2, <1>3, <1>4, <2>2
  <2> QED
    BY <1>1, <1>2, <2>1, <2>3 DEF SpaceInv, c
<1>5. CASE size > 0
  <2>1. m \in Nat \ {0} /\ task'[t].pc = "claim"
    BY <1>1, <1>3, <1>5
  <2>2. Pending(task') = P \cup Q /\ P \cap Q = {}
    <3>1. ASSUME NEW u \in Part!Paths, NEW n \in Nat
          PROVE  (task'[u].pc = "claim" /\ n \in 1 .. task'[u].mysize)
                   <=> (task[u].pc = "claim" /\ n \in 1 .. task[u].mysize) \/ (u = t /\ n \in 1 .. m)
      BY <1>1, <2>1
    <3>2. \A n \in 1 .. m : n \in Nat
      BY <2>1
    <3> HIDE DEF m
    <3>3. Q \subseteq Part!Paths \X Nat
      BY <3>2
    <3>4. \A p \in Part!Paths \X Nat : p \in Pending(task') <=> p \in P \/ p \in Q
      BY <3>1 DEF Pending
    <3>5. P \subseteq Part!Paths \X Nat /\ Pending(task') \subseteq Part!Paths \X Nat
      BY DEF Pending
    <3>6. \A p \in Q : p \notin P
      BY <1>1 DEF Pending
    <3> HIDE DEF P, Q
    <3> QED
      BY <3>3, <3>4, <3>5, <3>6
  <2>3. IsFiniteSet(Q) /\ Cardinality(Q) = m
    <3> HIDE DEF m
    <3> QED
      BY <2>1, RowFacts
  <2> HIDE DEF P, Q
  <2>4. IsFiniteSet(P \cup Q) /\ Cardinality(P \cup Q) = c + m
    <3>1. IsFiniteSet(P \cup Q)
          /\ Cardinality(P \cup Q) = Cardinality(P) + Cardinality(Q) - Cardinality(P \cap Q)
      BY <1>2, <2>3, FS_Union
    <3>2. Cardinality(P \cap Q) = 0
      BY <2>2, FS_EmptySet
    <3> HIDE DEF m, c
    <3>3. Cardinality(P) = c
      BY DEF c
    <3> QED
      BY <1>3, <2>1, <2>3, <3>1, <3>2, <3>3
  <2>5. m = (IF size <= BlockSize THEN size ELSE BlockSize)
    BY <1>1
  <2> HIDE DEF c, m
  <2>6. c + m + lmove' + (Size - rmove') + (IF size' > 0 THEN size' ELSE 0) = Size
    BY <1>1, <1>2, <1>3, <1>5, <2>1, <2>5
  <2> QED
    BY <1>1, <1>2, <2>2, <2>4, <2>6 DEF SpaceInv
<1> QED
  BY <1>3, <1>4, <1>5

\* A task takes a part of size, or finds that there is nothing left.
LEMMA TakeBlocks ==
  ASSUME BlocksInv, IntHolds, NEW t \in Part!Paths, Part!TakeSize(t)
  PROVE  BlocksInv'
<1>1. /\ task[t].pc = "take" /\ size' = size - BlockSize
      /\ task' = [u \in Part!Paths |-> task'[u]]
      /\ task'[t] \in TaskRec /\ Same(task[t], task'[t])
      /\ task'[t].pc = (IF size <= 0 THEN "finish" ELSE "claim")
      /\ task'[t].mysize = (IF size <= BlockSize THEN size ELSE BlockSize)
      /\ \A u \in Part!Paths : u # t => task'[u] = task[u]
      /\ UNCHANGED <<data, openThreads, lmove, rmove, rtrue, answer>>
  BY TakeFacts
<1>2. /\ openThreads \in Int /\ answer \in Int /\ data \in [Part!Range0 -> {"yes", "no", "bad"}]
      /\ size \in Int /\ lmove \in Int /\ rmove \in Int /\ rtrue \in Int
      /\ \A u \in Part!Paths : Shape(task[u])
  BY DEF BlocksInv, TypeInv
<1>3. BlockSize \in Nat \ {0} /\ Size \in Nat
  BY OpenedFacts
<1>4. Shape(task'[t])
  <2> DEFINE w == task[t]
             v == task'[t]
  <2>1. /\ Shape(w) /\ v \in TaskRec /\ Same(w, v) /\ v.pc \in {"finish", "claim"}
        /\ w.pc = "take"
    BY <1>1, <1>2
  <2>2. v.pc = "claim" => v.mysize \in 1 .. BlockSize
    BY <1>1, <1>2, <1>3
  <2> HIDE DEF w, v
  <2>3. v.pc \in Working /\ w.pc \notin {"done", "answered"}
    BY <2>1 DEF Working
  <2>4. Shape(v)
    BY <2>1, <2>2, <2>3, SameShape
  <2> QED
    BY <2>4 DEF v
<1>5. TypeInv'
  <2>1. (\A u \in Part!Paths : Shape(task'[u])) /\ size' \in Int
    BY <1>1, <1>2, <1>3, <1>4
  <2> QED
    BY <1>1, <1>2, <2>1, TypeKept
<1>6. TreeInv'
  BY <1>1, TreeKept DEF BlocksInv
<1>7. SpaceInv'
  BY TakeSpace
<1>8. CellsInv(task', lmove', rmove')
  <2>1. /\ lmove \in Int /\ rmove \in Int /\ Size \in Int /\ 0 <= lmove /\ lmove <= rmove
        /\ rmove <= Size /\ 0 <= rmove /\ CellsInv(task, lmove, rmove)
    BY EndsApart DEF BlocksInv
  <2>2. LeftCells(task'[t]) \subseteq LeftCells(task[t]) /\ RightCells(task'[t]) \subseteq RightCells(task[t])
    BY <1>1, SameCells
  <2>3. \A u \in Part!Paths : u # t =>
          /\ LeftCells(task'[u]) \subseteq LeftCells(task[u])
          /\ RightCells(task'[u]) \subseteq RightCells(task[u])
    BY <1>1
  <2> DEFINE nt == task'
             lm == lmove
             rm == rmove
  <2> HIDE DEF nt, lm, rm
  <2>4. CellsInv(nt, lm, rm)
    BY <2>1, <2>2, <2>3, CellsKept DEF nt, lm, rm
  <2> QED
    BY <1>1, <2>4 DEF nt, lm, rm
<1>9. ThreadsInv'
  <2> DEFINE A == Active(task)
             f == Forks(task, openThreads)
             n == Cardinality(A)
             g == 2 * f + 2 - n
  <2>1. /\ IsFiniteSet(Restoring(task)) /\ IsFiniteSet(A) /\ SizeOf(size, f, n)
        /\ \A u \in Part!Paths :
             /\ task[u].pc # "idle" => Len(u) <= f
             /\ task[u].pc = "forked" => Len(u) < f
    BY DEF BlocksInv, ThreadsInv
  <2>2. Restoring(task') = Restoring(task)
    BY <1>1 DEF Restoring
  <2>3. Forks(task', openThreads') = f
    BY <1>1, <2>2 DEF Forks
  <2>4. t \in A /\ Active(task') = IF size > 0 THEN A ELSE A \ {t}
    <3>1. t \in A
      BY <1>1 DEF Active, Looking
    <3>2. CASE size > 0
      BY <1>1, <1>2, <3>2 DEF Active, Looking
    <3>3. CASE ~(size > 0)
      BY <1>1, <1>2, <3>3 DEF Active, Looking
    <3> QED
      BY <3>1, <3>2, <3>3
  <2> HIDE DEF A
  <2>5. IsFiniteSet(A \ {t}) /\ Cardinality(A \ {t}) = n - 1 /\ n \in Nat
    BY <2>1, <2>4, FS_RemoveElement, FS_CardinalityType
  <2>6. /\ f \in 0 .. Part!Opened /\ n \in 0 .. 2 * f + 1 /\ size <= Size
        /\ size > -(BlockSize * g) /\ Part!Opened \in Nat
    BY <2>1, OpenedFacts DEF SizeOf
  <2> HIDE DEF f, n
  <2>7. g \in Nat \ {0} /\ f \in Nat
    BY <2>6
  <2>8. IsFiniteSet(Active(task')) /\ SizeOf(size', f, Cardinality(Active(task')))
    <3>1. CASE size > 0
      <4> HIDE DEF g
      <4>1. \E h \in Nat : g = h + 1
        BY <2>7
      <4>2. PICK h \in Nat : g = h + 1
        BY <4>1
      <4>3. BlockSize * g = BlockSize * h + BlockSize /\ BlockSize * h \in Nat
        BY <1>3, <4>2
      <4>4. size' > -(BlockSize * g) /\ size' <= Size
        BY <1>1, <1>2, <1>3, <3>1, <2>6, <4>3
      <4>5. SizeOf(size', f, n)
        BY <2>6, <4>4 DEF SizeOf, g
      <4> QED
        BY <2>1, <2>4, <3>1, <4>5 DEF n
    <3>2. CASE ~(size > 0)
      <4>1. n # 0
        <5>1. Cardinality(A \ {t}) \in Nat
          BY <2>5, FS_CardinalityType
        <5> QED
          BY <2>5, <5>1
      <4>2. 2 * f + 2 - (n - 1) = g + 1 /\ n - 1 \in 0 .. 2 * f + 1
        BY <2>5, <2>6, <2>7, <4>1
      <4> HIDE DEF g
      <4>3. BlockSize * (g + 1) = BlockSize * g + BlockSize /\ BlockSize * g \in Nat
        BY <1>3, <2>7
      <4>4. size' > -(BlockSize * (g + 1)) /\ size' <= Size
        BY <1>1, <1>2, <1>3, <3>2, <2>6, <4>3
      <4>5. SizeOf(size', f, n - 1)
        BY <2>6, <4>2, <4>4 DEF SizeOf
      <4> QED
        BY <2>4, <2>5, <3>2, <4>5
    <3> QED
      BY <3>1, <3>2
  <2>9. \A u \in Part!Paths :
          /\ task'[u].pc # "idle" => Len(u) <= f
          /\ task'[u].pc = "forked" => Len(u) < f
    BY <1>1, <2>1
  <2>10. /\ IsFiniteSet(Restoring(task')) /\ IsFiniteSet(Active(task'))
         /\ \A u \in Part!Paths :
              /\ task'[u].pc # "idle" => Len(u) <= Forks(task', openThreads')
              /\ task'[u].pc = "forked" => Len(u) < Forks(task', openThreads')
         /\ SizeOf(size', Forks(task', openThreads'), Cardinality(Active(task')))
    BY <2>1, <2>2, <2>3, <2>8, <2>9
  <2> QED
    BY <2>10 DEF ThreadsInv
<1> QED
  BY <1>5, <1>6, <1>7, <1>8, <1>9 DEF BlocksInv

\* What a claim does with the task, whether or not something throws.
LEMMA ClaimedFacts ==
  ASSUME BlocksInv, NEW t \in Part!Paths, Part!ClaimLeft(t) \/ Part!ClaimRight(t)
  PROVE  /\ task[t].pc = "claim" /\ task[t].mysize \in 1 .. BlockSize
         /\ task' = [u \in Part!Paths |-> task'[u]]
         /\ \A u \in Part!Paths : u # t => task'[u] = task[u]
         /\ task'[t].pc \in {"failed", "test"} /\ Shape(task'[t])
         /\ LeftCells(task'[t]) \subseteq LeftCells(task[t]) \cup (lmove .. lmove' - 1)
         /\ RightCells(task'[t]) \subseteq RightCells(task[t]) \cup (rmove' .. rmove - 1)
         /\ data' \in [Part!Range0 -> {"yes", "no", "bad"}]
         /\ \/ lmove' = lmove + task[t].mysize /\ rmove' = rmove
            \/ lmove' = lmove /\ rmove' = rmove - task[t].mysize
         /\ lmove' <= rmove' /\ lmove <= lmove' /\ rmove' <= rmove
         /\ lmove' \in Int /\ rmove' \in Int
         /\ UNCHANGED <<openThreads, size, rtrue, answer>>
<1> DEFINE w == task[t]
           v == task'[t]
<1>1. PICK lb \in Int, le \in Int, re \in Int, rb \in Int :
        /\ Claims(t, lb, le, re, rb, lmove', rmove')
        /\ lmove' \in Int /\ rmove' \in Int
        /\ UNCHANGED <<openThreads, size, rtrue, answer>>
        /\ \/ Part!Goto(t, "failed") /\ data' = data
           \/ /\ task' = [u \in Part!Paths |-> task'[u]]
              /\ \A u \in Part!Paths : u # t => task'[u] = task[u]
              /\ \E l, r \in Int : Scanned(t, lb, le, rb, re, l, r, task'[t], data')
  BY ClaimFacts
<1>2. /\ w.pc = "claim" /\ w.mysize \in 1 .. BlockSize
      /\ \/ lmove' = lmove + w.mysize /\ rmove' = rmove
         \/ lmove' = lmove /\ rmove' = rmove - w.mysize
      /\ lmove' <= rmove' /\ lmove <= lmove' /\ rmove' <= rmove
      /\ lb .. le - 1 = LeftBlock(w) \cup (lmove .. lmove' - 1)
      /\ re + 1 .. rb = RightBlock(w) \cup (rmove' .. rmove - 1)
  BY <1>1 DEF Claims
<1>3. Shape(w) /\ TypeInv /\ data \in [Part!Range0 -> {"yes", "no", "bad"}]
  BY DEF BlocksInv, TypeInv
<1>4. /\ task' = [u \in Part!Paths |-> task'[u]]
      /\ \A u \in Part!Paths : u # t => task'[u] = task[u]
      /\ v.pc \in {"failed", "test"} /\ Shape(v)
      /\ LeftCells(v) \subseteq LeftCells(w) \cup (lmove .. lmove' - 1)
      /\ RightCells(v) \subseteq RightCells(w) \cup (rmove' .. rmove - 1)
      /\ data' \in [Part!Range0 -> {"yes", "no", "bad"}]
  <2>1. CASE Part!Goto(t, "failed") /\ data' = data
    <3>1. "failed" \in PCs
      BY DEF PCs
    <3>2. /\ task' = [u \in Part!Paths |-> task'[u]]
          /\ v \in TaskRec /\ v.pc = "failed" /\ Same(w, v)
          /\ \A u \in Part!Paths : u # t => task'[u] = task[u]
      BY <1>3, <2>1, <3>1, GotoFacts
    <3> HIDE DEF w, v
    <3>3. Shape(v)
      BY <1>2, <1>3, <3>2, SameShape DEF Working
    <3>4. LeftCells(v) = LeftCells(w) /\ RightCells(v) = RightCells(w)
      BY <3>2, SameCells
    <3> QED
      BY <1>3, <2>1, <3>2, <3>3, <3>4
  <2>2. CASE /\ task' = [u \in Part!Paths |-> task'[u]]
             /\ \A u \in Part!Paths : u # t => task'[u] = task[u]
             /\ \E l, r \in Int : Scanned(t, lb, le, rb, re, l, r, v, data')
    <3>1. PICK l \in Int, r \in Int : Scanned(t, lb, le, rb, re, l, r, v, data')
      BY <2>2
    <3>2. /\ l \in lb .. le /\ r \in re .. rb /\ (l = le \/ r = re)
          /\ v \in TaskRec /\ v.pc = "test" /\ v.lbs = l /\ v.lbe = le /\ v.rbs = r /\ v.rbe = re
          /\ v.left = w.left /\ v.right = w.right
          /\ data' \in [Part!Range0 -> {"yes", "no", "bad"}]
      BY <3>1 DEF Scanned, PassedTo
    <3> HIDE DEF w, v
    <3>3. Shape(v)
      <4>1. w.left = <<>> /\ w.right = <<>> /\ Separate(w.left) /\ Separate(w.right)
        BY <1>2, <1>3 DEF Shape
      <4>2. v.lbs <= v.lbe /\ v.rbe <= v.rbs /\ (v.lbs = v.lbe \/ v.rbs = v.rbe)
        BY <3>2
      <4> QED
        BY <3>2, <4>1, <4>2 DEF Shape, Working
    <3>4. LeftBlock(v) \subseteq lb .. le - 1 /\ RightBlock(v) \subseteq re + 1 .. rb
      BY <3>2 DEF LeftBlock, RightBlock
    <3>5. LeftCells(v) \subseteq LeftCells(w) \cup (lmove .. lmove' - 1)
      <4> DEFINE X == lb .. le - 1
                 Y == lmove .. lmove' - 1
      <4>1. LeftBlock(v) \subseteq X /\ X = LeftBlock(w) \cup Y
        BY <1>2, <3>4
      <4> HIDE DEF X, Y
      <4>2. LeftCells(v) \subseteq LeftCells(w) \cup Y
        BY <3>2, <4>1 DEF LeftCells
      <4> QED
        BY <4>2 DEF Y
    <3>6. RightCells(v) \subseteq RightCells(w) \cup (rmove' .. rmove - 1)
      <4> DEFINE X == re + 1 .. rb
                 Y == rmove' .. rmove - 1
      <4>1. RightBlock(v) \subseteq X /\ X = RightBlock(w) \cup Y
        BY <1>2, <3>4
      <4> HIDE DEF X, Y
      <4>2. RightCells(v) \subseteq RightCells(w) \cup Y
        BY <3>2, <4>1 DEF RightCells
      <4> QED
        BY <4>2 DEF Y
    <3> QED
      BY <2>2, <3>2, <3>3, <3>5, <3>6 DEF v
  <2> QED
    BY <1>1, <2>1, <2>2
<1> QED
  BY <1>1, <1>2, <1>4

\* What was pending is taken from one of the ends.
LEMMA ClaimSpace ==
  ASSUME BlocksInv, NEW t \in Part!Paths, Part!ClaimLeft(t) \/ Part!ClaimRight(t)
  PROVE  SpaceInv'
<1> DEFINE m == task[t].mysize
           P == Pending(task)
           Q == {t} \X (1 .. m)
           c == Cardinality(P)
<1>1. /\ task[t].pc = "claim" /\ m \in 1 .. BlockSize
      /\ \A u \in Part!Paths : u # t => task'[u] = task[u]
      /\ task'[t].pc # "claim"
      /\ \/ lmove' = lmove + m /\ rmove' = rmove
         \/ lmove' = lmove /\ rmove' = rmove - m
      /\ lmove <= lmove' /\ rmove' <= rmove /\ lmove' \in Int /\ rmove' \in Int
      /\ size' = size
  BY ClaimedFacts
<1>2. /\ IsFiniteSet(P) /\ lmove \in Nat /\ rmove <= Size
      /\ c + lmove + (Size - rmove) + (IF size > 0 THEN size ELSE 0) = Size
  BY DEF BlocksInv, SpaceInv
<1>3. /\ size \in Int /\ rmove \in Int /\ Size \in Nat /\ BlockSize \in Nat \ {0} /\ c \in Nat
  BY <1>2, OpenedFacts, FS_CardinalityType DEF BlocksInv, TypeInv
<1>4. m \in Nat \ {0}
  BY <1>1, <1>3
<1>5. Pending(task') = P \ Q /\ Q \subseteq P
  <2>1. ASSUME NEW u \in Part!Paths, NEW n \in Nat
        PROVE  /\ (task'[u].pc = "claim" /\ n \in 1 .. task'[u].mysize)
                    <=> (task[u].pc = "claim" /\ n \in 1 .. task[u].mysize) /\ ~(u = t /\ n \in 1 .. m)
               /\ u = t /\ n \in 1 .. m => task[u].pc = "claim" /\ n \in 1 .. task[u].mysize
    BY <1>1
  <2>2. \A n \in 1 .. m : n \in Nat
    BY <1>4
  <2> HIDE DEF m
  <2>3. Q \subseteq Part!Paths \X Nat
    BY <2>2
  <2>4. \A p \in Part!Paths \X Nat : /\ p \in Pending(task') <=> p \in P /\ p \notin Q
                                     /\ p \in Q => p \in P
    BY <2>1 DEF Pending
  <2>5. P \subseteq Part!Paths \X Nat /\ Pending(task') \subseteq Part!Paths \X Nat
    BY DEF Pending
  <2> HIDE DEF P, Q
  <2> QED
    BY <2>3, <2>4, <2>5
<1>6. IsFiniteSet(Q) /\ Cardinality(Q) = m
  <2> HIDE DEF m
  <2> QED
    BY <1>4, RowFacts
<1> HIDE DEF P, Q
<1>7. IsFiniteSet(P \ Q) /\ Cardinality(P \ Q) = c - m
  <2>1. IsFiniteSet(P \ Q) /\ Cardinality(P \ Q) = Cardinality(P) - Cardinality(P \cap Q)
    BY <1>2, FS_Difference
  <2>2. P \cap Q = Q
    BY <1>5
  <2> HIDE DEF m
  <2> QED
    BY <1>6, <2>1, <2>2
<1> HIDE DEF c, m
<1>8. lmove' \in Nat /\ rmove' <= Size
      /\ c - m + lmove' + (Size - rmove') + (IF size' > 0 THEN size' ELSE 0) = Size
  <2> DEFINE z == IF size > 0 THEN size ELSE 0
  <2>1. z \in Nat /\ c + lmove + (Size - rmove) + z = Size /\ (IF size' > 0 THEN size' ELSE 0) = z
    BY <1>1, <1>2, <1>3
  <2> HIDE DEF z
  <2>2. CASE lmove' = lmove + m /\ rmove' = rmove
    BY <1>1, <1>2, <1>3, <1>4, <2>1, <2>2
  <2>3. CASE lmove' = lmove /\ rmove' = rmove - m
    BY <1>1, <1>2, <1>3, <1>4, <2>1, <2>3
  <2> QED
    BY <1>1, <2>2, <2>3
<1> QED
  BY <1>5, <1>7, <1>8 DEF SpaceInv

\* A task takes a block from one of the ends and goes through it.
LEMMA ClaimBlocks ==
  ASSUME BlocksInv, NEW t \in Part!Paths, Part!ClaimLeft(t) \/ Part!ClaimRight(t)
  PROVE  BlocksInv'
<1>1. /\ task[t].pc = "claim" /\ task[t].mysize \in 1 .. BlockSize
      /\ task' = [u \in Part!Paths |-> task'[u]]
      /\ \A u \in Part!Paths : u # t => task'[u] = task[u]
      /\ task'[t].pc \in {"failed", "test"} /\ Shape(task'[t])
      /\ LeftCells(task'[t]) \subseteq LeftCells(task[t]) \cup (lmove .. lmove' - 1)
      /\ RightCells(task'[t]) \subseteq RightCells(task[t]) \cup (rmove' .. rmove - 1)
      /\ data' \in [Part!Range0 -> {"yes", "no", "bad"}]
      /\ lmove' <= rmove' /\ lmove <= lmove' /\ rmove' <= rmove
      /\ lmove' \in Int /\ rmove' \in Int
      /\ UNCHANGED <<openThreads, size, rtrue, answer>>
  BY ClaimedFacts
<1>2. /\ openThreads \in Int /\ answer \in Int /\ size \in Int /\ rtrue \in Int
      /\ \A u \in Part!Paths : Shape(task[u])
  BY DEF BlocksInv, TypeInv
<1>3. TypeInv'
  <2>1. \A u \in Part!Paths : Shape(task'[u])
    BY <1>1, <1>2
  <2> QED
    BY <1>1, <1>2, <2>1, TypeKept
<1>4. TreeInv'
  <2>1. \A u \in Part!Paths : Ext(t, u) => task[u].pc = "idle"
    BY <1>1 DEF BlocksInv, TreeInv
  <2> QED
    BY <1>1, <2>1, TreeKept DEF BlocksInv
<1>5. SpaceInv'
  BY ClaimSpace
<1>6. CellsInv(task', lmove', rmove')
  <2>1. /\ lmove \in Int /\ rmove \in Int /\ Size \in Int /\ 0 <= lmove /\ lmove <= rmove
        /\ rmove <= Size /\ CellsInv(task, lmove, rmove)
    BY EndsApart DEF BlocksInv
  <2>2. 0 <= rmove'
    BY <1>1, <2>1
  <2>3. \A u \in Part!Paths : u # t =>
          /\ LeftCells(task'[u]) \subseteq LeftCells(task[u])
          /\ RightCells(task'[u]) \subseteq RightCells(task[u])
    BY <1>1
  <2> DEFINE nt == task'
             lm == lmove'
             rm == rmove'
  <2> HIDE DEF nt, lm, rm
  <2>4. CellsInv(nt, lm, rm)
    BY <1>1, <2>1, <2>2, <2>3, CellsKept DEF nt, lm, rm
  <2> QED
    BY <2>4 DEF nt, lm, rm
<1>7. ThreadsInv'
  <2>1. Restoring(task') = Restoring(task)
    BY <1>1 DEF Restoring
  <2>2. Active(task') = Active(task) \/ Active(task') = Active(task) \ {t}
    <3>1. CASE task'[t].pc = "test"
      BY <1>1, <3>1 DEF Active, Looking
    <3>2. CASE task'[t].pc = "failed"
      <4>1. Active(task') = Active(task) \ {t}
        BY <1>1, <3>2 DEF Active, Looking
      <4> QED
        BY <4>1
    <3> QED
      BY <1>1, <3>1, <3>2
  <2> QED
    BY <1>1, <2>1, <2>2, ThreadsKept
<1> QED
  BY <1>3, <1>4, <1>5, <1>6, <1>7 DEF BlocksInv

\* A task hands on what is left of its blocks.
LEMMA FinishBlocks ==
  ASSUME BlocksInv, NEW t \in Part!Paths, Part!Finish(t)
  PROVE  BlocksInv'
<1> DEFINE w == task[t]
           v == task'[t]
<1>1. /\ w.pc = "finish" /\ task' = [u \in Part!Paths |-> task'[u]]
      /\ \A u \in Part!Paths : u # t => task'[u] = task[u]
      /\ HandedOn(w, v)
  BY FinishFacts DEF BlocksInv
<1>2. /\ data \in [Part!Range0 -> {"yes", "no", "bad"}]
      /\ openThreads \in Int /\ answer \in Int /\ size \in Int /\ rtrue \in Int
      /\ lmove \in Int /\ rmove \in Int
      /\ \A u \in Part!Paths : Shape(task[u])
  BY DEF BlocksInv, TypeInv
<1>3. /\ UNCHANGED <<data, openThreads, size, lmove, rmove, answer>>
      /\ rtrue' = rtrue + w.trues
                    + Len(Part!Picked(Part!Up(w.lbs, w.lbe) \o Part!Down(w.rbs, w.rbe), "yes"))
  BY DEF Part!Finish
<1>4. Shape(w) /\ Shape(v) /\ v.pc = "done"
  BY <1>1, <1>2 DEF HandedOn
<1>5. rtrue' \in Int
  <2> DEFINE p == Part!Up(w.lbs, w.lbe)
             q == Part!Down(w.rbs, w.rbe)
             s == Part!Picked(p \o q, "yes")
             S == w.lbs .. w.lbe - 1
             T == w.rbe + 1 .. w.rbs
  <2> HIDE DEF w
  <2>1. /\ w.lbs \in Int /\ w.lbe \in Int /\ w.rbs \in Int /\ w.rbe \in Int
        /\ w.lbs <= w.lbe /\ w.rbe <= w.rbs /\ (w.lbs = w.lbe \/ w.rbs = w.rbe)
        /\ w.trues \in Nat
    BY <1>4 DEF Shape, TaskRec
  <2>2. Lists(p, S) /\ Lists(q, T)
    BY <2>1, UpLists, DownLists
  <2>3. S \cap T = {}
    BY <2>1
  <2> HIDE DEF p, q, S, T
  <2>4. Lists(p \o q, S \cup T)
    BY <2>2, <2>3, ListsBoth
  <2>5. s \in Seq(Int)
    BY <2>4, PickedFinds DEF Finds
  <2>6. Len(s) \in Nat
    BY <2>5
  <2>7. rtrue' = rtrue + w.trues + Len(s)
    BY <1>3 DEF s, p, q
  <2> HIDE DEF s
  <2> QED
    BY <1>2, <2>1, <2>6, <2>7
<1>6. TypeInv'
  <2>1. \A u \in Part!Paths : Shape(task'[u])
    BY <1>1, <1>2, <1>4
  <2> QED
    BY <1>1, <1>2, <1>3, <1>5, <2>1, TypeKept
<1>7. TreeInv'
  BY <1>1, <1>4, TreeKept DEF BlocksInv
<1>8. SpaceInv'
  BY <1>1, <1>3, <1>4, SpaceKept
<1>9. CellsInv(task', lmove', rmove')
  <2>1. /\ lmove \in Int /\ rmove \in Int /\ Size \in Int /\ 0 <= lmove /\ lmove <= rmove
        /\ rmove <= Size /\ 0 <= rmove /\ CellsInv(task, lmove, rmove)
    BY EndsApart DEF BlocksInv
  <2>2. LeftCells(v) \subseteq LeftCells(w) /\ RightCells(v) \subseteq RightCells(w)
    <3> HIDE DEF v, w
    <3>1. /\ v.lbs \in Int /\ v.rbs \in Int /\ v.lbs = v.lbe /\ v.rbs = v.rbe
          /\ Cells(v.left) = LeftBlock(w) /\ Cells(v.right) = RightBlock(w)
      BY <1>1, <1>4 DEF HandedOn, Shape, TaskRec
    <3>2. LeftBlock(v) = {} /\ RightBlock(v) = {}
      BY <3>1 DEF LeftBlock, RightBlock
    <3> QED
      BY <3>1, <3>2 DEF LeftCells, RightCells
  <2>3. \A u \in Part!Paths : u # t =>
          /\ LeftCells(task'[u]) \subseteq LeftCells(task[u])
          /\ RightCells(task'[u]) \subseteq RightCells(task[u])
    BY <1>1
  <2> DEFINE nt == task'
             lm == lmove
             rm == rmove
  <2> HIDE DEF nt, lm, rm
  <2>4. CellsInv(nt, lm, rm)
    BY <2>1, <2>2, <2>3, CellsKept DEF nt, lm, rm
  <2> QED
    BY <1>3, <2>4 DEF nt, lm, rm
<1>10. ThreadsInv'
  <2>1. Restoring(task') = Restoring(task) /\ Active(task') = Active(task)
    BY <1>1, <1>4 DEF Restoring, Active, Looking
  <2> QED
    BY <1>1, <1>3, <1>4, <2>1, ThreadsKept
<1> QED
  BY <1>6, <1>7, <1>8, <1>9, <1>10 DEF BlocksInv

\* Sets that are apart stay so when those of c and d become that of t.
LEMMA MovedApart ==
  ASSUME NEW S, NEW L, NEW M, NEW X, NEW t \in S, NEW c \in S, NEW d \in S,
         \A u \in S : L[u] \subseteq X,
         \A u, v \in S : u # v => L[u] \cap L[v] = {},
         M[t] \subseteq L[c] \cup L[d], M[c] = {}, M[d] = {}, c # t, d # t,
         \A u \in S : u # t /\ u # c /\ u # d => M[u] = L[u]
  PROVE  /\ \A u \in S : M[u] \subseteq X
         /\ \A u, v \in S : u # v => M[u] \cap M[v] = {}
<1>1. \A u \in S : u # t /\ u # c /\ u # d => M[u] \cap M[t] = {}
  OBVIOUS
<1>2. \A u \in S : u # t => M[u] \subseteq L[u]
  OBVIOUS
<1>3. \A u \in S : u # t => M[u] \cap M[t] = {}
  BY <1>1
<1>4. \A u, v \in S : u # v /\ u # t /\ v # t => M[u] \cap M[v] = {}
  BY <1>2
<1>5. \A u, v \in S : u # v => M[u] \cap M[v] = {}
  BY <1>3, <1>4
<1>6. \A u \in S : M[u] \subseteq X
  BY <1>2
<1> QED
  BY <1>5, <1>6

\* A fork gets the lists of its subtasks, which are idle then.
LEMMA JoinBlocks ==
  ASSUME BlocksInv, NEW t \in Part!Paths, Part!JoinTasks(t)
  PROVE  BlocksInv'
<1> DEFINE c == Append(t, 1)
           d == Append(t, 2)
           w == task[t]
           v == task'[t]
<1>1. Part!Children(t) = {c, d}
  BY ChildFacts
<1>2. /\ \A u \in Part!Paths : Ext(t, u) => u = c \/ u = d \/ Ext(c, u) \/ Ext(d, u)
      /\ \A u \in Part!Paths : Ext(c, u) \/ Ext(d, u) => Ext(t, u)
      /\ Ext(t, c) /\ Ext(t, d)
  <2> DEFINE C == Part!Children(t)
  <2>1. /\ \A u \in Part!Paths : Ext(t, u) => \E x \in C : x = u \/ Ext(x, u)
        /\ \A x \in C, u \in Part!Paths : Ext(x, u) => Ext(t, u)
        /\ \A x \in C : Ext(t, x)
    BY ChildFacts
  <2>2. C = {c, d}
    BY <1>1
  <2> HIDE DEF C, c, d
  <2>3. \A u \in Part!Paths : Ext(t, u) => u = c \/ u = d \/ Ext(c, u) \/ Ext(d, u)
    BY <2>1, <2>2
  <2>4. \A u \in Part!Paths : Ext(c, u) \/ Ext(d, u) => Ext(t, u)
    BY <2>1, <2>2
  <2>5. Ext(t, c) /\ Ext(t, d)
    BY <2>1, <2>2
  <2> QED
    BY <2>3, <2>4, <2>5
<1> HIDE DEF c, d
<1>3. /\ c \in Part!Paths /\ d \in Part!Paths /\ c # d /\ c # t /\ d # t
      /\ w.pc = "forked" /\ task[c].pc = "done" /\ task[d].pc = "done"
      /\ task' = [u \in Part!Paths |-> task'[u]]
      /\ task'[c] = Part!Idle /\ task'[d] = Part!Idle
      /\ \A u \in Part!Paths : u # t /\ u # c /\ u # d => task'[u] = task[u]
      /\ v.pc = "done" /\ Shape(v)
      /\ \E bs, cs \in Seq(Int \X Int) :
           /\ Cells(bs) = Cells(task[c].left) \cup Cells(task[d].left)
           /\ Cells(cs) = Cells(task[c].right) \cup Cells(task[d].right)
           /\ Cells(bs) \cap Cells(cs) = {}
           /\ JoinedTo(bs, cs, v.left, v.right, data')
           /\ \E ls, rs, k : Exchanged(data', ls, Cells(bs), rs, Cells(cs), k)
      /\ data' \in [Part!Range0 -> {"yes", "no", "bad"}]
  BY JoinTasksFacts DEF c, d
<1>4. /\ openThreads \in Int /\ answer \in Int /\ size \in Int /\ rtrue \in Int
      /\ lmove \in Int /\ rmove \in Int
      /\ \A u \in Part!Paths : Shape(task[u])
  BY DEF BlocksInv, TypeInv
<1>5. UNCHANGED <<openThreads, size, lmove, rmove, rtrue, answer>>
  BY DEF Part!JoinTasks, Part!counters
<1>6. \A u \in {c, d} : /\ task'[u].pc = "idle" /\ Shape(task'[u])
                        /\ LeftCells(task'[u]) = {} /\ RightCells(task'[u]) = {}
  <2> SUFFICES ASSUME NEW u \in {c, d}
               PROVE  /\ task'[u].pc = "idle" /\ Shape(task'[u])
                      /\ LeftCells(task'[u]) = {} /\ RightCells(task'[u]) = {}
    OBVIOUS
  <2> DEFINE I == task'[u]
  <2>1. I = Part!Idle /\ "idle" \in PCs \ {"claim"}
    BY <1>3 DEF PCs
  <2> HIDE DEF I
  <2>2. I = [Part!Idle EXCEPT !.pc = "idle"]
    BY <2>1 DEF Part!Idle
  <2>3. /\ I.pc = "idle" /\ I.lbs = Size /\ I.lbe = Size /\ I.rbs = Size /\ I.rbe = Size
        /\ I.left = <<>> /\ I.right = <<>> /\ Shape(I)
    BY <2>1, <2>2, IdleFacts
  <2>4. LeftCells(I) = {} /\ RightCells(I) = {}
    BY <2>3, NoCells, OpenedFacts
  <2> QED
    BY <2>3, <2>4 DEF I
<1>7. TypeInv'
  <2>1. \A u \in Part!Paths : Shape(task'[u])
    BY <1>3, <1>4, <1>6
  <2> QED
    BY <1>3, <1>4, <1>5, <2>1, TypeKept
<1>8. TreeInv'
  <2> SUFFICES ASSUME NEW a \in Part!Paths, NEW b \in Part!Paths, Ext(a, b), task'[b].pc # "idle"
               PROVE  /\ task'[a].pc \in {"forked", "failed", "answered"}
                      /\ task'[b].pc \notin {"done", "failed"} => task'[a].pc = "forked"
    BY DEF TreeInv
  <2>1. b # c /\ b # d
    BY <1>6
  <2>2. CASE b = t
    <3>1. task[a].pc = "forked"
      BY <1>3, <2>2 DEF BlocksInv, TreeInv
    <3>2. a # c /\ a # d
      BY <1>3, <3>1
    <3>3. a # t
      BY <2>2, ChildFacts, TasksFacts, TaskFacts DEF Ext
    <3> QED
      BY <1>3, <3>1, <3>2, <3>3
  <2>3. CASE b # t
    <3>1. task'[b] = task[b]
      BY <1>3, <2>1, <2>3
    <3>2. ~Ext(c, b) /\ ~Ext(d, b)
      BY <1>3, <3>1 DEF BlocksInv, TreeInv
    <3>3. ~Ext(t, b)
      BY <1>2, <2>1, <3>2
    <3>4. a # t /\ a # c /\ a # d
      BY <3>2, <3>3
    <3> QED
      BY <1>3, <3>1, <3>4 DEF BlocksInv, TreeInv
  <2> QED
    BY <2>2, <2>3
<1>9. SpaceInv'
  <2>1. \A u \in Part!Paths : task'[u].pc = "claim" <=> task[u].pc = "claim"
    BY <1>3, <1>6
  <2>2. \A u \in Part!Paths : task[u].pc = "claim" => task'[u].mysize = task[u].mysize
    BY <1>3
  <2> QED
    BY <1>5, <2>1, <2>2, SpaceKept
<1>10. CellsInv(task', lmove', rmove')
  <2> DEFINE L == [u \in Part!Paths |-> LeftCells(task[u])]
             R == [u \in Part!Paths |-> RightCells(task[u])]
             M == [u \in Part!Paths |-> LeftCells(task'[u])]
             N == [u \in Part!Paths |-> RightCells(task'[u])]
             X == 0 .. lmove - 1
             Y == rmove .. Size - 1
             S == Part!Paths
  <2>1. /\ \A u \in Part!Paths : L[u] \subseteq X /\ R[u] \subseteq Y
        /\ \A u, z \in Part!Paths : u # z => L[u] \cap L[z] = {} /\ R[u] \cap R[z] = {}
    BY DEF BlocksInv, CellsInv
  <2>2. M[t] \subseteq L[c] \cup L[d] /\ N[t] \subseteq R[c] \cup R[d]
    <3>1. /\ Cells(v.left) \subseteq Cells(task[c].left) \cup Cells(task[d].left)
          /\ Cells(v.right) \subseteq Cells(task[c].right) \cup Cells(task[d].right)
      BY <1>3 DEF JoinedTo
    <3> HIDE DEF v
    <3>2. LeftBlock(v) = {} /\ RightBlock(v) = {}
      BY <1>3 DEF Shape, Working, TaskRec, LeftBlock, RightBlock
    <3>3. LeftCells(v) = Cells(v.left) /\ RightCells(v) = Cells(v.right)
      BY <3>2 DEF LeftCells, RightCells
    <3> QED
      BY <1>3, <3>1, <3>3 DEF LeftCells, RightCells, v
  <2>3. M[c] = {} /\ M[d] = {} /\ N[c] = {} /\ N[d] = {}
    BY <1>3, <1>6
  <2>4. \A u \in Part!Paths : u # t /\ u # c /\ u # d => M[u] = L[u] /\ N[u] = R[u]
    BY <1>3
  <2> HIDE DEF L, R, M, N, X, Y
  <2>5. /\ \A u \in S : M[u] \subseteq X
        /\ \A u, z \in S : u # z => M[u] \cap M[z] = {}
    <3>1. \A u \in S : L[u] \subseteq X
      BY <2>1
    <3>2. \A u, z \in S : u # z => L[u] \cap L[z] = {}
      BY <2>1
    <3>3. M[t] \subseteq L[c] \cup L[d] /\ M[c] = {} /\ M[d] = {}
      BY <2>2, <2>3
    <3>4. \A u \in S : u # t /\ u # c /\ u # d => M[u] = L[u]
      BY <2>4
    <3>5. t \in S /\ c \in S /\ d \in S /\ c # t /\ d # t
      BY <1>3
    <3> HIDE DEF S
    <3> QED
      BY <3>1, <3>2, <3>3, <3>4, <3>5, MovedApart
  <2>6. /\ \A u \in S : N[u] \subseteq Y
        /\ \A u, z \in S : u # z => N[u] \cap N[z] = {}
    <3>1. \A u \in S : R[u] \subseteq Y
      BY <2>1
    <3>2. \A u, z \in S : u # z => R[u] \cap R[z] = {}
      BY <2>1
    <3>3. N[t] \subseteq R[c] \cup R[d] /\ N[c] = {} /\ N[d] = {}
      BY <2>2, <2>3
    <3>4. \A u \in S : u # t /\ u # c /\ u # d => N[u] = R[u]
      BY <2>4
    <3>5. t \in S /\ c \in S /\ d \in S /\ c # t /\ d # t
      BY <1>3
    <3> HIDE DEF S
    <3> QED
      BY <3>1, <3>2, <3>3, <3>4, <3>5, MovedApart
  <2> QED
    BY <1>5, <2>5, <2>6 DEF CellsInv, M, N, X, Y
<1>11. ThreadsInv'
  <2>1. Restoring(task') = Restoring(task) /\ Active(task') = Active(task)
    BY <1>3, <1>6 DEF Restoring, Active, Looking
  <2>2. \A u \in Part!Paths :
          /\ task'[u].pc # "idle" => task[u].pc # "idle"
          /\ task'[u].pc = "forked" => task[u].pc = "forked"
    BY <1>3, <1>6
  <2> QED
    BY <1>5, <2>1, <2>2, ThreadsKept
<1> QED
  BY <1>7, <1>8, <1>9, <1>10, <1>11 DEF BlocksInv

\* The first task puts the rest right.
LEMMA AnswerBlocks ==
  ASSUME BlocksInv, Part!Answer
  PROVE  BlocksInv'
<1> DEFINE t == Part!First
<1>1. /\ task[t].pc = "done" /\ Part!Goto(t, "answered") /\ answer' = rtrue
      /\ UNCHANGED <<openThreads, size, lmove, rmove, rtrue>>
      /\ \E ls, rs : data' = Part!Swapped(ls, rs)
  BY DEF Part!Answer, Part!counters
<1>2. /\ data \in [Part!Range0 -> {"yes", "no", "bad"}] /\ openThreads \in Int /\ rtrue \in Int
  BY DEF BlocksInv, TypeInv
<1>3. data' \in [Part!Range0 -> {"yes", "no", "bad"}]
  <2>1. PICK ls, rs : data' = Part!Swapped(ls, rs)
    BY <1>1
  <2> DEFINE V == {"yes", "no", "bad"}
  <2>2. "yes" \in V /\ "no" \in V /\ data \in [Part!Range0 -> V]
    BY <1>2
  <2> HIDE DEF V
  <2>3. Part!Swapped(ls, rs) \in [Part!Range0 -> V]
    BY <2>2, SwappedType
  <2> QED
    BY <2>1, <2>3 DEF V
<1>4. t \in Part!Paths /\ "answered" \in PCs \ {"claim", "idle"} /\ "answered" \in Working
  BY TaskFacts DEF PCs, Working
<1> HIDE DEF t
<1>5. TypeInv' /\ TreeInv' /\ SpaceInv' /\ CellsInv(task', lmove', rmove')
  BY <1>1, <1>2, <1>3, <1>4, GotoKept DEF t
<1>6. task'[t].pc = "answered" /\ \A u \in Part!Paths : u # t => task'[u] = task[u]
  BY <1>1, <1>4, GotoFacts DEF BlocksInv
<1>7. ThreadsInv'
  <2>1. Restoring(task') = Restoring(task) /\ Active(task') = Active(task)
    BY <1>1, <1>6 DEF Restoring, Active, Looking
  <2> QED
    BY <1>1, <1>4, <1>6, <2>1, ThreadsKept
<1> QED
  BY <1>5, <1>7 DEF BlocksInv

\* At first one task is there, with nothing in its hands.
LEMMA InitBlocks == Part!Init => BlocksInv
<1> SUFFICES ASSUME Part!Init PROVE BlocksInv
  OBVIOUS
<1> DEFINE first == [Part!Idle EXCEPT !.pc = "start"]
<1>1. /\ data \in [Part!Range0 -> Elements] /\ Elements \subseteq {"yes", "no", "bad"}
      /\ openThreads = Part!Opened /\ size = Size /\ lmove = 0 /\ rmove = Size /\ rtrue = 0
      /\ task = [t \in Part!Paths |-> IF t = Part!First THEN first ELSE Part!Idle]
      /\ answer = Part!NoAnswer
  BY PartitionAssumption DEF Part!PartitionAssumption, Part!Init
<1>2. Size \in Nat \ {0} /\ BlockSize \in Nat \ {0} /\ Part!Opened \in Nat
  BY OpenedFacts
<1>3. /\ first.pc = "start" /\ Shape(first) /\ LeftCells(first) = {} /\ RightCells(first) = {}
  <2>1. "start" \in PCs \ {"claim"}
    BY DEF PCs
  <2>2. /\ first.pc = "start" /\ first.lbs = Size /\ first.lbe = Size /\ first.rbs = Size
        /\ first.rbe = Size /\ first.left = <<>> /\ first.right = <<>> /\ Shape(first)
    BY <2>1, IdleFacts
  <2> HIDE DEF first
  <2> QED
    BY <1>2, <2>2, NoCells
<1> DEFINE I == Part!Idle
<1>4. /\ I.pc = "idle" /\ Shape(I) /\ LeftCells(I) = {} /\ RightCells(I) = {}
  <2>1. "idle" \in PCs \ {"claim"} /\ I = [Part!Idle EXCEPT !.pc = "idle"]
    BY DEF PCs, Part!Idle
  <2> HIDE DEF I
  <2>2. /\ I.pc = "idle" /\ I.lbs = Size /\ I.lbe = Size /\ I.rbs = Size
        /\ I.rbe = Size /\ I.left = <<>> /\ I.right = <<>> /\ Shape(I)
    BY <2>1, IdleFacts
  <2> QED
    BY <1>2, <2>2, NoCells
<1> HIDE DEF first, I
<1>5. /\ \A t \in Part!Paths : t # Part!First => task[t] = I
      /\ task[Part!First] = first /\ task = [t \in Part!Paths |-> task[t]]
  BY <1>1, TaskFacts DEF I
<1>6. \A t \in Part!Paths : /\ task[t].pc = (IF t = Part!First THEN "start" ELSE "idle")
                            /\ Shape(task[t])
                            /\ LeftCells(task[t]) = {} /\ RightCells(task[t]) = {}
  BY <1>3, <1>4, <1>5
<1>7. TypeInv
  <2>1. data \in [Part!Range0 -> {"yes", "no", "bad"}]
    BY <1>1
  <2>2. openThreads \in Int /\ size \in Int /\ lmove \in Int /\ rmove \in Int /\ rtrue \in Int
        /\ answer \in Int
    BY <1>1, <1>2 DEF Part!NoAnswer
  <2> QED
    BY <1>5, <1>6, <2>1, <2>2 DEF TypeInv
<1>8. TreeInv
  <2> SUFFICES ASSUME NEW t \in Part!Paths, NEW u \in Part!Paths, Ext(t, u), task[u].pc # "idle"
               PROVE  FALSE
    BY DEF TreeInv
  <2>1. u = Part!First
    BY <1>6
  <2> QED
    BY <2>1, TaskFacts
<1>9. ThreadsInv
  <2>1. Restoring(task) = {} /\ Active(task) = {Part!First}
    BY <1>6, TaskFacts DEF Restoring, Active, Looking
  <2>2. /\ IsFiniteSet(Restoring(task)) /\ Cardinality(Restoring(task)) = 0
        /\ IsFiniteSet(Active(task)) /\ Cardinality(Active(task)) = 1
    <3> DEFINE z == Part!First
               R == Restoring(task)
               A == Active(task)
    <3>1. R = {} /\ A = {z}
      BY <2>1
    <3> HIDE DEF z, R, A
    <3>2. IsFiniteSet(R) /\ Cardinality(R) = 0
      BY <3>1, FS_EmptySet
    <3>3. IsFiniteSet(A) /\ Cardinality(A) = 1
      BY <3>1, FS_Singleton
    <3> QED
      BY <3>2, <3>3 DEF R, A
  <2>3. Forks(task, openThreads) = 0
    BY <1>1, <1>2, <2>2 DEF Forks
  <2>4. SizeOf(size, 0, 1)
    BY <1>1, <1>2 DEF SizeOf
  <2>5. \A t \in Part!Paths :
          /\ task[t].pc # "idle" => Len(t) <= 0
          /\ task[t].pc # "forked"
    <3>1. Len(Part!First) = 0
      BY TaskFacts
    <3> QED
      BY <1>6, <3>1
  <2> QED
    BY <2>2, <2>3, <2>4, <2>5 DEF ThreadsInv
<1>10. SpaceInv
  <2>1. Pending(task) = {}
    <3> SUFFICES ASSUME NEW u \in Part!Paths PROVE task[u].pc # "claim"
      BY DEF Pending
    <3> QED
      BY <1>6
  <2>2. IsFiniteSet(Pending(task)) /\ Cardinality(Pending(task)) = 0
    BY <2>1, FS_EmptySet
  <2> QED
    BY <1>1, <1>2, <2>2 DEF SpaceInv
<1>11. CellsInv(task, lmove, rmove)
  BY <1>6 DEF CellsInv
<1> QED
  BY <1>7, <1>8, <1>9, <1>10, <1>11 DEF BlocksInv

\* What every step keeps.
LEMMA NextBlocks ==
  ASSUME BlocksInv, IntHolds, [Part!Next]_(Part!vars)
  PROVE  BlocksInv'
<1>1. CASE Part!Answer
  BY <1>1, AnswerBlocks
<1>2. CASE Part!AnswerFails
  BY <1>2, PassingBlocks, TaskFacts
<1>3. ASSUME NEW t \in Part!Paths, Part!Step(t) PROVE BlocksInv'
  <2>1. CASE Part!Fork(t)
    BY <2>1, ForkBlocks
  <2>2. CASE Part!DoNotFork(t)
    BY <2>2, DoNotForkBlocks
  <2>3. CASE Part!Restore(t)
    BY <2>3, RestoreBlocks
  <2>4. CASE Part!TestSize(t) \/ Part!JoinFails(t)
    BY <2>4, PassingBlocks
  <2>5. CASE Part!TakeSize(t)
    BY <2>5, TakeBlocks
  <2>6. CASE Part!ClaimLeft(t) \/ Part!ClaimRight(t)
    BY <2>6, ClaimBlocks
  <2>7. CASE Part!Finish(t)
    BY <2>7, FinishBlocks
  <2>8. CASE Part!JoinTasks(t)
    BY <2>8, JoinBlocks
  <2> QED
    BY <1>3, <2>1, <2>2, <2>3, <2>4, <2>5, <2>6, <2>7, <2>8 DEF Part!Step
<1>4. CASE UNCHANGED Part!vars
  <2>1. /\ data' = data /\ openThreads' = openThreads /\ size' = size /\ lmove' = lmove
        /\ rmove' = rmove /\ rtrue' = rtrue /\ task' = task /\ answer' = answer
    BY <1>4 DEF Part!vars
  <2>2. TypeInv' /\ TreeInv' /\ SpaceInv' /\ CellsInv(task', lmove', rmove')
    BY <2>1 DEF BlocksInv, TypeInv, TreeInv, SpaceInv
  <2>3. ThreadsInv'
    BY <2>1 DEF BlocksInv, ThreadsInv
  <2> QED
    BY <2>2, <2>3 DEF BlocksInv
<1> QED
  BY <1>1, <1>2, <1>3, <1>4 DEF Part!Next

\* What the tasks hold is what the invariant calls their cells.
LEMMA OwnedCells ==
  ASSUME TypeInv, NEW t \in Part!Paths
  PROVE  Part!Owned(t) \subseteq LeftCells(task[t]) \cup RightCells(task[t])
<1> DEFINE w == task[t]
<1>1. /\ w.lbs \in Int /\ w.lbe \in Int /\ w.rbs \in Int /\ w.rbe \in Int
      /\ w.left \in Seq(Int \X Int) /\ w.right \in Seq(Int \X Int) /\ Separate(w.left) /\ Separate(w.right)
  BY DEF TypeInv, Shape, TaskRec
<1>2. Part!Owned(t) = Part!Range(Part!Up(w.lbs, w.lbe)) \cup Part!Range(Part!Down(w.rbs, w.rbe))
                        \cup Part!Range(Part!Positions(w.left)) \cup Part!Range(Part!Positions(w.right))
  BY DEF Part!Owned
<1> HIDE DEF w
<1>3. /\ Part!Range(Part!Up(w.lbs, w.lbe)) \subseteq LeftBlock(w)
      /\ Part!Range(Part!Down(w.rbs, w.rbe)) \subseteq RightBlock(w)
  BY <1>1, UpRange, DownRange DEF LeftBlock, RightBlock
<1>4. /\ Lists(Part!Positions(w.left), Cells(w.left))
      /\ Lists(Part!Positions(w.right), Cells(w.right))
  BY <1>1, PositionsList
<1>5. /\ Part!Range(Part!Positions(w.left)) \subseteq Cells(w.left)
      /\ Part!Range(Part!Positions(w.right)) \subseteq Cells(w.right)
  BY <1>4 DEF Lists, Part!Range
<1> QED
  BY <1>2, <1>3, <1>5 DEF LeftCells, RightCells, w

\* The invariant keeps the tasks from touching each other's elements.
LEMMA BlocksDisjoint == BlocksInv => Part!BlocksApart
<1> SUFFICES ASSUME BlocksInv, NEW t \in Part!Paths, NEW u \in Part!Paths, t # u
             PROVE  Part!Owned(t) \cap Part!Owned(u) = {}
  BY DEF Part!BlocksApart
<1> DEFINE Lt == LeftCells(task[t])
           Lu == LeftCells(task[u])
           Rt == RightCells(task[t])
           Ru == RightCells(task[u])
           X == 0 .. lmove - 1
           Y == rmove .. Size - 1
<1>1. /\ Lt \subseteq X /\ Lu \subseteq X /\ Rt \subseteq Y /\ Ru \subseteq Y
      /\ Lt \cap Lu = {} /\ Rt \cap Ru = {}
  BY DEF BlocksInv, CellsInv
<1>2. X \cap Y = {}
  BY EndsApart
<1>3. Part!Owned(t) \subseteq Lt \cup Rt /\ Part!Owned(u) \subseteq Lu \cup Ru
  BY OwnedCells DEF BlocksInv
<1> HIDE DEF Lt, Lu, Rt, Ru, X, Y
<1> QED
  BY <1>1, <1>2, <1>3

\* The blocks that tasks take from both ends never meet, and no element is
\* handed to two of them.
THEOREM BlocksNeverMeet == IntHolds => (Part!Spec => []Part!BlocksApart)
<1> SUFFICES ASSUME IntHolds PROVE Part!Spec => []Part!BlocksApart
  OBVIOUS
<1>1. Part!Init => BlocksInv
  BY InitBlocks
<1>2. BlocksInv /\ [Part!Next]_(Part!vars) => BlocksInv'
  BY NextBlocks
<1>3. BlocksInv => Part!BlocksApart
  BY BlocksDisjoint
<1> QED
  BY <1>1, <1>2, <1>3, PTL DEF Part!Spec

-----------------------------------------------------------------------------
(* The invariant: what is where, unless something has thrown               *)

Good(tk) == \A t \in Part!Paths : tk[t].pc \notin {"failed", "answered"}

\* What has been taken from the ends and is wrong is in the hands of a task.
SidesInv(tk, d, lm, rm) ==
  \A i \in Part!Range0 :
    /\ i < lm =>
         d[i] \in {"yes", "no"} /\ (d[i] = "yes" \/ \E t \in Part!Paths : i \in LeftCells(tk[t]))
    /\ i >= rm =>
         d[i] \in {"yes", "no"} /\ (d[i] = "no" \/ \E t \in Part!Paths : i \in RightCells(tk[t]))

\* What the tasks have counted, and what is to be counted: where the relation
\* holds for what has been taken and is not in a block a task is busy with.
TrueOnes(tk) == {p \in Part!Paths \X Nat : p[2] \in 1 .. tk[p[1]].trues}

Counted(tk, d, lm, rm) ==
  {i \in Part!Range0 : /\ i < lm \/ i >= rm
                       /\ d[i] = "yes"
                       /\ \A t \in Part!Paths : i \notin LeftBlock(tk[t]) /\ i \notin RightBlock(tk[t])}

OnesInv(tk, d, lm, rm, n) ==
  /\ IsFiniteSet(TrueOnes(tk)) /\ n \in Nat
  /\ Cardinality(TrueOnes(tk)) + n = Cardinality(Counted(tk, d, lm, rm))

\* A task ends only when nothing is left to take.
EndInv == \A t \in Part!Paths : task[t].pc \in {"finish", "done"} => size <= 0

SortInv ==
  Good(task) => /\ SidesInv(task, data, lmove, rmove)
                /\ OnesInv(task, data, lmove, rmove, rtrue)
                /\ EndInv

ResultInv ==
  answer \notin {Part!NoAnswer, Part!Exception} =>
    task[Part!First].pc = "answered" /\ Part!Partitioned

-----------------------------------------------------------------------------
(* Counting                                                                *)

\* A row of m pairs.
LEMMA RowCard ==
  ASSUME NEW t, NEW m \in Nat
  PROVE  IsFiniteSet({t} \X (1 .. m)) /\ Cardinality({t} \X (1 .. m)) = m
<1>1. CASE m = 0
  <2>1. 1 .. m = {}
    BY <1>1
  <2>2. {t} \X (1 .. m) = {}
    BY <2>1
  <2> QED
    BY <1>1, <2>2, FS_EmptySet
<1>2. CASE m # 0
  BY <1>2, RowFacts
<1> QED
  BY <1>1, <1>2

\* When one task has counted more or less.
LEMMA TruesChange ==
  ASSUME NEW tk, NEW nt, NEW t \in Part!Paths, tk[t].trues \in Nat, nt[t].trues \in Nat,
         \A u \in Part!Paths : u # t => nt[u].trues = tk[u].trues,
         IsFiniteSet(TrueOnes(tk))
  PROVE  /\ IsFiniteSet(TrueOnes(nt))
         /\ Cardinality(TrueOnes(nt)) = Cardinality(TrueOnes(tk)) + nt[t].trues - tk[t].trues
<1> DEFINE A == TrueOnes(tk)
           B == TrueOnes(nt)
           m == tk[t].trues
           n == nt[t].trues
           P == {t} \X (1 .. m)
           Q == {t} \X (1 .. n)
           R == A \ P
<1>1. IsFiniteSet(P) /\ Cardinality(P) = m /\ IsFiniteSet(Q) /\ Cardinality(Q) = n
  BY RowCard
<1>2. P \subseteq A /\ B = R \cup Q /\ R \cap Q = {}
  <2>1. ASSUME NEW u \in Part!Paths, NEW a \in Nat
        PROVE  /\ u = t => (a \in 1 .. nt[u].trues <=> a \in 1 .. n) /\ (a \in 1 .. tk[u].trues <=> a \in 1 .. m)
               /\ u # t => (a \in 1 .. nt[u].trues <=> a \in 1 .. tk[u].trues)
    OBVIOUS
  <2>2. \A a \in 1 .. n : a \in Nat
    OBVIOUS
  <2>3. \A a \in 1 .. m : a \in Nat
    OBVIOUS
  <2>4. A \subseteq Part!Paths \X Nat /\ B \subseteq Part!Paths \X Nat
    BY DEF TrueOnes
  <2>5. \A u \in Part!Paths, a \in Nat :
          /\ <<u, a>> \in A <=> a \in 1 .. tk[u].trues
          /\ <<u, a>> \in B <=> a \in 1 .. nt[u].trues
    BY DEF TrueOnes
  <2> HIDE DEF m, n, A, B
  <2>6. P \subseteq Part!Paths \X Nat /\ Q \subseteq Part!Paths \X Nat
    BY <2>2, <2>3
  <2>7. \A u \in Part!Paths, a \in Nat :
          /\ <<u, a>> \in P <=> u = t /\ a \in 1 .. m
          /\ <<u, a>> \in Q <=> u = t /\ a \in 1 .. n
    OBVIOUS
  <2> HIDE DEF P, Q
  <2>8. \A p \in Part!Paths \X Nat :
          /\ p \in P => p \in A
          /\ p \in B <=> (p \in A /\ p \notin P) \/ p \in Q
          /\ ~(p \in A /\ p \notin P /\ p \in Q)
    BY <2>1, <2>5, <2>7
  <2> QED
    BY <2>4, <2>6, <2>8
<1> HIDE DEF A, B, m, n, P, Q
<1>3. IsFiniteSet(R) /\ Cardinality(R) = Cardinality(A) - m
  <2>1. IsFiniteSet(A \ P) /\ Cardinality(A \ P) = Cardinality(A) - Cardinality(A \cap P)
    BY FS_Difference DEF A
  <2>2. A \cap P = P
    BY <1>2
  <2> QED
    BY <1>1, <2>1, <2>2
<1> HIDE DEF R
<1>4. IsFiniteSet(B) /\ Cardinality(B) = Cardinality(R) + n
  <2>1. IsFiniteSet(R \cup Q) /\ Cardinality(R \cup Q) = Cardinality(R) + Cardinality(Q) - Cardinality(R \cap Q)
    BY <1>1, <1>3, FS_Union
  <2>2. Cardinality(R \cap Q) = 0
    BY <1>2, FS_EmptySet
  <2>3. Cardinality(R) \in Nat /\ n \in Nat
    BY <1>3, FS_CardinalityType DEF n
  <2> QED
    BY <1>1, <1>2, <2>1, <2>2, <2>3
<1>5. Cardinality(A) \in Nat /\ m \in Nat /\ n \in Nat
  BY FS_CardinalityType DEF A, m, n
<1> DEFINE x == Cardinality(A)
           y == Cardinality(B)
           z == Cardinality(R)
<1>6. x \in Nat /\ z = x - m /\ y = z + n
  BY <1>3, <1>4, <1>5
<1> HIDE DEF x, y, z
<1>7. y = x + n - m
  BY <1>5, <1>6
<1> QED
  BY <1>4, <1>7 DEF x, y, A, B, m, n

\* A sequence that finds the cells of S with the value x is as long as their
\* number.
LEMMA FindsCard ==
  ASSUME NEW s, NEW d, NEW S, NEW x, Finds(s, d, S, x),
         NEW W, \A i : i \in W <=> i \in S /\ d[i] = x
  PROVE  /\ Len(s) \in Nat /\ Head_(s, Len(s)) = W
         /\ IsFiniteSet(W) /\ Cardinality(W) = Len(s)
<1> DEFINE n == Len(s)
<1>1. /\ n \in Nat /\ DOMAIN s = 1 .. n
      /\ \A a \in 1 .. n : s[a] \in S /\ d[s[a]] = x
      /\ \A i \in S : d[i] = x => \E a \in 1 .. n : s[a] = i
      /\ \A a, b \in 1 .. n : s[a] = s[b] => a = b
  BY DEF Finds
<1> HIDE DEF n
<1>2. Head_(s, n) = W
  BY <1>1 DEF Head_
<1>3. IsFiniteSet(Head_(s, n)) /\ Cardinality(Head_(s, n)) = n
  BY <1>1, HeadCard
<1> QED
  BY <1>1, <1>2, <1>3 DEF n

\* Nothing is counted or exchanged.
LEMMA SortSame ==
  ASSUME NEW tk, NEW nt, NEW d, NEW lm, NEW rm, NEW n,
         SidesInv(tk, d, lm, rm), OnesInv(tk, d, lm, rm, n),
         \A u \in Part!Paths :
           /\ LeftCells(nt[u]) = LeftCells(tk[u]) /\ RightCells(nt[u]) = RightCells(tk[u])
           /\ LeftBlock(nt[u]) = LeftBlock(tk[u]) /\ RightBlock(nt[u]) = RightBlock(tk[u])
           /\ nt[u].trues = tk[u].trues
  PROVE  SidesInv(nt, d, lm, rm) /\ OnesInv(nt, d, lm, rm, n)
<1>1. SidesInv(nt, d, lm, rm)
  BY DEF SidesInv
<1>2. Counted(nt, d, lm, rm) = Counted(tk, d, lm, rm)
  BY DEF Counted
<1>3. TrueOnes(nt) = TrueOnes(tk)
  BY DEF TrueOnes
<1>4. OnesInv(nt, d, lm, rm, n)
  BY <1>2, <1>3 DEF OnesInv
<1> QED
  BY <1>1, <1>4

-----------------------------------------------------------------------------
(* Every step keeps what is right                                          *)

\* A task that does not work has no blocks and has counted nothing.
LEMMA RestingCells ==
  ASSUME NEW w, Shape(w), w.pc \notin Working
  PROVE  /\ LeftBlock(w) = {} /\ RightBlock(w) = {} /\ w.trues = 0
         /\ LeftCells(w) = Cells(w.left) /\ RightCells(w) = Cells(w.right)
         /\ w.pc # "done" => LeftCells(w) = {} /\ RightCells(w) = {}
<1>1. /\ w.lbs \in Int /\ w.rbs \in Int /\ w.lbe = w.lbs /\ w.rbe = w.rbs /\ w.trues = 0
      /\ w.pc # "done" => w.left = <<>> /\ w.right = <<>>
  BY DEF Shape, TaskRec, Working
<1>2. LeftBlock(w) = {} /\ RightBlock(w) = {}
  BY <1>1 DEF LeftBlock, RightBlock
<1>3. Cells(<<>>) = {}
  <2>1. DOMAIN <<>> = {}
    OBVIOUS
  <2> QED
    BY <2>1 DEF Cells
<1>4. LeftCells(w) = Cells(w.left) /\ RightCells(w) = Cells(w.right)
  BY <1>2 DEF LeftCells, RightCells
<1> QED
  BY <1>1, <1>2, <1>3, <1>4

\* A step that exchanges, counts and claims nothing.
LEMMA SortKept ==
  ASSUME SortInv, data' = data, lmove' = lmove, rmove' = rmove, rtrue' = rtrue,
         Good(task') => Good(task), Good(task') /\ EndInv => EndInv',
         \A u \in Part!Paths :
           /\ LeftCells(task'[u]) = LeftCells(task[u])
           /\ RightCells(task'[u]) = RightCells(task[u])
           /\ LeftBlock(task'[u]) = LeftBlock(task[u])
           /\ RightBlock(task'[u]) = RightBlock(task[u])
           /\ task'[u].trues = task[u].trues
  PROVE  SortInv'
<1> SUFFICES ASSUME Good(task')
             PROVE  /\ SidesInv(task', data', lmove', rmove')
                    /\ OnesInv(task', data', lmove', rmove', rtrue')
                    /\ EndInv'
  BY DEF SortInv
<1>1. SidesInv(task, data, lmove, rmove) /\ OnesInv(task, data, lmove, rmove, rtrue) /\ EndInv
  BY DEF SortInv
<1> DEFINE nt == task'
<1> HIDE DEF nt
<1>2. SidesInv(nt, data, lmove, rmove) /\ OnesInv(nt, data, lmove, rmove, rtrue)
  BY <1>1, SortSame DEF nt
<1> QED
  BY <1>1, <1>2 DEF nt

\* A step of one task that keeps its blocks, its lists and its count.
LEMMA SameKept ==
  ASSUME SortInv, NEW t \in Part!Paths, task[t].pc \notin {"failed", "answered"},
         Same(task[t], task'[t]), \A u \in Part!Paths : u # t => task'[u] = task[u],
         size' \in Int, size \in Int, size' <= size,
         task'[t].pc \in {"finish", "done"} => size' <= 0,
         data' = data, lmove' = lmove, rmove' = rmove, rtrue' = rtrue
  PROVE  SortInv'
<1>1. Good(task') => Good(task)
  BY DEF Good
<1>2. EndInv => EndInv'
  BY DEF EndInv
<1>3. \A u \in Part!Paths :
        /\ LeftCells(task'[u]) = LeftCells(task[u])
        /\ RightCells(task'[u]) = RightCells(task[u])
        /\ LeftBlock(task'[u]) = LeftBlock(task[u])
        /\ RightBlock(task'[u]) = RightBlock(task[u])
        /\ task'[u].trues = task[u].trues
  <2> SUFFICES ASSUME NEW u \in Part!Paths
               PROVE  /\ LeftCells(task'[u]) = LeftCells(task[u])
                      /\ RightCells(task'[u]) = RightCells(task[u])
                      /\ LeftBlock(task'[u]) = LeftBlock(task[u])
                      /\ RightBlock(task'[u]) = RightBlock(task[u])
                      /\ task'[u].trues = task[u].trues
    OBVIOUS
  <2>1. CASE u = t
    <3>1. task'[t].trues = task[t].trues
      BY DEF Same
    <3> QED
      BY <2>1, <3>1, SameCells
  <2>2. CASE u # t
    BY <2>2
  <2> QED
    BY <2>1, <2>2
<1> QED
  BY <1>1, <1>2, <1>3, SortKept

\* Steps on the way to a claim.
LEMMA PassingSort ==
  ASSUME BlocksInv, IntHolds, SortInv, NEW t \in Part!Paths,
         Part!DoNotFork(t) \/ Part!Restore(t) \/ Part!TestSize(t) \/ Part!TakeSize(t)
  PROVE  SortInv'
<1>1. size \in Int /\ TypeInv /\ BlockSize \in Nat
  BY OpenedFacts DEF BlocksInv, TypeInv
<1>2. ASSUME NEW x \in PCs, Part!Goto(t, x), task[t].pc \in {"start", "restore", "test"},
             x \in {"finish", "done"} => size <= 0,
             size' = size, data' = data, lmove' = lmove, rmove' = rmove, rtrue' = rtrue
      PROVE  SortInv'
  <2>1. /\ task'[t].pc = x /\ Same(task[t], task'[t])
        /\ \A u \in Part!Paths : u # t => task'[u] = task[u]
    BY <1>1, <1>2, GotoFacts
  <2> QED
    BY <1>1, <1>2, <2>1, SameKept
<1>3. CASE Part!DoNotFork(t)
  <2>1. /\ task[t].pc = "start" /\ Part!Goto(t, "restore") /\ "restore" \in PCs
        /\ size' = size /\ data' = data /\ lmove' = lmove /\ rmove' = rmove /\ rtrue' = rtrue
    BY <1>3 DEF Part!DoNotFork, PCs
  <2> QED
    BY <1>2, <2>1
<1>4. CASE Part!Restore(t)
  <2>1. /\ task[t].pc = "restore" /\ Part!Goto(t, "test") /\ "test" \in PCs
        /\ size' = size /\ data' = data /\ lmove' = lmove /\ rmove' = rmove /\ rtrue' = rtrue
    BY <1>4 DEF Part!Restore, PCs
  <2> QED
    BY <1>2, <2>1
<1>5. CASE Part!TestSize(t)
  <2> DEFINE x == IF size > 0 THEN "take" ELSE "finish"
  <2>1. /\ task[t].pc = "test" /\ Part!Goto(t, x) /\ x \in PCs
        /\ size' = size /\ data' = data /\ lmove' = lmove /\ rmove' = rmove /\ rtrue' = rtrue
    BY <1>5 DEF Part!TestSize, Part!counters, PCs
  <2>2. x \in {"finish", "done"} => size <= 0
    BY <1>1
  <2> QED
    BY <1>2, <2>1, <2>2
<1>6. CASE Part!TakeSize(t)
  <2>1. /\ task[t].pc = "take" /\ size' = size - BlockSize
        /\ Same(task[t], task'[t])
        /\ task'[t].pc = (IF size <= 0 THEN "finish" ELSE "claim")
        /\ \A u \in Part!Paths : u # t => task'[u] = task[u]
        /\ data' = data /\ lmove' = lmove /\ rmove' = rmove /\ rtrue' = rtrue
    BY <1>6, TakeFacts
  <2>2. size' \in Int /\ size' <= size
    BY <1>1, <2>1
  <2>3. task'[t].pc \in {"finish", "done"} => size' <= 0
    BY <1>1, <2>1
  <2> QED
    BY <1>1, <2>1, <2>2, <2>3, SameKept
<1> QED
  BY <1>3, <1>4, <1>5, <1>6

\* A fork: its subtasks have nothing yet.
LEMMA ForkSort ==
  ASSUME BlocksInv, SortInv, NEW t \in Part!Paths, Part!Fork(t)
  PROVE  SortInv'
<1> DEFINE C == Part!Children(t)
<1>1. /\ task[t].pc = "start" /\ task'[t].pc = "forked" /\ Same(task[t], task'[t])
      /\ C \subseteq Part!Paths
      /\ \A c \in C : task[c].pc = "idle" /\ task'[c] = [Part!Idle EXCEPT !.pc = "start"]
      /\ \A u \in Part!Paths : u # t /\ u \notin C => task'[u] = task[u]
  BY ForkFacts
<1>2. /\ size' = size /\ data' = data /\ lmove' = lmove /\ rmove' = rmove /\ rtrue' = rtrue
  BY DEF Part!Fork
<1>3. \A c \in C : Shape(task[c])
  BY <1>1 DEF BlocksInv, TypeInv
<1> HIDE DEF C
<1>4. \A c \in C :
        /\ task'[c].pc = "start"
        /\ LeftCells(task'[c]) = LeftCells(task[c]) /\ RightCells(task'[c]) = RightCells(task[c])
        /\ LeftBlock(task'[c]) = LeftBlock(task[c]) /\ RightBlock(task'[c]) = RightBlock(task[c])
        /\ task'[c].trues = task[c].trues
  <2> SUFFICES ASSUME NEW c \in C
               PROVE  /\ task'[c].pc = "start"
                      /\ LeftCells(task'[c]) = LeftCells(task[c]) /\ RightCells(task'[c]) = RightCells(task[c])
                      /\ LeftBlock(task'[c]) = LeftBlock(task[c]) /\ RightBlock(task'[c]) = RightBlock(task[c])
                      /\ task'[c].trues = task[c].trues
    OBVIOUS
  <2> DEFINE w == task[c]
             v == task'[c]
  <2>1. /\ "start" \in PCs \ {"claim"} /\ v = [Part!Idle EXCEPT !.pc = "start"]
        /\ Shape(w) /\ w.pc = "idle"
    BY <1>1, <1>3 DEF PCs
  <2> HIDE DEF w, v
  <2>2. v.pc = "start" /\ Shape(v)
    BY <2>1, IdleFacts
  <2>3. w.pc \notin Working /\ v.pc \notin Working /\ w.pc # "done" /\ v.pc # "done"
    BY <2>1, <2>2 DEF Working
  <2>4. /\ LeftBlock(w) = {} /\ RightBlock(w) = {} /\ w.trues = 0
        /\ LeftCells(w) = {} /\ RightCells(w) = {}
    BY <2>1, <2>3, RestingCells
  <2>5. /\ LeftBlock(v) = {} /\ RightBlock(v) = {} /\ v.trues = 0
        /\ LeftCells(v) = {} /\ RightCells(v) = {}
    BY <2>2, <2>3, RestingCells
  <2> QED
    BY <2>2, <2>4, <2>5 DEF w, v
<1>5. \A u \in Part!Paths :
        /\ LeftCells(task'[u]) = LeftCells(task[u])
        /\ RightCells(task'[u]) = RightCells(task[u])
        /\ LeftBlock(task'[u]) = LeftBlock(task[u])
        /\ RightBlock(task'[u]) = RightBlock(task[u])
        /\ task'[u].trues = task[u].trues
  <2> SUFFICES ASSUME NEW u \in Part!Paths
               PROVE  /\ LeftCells(task'[u]) = LeftCells(task[u])
                      /\ RightCells(task'[u]) = RightCells(task[u])
                      /\ LeftBlock(task'[u]) = LeftBlock(task[u])
                      /\ RightBlock(task'[u]) = RightBlock(task[u])
                      /\ task'[u].trues = task[u].trues
    OBVIOUS
  <2>1. CASE u \in C
    BY <1>4, <2>1
  <2>2. CASE u = t
    <3>1. task'[t].trues = task[t].trues
      BY <1>1 DEF Same
    <3> QED
      BY <1>1, <2>2, <3>1, SameCells
  <2>3. CASE u # t /\ u \notin C
    BY <1>1, <2>3
  <2> QED
    BY <2>1, <2>2, <2>3
<1>6. Good(task') => Good(task)
  BY <1>1, <1>4 DEF Good
<1>7. EndInv => EndInv'
  BY <1>1, <1>2, <1>4 DEF EndInv
<1> QED
  BY <1>2, <1>5, <1>6, <1>7, SortKept

\* The blocks of a claim: S and T are gone through, P and Q of them have been
\* put right, and what is left is in the block of the task.
Through(t, v, S, T, P, Q, N, nlm, nrm) ==
  /\ S = LeftBlock(task[t]) \cup (lmove .. nlm - 1)
  /\ T = RightBlock(task[t]) \cup (nrm .. rmove - 1)
  /\ LeftCells(task[t]) \subseteq S /\ RightCells(task[t]) \subseteq T
  /\ S \subseteq 0 .. nlm - 1 /\ T \subseteq nrm .. Size - 1 /\ S \cap T = {}
  /\ S = P \cup LeftBlock(v) /\ P \cap LeftBlock(v) = {}
  /\ T = Q \cup RightBlock(v) /\ Q \cap RightBlock(v) = {}
  /\ LeftCells(v) = LeftBlock(v) /\ RightCells(v) = RightBlock(v)
  /\ \A i \in Part!Range0 : IF i \in P THEN N[i] = "yes"
                            ELSE IF i \in Q THEN N[i] = "no" ELSE N[i] = data[i]
  /\ \A i \in S \cup T : data[i] \in {"yes", "no"}

\* What a claim has gone through is on the right side, what is not is in the task's hands.
LEMMA ThroughFacts ==
  ASSUME BlocksInv, NEW t \in Part!Paths,
         NEW lb \in Int, NEW le \in Int, NEW re \in Int, NEW rb \in Int,
         NEW nlm \in Int, NEW nrm \in Int, Claims(t, lb, le, re, rb, nlm, nrm),
         NEW l \in Int, NEW r \in Int, NEW v, NEW N,
         Scanned(t, lb, le, rb, re, l, r, v, N)
  PROVE  Through(t, v, lb .. le - 1, re + 1 .. rb, lb .. l - 1, r + 1 .. rb, N, nlm, nrm)
<1> DEFINE w == task[t]
           S == lb .. le - 1
           T == re + 1 .. rb
           P == lb .. l - 1
           Q == r + 1 .. rb
<1>1. /\ w.pc = "claim" /\ nlm <= nrm /\ lmove <= nlm /\ nrm <= rmove
      /\ S = LeftBlock(w) \cup (lmove .. nlm - 1)
      /\ T = RightBlock(w) \cup (nrm .. rmove - 1)
  BY DEF Claims
<1>2. /\ l \in lb .. le /\ r \in re .. rb
      /\ \A i \in Part!Range0 :
           IF i \in P THEN data[i] \in {"yes", "no"} => N[i] = "yes"
           ELSE IF i \in Q THEN data[i] \in {"yes", "no"} => N[i] = "no" ELSE N[i] = data[i]
      /\ v.lbs = l /\ v.lbe = le /\ v.rbs = r /\ v.rbe = re /\ v.left = w.left /\ v.right = w.right
      /\ \A i \in S : data[i] # "bad"
      /\ \A i \in T : data[i] # "bad"
  BY DEF Scanned, PassedTo
<1>3. lmove \in Nat /\ rmove \in Int /\ rmove <= Size /\ Size \in Nat
  BY EndsApart
<1>4. /\ LeftCells(w) \subseteq 0 .. lmove - 1 /\ RightCells(w) \subseteq rmove .. Size - 1
      /\ LeftBlock(w) \subseteq LeftCells(w) /\ RightBlock(w) \subseteq RightCells(w)
  BY DEF BlocksInv, CellsInv, LeftCells, RightCells
<1>5. /\ data \in [Part!Range0 -> {"yes", "no", "bad"}] /\ w.left = <<>> /\ w.right = <<>>
  BY <1>1 DEF BlocksInv, TypeInv, Shape
<1>6. Cells(<<>>) = {}
  <2>1. DOMAIN <<>> = {}
    OBVIOUS
  <2> QED
    BY <2>1 DEF Cells
<1> HIDE DEF w
<1>7. /\ LeftCells(w) = LeftBlock(w) /\ RightCells(w) = RightBlock(w)
      /\ LeftCells(v) = LeftBlock(v) /\ RightCells(v) = RightBlock(v)
  BY <1>2, <1>5, <1>6 DEF LeftCells, RightCells
<1>8. LeftBlock(v) = l .. le - 1 /\ RightBlock(v) = re + 1 .. r
  BY <1>2 DEF LeftBlock, RightBlock
<1>9. S \subseteq 0 .. nlm - 1 /\ T \subseteq nrm .. Size - 1
  <2>1. /\ 0 .. lmove - 1 \subseteq 0 .. nlm - 1 /\ lmove .. nlm - 1 \subseteq 0 .. nlm - 1
        /\ rmove .. Size - 1 \subseteq nrm .. Size - 1 /\ nrm .. rmove - 1 \subseteq nrm .. Size - 1
    BY <1>1, <1>3
  <2> DEFINE A == 0 .. lmove - 1
             B == lmove .. nlm - 1
             C == 0 .. nlm - 1
             D == rmove .. Size - 1
             E == nrm .. rmove - 1
             F == nrm .. Size - 1
  <2>2. /\ A \subseteq C /\ B \subseteq C /\ D \subseteq F /\ E \subseteq F
        /\ S = LeftBlock(w) \cup B /\ T = RightBlock(w) \cup E
        /\ LeftBlock(w) \subseteq A /\ RightBlock(w) \subseteq D
    BY <1>1, <1>4, <1>7, <2>1
  <2> HIDE DEF A, B, C, D, E, F, S, T
  <2>3. S \subseteq C /\ T \subseteq F
    BY <2>2
  <2> QED
    BY <2>3 DEF C, F
<1>10. S \cap T = {}
  <2>1. (0 .. nlm - 1) \cap (nrm .. Size - 1) = {}
    BY <1>1, <1>3
  <2> HIDE DEF S, T
  <2> QED
    BY <1>9, <2>1
<1>11. /\ S = P \cup (l .. le - 1) /\ P \cap (l .. le - 1) = {}
       /\ T = Q \cup (re + 1 .. r) /\ Q \cap (re + 1 .. r) = {}
  BY <1>2
<1>12. \A i \in S \cup T : data[i] \in {"yes", "no"}
  <2>1. \A i \in S \cup T : i \in Part!Range0
    <3>1. 0 .. nlm - 1 \subseteq 0 .. Size - 1 /\ nrm .. Size - 1 \subseteq 0 .. Size - 1
      BY <1>1, <1>3
    <3> HIDE DEF S, T
    <3> QED
      BY <1>9, <3>1 DEF Part!Range0
  <2> HIDE DEF S, T
  <2> QED
    BY <1>2, <1>5, <2>1
<1>13. \A i \in Part!Range0 : IF i \in P THEN N[i] = "yes"
                              ELSE IF i \in Q THEN N[i] = "no" ELSE N[i] = data[i]
  <2>1. P \subseteq S /\ Q \subseteq T
    BY <1>11
  <2> HIDE DEF P, Q, S, T
  <2> QED
    BY <1>2, <1>12, <2>1
<1>14. LeftCells(w) \subseteq S /\ RightCells(w) \subseteq T
  <2> HIDE DEF S, T
  <2> QED
    BY <1>1, <1>7
<1> HIDE DEF S, T, P, Q
<1>15. Through(t, v, S, T, P, Q, N, nlm, nrm)
  BY <1>1, <1>7, <1>8, <1>9, <1>10, <1>11, <1>12, <1>13, <1>14 DEF Through, w
<1> QED
  BY <1>15 DEF S, T, P, Q

\* What is wrong in a block that has been gone through is in the hands of the
\* task.
LEMMA ClaimSides ==
  ASSUME BlocksInv, SidesInv(task, data, lmove, rmove), NEW t \in Part!Paths,
         NEW nlm \in Int, NEW nrm \in Int, lmove <= nlm, nlm <= nrm, nrm <= rmove,
         NEW nt, \A u \in Part!Paths : u # t => nt[u] = task[u],
         NEW S, NEW T, NEW P, NEW Q, NEW N, Through(t, nt[t], S, T, P, Q, N, nlm, nrm)
  PROVE  SidesInv(nt, N, nlm, nrm)
<1> DEFINE v == nt[t]
           LV == LeftCells(v)
           RV == RightCells(v)
<1>1. /\ S \subseteq 0 .. nlm - 1 /\ T \subseteq nrm .. Size - 1
      /\ lmove .. nlm - 1 \subseteq S /\ nrm .. rmove - 1 \subseteq T
      /\ LeftCells(task[t]) \subseteq S /\ RightCells(task[t]) \subseteq T
      /\ S = P \cup LV /\ T = Q \cup RV /\ P \cap LV = {} /\ Q \cap RV = {}
      /\ \A i \in Part!Range0 : IF i \in P THEN N[i] = "yes"
                                ELSE IF i \in Q THEN N[i] = "no" ELSE N[i] = data[i]
      /\ \A i \in S \cup T : data[i] \in {"yes", "no"}
  BY DEF Through
<1> HIDE DEF v, LV, RV
<1>2. lmove \in Nat /\ rmove \in Int /\ Size \in Nat
  BY EndsApart
<1>3. ASSUME NEW i \in Part!Range0, i < nlm
      PROVE  N[i] \in {"yes", "no"} /\ (N[i] = "yes" \/ \E u \in Part!Paths : i \in LeftCells(nt[u]))
  <2>1. i \in Int /\ i \notin T
    BY <1>1, <1>3 DEF Part!Range0
  <2>2. CASE i \in S
    <3>1. CASE i \in P
      BY <1>1, <3>1
    <3>2. CASE i \notin P
      <4>1. i \in LV /\ N[i] = data[i] /\ data[i] \in {"yes", "no"}
        BY <1>1, <2>1, <2>2, <3>2
      <4> QED
        BY <4>1 DEF LV, v
    <3> QED
      BY <3>1, <3>2
  <2>3. CASE i \notin S
    <3>1. i < lmove
      <4>1. i \notin lmove .. nlm - 1
        BY <1>1, <2>3
      <4> QED
        BY <1>2, <1>3, <2>1, <4>1
    <3>2. N[i] = data[i]
      BY <1>1, <2>1, <2>3
    <3>3. data[i] \in {"yes", "no"} /\ (data[i] = "yes" \/ \E u \in Part!Paths : i \in LeftCells(task[u]))
      BY <3>1 DEF SidesInv
    <3>4. i \notin LeftCells(task[t])
      BY <1>1, <2>3
    <3> QED
      BY <3>2, <3>3, <3>4
  <2> QED
    BY <2>2, <2>3
<1>4. ASSUME NEW i \in Part!Range0, i >= nrm
      PROVE  N[i] \in {"yes", "no"} /\ (N[i] = "no" \/ \E u \in Part!Paths : i \in RightCells(nt[u]))
  <2>1. i \in Int /\ i \notin S
    BY <1>1, <1>4 DEF Part!Range0
  <2>2. CASE i \in T
    <3>1. CASE i \in Q
      BY <1>1, <2>1, <3>1
    <3>2. CASE i \notin Q
      <4>1. i \in RV /\ N[i] = data[i] /\ data[i] \in {"yes", "no"}
        BY <1>1, <2>1, <2>2, <3>2
      <4> QED
        BY <4>1 DEF RV, v
    <3> QED
      BY <3>1, <3>2
  <2>3. CASE i \notin T
    <3>1. i >= rmove
      <4>1. i \notin nrm .. rmove - 1
        BY <1>1, <2>3
      <4> QED
        BY <1>2, <1>4, <2>1, <4>1
    <3>2. N[i] = data[i]
      BY <1>1, <2>1, <2>3
    <3>3. data[i] \in {"yes", "no"} /\ (data[i] = "no" \/ \E u \in Part!Paths : i \in RightCells(task[u]))
      BY <3>1 DEF SidesInv
    <3>4. i \notin RightCells(task[t])
      BY <1>1, <2>3
    <3> QED
      BY <3>2, <3>3, <3>4
  <2> QED
    BY <2>2, <2>3
<1> QED
  BY <1>3, <1>4 DEF SidesInv

\* What is counted then.
LEMMA ClaimCounted ==
  ASSUME BlocksInv, NEW t \in Part!Paths,
         NEW nlm \in Int, NEW nrm \in Int, lmove <= nlm, nlm <= nrm, nrm <= rmove,
         NEW nt, \A u \in Part!Paths : u # t => nt[u] = task[u],
         NEW S, NEW T, NEW P, NEW Q, NEW N, Through(t, nt[t], S, T, P, Q, N, nlm, nrm)
  PROVE  /\ Counted(nt, N, nlm, nrm) = Counted(task, data, lmove, rmove) \cup P
         /\ Counted(task, data, lmove, rmove) \cap P = {}
<1> DEFINE v == nt[t]
           w == task[t]
           LV == LeftBlock(v)
           RV == RightBlock(v)
           C == Counted(task, data, lmove, rmove)
           D == Counted(nt, N, nlm, nrm)
<1>1. /\ S = LeftBlock(w) \cup (lmove .. nlm - 1) /\ T = RightBlock(w) \cup (nrm .. rmove - 1)
      /\ S \subseteq 0 .. nlm - 1 /\ T \subseteq nrm .. Size - 1 /\ S \cap T = {}
      /\ S = P \cup LV /\ T = Q \cup RV /\ P \cap LV = {} /\ Q \cap RV = {}
      /\ \A i \in Part!Range0 : IF i \in P THEN N[i] = "yes"
                                ELSE IF i \in Q THEN N[i] = "no" ELSE N[i] = data[i]
      /\ \A i \in S \cup T : data[i] \in {"yes", "no"}
  BY DEF Through
<1>2. lmove \in Nat /\ rmove \in Int /\ rmove <= Size /\ Size \in Nat
  BY EndsApart
<1>3. \A u \in Part!Paths :
        /\ LeftBlock(task[u]) \subseteq 0 .. lmove - 1 /\ RightBlock(task[u]) \subseteq rmove .. Size - 1
        /\ u # t => /\ LeftBlock(task[u]) \cap LeftBlock(w) = {}
                    /\ RightBlock(task[u]) \cap RightBlock(w) = {}
  BY DEF BlocksInv, CellsInv, LeftCells, RightCells
<1>4. \A u \in Part!Paths : u # t => LeftBlock(nt[u]) = LeftBlock(task[u]) /\ RightBlock(nt[u]) = RightBlock(task[u])
  OBVIOUS
<1> HIDE DEF v, w, LV, RV, C, D
<1>5. ASSUME NEW i \in Part!Range0 PROVE i \in C => i \notin S /\ i \notin T
  <2> SUFFICES ASSUME i \in C PROVE i \notin S /\ i \notin T
    OBVIOUS
  <2>1. (i < lmove \/ i >= rmove) /\ i \notin LeftBlock(w) /\ i \notin RightBlock(w)
    BY DEF C, Counted, w
  <2>2. i \notin lmove .. nlm - 1 /\ i \notin nrm .. rmove - 1
    BY <1>2, <2>1
  <2> QED
    BY <1>1, <2>1, <2>2
<1>6. ASSUME NEW i \in Part!Range0, i \in C PROVE i \in D
  <2>1. i \notin S /\ i \notin T
    BY <1>5, <1>6
  <2>2. /\ i < lmove \/ i >= rmove
        /\ data[i] = "yes"
        /\ \A u \in Part!Paths : i \notin LeftBlock(task[u]) /\ i \notin RightBlock(task[u])
    BY <1>6 DEF C, Counted
  <2>3. N[i] = "yes"
    BY <1>1, <2>1, <2>2
  <2>4. i < nlm \/ i >= nrm
    BY <1>2, <2>2 DEF Part!Range0
  <2>5. i \notin LV /\ i \notin RV
    BY <1>1, <2>1
  <2>6. \A u \in Part!Paths : i \notin LeftBlock(nt[u]) /\ i \notin RightBlock(nt[u])
    BY <1>4, <2>2, <2>5 DEF LV, RV, v
  <2> QED
    BY <2>3, <2>4, <2>6 DEF D, Counted
<1>7. ASSUME NEW i \in P PROVE i \in D /\ i \in Part!Range0 /\ i \notin C
  <2>1. i \in S /\ i \notin T /\ i \notin LV /\ i \notin RV
    BY <1>1
  <2>2. i \in 0 .. nlm - 1 /\ i \in Part!Range0
    <3>1. i \in 0 .. nlm - 1
      BY <1>1, <2>1
    <3> QED
      BY <1>2, <3>1 DEF Part!Range0
  <2>3. N[i] = "yes" /\ i < nlm
    BY <1>1, <2>2
  <2>4. ASSUME NEW u \in Part!Paths
        PROVE  i \notin LeftBlock(nt[u]) /\ i \notin RightBlock(nt[u])
    <3>1. CASE u = t
      BY <2>1, <3>1 DEF LV, RV, v
    <3>2. CASE u # t
      <4>1. i \notin RightBlock(task[u])
        <5>1. i \notin rmove .. Size - 1
          BY <1>2, <2>2
        <5> QED
          BY <1>3, <5>1
      <4>2. i \notin LeftBlock(task[u])
        <5>1. CASE i \in LeftBlock(w)
          BY <1>3, <3>2, <5>1
        <5>2. CASE i \in lmove .. nlm - 1
          <6>1. i \notin 0 .. lmove - 1
            BY <1>2, <5>2
          <6> QED
            BY <1>3, <6>1
        <5> QED
          BY <1>1, <2>1, <5>1, <5>2
      <4> QED
        BY <1>4, <3>2, <4>1, <4>2
    <3> QED
      BY <3>1, <3>2
  <2>5. i \in D
    BY <2>2, <2>3, <2>4 DEF D, Counted
  <2> QED
    BY <1>5, <2>1, <2>2, <2>5
<1>8. ASSUME NEW i \in Part!Range0, i \in D PROVE i \in C \/ i \in P
  <2>1. /\ i < nlm \/ i >= nrm
        /\ N[i] = "yes"
        /\ \A u \in Part!Paths : i \notin LeftBlock(nt[u]) /\ i \notin RightBlock(nt[u])
    BY <1>8 DEF D, Counted
  <2>2. i \notin LV /\ i \notin RV
    BY <2>1 DEF LV, RV, v
  <2>3. CASE i \in S
    BY <1>1, <2>2, <2>3
  <2>4. CASE i \in T
    BY <1>1, <2>1, <2>2, <2>4
  <2>5. CASE i \notin S /\ i \notin T
    <3>1. i < lmove \/ i >= rmove
      <4>1. i \notin lmove .. nlm - 1 /\ i \notin nrm .. rmove - 1
        BY <1>1, <2>5
      <4> QED
        BY <1>2, <2>1, <4>1 DEF Part!Range0
    <3>2. data[i] = "yes"
      BY <1>1, <2>1, <2>5
    <3>3. \A u \in Part!Paths : i \notin LeftBlock(task[u]) /\ i \notin RightBlock(task[u])
      BY <1>1, <1>4, <2>1, <2>5 DEF w
    <3> QED
      BY <3>1, <3>2, <3>3 DEF C, Counted
  <2> QED
    BY <2>3, <2>4, <2>5
<1>9. C \subseteq Part!Range0 /\ D \subseteq Part!Range0
  BY DEF C, D, Counted
<1>10. D = C \cup P /\ C \cap P = {}
  BY <1>6, <1>7, <1>8, <1>9
<1> QED
  BY <1>10 DEF C, D

\* What is to be counted is finite.
LEMMA CountedFinite ==
  ASSUME NEW tk, NEW d, NEW lm, NEW rm
  PROVE  IsFiniteSet(Part!Range0) /\ IsFiniteSet(Counted(tk, d, lm, rm))
<1>1. IsFiniteSet(Part!Range0)
  <2>1. 0 \in Int /\ Size - 1 \in Int
    BY OpenedFacts
  <2> QED
    BY <2>1, FS_Interval DEF Part!Range0
<1>2. Counted(tk, d, lm, rm) \subseteq Part!Range0
  BY DEF Counted
<1> QED
  BY <1>1, <1>2, FS_Subset

\* A claim counts the elements of the left block that it has passed.
LEMMA ClaimSort ==
  ASSUME BlocksInv, SortInv, NEW t \in Part!Paths, Part!ClaimLeft(t) \/ Part!ClaimRight(t)
  PROVE  SortInv'
<1> SUFFICES ASSUME Good(task')
             PROVE  /\ SidesInv(task', data', lmove', rmove')
                    /\ OnesInv(task', data', lmove', rmove', rtrue')
                    /\ EndInv'
  BY DEF SortInv
<1>1. PICK lb \in Int, le \in Int, re \in Int, rb \in Int :
        /\ Claims(t, lb, le, re, rb, lmove', rmove')
        /\ lmove' \in Int /\ rmove' \in Int
        /\ UNCHANGED <<openThreads, size, rtrue, answer>>
        /\ \/ Part!Goto(t, "failed") /\ data' = data
           \/ /\ task' = [u \in Part!Paths |-> task'[u]]
              /\ \A u \in Part!Paths : u # t => task'[u] = task[u]
              /\ \E l, r \in Int : Scanned(t, lb, le, rb, re, l, r, task'[t], data')
  BY ClaimFacts
<1>2. ~Part!Goto(t, "failed")
  <2> SUFFICES ASSUME Part!Goto(t, "failed") PROVE FALSE
    OBVIOUS
  <2>1. "failed" \in PCs /\ TypeInv
    BY DEF PCs, BlocksInv
  <2>2. task'[t].pc = "failed"
    BY <2>1, GotoFacts
  <2> QED
    BY <2>2 DEF Good
<1>3. PICK l \in Int, r \in Int : Scanned(t, lb, le, rb, re, l, r, task'[t], data')
  BY <1>1, <1>2
<1>4. \A u \in Part!Paths : u # t => task'[u] = task[u]
  BY <1>1, <1>2
<1> DEFINE S == lb .. le - 1
           T == re + 1 .. rb
           P == lb .. l - 1
           Q == r + 1 .. rb
           C == Counted(task, data, lmove, rmove)
           D == Counted(task', data', lmove', rmove')
<1>5. Through(t, task'[t], S, T, P, Q, data', lmove', rmove')
  <2> DEFINE nlm == lmove'
             nrm == rmove'
             v == task'[t]
             N == data'
  <2> HIDE DEF nlm, nrm, v, N
  <2>1. /\ nlm \in Int /\ nrm \in Int /\ Claims(t, lb, le, re, rb, nlm, nrm)
        /\ Scanned(t, lb, le, rb, re, l, r, v, N)
    BY <1>1, <1>3 DEF nlm, nrm, v, N
  <2>2. Through(t, v, lb .. le - 1, re + 1 .. rb, lb .. l - 1, r + 1 .. rb, N, nlm, nrm)
    BY <2>1, ThroughFacts
  <2> QED
    BY <2>2 DEF nlm, nrm, v, N
<1>6. /\ task[t].pc = "claim" /\ lmove <= lmove' /\ lmove' <= rmove' /\ rmove' <= rmove
      /\ lmove' \in Int /\ rmove' \in Int /\ size' = size /\ rtrue' = rtrue
  BY <1>1 DEF Claims
<1>7. /\ task'[t].pc = "test" /\ task'[t].trues = task[t].trues + (l - lb)
      /\ l \in lb .. le
  BY <1>3 DEF Scanned, PassedTo
<1>8. Good(task)
  BY <1>4, <1>6 DEF Good
<1>9. SidesInv(task, data, lmove, rmove) /\ OnesInv(task, data, lmove, rmove, rtrue) /\ EndInv
  BY <1>8 DEF SortInv
<1>10. SidesInv(task', data', lmove', rmove')
  <2> DEFINE nlm == lmove'
             nrm == rmove'
             nt == task'
             N == data'
  <2>1. /\ nlm \in Int /\ nrm \in Int /\ lmove <= nlm /\ nlm <= nrm /\ nrm <= rmove
        /\ \A u \in Part!Paths : u # t => nt[u] = task[u]
        /\ Through(t, nt[t], S, T, P, Q, N, nlm, nrm)
    BY <1>4, <1>5, <1>6
  <2> HIDE DEF nlm, nrm, nt, N, S, T, P, Q
  <2>2. SidesInv(nt, N, nlm, nrm)
    BY <1>9, <2>1, ClaimSides
  <2> QED
    BY <2>2 DEF nlm, nrm, nt, N
<1>11. D = C \cup P /\ C \cap P = {}
  <2> DEFINE nlm == lmove'
             nrm == rmove'
             nt == task'
             N == data'
  <2>1. /\ nlm \in Int /\ nrm \in Int /\ lmove <= nlm /\ nlm <= nrm /\ nrm <= rmove
        /\ \A u \in Part!Paths : u # t => nt[u] = task[u]
        /\ Through(t, nt[t], S, T, P, Q, N, nlm, nrm)
    BY <1>4, <1>5, <1>6
  <2> HIDE DEF nlm, nrm, nt, N, S, T, P, Q
  <2>2. /\ Counted(nt, N, nlm, nrm) = Counted(task, data, lmove, rmove) \cup P
        /\ Counted(task, data, lmove, rmove) \cap P = {}
    BY <2>1, ClaimCounted
  <2> QED
    BY <2>2 DEF nlm, nrm, nt, N
<1>12. IsFiniteSet(P) /\ Cardinality(P) = l - lb /\ l - lb \in Nat
  <2>1. lb \in Int /\ l - 1 \in Int /\ l - lb \in Nat /\ (lb > l - 1 => l - lb = 0)
        /\ l - 1 - lb + 1 = l - lb
    BY <1>7
  <2>2. IsFiniteSet(P) /\ Cardinality(P) = IF lb > l - 1 THEN 0 ELSE l - 1 - lb + 1
    BY <2>1, FS_Interval
  <2> QED
    BY <2>1, <2>2
<1>13. OnesInv(task', data', lmove', rmove', rtrue')
  <2> DEFINE nt == task'
             x == Cardinality(C)
             m == Cardinality(TrueOnes(task))
             n == Cardinality(TrueOnes(nt))
             k == task[t].trues
             j == nt[t].trues
             p == l - lb
  <2>1. IsFiniteSet(TrueOnes(task)) /\ rtrue \in Nat /\ m + rtrue = x
    BY <1>9 DEF OnesInv
  <2>2. k \in Nat /\ j \in Nat /\ j = k + p
    <3>1. k \in Nat
      BY DEF BlocksInv, TypeInv, Shape, TaskRec
    <3> QED
      BY <1>7, <1>12, <3>1
  <2>3. \A u \in Part!Paths : u # t => nt[u].trues = task[u].trues
    BY <1>4
  <2> HIDE DEF nt
  <2>4. IsFiniteSet(TrueOnes(nt)) /\ n = m + j - k
    BY <2>1, <2>2, <2>3, TruesChange
  <2>5. IsFiniteSet(C)
    BY CountedFinite
  <2> HIDE DEF C, D, P
  <2>6. Cardinality(D) = x + p
    <3>1. Cardinality(D) = Cardinality(C) + Cardinality(P) - Cardinality(C \cap P)
      BY <1>11, <1>12, <2>5, FS_Union
    <3>2. Cardinality(C \cap P) = 0
      BY <1>11, FS_EmptySet
    <3>3. Cardinality(C) \in Nat
      BY <2>5, FS_CardinalityType
    <3> QED
      BY <1>12, <3>1, <3>2, <3>3
  <2>7. x \in Nat /\ m \in Nat /\ p \in Nat
    BY <1>12, <2>1, <2>5, FS_CardinalityType
  <2> HIDE DEF x, m, n, k, j, p
  <2>8. n + rtrue = x + p
    BY <2>1, <2>2, <2>4, <2>7
  <2>9. n + rtrue' = Cardinality(D)
    BY <1>6, <2>6, <2>8
  <2> QED
    BY <1>6, <2>1, <2>4, <2>9 DEF OnesInv, D, n, nt
<1>14. EndInv'
  BY <1>4, <1>6, <1>7, <1>9 DEF EndInv
<1> QED
  BY <1>10, <1>13, <1>14

\* A task that ends counts what is left in its blocks.
LEMMA FinishSort ==
  ASSUME BlocksInv, SortInv, NEW t \in Part!Paths, Part!Finish(t)
  PROVE  SortInv'
<1> SUFFICES ASSUME Good(task')
             PROVE  /\ SidesInv(task', data', lmove', rmove')
                    /\ OnesInv(task', data', lmove', rmove', rtrue')
                    /\ EndInv'
  BY DEF SortInv
<1> DEFINE w == task[t]
           v == task'[t]
           S == LeftBlock(w)
           T == RightBlock(w)
           s == Part!Picked(Part!Up(w.lbs, w.lbe) \o Part!Down(w.rbs, w.rbe), "yes")
           C == Counted(task, data, lmove, rmove)
           D == Counted(task', data', lmove', rmove')
           Y == {i \in S \cup T : data[i] = "yes"}
<1>1. /\ w.pc = "finish" /\ \A u \in Part!Paths : u # t => task'[u] = task[u]
      /\ HandedOn(w, v)
  BY FinishFacts DEF BlocksInv
<1>2. /\ data' = data /\ size' = size /\ lmove' = lmove /\ rmove' = rmove
      /\ rtrue' = rtrue + w.trues + Len(s)
  BY DEF Part!Finish
<1>3. Good(task)
  BY <1>1 DEF Good
<1>4. SidesInv(task, data, lmove, rmove) /\ OnesInv(task, data, lmove, rmove, rtrue) /\ EndInv
  BY <1>3 DEF SortInv
<1>5. Shape(w)
  BY DEF BlocksInv, TypeInv
<1>6. /\ LeftCells(v) = S /\ RightCells(v) = T /\ LeftBlock(v) = {} /\ RightBlock(v) = {}
      /\ v.trues = 0 /\ v.pc = "done"
  <2>1. /\ v.pc = "done" /\ Shape(v) /\ Cells(v.left) = S /\ Cells(v.right) = T
    BY <1>1 DEF HandedOn
  <2> HIDE DEF v
  <2>2. v.pc \notin Working
    BY <2>1 DEF Working
  <2> QED
    BY <2>1, <2>2, RestingCells
<1>7. LeftCells(w) = S /\ RightCells(w) = T
  <2>1. w.left = <<>> /\ w.right = <<>>
    BY <1>1, <1>5 DEF Shape
  <2>2. Cells(<<>>) = {}
    <3>1. DOMAIN <<>> = {}
      OBVIOUS
    <3> QED
      BY <3>1 DEF Cells
  <2> QED
    BY <2>1, <2>2 DEF LeftCells, RightCells
<1>8. SidesInv(task', data', lmove', rmove')
  <2>1. \A u \in Part!Paths : LeftCells(task'[u]) = LeftCells(task[u]) /\ RightCells(task'[u]) = RightCells(task[u])
    BY <1>1, <1>6, <1>7
  <2> QED
    BY <1>2, <1>4, <2>1 DEF SidesInv
<1>9. IsFiniteSet(Y) /\ Cardinality(Y) = Len(s) /\ Len(s) \in Nat
  <2> DEFINE p == Part!Up(w.lbs, w.lbe)
             q == Part!Down(w.rbs, w.rbe)
             A == w.lbs .. w.lbe - 1
             B == w.rbe + 1 .. w.rbs
  <2>1. /\ w.lbs \in Int /\ w.lbe \in Int /\ w.rbs \in Int /\ w.rbe \in Int
        /\ w.lbs <= w.lbe /\ w.rbe <= w.rbs /\ (w.lbs = w.lbe \/ w.rbs = w.rbe)
    BY <1>5 DEF Shape, TaskRec
  <2>2. Lists(p, A) /\ Lists(q, B)
    BY <2>1, UpLists, DownLists
  <2>3. A \cap B = {} /\ S = A /\ T = B
    BY <2>1 DEF LeftBlock, RightBlock
  <2> HIDE DEF p, q, A, B
  <2>4. Lists(p \o q, A \cup B)
    BY <2>2, <2>3, ListsBoth
  <2>5. Finds(Part!Picked(p \o q, "yes"), data, A \cup B, "yes")
    BY <2>4, PickedFinds
  <2>6. Finds(s, data, S \cup T, "yes")
    BY <2>3, <2>5 DEF p, q
  <2> DEFINE U == S \cup T
  <2>7. Finds(s, data, U, "yes") /\ \A i : i \in Y <=> i \in U /\ data[i] = "yes"
    BY <2>6
  <2> HIDE DEF s, S, T, U, Y
  <2> QED
    BY <2>7, FindsCard
<1>10. lmove \in Nat /\ rmove \in Int /\ lmove <= rmove /\ rmove <= Size /\ Size \in Nat
  BY EndsApart
<1>11. \A u \in Part!Paths :
         /\ LeftBlock(task[u]) \subseteq 0 .. lmove - 1 /\ RightBlock(task[u]) \subseteq rmove .. Size - 1
         /\ u # t => LeftBlock(task[u]) \cap S = {} /\ RightBlock(task[u]) \cap T = {}
  BY DEF BlocksInv, CellsInv, LeftCells, RightCells
<1> HIDE DEF w, v, S, T, s, C, D, Y
<1>12. ASSUME NEW i \in Y PROVE i \in D /\ i \notin C /\ i \in Part!Range0
  <2>1. i \in S \cup T /\ data[i] = "yes"
    BY DEF Y
  <2>2. S \subseteq 0 .. lmove - 1 /\ T \subseteq rmove .. Size - 1
    BY <1>11 DEF S, T, w
  <2>3. (i < lmove \/ i >= rmove) /\ i \in Part!Range0
    BY <1>10, <2>1, <2>2 DEF Part!Range0
  <2>4. i \in S => i \notin rmove .. Size - 1
    BY <1>10, <2>2
  <2>5. i \in T => i \notin 0 .. lmove - 1
    BY <1>10, <2>2
  <2>6. \A u \in Part!Paths : u # t => i \notin LeftBlock(task[u]) /\ i \notin RightBlock(task[u])
    BY <1>11, <2>1, <2>4, <2>5
  <2>7. \A u \in Part!Paths : i \notin LeftBlock(task'[u]) /\ i \notin RightBlock(task'[u])
    BY <1>1, <1>6, <2>6 DEF v
  <2>8. i \in D
    BY <1>2, <2>1, <2>3, <2>7 DEF D, Counted
  <2>9. i \notin C
    BY <2>1 DEF C, Counted, S, T, w
  <2> QED
    BY <2>3, <2>8, <2>9
<1>13. ASSUME NEW i \in Part!Range0 PROVE i \in C => i \in D
  <2> SUFFICES ASSUME i \in C PROVE i \in D
    OBVIOUS
  <2>1. /\ i < lmove \/ i >= rmove
        /\ data[i] = "yes"
        /\ \A u \in Part!Paths : i \notin LeftBlock(task[u]) /\ i \notin RightBlock(task[u])
    BY DEF C, Counted
  <2>2. \A u \in Part!Paths : i \notin LeftBlock(task'[u]) /\ i \notin RightBlock(task'[u])
    BY <1>1, <1>6, <2>1 DEF v
  <2> QED
    BY <1>2, <2>1, <2>2 DEF D, Counted
<1>14. ASSUME NEW i \in Part!Range0 PROVE i \in D => i \in C \/ i \in Y
  <2> SUFFICES ASSUME i \in D, i \notin Y PROVE i \in C
    OBVIOUS
  <2>1. /\ i < lmove \/ i >= rmove
        /\ data[i] = "yes"
        /\ \A u \in Part!Paths : i \notin LeftBlock(task'[u]) /\ i \notin RightBlock(task'[u])
    BY <1>2 DEF D, Counted
  <2>2. i \notin S /\ i \notin T
    BY <2>1 DEF Y
  <2>3. \A u \in Part!Paths : i \notin LeftBlock(task[u]) /\ i \notin RightBlock(task[u])
    BY <1>1, <2>1, <2>2 DEF S, T, w
  <2> QED
    BY <2>1, <2>3 DEF C, Counted
<1>15. D = C \cup Y /\ C \cap Y = {}
  <2>1. C \subseteq Part!Range0 /\ D \subseteq Part!Range0
    BY DEF C, D, Counted
  <2> QED
    BY <1>12, <1>13, <1>14, <2>1
<1>16. OnesInv(task', data', lmove', rmove', rtrue')
  <2> DEFINE nt == task'
             x == Cardinality(C)
             m == Cardinality(TrueOnes(task))
             n == Cardinality(TrueOnes(nt))
             k == task[t].trues
             p == Len(s)
  <2>1. IsFiniteSet(TrueOnes(task)) /\ rtrue \in Nat /\ m + rtrue = x
    BY <1>4 DEF OnesInv, C
  <2>2. k \in Nat /\ nt[t].trues = 0
    <3>1. k \in Nat
      BY <1>5 DEF Shape, TaskRec, w
    <3> QED
      BY <1>6, <3>1 DEF v
  <2>3. \A u \in Part!Paths : u # t => nt[u].trues = task[u].trues
    BY <1>1
  <2>4. rtrue' = rtrue + k + p
    BY <1>2 DEF w
  <2> HIDE DEF nt
  <2>5. IsFiniteSet(TrueOnes(nt)) /\ n = m + nt[t].trues - k
    <3>1. nt[t].trues \in Nat
      BY <2>2
    <3> QED
      BY <2>1, <2>2, <2>3, <3>1, TruesChange
  <2>6. IsFiniteSet(C)
    BY CountedFinite DEF C
  <2>7. Cardinality(D) = x + p
    <3>1. Cardinality(D) = Cardinality(C) + Cardinality(Y) - Cardinality(C \cap Y)
      BY <1>9, <1>15, <2>6, FS_Union
    <3>2. Cardinality(C \cap Y) = 0
      BY <1>15, FS_EmptySet
    <3>3. Cardinality(C) \in Nat
      BY <2>6, FS_CardinalityType
    <3> QED
      BY <1>9, <3>1, <3>2, <3>3
  <2>8. x \in Nat /\ m \in Nat /\ p \in Nat
    BY <1>9, <2>1, <2>6, FS_CardinalityType
  <2> HIDE DEF x, m, n, k, p
  <2>9. n + rtrue' = x + p /\ rtrue' \in Nat
    BY <2>1, <2>2, <2>4, <2>5, <2>8
  <2> QED
    BY <2>5, <2>7, <2>9 DEF OnesInv, D, n, nt
<1>17. EndInv'
  BY <1>1, <1>2, <1>4 DEF EndInv, w
<1> QED
  BY <1>8, <1>16, <1>17

\* A fork exchanges as many elements as its subtasks have left wrong on one side.
LEMMA JoinSort ==
  ASSUME BlocksInv, SortInv, NEW t \in Part!Paths, Part!JoinTasks(t)
  PROVE  SortInv'
<1> SUFFICES ASSUME Good(task')
             PROVE  /\ SidesInv(task', data', lmove', rmove')
                    /\ OnesInv(task', data', lmove', rmove', rtrue')
                    /\ EndInv'
  BY DEF SortInv
<1> DEFINE c == Append(t, 1)
           d == Append(t, 2)
           v == task'[t]
           C == Counted(task, data, lmove, rmove)
           D == Counted(task', data', lmove', rmove')
<1> HIDE DEF c, d
<1>1. /\ c \in Part!Paths /\ d \in Part!Paths /\ c # d /\ c # t /\ d # t
      /\ task[t].pc = "forked" /\ task[c].pc = "done" /\ task[d].pc = "done"
      /\ task' = [u \in Part!Paths |-> task'[u]]
      /\ task'[c] = Part!Idle /\ task'[d] = Part!Idle
      /\ \A u \in Part!Paths : u # t /\ u # c /\ u # d => task'[u] = task[u]
      /\ v.pc = "done" /\ Shape(v)
      /\ \E bs, cs \in Seq(Int \X Int) :
           /\ Cells(bs) = Cells(task[c].left) \cup Cells(task[d].left)
           /\ Cells(cs) = Cells(task[c].right) \cup Cells(task[d].right)
           /\ Cells(bs) \cap Cells(cs) = {}
           /\ JoinedTo(bs, cs, v.left, v.right, data')
           /\ \E ls, rs, k : Exchanged(data', ls, Cells(bs), rs, Cells(cs), k)
      /\ data' \in [Part!Range0 -> {"yes", "no", "bad"}]
  BY JoinTasksFacts DEF c, d
<1>2. PICK bs \in Seq(Int \X Int), cs \in Seq(Int \X Int) :
        /\ Cells(bs) = Cells(task[c].left) \cup Cells(task[d].left)
        /\ Cells(cs) = Cells(task[c].right) \cup Cells(task[d].right)
        /\ Cells(bs) \cap Cells(cs) = {}
        /\ JoinedTo(bs, cs, v.left, v.right, data')
        /\ \E ls, rs, k : Exchanged(data', ls, Cells(bs), rs, Cells(cs), k)
  BY <1>1
<1>3. PICK ls, rs, k : Exchanged(data', ls, Cells(bs), rs, Cells(cs), k)
  BY <1>2
<1> DEFINE X == Cells(bs)
           Z == Cells(cs)
           H == Head_(ls, k)
           J == Head_(rs, k)
           L == Cells(v.left)
           R == Cells(v.right)
<1>4. /\ X = Cells(task[c].left) \cup Cells(task[d].left)
      /\ Z = Cells(task[c].right) \cup Cells(task[d].right)
      /\ L \subseteq X /\ R \subseteq Z
      /\ \A i \in Part!Range0 : i \notin X /\ i \notin Z => data'[i] = data[i]
      /\ \A i \in Part!Range0 :
           /\ data'[i] \in {"yes", "no", data[i]}
           /\ i \in X /\ i \notin L /\ data[i] \in {"yes", "no"} => data'[i] = "yes"
           /\ i \in Z /\ i \notin R /\ data[i] \in {"yes", "no"} => data'[i] = "no"
  BY <1>2 DEF JoinedTo
<1>5. /\ \A i \in Part!Range0 :
           data'[i] = IF i \in H THEN "yes" ELSE IF i \in J THEN "no" ELSE data[i]
      /\ H \subseteq X /\ J \subseteq Z
      /\ \A i \in H : data[i] = "no"
      /\ \A i \in J : data[i] = "yes"
      /\ IsFiniteSet(H) /\ Cardinality(H) = k /\ IsFiniteSet(J) /\ Cardinality(J) = k /\ k \in Nat
  BY <1>3 DEF Exchanged
<1>6. size' = size /\ lmove' = lmove /\ rmove' = rmove /\ rtrue' = rtrue
  BY DEF Part!JoinTasks, Part!counters
<1>7. \A u \in Part!Paths : Shape(task[u])
  BY DEF BlocksInv, TypeInv
<1>8. /\ LeftCells(v) = L /\ RightCells(v) = R
      /\ LeftBlock(v) = {} /\ RightBlock(v) = {} /\ v.trues = 0
  <2>1. v.pc \notin Working
    BY <1>1 DEF Working
  <2> HIDE DEF v
  <2> QED
    BY <1>1, <2>1, RestingCells
<1> HIDE DEF v
<1>9. /\ LeftBlock(task[t]) = {} /\ RightBlock(task[t]) = {} /\ task[t].trues = 0
      /\ LeftCells(task[t]) = {} /\ RightCells(task[t]) = {}
  <2> DEFINE w == task[t]
  <2>1. Shape(w) /\ w.pc \notin Working /\ w.pc # "done"
    BY <1>1, <1>7 DEF Working
  <2> HIDE DEF w
  <2>2. /\ LeftBlock(w) = {} /\ RightBlock(w) = {} /\ w.trues = 0
        /\ LeftCells(w) = {} /\ RightCells(w) = {}
    BY <2>1, RestingCells
  <2> QED
    BY <2>2 DEF w
<1>10. ASSUME NEW u \in {c, d}
       PROVE  /\ LeftBlock(task[u]) = {} /\ RightBlock(task[u]) = {} /\ task[u].trues = 0
              /\ LeftCells(task[u]) = Cells(task[u].left) /\ RightCells(task[u]) = Cells(task[u].right)
              /\ LeftBlock(task'[u]) = {} /\ RightBlock(task'[u]) = {} /\ task'[u].trues = 0
              /\ task'[u].pc = "idle"
  <2> DEFINE w == task[u]
             z == task'[u]
  <2>1. Shape(w) /\ w.pc \notin Working /\ z = Part!Idle /\ "idle" \in PCs \ {"claim"}
    BY <1>1, <1>7 DEF Working, PCs
  <2> HIDE DEF w, z
  <2>2. z = [Part!Idle EXCEPT !.pc = "idle"]
    BY <2>1 DEF Part!Idle
  <2>3. Shape(z) /\ z.pc = "idle"
    BY <2>1, <2>2, IdleFacts
  <2>4. z.pc \notin Working
    BY <2>3 DEF Working
  <2>5. /\ LeftBlock(z) = {} /\ RightBlock(z) = {} /\ z.trues = 0
    BY <2>3, <2>4, RestingCells
  <2>6. /\ LeftBlock(w) = {} /\ RightBlock(w) = {} /\ w.trues = 0
        /\ LeftCells(w) = Cells(w.left) /\ RightCells(w) = Cells(w.right)
    BY <2>1, RestingCells
  <2> QED
    BY <2>3, <2>5, <2>6 DEF w, z
<1>11. Good(task)
  BY <1>1 DEF Good
<1>12. SidesInv(task, data, lmove, rmove) /\ OnesInv(task, data, lmove, rmove, rtrue) /\ EndInv
  BY <1>11 DEF SortInv
<1>13. lmove \in Nat /\ rmove \in Int /\ lmove <= rmove /\ rmove <= Size /\ Size \in Nat
  BY EndsApart
<1>14. /\ X = LeftCells(task[c]) \cup LeftCells(task[d])
       /\ Z = RightCells(task[c]) \cup RightCells(task[d])
  BY <1>4, <1>10
<1>15. X \subseteq 0 .. lmove - 1 /\ Z \subseteq rmove .. Size - 1
  BY <1>1, <1>14 DEF BlocksInv, CellsInv
<1> HIDE DEF X, Z, H, J, L, R
<1>16. \A i \in Part!Range0 : (i < lmove => i \notin Z) /\ (i >= rmove => i \notin X)
  <2> SUFFICES ASSUME NEW i \in Part!Range0 PROVE (i < lmove => i \notin Z) /\ (i >= rmove => i \notin X)
    OBVIOUS
  <2>1. i \in Int
    BY DEF Part!Range0
  <2>2. i \in rmove .. Size - 1 => ~(i < lmove)
    BY <1>13, <2>1
  <2>3. i \in 0 .. lmove - 1 => ~(i >= rmove)
    BY <1>13, <2>1
  <2> QED
    BY <1>15, <2>2, <2>3
<1>17. SidesInv(task', data', lmove', rmove')
  <2>1. ASSUME NEW i \in Part!Range0, i < lmove
        PROVE  data'[i] \in {"yes", "no"}
               /\ (data'[i] = "yes" \/ \E u \in Part!Paths : i \in LeftCells(task'[u]))
    <3>1. data[i] \in {"yes", "no"} /\ (data[i] = "yes" \/ \E u \in Part!Paths : i \in LeftCells(task[u]))
      BY <1>12, <2>1 DEF SidesInv
    <3>2. CASE i \in L
      <4>1. i \in LeftCells(task'[t])
        BY <1>8, <3>2 DEF v
      <4> QED
        BY <1>4, <3>1, <4>1
    <3>3. CASE i \in X /\ i \notin L
      BY <1>4, <3>1, <3>3
    <3>4. CASE i \notin X
      <4>1. data'[i] = data[i]
        BY <1>4, <1>16, <2>1, <3>4
      <4>2. i \notin LeftCells(task[c]) /\ i \notin LeftCells(task[d]) /\ i \notin LeftCells(task[t])
        BY <1>9, <1>14, <3>4
      <4> QED
        BY <1>1, <3>1, <4>1, <4>2
    <3> QED
      BY <3>2, <3>3, <3>4
  <2>2. ASSUME NEW i \in Part!Range0, i >= rmove
        PROVE  data'[i] \in {"yes", "no"}
               /\ (data'[i] = "no" \/ \E u \in Part!Paths : i \in RightCells(task'[u]))
    <3>1. data[i] \in {"yes", "no"} /\ (data[i] = "no" \/ \E u \in Part!Paths : i \in RightCells(task[u]))
      BY <1>12, <2>2 DEF SidesInv
    <3>2. CASE i \in R
      <4>1. i \in RightCells(task'[t])
        BY <1>8, <3>2 DEF v
      <4> QED
        BY <1>4, <3>1, <4>1
    <3>3. CASE i \in Z /\ i \notin R
      BY <1>4, <3>1, <3>3
    <3>4. CASE i \notin Z
      <4>1. data'[i] = data[i]
        BY <1>4, <1>16, <2>2, <3>4
      <4>2. i \notin RightCells(task[c]) /\ i \notin RightCells(task[d]) /\ i \notin RightCells(task[t])
        BY <1>9, <1>14, <3>4
      <4> QED
        BY <1>1, <3>1, <4>1, <4>2
    <3> QED
      BY <3>2, <3>3, <3>4
  <2> QED
    BY <1>6, <2>1, <2>2 DEF SidesInv
<1>18. \A u \in Part!Paths :
         /\ LeftBlock(task'[u]) = LeftBlock(task[u]) /\ RightBlock(task'[u]) = RightBlock(task[u])
         /\ task'[u].trues = task[u].trues
  BY <1>1, <1>8, <1>9, <1>10 DEF v
<1>19. ASSUME NEW i, i \in X \/ i \in Z
       PROVE  /\ i \in Part!Range0 /\ (i < lmove \/ i >= rmove)
              /\ \A u \in Part!Paths : i \notin LeftBlock(task[u]) /\ i \notin RightBlock(task[u])
  <2>0. (i \in X => i \in 0 .. lmove - 1) /\ (i \in Z => i \in rmove .. Size - 1)
    BY <1>15
  <2>1. i \in Part!Range0 /\ (i < lmove \/ i >= rmove)
    <3>1. CASE i \in X
      BY <1>13, <2>0, <3>1 DEF Part!Range0
    <3>2. CASE i \in Z
      BY <1>13, <2>0, <3>2 DEF Part!Range0
    <3> QED
      BY <1>19, <3>1, <3>2
  <2>2. \A u \in Part!Paths :
          /\ LeftBlock(task[u]) \subseteq 0 .. lmove - 1 /\ RightBlock(task[u]) \subseteq rmove .. Size - 1
          /\ u # c /\ u # d => LeftBlock(task[u]) \cap X = {} /\ RightBlock(task[u]) \cap Z = {}
    BY <1>1, <1>14 DEF BlocksInv, CellsInv, LeftCells, RightCells
  <2>3. i \in X => i \notin rmove .. Size - 1
    BY <1>13, <2>0
  <2>4. i \in Z => i \notin 0 .. lmove - 1
    BY <1>13, <2>0
  <2>5. \A u \in Part!Paths : u # c /\ u # d => i \notin LeftBlock(task[u]) /\ i \notin RightBlock(task[u])
    BY <1>19, <2>2, <2>3, <2>4
  <2> QED
    BY <1>10, <2>1, <2>5
<1> HIDE DEF C, D
<1>20. D = (C \ J) \cup H /\ J \subseteq C /\ (C \ J) \cap H = {}
  <2>1. ASSUME NEW i \in J PROVE i \in C
    BY <1>5, <1>19 DEF C, Counted
  <2>2. ASSUME NEW i \in H PROVE i \in D /\ i \notin C
    <3>1. /\ i \in Part!Range0 /\ (i < lmove \/ i >= rmove)
          /\ \A u \in Part!Paths : i \notin LeftBlock(task[u]) /\ i \notin RightBlock(task[u])
      BY <1>5, <1>19
    <3>2. data'[i] = "yes" /\ data[i] = "no"
      BY <1>5, <3>1
    <3>3. i \in D
      BY <1>6, <1>18, <3>1, <3>2 DEF D, Counted
    <3> QED
      BY <3>2, <3>3 DEF C, Counted
  <2>3. ASSUME NEW i \in Part!Range0, i \notin H PROVE i \in D <=> i \in C /\ i \notin J
    <3>1. data'[i] = "yes" <=> data[i] = "yes" /\ i \notin J
      BY <1>5, <2>3
    <3> QED
      BY <1>6, <1>18, <3>1 DEF C, D, Counted
  <2>4. C \subseteq Part!Range0 /\ D \subseteq Part!Range0
    BY DEF C, D, Counted
  <2> QED
    BY <2>1, <2>2, <2>3, <2>4
<1>21. Cardinality(D) = Cardinality(C)
  <2>1. IsFiniteSet(C)
    BY CountedFinite DEF C
  <2>2. IsFiniteSet(C \ J) /\ Cardinality(C \ J) = Cardinality(C) - k
    <3>1. IsFiniteSet(C \ J) /\ Cardinality(C \ J) = Cardinality(C) - Cardinality(C \cap J)
      BY <2>1, FS_Difference
    <3>2. C \cap J = J
      BY <1>20
    <3> QED
      BY <1>5, <3>1, <3>2
  <2>3. Cardinality(D) = Cardinality(C \ J) + Cardinality(H) - Cardinality((C \ J) \cap H)
    BY <1>5, <1>20, <2>2, FS_Union
  <2>4. Cardinality((C \ J) \cap H) = 0
    BY <1>20, FS_EmptySet
  <2>5. Cardinality(C) \in Nat
    BY <2>1, FS_CardinalityType
  <2> QED
    BY <1>5, <2>2, <2>3, <2>4, <2>5
<1>22. OnesInv(task', data', lmove', rmove', rtrue')
  <2>1. TrueOnes(task') = TrueOnes(task)
    BY <1>18 DEF TrueOnes
  <2>2. /\ IsFiniteSet(TrueOnes(task)) /\ rtrue \in Nat
        /\ Cardinality(TrueOnes(task)) + rtrue = Cardinality(C)
    BY <1>12 DEF OnesInv, C
  <2> QED
    BY <1>6, <1>21, <2>1, <2>2 DEF OnesInv, D
<1>23. EndInv'
  <2>1. size <= 0
    BY <1>1, <1>12 DEF EndInv
  <2> QED
    BY <1>6, <2>1 DEF EndInv
<1> QED
  BY <1>17, <1>22, <1>23

-----------------------------------------------------------------------------
(* The answer                                                              *)

\* One more block.
LEMMA AppendBlock ==
  ASSUME NEW bs \in Seq(Int \X Int), Separate(bs), NEW b \in Int, NEW e \in Int, b < e,
         Cells(bs) \cap (b .. e - 1) = {}
  PROVE  /\ Append(bs, <<b, e>>) \in Seq(Int \X Int) /\ Separate(Append(bs, <<b, e>>))
         /\ Cells(Append(bs, <<b, e>>)) = Cells(bs) \cup (b .. e - 1)
<1> DEFINE s == <<<<b, e>>>>
<1>1. s \in Seq(Int \X Int) /\ Separate(s) /\ Cells(s) = b .. e - 1
  <2>1. b # e
    OBVIOUS
  <2> QED
    BY <2>1, OneBlock
<1>2. Append(bs, <<b, e>>) = bs \o s
  OBVIOUS
<1> HIDE DEF s
<1>3. bs \o s \in Seq(Int \X Int) /\ Separate(bs \o s) /\ Cells(bs \o s) = Cells(bs) \cup Cells(s)
  BY <1>1, BlocksBoth
<1> QED
  BY <1>1, <1>2, <1>3

\* Blocks that are cut keep the cells on one side of the cut.
LEMMA ClippedFacts ==
  ASSUME NEW bs \in Seq(Int \X Int), Separate(bs), NEW f \in [Int -> Int], NEW K \in SUBSET Int,
         \A b, e, i \in Int : i \in f[b] .. f[e] - 1 <=> i \in b .. e - 1 /\ i \in K
  PROVE  /\ Part!Clipped(bs, f) \in Seq(Int \X Int) /\ Separate(Part!Clipped(bs, f))
         /\ Cells(Part!Clipped(bs, f)) = Cells(bs) \cap K
<1> DEFINE s == Part!Clipped(bs, f)
           n == Len(bs)
<1>1. n \in Nat /\ DOMAIN bs = 1 .. n /\ \A j \in 1 .. n : bs[j] \in Int \X Int
  OBVIOUS
<1> HIDE DEF n
<1>2. \A j \in 1 .. n : /\ bs[j][1] \in Int /\ bs[j][2] \in Int
                        /\ f[bs[j][1]] \in Int /\ f[bs[j][2]] \in Int
  BY <1>1
<1>3. /\ DOMAIN s = 1 .. n
      /\ \A j \in 1 .. n : s[j] = <<f[bs[j][1]], f[bs[j][2]]>>
      /\ s = [j \in 1 .. n |-> <<f[bs[j][1]], f[bs[j][2]]>>]
  BY <1>1 DEF Part!Clipped
<1>4. s \in Seq(Int \X Int)
  <2> DEFINE S == Int \X Int
  <2>1. ASSUME NEW j \in 1 .. n PROVE s[j] \in S
    <3>1. s[j] = <<f[bs[j][1]], f[bs[j][2]]>>
      BY <1>3
    <3> DEFINE a == f[bs[j][1]]
               c == f[bs[j][2]]
               y == s[j]
    <3>2. a \in Int /\ c \in Int
      BY <1>2
    <3>3. y = <<a, c>>
      BY <3>1
    <3> HIDE DEF a, c, y
    <3>4. <<a, c>> \in Int \X Int
      BY <3>2
    <3>5. y \in Int \X Int
      BY <3>3, <3>4
    <3> QED
      BY <3>5 DEF y
  <2> HIDE DEF s, S
  <2>2. s = [j \in 1 .. n |-> s[j]]
    BY <1>3
  <2>3. s \in [1 .. n -> S]
    BY <2>1, <2>2
  <2> QED
    BY <1>1, <2>3 DEF S
<1> HIDE DEF s
<1>5. \A j \in 1 .. n : Cell(s[j]) = Cell(bs[j]) \cap K
  <2> SUFFICES ASSUME NEW j \in 1 .. n PROVE Cell(s[j]) = Cell(bs[j]) \cap K
    OBVIOUS
  <2> DEFINE b == bs[j][1]
             e == bs[j][2]
  <2>1. Cell(s[j]) = f[b] .. f[e] - 1 /\ Cell(bs[j]) = b .. e - 1 /\ b \in Int /\ e \in Int
        /\ f[b] \in Int /\ f[e] \in Int
    BY <1>2, <1>3 DEF Cell
  <2> HIDE DEF b, e
  <2>2. \A i \in Int : i \in f[b] .. f[e] - 1 <=> i \in b .. e - 1 /\ i \in K
    BY <2>1
  <2>3. f[b] .. f[e] - 1 \subseteq Int /\ b .. e - 1 \subseteq Int
    BY <2>1
  <2> QED
    BY <2>1, <2>2, <2>3
<1>6. Separate(s)
  BY <1>1, <1>3, <1>5 DEF Separate
<1>7. Cells(s) = Cells(bs) \cap K
  <2>1. ASSUME NEW i \in Int
        PROVE  (\E j \in 1 .. n : i \in Cell(s[j])) <=> (\E j \in 1 .. n : i \in Cell(bs[j])) /\ i \in K
    <3>1. ASSUME NEW j \in 1 .. n PROVE i \in Cell(s[j]) <=> i \in Cell(bs[j]) /\ i \in K
      <4>1. Cell(s[j]) = Cell(bs[j]) \cap K
        BY <1>5
      <4> DEFINE x == Cell(s[j])
                 y == Cell(bs[j])
      <4> HIDE DEF x, y
      <4>2. x = y \cap K
        BY <4>1 DEF x, y
      <4>3. i \in x <=> i \in y /\ i \in K
        BY <4>2
      <4> QED
        BY <4>3 DEF x, y
    <3> QED
      BY <3>1
  <2>2. /\ Cells(s) = {i \in Int : \E j \in 1 .. n : i \in Cell(s[j])}
        /\ Cells(bs) = {i \in Int : \E j \in 1 .. n : i \in Cell(bs[j])}
    BY <1>1, <1>3 DEF Cells
  <2> QED
    BY <2>1, <2>2
<1> QED
  BY <1>4, <1>6, <1>7 DEF s

\* What is wrong is in the blocks on either side of r, and the relation holds
\* for r elements.
EndReady(r, bs, cs) ==
  /\ r \in Nat /\ r <= Size /\ Size \in Nat
  /\ \A i \in Part!Range0 : data[i] \in {"yes", "no"}
  /\ Cardinality({i \in Part!Range0 : data[i] = "yes"}) = r
  /\ bs \in Seq(Int \X Int) /\ Separate(bs) /\ cs \in Seq(Int \X Int) /\ Separate(cs)
  /\ Cells(bs) \subseteq 0 .. r - 1 /\ Cells(cs) \subseteq r .. Size - 1
  /\ \A i \in 0 .. r - 1 : data[i] = "no" => i \in Cells(bs)
  /\ \A i \in r .. Size - 1 : data[i] = "yes" => i \in Cells(cs)

\* Then the exchange puts everything right.
LEMMA EndExchange ==
  ASSUME NEW r, NEW bs, NEW cs, EndReady(r, bs, cs),
         NEW ls, ls = Part!Picked(Part!Positions(bs), "no"),
         NEW rs, rs = Part!Picked(Part!Positions(cs), "yes")
  PROVE  \A i \in Part!Range0 : Part!Swapped(ls, rs)[i] = IF i < r THEN "yes" ELSE "no"
<1>0. /\ r \in Nat /\ r <= Size /\ Size \in Nat
      /\ \A i \in Part!Range0 : data[i] \in {"yes", "no"}
      /\ Cardinality({i \in Part!Range0 : data[i] = "yes"}) = r
      /\ bs \in Seq(Int \X Int) /\ Separate(bs) /\ cs \in Seq(Int \X Int) /\ Separate(cs)
      /\ Cells(bs) \subseteq 0 .. r - 1 /\ Cells(cs) \subseteq r .. Size - 1
      /\ \A i \in 0 .. r - 1 : data[i] = "no" => i \in Cells(bs)
      /\ \A i \in r .. Size - 1 : data[i] = "yes" => i \in Cells(cs)
  BY DEF EndReady
<1> USE <1>0
<1> DEFINE A == {i \in 0 .. r - 1 : data[i] = "no"}
           Y == {i \in 0 .. r - 1 : data[i] = "yes"}
           B == {i \in r .. Size - 1 : data[i] = "yes"}
           k == Part!Pairs(ls, rs)
           N == Part!Swapped(ls, rs)
<1>1. Finds(ls, data, Cells(bs), "no") /\ Finds(rs, data, Cells(cs), "yes")
  BY PositionsList, PickedFinds
<1>2. Exchanged(N, ls, Cells(bs), rs, Cells(cs), k)
  BY <1>1, SwappedFacts
<1>3. A = {i \in Cells(bs) : data[i] = "no"} /\ B = {i \in Cells(cs) : data[i] = "yes"}
  OBVIOUS
<1>4. /\ Len(ls) \in Nat /\ Head_(ls, Len(ls)) = A /\ IsFiniteSet(A) /\ Cardinality(A) = Len(ls)
  <2>1. \A i : i \in A <=> i \in Cells(bs) /\ data[i] = "no"
    BY <1>3
  <2> HIDE DEF A
  <2> QED
    BY <1>1, <2>1, FindsCard
<1>5. /\ Len(rs) \in Nat /\ Head_(rs, Len(rs)) = B /\ IsFiniteSet(B) /\ Cardinality(B) = Len(rs)
  <2>1. \A i : i \in B <=> i \in Cells(cs) /\ data[i] = "yes"
    BY <1>3
  <2> HIDE DEF B
  <2> QED
    BY <1>1, <2>1, FindsCard
<1>6. /\ 0 .. r - 1 \subseteq Part!Range0 /\ r .. Size - 1 \subseteq Part!Range0
      /\ Part!Range0 = (0 .. r - 1) \cup (r .. Size - 1)
      /\ (0 .. r - 1) \cap (r .. Size - 1) = {}
  BY DEF Part!Range0
<1>7. IsFiniteSet(0 .. r - 1) /\ Cardinality(0 .. r - 1) = r
  <2>1. 0 \in Int /\ r - 1 \in Int /\ (0 > r - 1 => r = 0) /\ r - 1 - 0 + 1 = r
    OBVIOUS
  <2>2. IsFiniteSet(0 .. r - 1) /\ Cardinality(0 .. r - 1) = IF 0 > r - 1 THEN 0 ELSE r - 1 - 0 + 1
    BY <2>1, FS_Interval
  <2> QED
    BY <2>1, <2>2
<1> DEFINE I == 0 .. r - 1
           X == {i \in Part!Range0 : data[i] = "yes"}
<1>8. I = A \cup Y /\ A \cap Y = {}
  BY <1>6
<1>9. X = Y \cup B /\ Y \cap B = {}
  BY <1>6
<1>10. IsFiniteSet(Y)
  <2>1. Y \subseteq I
    OBVIOUS
  <2> HIDE DEF Y, I
  <2> QED
    BY <1>7, <2>1, FS_Subset DEF I
<1> HIDE DEF A, Y, B, I, X
<1>11. Cardinality(A) = Cardinality(B)
  <2>1. Cardinality(I) = Cardinality(A) + Cardinality(Y) - Cardinality(A \cap Y)
    BY <1>4, <1>8, <1>10, FS_Union
  <2>2. Cardinality(X) = Cardinality(Y) + Cardinality(B) - Cardinality(Y \cap B)
    BY <1>5, <1>9, <1>10, FS_Union
  <2>3. Cardinality(A \cap Y) = 0 /\ Cardinality(Y \cap B) = 0
    BY <1>8, <1>9, FS_EmptySet
  <2>4. Cardinality(I) = r /\ Cardinality(X) = r
    BY <1>7 DEF I, X
  <2>5. Cardinality(Y) \in Nat
    BY <1>10, FS_CardinalityType
  <2> QED
    BY <1>4, <1>5, <2>1, <2>2, <2>3, <2>4, <2>5
<1> HIDE DEF k, N
<1>12. k = Len(ls) /\ k = Len(rs)
  BY <1>2, <1>4, <1>5, <1>11 DEF Exchanged
<1>13. \A i \in Part!Range0 : N[i] = IF i \in A THEN "yes" ELSE IF i \in B THEN "no" ELSE data[i]
  BY <1>2, <1>4, <1>5, <1>12 DEF Exchanged
<1>14. ASSUME NEW i \in Part!Range0 PROVE N[i] = IF i < r THEN "yes" ELSE "no"
  <2>1. i < r <=> i \in 0 .. r - 1
    BY DEF Part!Range0
  <2>2. ~(i < r) <=> i \in r .. Size - 1
    BY DEF Part!Range0
  <2>3. i \in A <=> i < r /\ data[i] = "no"
    BY <2>1 DEF A
  <2>4. i \in B <=> ~(i < r) /\ data[i] = "yes"
    BY <2>2 DEF B
  <2>5. data[i] \in {"yes", "no"}
    OBVIOUS
  <2> QED
    BY <1>13, <2>3, <2>4, <2>5
<1> QED
  BY <1>14 DEF N

\* When the first task has ended, everything has been taken, all tasks but it
\* are idle, and only what it holds is wrong.
LEMMA EndState ==
  ASSUME BlocksInv, SortInv, task[Part!First].pc = "done",
         NEW w, w = task[Part!First]
  PROVE  /\ lmove = rmove /\ lmove \in Nat /\ Size \in Nat
         /\ w.left \in Seq(Int \X Int) /\ Separate(w.left) /\ Cells(w.left) \subseteq 0 .. lmove - 1
         /\ w.right \in Seq(Int \X Int) /\ Separate(w.right) /\ Cells(w.right) \subseteq lmove .. Size - 1
         /\ \A i \in Part!Range0 :
              /\ data[i] \in {"yes", "no"}
              /\ i < lmove /\ data[i] = "no" => i \in Cells(w.left)
              /\ i >= lmove /\ data[i] = "yes" => i \in Cells(w.right)
         /\ rtrue \in Nat /\ rtrue <= Size
         /\ Cardinality({i \in Part!Range0 : data[i] = "yes"}) = rtrue
<1> DEFINE f == Part!First
<1>1. f \in Part!Paths /\ w = task[f] /\ w.pc = "done"
  BY TaskFacts
<1>2. /\ TypeInv /\ TreeInv /\ SpaceInv /\ CellsInv(task, lmove, rmove)
      /\ \A u \in Part!Paths : Shape(task[u])
      /\ size \in Int /\ lmove \in Int /\ rmove \in Int
  BY DEF BlocksInv, TypeInv
<1>3. \A u \in Part!Paths : u # f => task[u].pc = "idle"
  BY <1>1, <1>2, TaskFacts DEF TreeInv
<1> HIDE DEF f
<1>4. Good(task)
  BY <1>1, <1>3 DEF Good
<1>5. SidesInv(task, data, lmove, rmove) /\ OnesInv(task, data, lmove, rmove, rtrue) /\ EndInv
  BY <1>4 DEF SortInv
<1>6. size <= 0
  BY <1>1, <1>5 DEF EndInv
<1>7. Pending(task) = {}
  BY <1>1, <1>3 DEF Pending
<1>8. lmove = rmove /\ lmove \in Nat /\ Size \in Nat
  <2>1. Cardinality(Pending(task)) = 0
    BY <1>7, FS_EmptySet
  <2>2. Size \in Nat
    BY OpenedFacts
  <2>3. /\ lmove \in Nat
        /\ Cardinality(Pending(task)) + lmove + (Size - rmove) + (IF size > 0 THEN size ELSE 0) = Size
    BY <1>2 DEF SpaceInv
  <2> QED
    BY <1>2, <1>6, <2>1, <2>2, <2>3
<1>9. \A u \in Part!Paths :
        /\ LeftBlock(task[u]) = {} /\ RightBlock(task[u]) = {} /\ task[u].trues = 0
        /\ LeftCells(task[u]) = Cells(task[u].left) /\ RightCells(task[u]) = Cells(task[u].right)
        /\ task[u].pc # "done" => LeftCells(task[u]) = {} /\ RightCells(task[u]) = {}
  <2> SUFFICES ASSUME NEW u \in Part!Paths
               PROVE  /\ LeftBlock(task[u]) = {} /\ RightBlock(task[u]) = {} /\ task[u].trues = 0
                      /\ LeftCells(task[u]) = Cells(task[u].left)
                      /\ RightCells(task[u]) = Cells(task[u].right)
                      /\ task[u].pc # "done" => LeftCells(task[u]) = {} /\ RightCells(task[u]) = {}
    OBVIOUS
  <2>1. task[u].pc \notin Working
    BY <1>1, <1>3 DEF Working
  <2>2. Shape(task[u])
    BY <1>2
  <2> QED
    BY <2>1, <2>2, RestingCells
<1>10. /\ LeftCells(w) = Cells(w.left) /\ RightCells(w) = Cells(w.right)
       /\ \A u \in Part!Paths : u # f => LeftCells(task[u]) = {} /\ RightCells(task[u]) = {}
  BY <1>1, <1>3, <1>9
<1>11. /\ w.left \in Seq(Int \X Int) /\ Separate(w.left) /\ Cells(w.left) \subseteq 0 .. lmove - 1
       /\ w.right \in Seq(Int \X Int) /\ Separate(w.right) /\ Cells(w.right) \subseteq lmove .. Size - 1
  <2>1. Shape(w)
    BY <1>1, <1>2
  <2>2. /\ w.left \in Seq(Int \X Int) /\ Separate(w.left)
        /\ w.right \in Seq(Int \X Int) /\ Separate(w.right)
    BY <2>1 DEF Shape, TaskRec
  <2>3. LeftCells(w) \subseteq 0 .. lmove - 1 /\ RightCells(w) \subseteq rmove .. Size - 1
    BY <1>1, <1>2 DEF CellsInv
  <2> QED
    BY <1>8, <1>10, <2>2, <2>3
<1>12. ASSUME NEW i \in Part!Range0
       PROVE  /\ data[i] \in {"yes", "no"}
              /\ i < lmove /\ data[i] = "no" => i \in Cells(w.left)
              /\ i >= lmove /\ data[i] = "yes" => i \in Cells(w.right)
              /\ i < lmove \/ i >= rmove
  <2>1. i \in Int
    BY DEF Part!Range0
  <2>2. /\ i < lmove => /\ data[i] \in {"yes", "no"}
                        /\ data[i] = "yes" \/ \E u \in Part!Paths : i \in LeftCells(task[u])
        /\ i >= rmove => /\ data[i] \in {"yes", "no"}
                         /\ data[i] = "no" \/ \E u \in Part!Paths : i \in RightCells(task[u])
    BY <1>5 DEF SidesInv
  <2>3. /\ (\E u \in Part!Paths : i \in LeftCells(task[u])) => i \in Cells(w.left)
        /\ (\E u \in Part!Paths : i \in RightCells(task[u])) => i \in Cells(w.right)
    BY <1>1, <1>10
  <2>4. i < lmove \/ i >= lmove
    BY <1>8, <2>1
  <2> QED
    BY <1>8, <2>2, <2>3, <2>4
<1> DEFINE X == {i \in Part!Range0 : data[i] = "yes"}
<1>13. rtrue \in Nat /\ rtrue <= Size /\ Cardinality(X) = rtrue
  <2>1. TrueOnes(task) = {}
    <3>1. \A u \in Part!Paths : task[u].trues = 0
      BY <1>9
    <3>2. 1 .. 0 = {}
      OBVIOUS
    <3> QED
      BY <3>1, <3>2 DEF TrueOnes
  <2>2. Counted(task, data, lmove, rmove) = X
    BY <1>9, <1>12 DEF Counted
  <2>3. Cardinality(TrueOnes(task)) = 0
    BY <2>1, FS_EmptySet
  <2>4. rtrue \in Nat /\ Cardinality(TrueOnes(task)) + rtrue = Cardinality(X)
    BY <1>5, <2>2 DEF OnesInv
  <2>5. IsFiniteSet(Part!Range0)
    BY CountedFinite
  <2>6. Cardinality(Part!Range0) = Size
    <3>1. 0 \in Int /\ Size - 1 \in Int /\ ~(0 > Size - 1) /\ Size - 1 - 0 + 1 = Size
      BY OpenedFacts
    <3>2. Cardinality(0 .. Size - 1) = IF 0 > Size - 1 THEN 0 ELSE Size - 1 - 0 + 1
      BY <3>1, FS_Interval
    <3> QED
      BY <3>1, <3>2 DEF Part!Range0
  <2>7. Cardinality(X) <= Cardinality(Part!Range0)
    <3>1. X \subseteq Part!Range0
      OBVIOUS
    <3> HIDE DEF X
    <3> QED
      BY <2>5, <3>1, FS_Subset
  <2> QED
    BY <2>3, <2>4, <2>6, <2>7
<1> QED
  BY <1>8, <1>11, <1>12, <1>13

\* The last exchange leaves what holds before the rest.
LEMMA AnswerResult ==
  ASSUME BlocksInv, SortInv, Part!Answer
  PROVE  \A i \in Part!Range0 : data'[i] = IF i < rtrue THEN "yes" ELSE "no"
<1> DEFINE w == task[Part!First]
           m == lmove
           r == rtrue
           c == [i \in Int |-> IF i > r THEN r ELSE i]
           g == [i \in Int |-> IF i < r THEN r ELSE i]
           left == IF m < r THEN Append(w.left, <<m, r>>)
                   ELSE IF m > r THEN Part!Clipped(w.left, c)
                   ELSE w.left
           right == IF m < r THEN Part!Clipped(w.right, g)
                    ELSE IF m > r THEN Append(w.right, <<r, m>>)
                    ELSE w.right
           ls == Part!Picked(Part!Positions(left), "no")
           rs == Part!Picked(Part!Positions(right), "yes")
<1>1. task[Part!First].pc = "done" /\ data' = Part!Swapped(ls, rs)
  BY DEF Part!Answer
<1>2. /\ m = rmove /\ m \in Nat /\ Size \in Nat
      /\ w.left \in Seq(Int \X Int) /\ Separate(w.left) /\ Cells(w.left) \subseteq 0 .. m - 1
      /\ w.right \in Seq(Int \X Int) /\ Separate(w.right) /\ Cells(w.right) \subseteq m .. Size - 1
      /\ \A i \in Part!Range0 :
           /\ data[i] \in {"yes", "no"}
           /\ i < m /\ data[i] = "no" => i \in Cells(w.left)
           /\ i >= m /\ data[i] = "yes" => i \in Cells(w.right)
      /\ r \in Nat /\ r <= Size
      /\ Cardinality({i \in Part!Range0 : data[i] = "yes"}) = r
  BY <1>1, EndState
<1> DEFINE P == w.left
           Q == w.right
           CP == Cells(P)
           CQ == Cells(Q)
<1> HIDE DEF w, m, r
<1>3. /\ m \in Nat /\ r \in Nat /\ Size \in Nat /\ r <= Size
      /\ P \in Seq(Int \X Int) /\ Separate(P) /\ CP \subseteq 0 .. m - 1
      /\ Q \in Seq(Int \X Int) /\ Separate(Q) /\ CQ \subseteq m .. Size - 1
  BY <1>2
<1>4. \A i \in Part!Range0 :
           /\ data[i] \in {"yes", "no"}
           /\ i < m /\ data[i] = "no" => i \in CP
           /\ i >= m /\ data[i] = "yes" => i \in CQ
  BY <1>2
<1>5. Part!Range0 = 0 .. Size - 1
  BY DEF Part!Range0
<1> DEFINE Right(bs, cs) ==
             /\ bs \in Seq(Int \X Int) /\ Separate(bs) /\ cs \in Seq(Int \X Int) /\ Separate(cs)
             /\ Cells(bs) \subseteq 0 .. r - 1 /\ Cells(cs) \subseteq r .. Size - 1
             /\ \A i \in 0 .. r - 1 : data[i] = "no" => i \in Cells(bs)
             /\ \A i \in r .. Size - 1 : data[i] = "yes" => i \in Cells(cs)
<1>6. c \in [Int -> Int] /\ g \in [Int -> Int]
  BY <1>3
<1>7. /\ \A b, e, i \in Int : i \in c[b] .. c[e] - 1 <=> i \in b .. e - 1 /\ i < r
      /\ \A b, e, i \in Int : i \in g[b] .. g[e] - 1 <=> i \in b .. e - 1 /\ i >= r
  BY <1>3
<1> HIDE DEF P, Q, CP, CQ, c, g
<1>8. ASSUME m < r PROVE Right(left, right)
  <2> DEFINE K == {i \in Int : i >= r}
             bs == Append(P, <<m, r>>)
             cs == Part!Clipped(Q, g)
  <2>1. left = bs /\ right = cs
    BY <1>8 DEF P, Q
  <2>2. /\ bs \in Seq(Int \X Int) /\ Separate(bs) /\ Cells(bs) = CP \cup (m .. r - 1)
    <3>1. CP \cap (m .. r - 1) = {}
      BY <1>3
    <3> QED
      BY <1>3, <1>8, <3>1, AppendBlock DEF CP
  <2>3. /\ cs \in Seq(Int \X Int) /\ Separate(cs) /\ Cells(cs) = CQ \cap K
    <3>1. K \in SUBSET Int /\ \A b, e, i \in Int : i \in g[b] .. g[e] - 1 <=> i \in b .. e - 1 /\ i \in K
      BY <1>7
    <3> HIDE DEF K
    <3> QED
      BY <1>3, <1>6, <3>1, ClippedFacts DEF CQ
  <2> DEFINE B == Cells(bs)
             C == Cells(cs)
  <2>4. B = CP \cup (m .. r - 1) /\ C = CQ \cap K
    BY <2>2, <2>3
  <2> HIDE DEF bs, cs, B, C
  <2>5. B \subseteq 0 .. r - 1 /\ C \subseteq r .. Size - 1
    BY <1>3, <1>8, <2>4
  <2>6. \A i \in 0 .. r - 1 : data[i] = "no" => i \in B
    BY <1>3, <1>4, <1>5, <1>8, <2>4
  <2>7. \A i \in r .. Size - 1 : data[i] = "yes" => i \in C
    BY <1>3, <1>4, <1>5, <1>8, <2>4
  <2> QED
    BY <2>1, <2>2, <2>3, <2>5, <2>6, <2>7 DEF B, C
<1>9. ASSUME m > r PROVE Right(left, right)
  <2> DEFINE K == {i \in Int : i < r}
             bs == Part!Clipped(P, c)
             cs == Append(Q, <<r, m>>)
  <2>1. left = bs /\ right = cs
    BY <1>3, <1>9 DEF P, Q
  <2>2. /\ cs \in Seq(Int \X Int) /\ Separate(cs) /\ Cells(cs) = CQ \cup (r .. m - 1)
    <3>1. CQ \cap (r .. m - 1) = {}
      BY <1>3
    <3> QED
      BY <1>3, <1>9, <3>1, AppendBlock DEF CQ
  <2>3. /\ bs \in Seq(Int \X Int) /\ Separate(bs) /\ Cells(bs) = CP \cap K
    <3>1. K \in SUBSET Int /\ \A b, e, i \in Int : i \in c[b] .. c[e] - 1 <=> i \in b .. e - 1 /\ i \in K
      BY <1>7
    <3> HIDE DEF K
    <3> QED
      BY <1>3, <1>6, <3>1, ClippedFacts DEF CP
  <2> DEFINE B == Cells(bs)
             C == Cells(cs)
  <2>4. B = CP \cap K /\ C = CQ \cup (r .. m - 1)
    BY <2>2, <2>3
  <2> HIDE DEF bs, cs, B, C
  <2>8. m <= Size
    BY <1>3, EndsApart DEF m
  <2>5. B \subseteq 0 .. r - 1 /\ C \subseteq r .. Size - 1
    BY <1>3, <1>9, <2>4, <2>8
  <2>6. \A i \in 0 .. r - 1 : data[i] = "no" => i \in B
    BY <1>3, <1>4, <1>5, <1>9, <2>4
  <2>7. \A i \in r .. Size - 1 : data[i] = "yes" => i \in C
    BY <1>3, <1>4, <1>5, <1>9, <2>4
  <2> QED
    BY <2>1, <2>2, <2>3, <2>5, <2>6, <2>7 DEF B, C
<1>10. ASSUME m = r PROVE Right(left, right)
  <2>1. left = P /\ right = Q
    BY <1>3, <1>10 DEF P, Q
  <2>5. CP \subseteq 0 .. r - 1 /\ CQ \subseteq r .. Size - 1
    BY <1>3, <1>10
  <2>6. \A i \in 0 .. r - 1 : data[i] = "no" => i \in CP
    BY <1>3, <1>4, <1>5, <1>10
  <2>7. \A i \in r .. Size - 1 : data[i] = "yes" => i \in CQ
    BY <1>3, <1>4, <1>5, <1>10
  <2> QED
    BY <1>3, <2>1, <2>5, <2>6, <2>7 DEF CP, CQ
<1> HIDE DEF Right, left, right
<1>11. Right(left, right)
  <2>1. m < r \/ m > r \/ m = r
    BY <1>3
  <2> QED
    BY <1>8, <1>9, <1>10, <2>1
<1>12. \A i \in Part!Range0 : Part!Swapped(ls, rs)[i] = IF i < r THEN "yes" ELSE "no"
  <2>1. Cardinality({i \in Part!Range0 : data[i] = "yes"}) = r
    BY <1>2
  <2>2. \A i \in Part!Range0 : data[i] \in {"yes", "no"}
    BY <1>4
  <2>3. ls = Part!Picked(Part!Positions(left), "no") /\ rs = Part!Picked(Part!Positions(right), "yes")
    OBVIOUS
  <2>4. EndReady(r, left, right)
    BY <1>3, <1>11, <2>1, <2>2 DEF Right, EndReady
  <2> HIDE DEF ls, rs
  <2> QED
    BY <2>3, <2>4, EndExchange
<1> QED
  BY <1>1, <1>12 DEF r

-----------------------------------------------------------------------------
(* The theorem                                                             *)

\* While a task takes part the first one has not answered.
LEMMA NotAnswered ==
  ASSUME TreeInv, NEW t \in Part!Paths,
         task[t].pc \notin {"idle", "done", "failed", "answered"}
  PROVE  task[Part!First].pc # "answered"
<1>1. CASE t = Part!First
  BY <1>1
<1>2. CASE t # Part!First
  BY <1>2, TaskFacts DEF TreeInv
<1> QED
  BY <1>1, <1>2

\* No step of a task changes the answer or comes after it.
LEMMA StepAnswer ==
  ASSUME TreeInv, NEW t \in Part!Paths, Part!Step(t)
  PROVE  answer' = answer /\ task[t].pc \notin {"idle", "done", "failed", "answered"}
<1>1. CASE Part!Fork(t) \/ Part!DoNotFork(t) \/ Part!Restore(t)
  BY <1>1 DEF Part!Fork, Part!DoNotFork, Part!Restore
<1>2. CASE Part!TestSize(t) \/ Part!TakeSize(t) \/ Part!Finish(t)
  BY <1>2 DEF Part!TestSize, Part!TakeSize, Part!Finish
<1>3. CASE Part!ClaimLeft(t) \/ Part!ClaimRight(t)
  BY <1>3 DEF Part!ClaimLeft, Part!ClaimRight
<1>4. CASE Part!JoinTasks(t) \/ Part!JoinFails(t)
  BY <1>4 DEF Part!JoinTasks, Part!JoinFails
<1> QED
  BY <1>1, <1>2, <1>3, <1>4 DEF Part!Step

\* What every step keeps of what is right, and of the answer.
LEMMA NextSort ==
  ASSUME BlocksInv, IntHolds, SortInv, ResultInv, [Part!Next]_(Part!vars)
  PROVE  SortInv' /\ ResultInv'
<1> DEFINE f == Part!First
<1>1. f \in Part!Paths /\ TypeInv /\ TreeInv
  BY TaskFacts DEF BlocksInv
<1>2. CASE Part!Answer
  <2>1. /\ task[f].pc = "done" /\ Part!Goto(f, "answered") /\ answer' = rtrue
    BY <1>2 DEF Part!Answer
  <2>2. "answered" \in PCs
    BY DEF PCs
  <2> HIDE DEF f
  <2>3. task'[f].pc = "answered"
    BY <1>1, <2>1, <2>2, GotoFacts
  <2>4. SortInv'
    BY <1>1, <2>3 DEF SortInv, Good
  <2>5. \A i \in Part!Range0 : data'[i] = IF i < answer' THEN "yes" ELSE "no"
    BY <1>2, <2>1, AnswerResult
  <2>6. Part!Partitioned'
    BY <2>5 DEF Part!Partitioned
  <2> QED
    BY <2>3, <2>4, <2>6 DEF ResultInv, f
<1>3. CASE Part!AnswerFails
  <2>1. /\ Part!Goto(f, "answered") /\ answer' \in {Part!NoAnswer, Part!Exception}
    BY <1>3 DEF Part!AnswerFails
  <2>2. "answered" \in PCs
    BY DEF PCs
  <2> HIDE DEF f
  <2>3. task'[f].pc = "answered"
    BY <1>1, <2>1, <2>2, GotoFacts
  <2>4. SortInv'
    BY <1>1, <2>3 DEF SortInv, Good
  <2> QED
    BY <2>1, <2>4 DEF ResultInv, Part!NoAnswer, Part!Exception
<1>4. ASSUME NEW t \in Part!Paths, Part!Step(t) PROVE SortInv' /\ ResultInv'
  <2>1. answer' = answer /\ task[f].pc # "answered"
    BY <1>1, <1>4, StepAnswer, NotAnswered
  <2>2. answer \in {Part!NoAnswer, Part!Exception}
    BY <2>1 DEF ResultInv
  <2>3. ResultInv'
    BY <2>1, <2>2 DEF ResultInv, Part!NoAnswer, Part!Exception
  <2>4. SortInv'
    <3>1. CASE Part!Fork(t)
      BY <3>1, ForkSort
    <3>2. CASE Part!DoNotFork(t) \/ Part!Restore(t) \/ Part!TestSize(t) \/ Part!TakeSize(t)
      BY <3>2, PassingSort
    <3>3. CASE Part!ClaimLeft(t) \/ Part!ClaimRight(t)
      BY <3>3, ClaimSort
    <3>4. CASE Part!Finish(t)
      BY <3>4, FinishSort
    <3>5. CASE Part!JoinTasks(t)
      BY <3>5, JoinSort
    <3>6. CASE Part!JoinFails(t)
      <4>1. Part!Goto(t, "failed") /\ "failed" \in PCs
        BY <3>6 DEF Part!JoinFails, PCs
      <4>2. task'[t].pc = "failed"
        BY <1>1, <4>1, GotoFacts
      <4> QED
        BY <4>2 DEF SortInv, Good
    <3> QED
      BY <1>4, <3>1, <3>2, <3>3, <3>4, <3>5, <3>6 DEF Part!Step
  <2> QED
    BY <2>3, <2>4
<1>5. CASE UNCHANGED Part!vars
  <2>1. /\ data' = data /\ size' = size /\ lmove' = lmove
        /\ rmove' = rmove /\ rtrue' = rtrue /\ task' = task /\ answer' = answer
    BY <1>5 DEF Part!vars
  <2>2. SortInv'
    <3>1. Good(task') => Good(task)
      BY <2>1
    <3>2. EndInv => EndInv'
      BY <2>1 DEF EndInv
    <3> QED
      BY <2>1, <3>1, <3>2 DEF SortInv
  <2>3. ResultInv'
    BY <2>1 DEF ResultInv, Part!Partitioned
  <2> QED
    BY <2>2, <2>3
<1> QED
  BY <1>2, <1>3, <1>4, <1>5 DEF Part!Next

\* At first nothing has been taken.
LEMMA InitSort == Part!Init => SortInv /\ ResultInv
<1> SUFFICES ASSUME Part!Init PROVE SortInv /\ ResultInv
  OBVIOUS
<1> DEFINE first == [Part!Idle EXCEPT !.pc = "start"]
<1>1. /\ lmove = 0 /\ rmove = Size /\ rtrue = 0
      /\ task = [t \in Part!Paths |-> IF t = Part!First THEN first ELSE Part!Idle]
      /\ answer = Part!NoAnswer
  BY DEF Part!Init
<1>2. /\ first.pc = "start" /\ first.trues = 0
      /\ Part!Idle.pc = "idle" /\ Part!Idle.trues = 0
  BY DEF Part!Idle
<1> HIDE DEF first
<1>3. \A t \in Part!Paths : task[t].pc \in {"start", "idle"} /\ task[t].trues = 0
  BY <1>1, <1>2
<1>4. \A i \in Part!Range0 : ~(i < lmove) /\ ~(i >= rmove)
  BY <1>1, OpenedFacts DEF Part!Range0
<1>5. SidesInv(task, data, lmove, rmove)
  BY <1>4 DEF SidesInv
<1>6. OnesInv(task, data, lmove, rmove, rtrue)
  <2>1. Counted(task, data, lmove, rmove) = {}
    BY <1>4 DEF Counted
  <2>2. TrueOnes(task) = {}
    <3>1. 1 .. 0 = {}
      OBVIOUS
    <3> QED
      BY <1>3, <3>1 DEF TrueOnes
  <2>3. Cardinality({}) = 0 /\ IsFiniteSet({})
    BY FS_EmptySet
  <2> QED
    BY <1>1, <2>1, <2>2, <2>3 DEF OnesInv
<1>7. EndInv
  BY <1>3 DEF EndInv
<1>8. SortInv
  BY <1>5, <1>6, <1>7 DEF SortInv
<1> QED
  BY <1>1, <1>8 DEF ResultInv

\* An int of M values on either side of zero holds these of size.
LEMMA WideInt ==
  ASSUME NEW M \in Nat, 2 ^ (IntBits - 1) = M, 2 ^ IntBits = 2 * M, Size \in Nat, Size < M,
         BlockSize * (2 * Part!Opened + 2) \in Nat, BlockSize * (2 * Part!Opened + 2) <= M
  PROVE  IntHolds
<1> DEFINE k == BlockSize * (2 * Part!Opened + 2)
<1> HIDE DEF k
<1>1. k \in Nat /\ k <= M
  BY DEF k
<1>2. ASSUME NEW n \in -k .. Size PROVE Part!ToInt(n) = n
  <2> DEFINE x == n + M
             y == 2 * M
  <2>1. x \in Int /\ 0 <= x /\ x < y /\ y \in Nat /\ n = x - M
    BY <1>1
  <2>2. Part!ToInt(n) = (x % y) - M
    BY DEF Part!ToInt
  <2> HIDE DEF x, y
  <2>3. x % y = x
    BY <2>1
  <2> QED
    BY <2>1, <2>2, <2>3
<1> QED
  BY <1>2 DEF IntHolds, k

\* The answer is the place between the elements for which the relation holds
\* and the others, and no two tasks hold the same element.
THEOREM PartitionIsCorrect == IntHolds => (Part!Spec => []PartitionCorrect)
<1> SUFFICES ASSUME IntHolds PROVE Part!Spec => []PartitionCorrect
  OBVIOUS
<1> DEFINE I == BlocksInv /\ SortInv /\ ResultInv
<1>1. Part!Init => I
  BY InitBlocks, InitSort
<1>2. I /\ [Part!Next]_(Part!vars) => I'
  BY NextBlocks, NextSort
<1>3. I => PartitionCorrect
  BY BlocksDisjoint DEF ResultInv, PartitionCorrect, Part!PartitionCorrect, Part!Partitioned
<1> HIDE DEF I
<1> QED
  BY <1>1, <1>2, <1>3, PTL DEF Part!Spec

=============================================================================
