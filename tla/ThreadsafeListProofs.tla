------------------------ MODULE ThreadsafeListProofs ------------------------
(***************************************************************************)
(* threadsafe_list with any number of threads: the two mutexes keep the    *)
(* ends apart, and the list implements a FIFO.  Then the counters that the *)
(* lockfree queues keep beside their container, and any_queue_container    *)
(* with any queues.                                                        *)
(***************************************************************************)
EXTENDS MCQueues, FiniteSetTheorems, SequenceTheorems, TLAPS

TypeOK ==
  /\ head \in Nodes /\ tail \in Nodes
  /\ data \in [Nodes -> Values \cup {None}]
  /\ headLock \in Consumers \cup {None}
  /\ tailLock \in Producers \cup {None}
  /\ waiters \subseteq Consumers
  /\ pc \in [Threads -> {"idle", "write", "link", "notify", "lock", "test", "sleep", "wait",
                         "take"}]
  /\ \A p \in Producers : pc[p] \in {"idle", "write", "link", "notify"}
  /\ \A c \in Consumers : pc[c] \in {"idle", "lock", "test", "sleep", "wait", "take"}
  /\ rest \in [Producers -> Seq(Values)]
  /\ popped \in Seq(Values)

\* Who is between the lock and the unlock of a mutex is its owner.
LockInv ==
  /\ \A p \in Producers : pc[p] \in {"write", "link"} <=> tailLock = p
  /\ \A c \in Consumers : pc[c] \in {"test", "sleep", "take"} <=> headLock = c

\* The dummy node is behind the elements.  A producer that is going to link has
\* filled it, and a consumer that is going to take has seen that it is not the
\* first node: only it moves m_head, and m_tail moves away from it.
ListInv ==
  /\ head <= tail
  /\ \A n \in Nodes : head <= n /\ n < tail => data[n] \in Values
  /\ \A p \in Producers :
       /\ pc[p] = "write" => rest[p] # <<>> /\ tail < MaxNodes
       /\ pc[p] = "link"  => data[tail] \in Values /\ tail < MaxNodes
  /\ \A c \in Consumers : pc[c] = "take" => head < tail

\* A thread is blocked on the condition variable as long as it is registered there.
WaitInv == \A c \in Consumers : c \in waiters => pc[c] = "wait"

ListTypeInv == TypeOK /\ LockInv /\ ListInv /\ WaitInv

\* Producers and consumers are different threads.
LEMMA ThreadsApart ==
  /\ \A p \in Producers : p \in Threads /\ p \notin Consumers /\ p # None
  /\ \A c \in Consumers : c \in Threads /\ c \notin Producers /\ c # None
  /\ MaxNodes \in Nat /\ None \notin Values
BY ThreadsAssumption DEF Threads

\* Head and tail of a sequence that is not empty.
LEMMA HeadTail ==
  ASSUME NEW S, NEW s \in Seq(S), s # <<>>
  PROVE  Head(s) \in S /\ Tail(s) \in Seq(S)
OBVIOUS

\* Every step keeps the types and the discipline of the two mutexes.
LEMMA ListStep ==
  ASSUME ListTypeInv, [Next]_vars
  PROVE  ListTypeInv'
<1> USE ThreadsApart DEF ListTypeInv, TypeOK, LockInv, ListInv, WaitInv, Nodes, Goto
<1>1. ASSUME NEW p \in Producers, LockTail(p)
      PROVE  ListTypeInv'
  BY <1>1 DEF LockTail
<1>2. ASSUME NEW p \in Producers, Write(p)
      PROVE  ListTypeInv'
  <2> DEFINE r == rest[p]
  <2>1. r \in Seq(Values) /\ r # <<>> /\ tail < MaxNodes
    BY <1>2 DEF Write
  <2>2. Head(r) \in Values /\ Tail(r) \in Seq(Values)
    BY <2>1, HeadTail
  <2> QED
    BY <1>2, <2>1, <2>2 DEF Write
<1>3. ASSUME NEW p \in Producers, Link(p)
      PROVE  ListTypeInv'
  BY <1>3 DEF Link
<1>4. ASSUME NEW p \in Producers, Notify(p)
      PROVE  ListTypeInv'
  BY <1>4 DEF Notify
<1>5. ASSUME NEW c \in Consumers, Call(c) \/ LockHead(c)
      PROVE  ListTypeInv'
  BY <1>5 DEF Call, LockHead
<1>6. ASSUME NEW c \in Consumers, TestEmpty(c)
      PROVE  ListTypeInv'
  BY <1>6 DEF TestEmpty
<1>7. ASSUME NEW c \in Consumers, TestFull(c)
      PROVE  ListTypeInv'
  BY <1>7 DEF TestFull
<1>8. ASSUME NEW c \in Consumers, Sleep(c) \/ SpuriousWakeup(c)
      PROVE  ListTypeInv'
  BY <1>8 DEF Sleep, SpuriousWakeup
<1>9. ASSUME NEW c \in Consumers, Take(c)
      PROVE  ListTypeInv'
  <2>1. data[head] \in Values /\ head < tail
    BY <1>9 DEF Take
  <2>2. popped' \in Seq(Values)
    BY <1>9, <2>1 DEF Take
  <2> QED
    BY <1>9, <2>1, <2>2 DEF Take
<1>10. CASE UNCHANGED vars
  BY <1>10 DEF vars
<1> QED
  BY <1>1, <1>2, <1>3, <1>4, <1>5, <1>6, <1>7, <1>8, <1>9, <1>10
     DEF Next, Producer, Consumer, InCall

\* Whatever the threads do, each mutex has one owner, the elements lie between
\* the head and the dummy, and a consumer that takes finds an element.
THEOREM ListCorrect == Spec => []ListTypeInv
<1>1. Init => ListTypeInv
  <2> SUFFICES ASSUME Init
               PROVE  ListTypeInv
    OBVIOUS
  <2>1. rest \in [Producers -> Seq(Values)] /\ popped \in Seq(Values)
    BY ThreadsAssumption DEF Init
  <2>2. pc = [t \in Threads |-> "idle"] /\ head = 0 /\ tail = 0 /\ waiters = {}
        /\ headLock = None /\ tailLock = None /\ data = [n \in Nodes |-> None]
    BY DEF Init
  <2>3. TypeOK
    BY <2>1, <2>2, ThreadsApart DEF TypeOK, Nodes
  <2>4. LockInv /\ ListInv /\ WaitInv
    BY <2>2, ThreadsApart DEF LockInv, ListInv, WaitInv
  <2> QED
    BY <2>3, <2>4 DEF ListTypeInv
<1>2. ListTypeInv /\ [Next]_vars => ListTypeInv'
  BY ListStep
<1> QED
  BY <1>1, <1>2, PTL DEF Spec

-----------------------------------------------------------------------------
(* The refinement of Fifo                                                  *)

\* The elements from node h to the dummy t.
Content(d, h, t) == [i \in 1 .. t - h |-> d[h + i - 1]]

\* The nodes from h to the dummy t have elements.
Filled(d, h, t) ==
  /\ h \in Nat /\ t \in Nat /\ h <= t
  /\ \A n \in Nat : h <= n /\ n < t => d[n] \in Values

\* The elements between dummy and tail form a sequence.
LEMMA ContentIsSeq ==
  ASSUME NEW d, NEW h, NEW t, Filled(d, h, t)
  PROVE  Content(d, h, t) \in Seq(Values) /\ Len(Content(d, h, t)) = t - h
<1> USE DEF Filled
<1> DEFINE s == Content(d, h, t)
<1>1. t - h \in Nat /\ s = [i \in 1 .. t - h |-> d[h + i - 1]]
  BY DEF Content
<1>2. \A i \in 1 .. t - h : d[h + i - 1] \in Values
  OBVIOUS
<1>3. s \in [1 .. t - h -> Values]
  BY <1>1, <1>2
<1> HIDE DEF s
<1>4. s \in Seq(Values)
  BY <1>1, <1>3
<1>5. Len(s) = t - h
  BY <1>1, <1>3, <1>4
<1> QED
  BY <1>4, <1>5 DEF s

\* m_tail moves: the element in the old dummy is appended.
LEMMA ContentGrows ==
  ASSUME NEW d, NEW h, NEW t, Filled(d, h, t), d[t] \in Values
  PROVE  Content(d, h, t + 1) = Append(Content(d, h, t), d[t])
<1> DEFINE s == Content(d, h, t)
           r == Content(d, h, t + 1)
<1>1. h \in Nat /\ t \in Nat /\ h <= t /\ Filled(d, h, t + 1)
  BY DEF Filled
<1>2. /\ s \in Seq(Values) /\ Len(s) = t - h
      /\ r \in Seq(Values) /\ Len(r) = t + 1 - h
  BY <1>1, ContentIsSeq
<1>3. /\ \A i \in 1 .. t - h : s[i] = d[h + i - 1]
      /\ \A i \in 1 .. t - h + 1 : r[i] = d[h + i - 1]
  BY <1>1 DEF Content
<1> HIDE DEF s, r
<1>4. Append(s, d[t]) \in Seq(Values) /\ Len(Append(s, d[t])) = t - h + 1
  BY <1>1, <1>2
<1>5. \A i \in 1 .. t - h + 1 : Append(s, d[t])[i] = d[h + i - 1]
  BY <1>1, <1>2, <1>3
<1> QED
  BY <1>1, <1>2, <1>3, <1>4, <1>5 DEF s, r

\* m_head moves: the first element is gone.
LEMMA ContentShrinks ==
  ASSUME NEW d, NEW h, NEW t, Filled(d, h, t), h # t
  PROVE  /\ Content(d, h, t) # <<>>
         /\ Head(Content(d, h, t)) = d[h]
         /\ Content(d, h + 1, t) = Tail(Content(d, h, t))
<1> DEFINE s == Content(d, h, t)
           r == Content(d, h + 1, t)
<1>1. h \in Nat /\ t \in Nat /\ h < t /\ Filled(d, h + 1, t)
  BY DEF Filled
<1>2. /\ s \in Seq(Values) /\ Len(s) = t - h
      /\ r \in Seq(Values) /\ Len(r) = t - (h + 1)
  BY <1>1, ContentIsSeq
<1>3. /\ \A i \in 1 .. t - h : s[i] = d[h + i - 1]
      /\ \A i \in 1 .. t - h - 1 : r[i] = d[h + i]
  BY <1>1 DEF Content
<1> HIDE DEF s, r
<1>4. s # <<>> /\ Tail(s) \in Seq(Values) /\ Len(Tail(s)) = t - h - 1 /\ Head(s) = s[1]
  BY <1>1, <1>2
<1>5. \A i \in 1 .. t - h - 1 : Tail(s)[i] = s[i + 1] /\ s[i + 1] = d[h + i]
  BY <1>1, <1>2, <1>3
<1>6. Tail(s) = r
  BY <1>1, <1>2, <1>3, <1>4, <1>5
<1> QED
  BY <1>1, <1>2, <1>3, <1>4, <1>6 DEF s, r

\* Only Link and Take are steps of the FIFO; a producer writes behind the elements.
LEMMA FifoStep ==
  ASSUME ListTypeInv, [Next]_vars
  PROVE  [Queue!Next]_<<Content(data, head, tail), popped>>
<1> USE DEF ListTypeInv, TypeOK, ListInv, Nodes
<1>0. Filled(data, head, tail)
  BY ThreadsApart DEF Filled
<1>1. ASSUME NEW p \in Producers, Write(p)
      PROVE  UNCHANGED <<Content(data, head, tail), popped>>
  <2>1. \A n \in Nat : head <= n /\ n < tail => data'[n] = data[n]
    BY <1>1, ThreadsApart DEF Write
  <2>2. \A i \in 1 .. tail - head : data'[head + i - 1] = data[head + i - 1]
    BY <1>0, <2>1 DEF Filled
  <2>3. UNCHANGED <<head, tail, popped>>
    BY <1>1 DEF Write
  <2> QED
    BY <2>2, <2>3 DEF Content
<1>2. ASSUME NEW p \in Producers, Link(p)
      PROVE  Queue!Next
  <2>1. /\ data[tail] \in Values
        /\ tail' = tail + 1 /\ UNCHANGED <<head, data, popped>>
    BY <1>2 DEF Link
  <2>2. Content(data, head, tail + 1) = Append(Content(data, head, tail), data[tail])
    BY ONLY <1>0, <2>1, ContentGrows
  <2> QED
    BY <2>1, <2>2 DEF Queue!Push, Queue!Next, Content
<1>3. ASSUME NEW c \in Consumers, Take(c)
      PROVE  Queue!Next
  <2>1. /\ head # tail /\ head' = head + 1
        /\ UNCHANGED <<tail, data>>
        /\ popped' = Append(popped, data[head])
    BY <1>3 DEF Take
  <2>2. /\ Content(data, head, tail) # <<>>
        /\ Head(Content(data, head, tail)) = data[head]
        /\ Content(data, head + 1, tail) = Tail(Content(data, head, tail))
    BY ONLY <1>0, <2>1, ContentShrinks
  <2> QED
    BY <2>1, <2>2 DEF Queue!Pop, Queue!Next, Content
<1>4. CASE UNCHANGED <<head, tail, data, popped>>
  BY <1>4 DEF Content
<1> QED
  <2>1. \/ UNCHANGED <<head, tail, data, popped>>
        \/ \E p \in Producers : Write(p) \/ Link(p)
        \/ \E c \in Consumers : Take(c)
    BY DEF Next, Producer, Consumer, InCall, LockTail, Notify, Call, LockHead, TestEmpty,
           TestFull, Sleep, SpuriousWakeup, vars
  <2> QED
    BY <2>1, <1>1, <1>2, <1>3, <1>4

\* threadsafe_list is a FIFO: elements come out once each in the order in which
\* they went in, though the ends are locked apart.
THEOREM ImplementsQueue == Spec => ImplementsFifo
<1>1. Init => Queue!Init
  <2>1. Init => Content(data, head, tail) = <<>>
    BY DEF Init, Content
  <2> QED
    BY <2>1 DEF Init, Queue!Init, Content
<1>2. ListTypeInv /\ [Next]_vars => [Queue!Next]_<<Content(data, head, tail), popped>>
  BY FifoStep
<1> QED
  BY <1>1, <1>2, ListCorrect, PTL DEF Spec, ImplementsFifo, Queue!Spec, Content

-----------------------------------------------------------------------------
(* The counters of a lockfree queue                                        *)

Mod == Counters!Mod

\* m_size is wide enough for the elements that are ever pushed.
NoOverflow ==
  /\ IsFiniteSet(Threads) /\ Producers \cap Consumers = {}
  /\ Pushes \in Nat \ {0} /\ Mod \in Nat
  /\ Cardinality(Producers) * Pushes < Mod

Count(where) == Cardinality(Counters!At(where))

\* The pushes that were made, each known by the number that its thread had left.
Pushed == {x \in Producers \X (1 .. Pushes) : left[x[1]] < x[2]}

CounterType ==
  /\ elements \in Nat /\ size \in 0 .. Mod - 1 /\ maxSize \in 0 .. Mod - 1
  /\ step \in [Threads -> {"idle", "increase", "load", "loadSize", "cas", "decrease"}]
  /\ \A p \in Producers : step[p] # "decrease"
  /\ \A c \in Consumers : step[c] \in {"idle", "decrease"}
  /\ old \in [Producers -> 0 .. Mod - 1] /\ new \in [Producers -> 0 .. Mod - 1]
  /\ left \in [Producers -> 0 .. Pushes]
  /\ reset \in BOOLEAN

\* The counter is behind by the elements that were not counted and not
\* discounted yet, and may have wrapped around below zero.
BalanceInv ==
  /\ elements + Count("decrease") <= Cardinality(Pushed)
  /\ \/ size + Count("increase") = elements + Count("decrease")
     \/ size + Count("increase") = elements + Count("decrease") + Mod

\* A producer that will still see the size, or has seen it and will record it.
WillRecord(p) ==
  \/ step[p] \in {"increase", "load", "loadSize"}
  \/ step[p] = "cas" /\ (maxSize # old[p] \/ size <= new[p])

MaxInv ==
  ~reset =>
    /\ size <= maxSize \/ \E p \in Producers : WillRecord(p)
    /\ \A p \in Producers :
         /\ step[p] \in {"loadSize", "cas"} => old[p] <= maxSize
         /\ step[p] = "cas" => old[p] <= new[p]

CounterInv == CounterType /\ BalanceInv /\ MaxInv

\* LockfreeSize counts like the library.
LEMMA SameCardinality == \A S : Counters!Cardinality(S) = Cardinality(S)
BY DEF Counters!Cardinality, Cardinality

\* Remainders of a number below m, and of the same number with m.
LEMMA Remainders ==
  ASSUME NEW m \in Nat, NEW x \in 0 .. m - 1
  PROVE  x % m = x /\ (x + m) % m = x
OBVIOUS

\* A counter of m values.
LEMMA Counting ==
  ASSUME NEW m \in Nat, NEW x \in 0 .. m - 1
  PROVE  /\ (x + 1) % m = IF x = m - 1 THEN 0 ELSE x + 1
         /\ (x + m - 1) % m = IF x = 0 THEN m - 1 ELSE x - 1
<1>1. CASE x = m - 1
  <2>1. x + 1 = 0 + m /\ 0 \in 0 .. m - 1
    BY <1>1
  <2> QED
    BY <2>1, <1>1, Remainders
<1>2. CASE x # m - 1
  <2>1. x + 1 \in 0 .. m - 1
    BY <1>2
  <2> QED
    BY <2>1, <1>2, Remainders
<1>3. (x + m - 1) % m = IF x = 0 THEN m - 1 ELSE x - 1
  <2>1. CASE x = 0
    <3>1. x + m - 1 = m - 1 /\ m - 1 \in 0 .. m - 1
      BY <2>1
    <3> QED
      BY <3>1, <2>1, Remainders
  <2>2. CASE x # 0
    <3>1. x + m - 1 = (x - 1) + m /\ x - 1 \in 0 .. m - 1
      BY <2>2
    <3> QED
      BY <3>1, <2>2, Remainders
  <2> QED
    BY <2>1, <2>2
<1> QED
  BY <1>1, <1>2, <1>3

\* How many threads are where.
LEMMA CountIsNat ==
  ASSUME NoOverflow, NEW where
  PROVE  /\ Counters!At(where) \subseteq Threads
         /\ IsFiniteSet(Counters!At(where)) /\ Count(where) \in Nat
<1>1. Counters!At(where) \subseteq Threads
  BY DEF Counters!At, Counters!Threads, Threads
<1> QED
  BY <1>1, FS_Subset, FS_CardinalityType DEF NoOverflow, Count

\* A thread goes from a to b.
LEMMA Goes ==
  ASSUME NoOverflow, CounterType, NEW t \in Threads, NEW a, NEW b, a # b,
         step[t] = a, Counters!Goto(t, b)
  PROVE  /\ Count(a)' = Count(a) - 1 /\ Count(b)' = Count(b) + 1
         /\ \A c : c # a /\ c # b => Count(c)' = Count(c)
<1>1. step' = [step EXCEPT ![t] = b]
  BY DEF Counters!Goto
<1>2. Counters!At(a)' = Counters!At(a) \ {t} /\ t \in Counters!At(a)
  BY <1>1 DEF Counters!At, Counters!Threads, Threads, CounterType
<1>3. Counters!At(b)' = Counters!At(b) \cup {t} /\ t \notin Counters!At(b)
  BY <1>1 DEF Counters!At, Counters!Threads, Threads, CounterType
<1>4. ASSUME NEW c, c # a, c # b
      PROVE  Counters!At(c)' = Counters!At(c)
  BY <1>1, <1>4 DEF Counters!At, Counters!Threads, Threads, CounterType
<1>5. Count(a)' = Count(a) - 1
  BY <1>2, CountIsNat, FS_RemoveElement DEF Count
<1>6. Count(b)' = Count(b) + 1
  BY <1>3, CountIsNat, FS_AddElement DEF Count
<1> QED
  BY <1>4, <1>5, <1>6 DEF Count

\* Never more elements than pushes, nor threads than elements the counter can hold.
LEMMA Below ==
  ASSUME NoOverflow, CounterInv
  PROVE  /\ IsFiniteSet(Pushed) /\ Cardinality(Pushed) \in Nat /\ Cardinality(Pushed) < Mod
         /\ Count("increase") < Mod
<1>1. IsFiniteSet(Producers) /\ Cardinality(Producers) \in Nat
  BY FS_Subset, FS_CardinalityType DEF NoOverflow, Threads
<1>2. IsFiniteSet(1 .. Pushes) /\ Cardinality(1 .. Pushes) = Pushes
  BY FS_Interval DEF NoOverflow
<1>3. /\ IsFiniteSet(Producers \X (1 .. Pushes))
      /\ Cardinality(Producers \X (1 .. Pushes)) = Cardinality(Producers) * Pushes
  BY <1>1, <1>2, FS_Product
<1>4. Pushed \subseteq Producers \X (1 .. Pushes)
  BY DEF Pushed
<1>5. IsFiniteSet(Pushed) /\ Cardinality(Pushed) <= Cardinality(Producers) * Pushes
      /\ Cardinality(Pushed) \in Nat
  BY <1>3, <1>4, FS_Subset, FS_CardinalityType
<1>6. Counters!At("increase") \subseteq Producers
  BY DEF Counters!At, Counters!Threads, CounterInv, CounterType
<1>7. Count("increase") <= Cardinality(Producers)
  BY <1>1, <1>6, FS_Subset DEF Count
<1>8. Cardinality(Producers) <= Cardinality(Producers) * Pushes
  BY <1>1 DEF NoOverflow
<1>9. Cardinality(Producers) * Pushes \in Nat
  BY <1>1 DEF NoOverflow
<1> QED
  BY <1>1, <1>5, <1>7, <1>8, <1>9, CountIsNat DEF NoOverflow

\* A step that only moves a thread between places which are not counted.
LEMMA NotCounted ==
  ASSUME NoOverflow, CounterInv, NEW t \in Threads, NEW a, NEW b, a # b,
         step[t] = a, Counters!Goto(t, b),
         {a, b} \cap {"increase", "decrease"} = {},
         elements' = elements, size' = size, left' = left
  PROVE  BalanceInv'
<1>1. Count("increase")' = Count("increase") /\ Count("decrease")' = Count("decrease")
  <2>1. a # "increase" /\ a # "decrease" /\ b # "increase" /\ b # "decrease"
    OBVIOUS
  <2> QED
    BY <2>1, Goes DEF CounterInv
<1>2. Pushed' = Pushed
  BY DEF Pushed
<1>3. Mod' = Mod
  BY DEF Mod, Counters!Mod
<1> QED
  BY <1>1, <1>2, <1>3 DEF CounterInv, BalanceInv

\* An element is pushed; it will be counted.
LEMMA PushKeeps ==
  ASSUME NoOverflow, CounterInv, NEW p \in Producers, Counters!Push(p)
  PROVE  CounterInv'
<1>1. p \in Threads /\ step[p] = "idle" /\ Counters!Goto(p, "increase")
  BY DEF Counters!Push, Threads
<1>2. /\ elements' = elements + 1 /\ left' = [left EXCEPT ![p] = left[p] - 1]
      /\ left[p] > 0 /\ UNCHANGED <<size, maxSize, old, new, reset>>
      /\ step' = [step EXCEPT ![p] = "increase"]
  BY DEF Counters!Push, Counters!Goto
<1>3. left[p] \in 1 .. Pushes /\ left \in [Producers -> 0 .. Pushes]
  BY <1>2 DEF CounterInv, CounterType
<1>4. CounterType'
  <2>1. left' \in [Producers -> 0 .. Pushes]
    BY <1>2, <1>3 DEF NoOverflow
  <2>2. step' \in [Threads -> {"idle", "increase", "load", "loadSize", "cas", "decrease"}]
    BY <1>1, <1>2 DEF CounterInv, CounterType
  <2>3. \A q \in Producers : step'[q] # "decrease"
    BY <1>1, <1>2 DEF CounterInv, CounterType, Threads
  <2>4. \A c \in Consumers : step'[c] \in {"idle", "decrease"}
    BY <1>1, <1>2 DEF CounterInv, CounterType, Threads, NoOverflow
  <2> QED
    BY <1>2, <2>1, <2>2, <2>3, <2>4 DEF CounterInv, CounterType, Mod, Counters!Mod
<1>5. BalanceInv'
  <2>1. Count("increase")' = Count("increase") + 1 /\ Count("decrease")' = Count("decrease")
    BY <1>1, Goes DEF CounterInv
  <2>2. <<p, left[p]>> \notin Pushed
    BY DEF Pushed
  <2>3. Pushed' = Pushed \cup {<<p, left[p]>>}
    <3>1. \A q \in Producers : left'[q] = IF q = p THEN left[p] - 1 ELSE left[q]
      BY <1>2, <1>3
    <3>2. \A q \in Producers, i \in 1 .. Pushes :
            left'[q] < i <=> left[q] < i \/ <<q, i>> = <<p, left[p]>>
      BY <1>3, <3>1
    <3> QED
      BY <1>3, <3>2 DEF Pushed
  <2>4. Cardinality(Pushed') = Cardinality(Pushed) + 1
    BY <2>2, <2>3, Below, FS_AddElement
  <2> QED
    BY <1>2, <2>1, <2>4, Below, CountIsNat DEF CounterInv, CounterType, BalanceInv, Mod,
      Counters!Mod, NoOverflow
<1>6. MaxInv'
  <2>1. WillRecord(p)'
    BY <1>1, <1>2 DEF WillRecord, CounterInv, CounterType
  <2>2. \A q \in Producers : step'[q] \in {"loadSize", "cas"} => step'[q] = step[q]
    BY <1>1, <1>2 DEF CounterInv, CounterType, Threads
  <2> QED
    BY <1>2, <2>1, <2>2 DEF CounterInv, MaxInv
<1> QED
  BY <1>4, <1>5, <1>6 DEF CounterInv

\* The element is counted, and the producer will look at the size.
LEMMA IncreaseKeeps ==
  ASSUME NoOverflow, CounterInv, NEW p \in Producers, Counters!Increase(p)
  PROVE  CounterInv'
<1>1. p \in Threads /\ step[p] = "increase" /\ Counters!Goto(p, "load")
  BY DEF Counters!Increase, Threads
<1>2. /\ size' = (size + 1) % Mod
      /\ UNCHANGED <<elements, maxSize, old, new, left, reset>>
      /\ step' = [step EXCEPT ![p] = "load"]
  BY DEF Counters!Increase, Counters!Goto, Mod
<1>3. size' = IF size = Mod - 1 THEN 0 ELSE size + 1
  BY <1>2, Counting DEF CounterInv, CounterType, NoOverflow
<1>4. CounterType'
  <2>1. size' \in 0 .. Mod - 1
    BY <1>3 DEF CounterInv, CounterType, NoOverflow
  <2>2. step' \in [Threads -> {"idle", "increase", "load", "loadSize", "cas", "decrease"}]
    BY <1>1, <1>2 DEF CounterInv, CounterType
  <2>3. \A q \in Producers : step'[q] # "decrease"
    BY <1>1, <1>2 DEF CounterInv, CounterType, Threads
  <2>4. \A c \in Consumers : step'[c] \in {"idle", "decrease"}
    BY <1>1, <1>2 DEF CounterInv, CounterType, Threads, NoOverflow
  <2> QED
    BY <1>2, <2>1, <2>2, <2>3, <2>4 DEF CounterInv, CounterType, Mod, Counters!Mod
<1>5. BalanceInv'
  <2>1. Count("increase")' = Count("increase") - 1 /\ Count("decrease")' = Count("decrease")
    BY <1>1, Goes DEF CounterInv
  <2>2. Pushed' = Pushed
    BY <1>2 DEF Pushed
  <2>3. Count("increase") \in Nat /\ Count("decrease") \in Nat /\ Count("increase")' \in Nat
    <3>1. p \in Counters!At("increase")
      BY <1>1 DEF Counters!At, Counters!Threads
    <3>2. Count("increase") # 0
      BY <3>1, CountIsNat, FS_EmptySet DEF Count
    <3> QED
      BY <2>1, <3>2, CountIsNat
  <2> QED
    BY <1>2, <1>3, <2>1, <2>2, <2>3, Below DEF CounterInv, CounterType, BalanceInv, Mod,
      Counters!Mod, NoOverflow
<1>6. MaxInv'
  <2>1. WillRecord(p)'
    BY <1>1, <1>2 DEF WillRecord, CounterInv, CounterType
  <2>2. \A q \in Producers : step'[q] \in {"loadSize", "cas"} => step'[q] = step[q]
    BY <1>1, <1>2 DEF CounterInv, CounterType, Threads
  <2> QED
    BY <1>2, <2>1, <2>2 DEF CounterInv, MaxInv
<1> QED
  BY <1>4, <1>5, <1>6 DEF CounterInv

\* The producer reads the maximum, ...
LEMMA LoadMaxKeeps ==
  ASSUME NoOverflow, CounterInv, NEW p \in Producers, Counters!LoadMax(p)
  PROVE  CounterInv'
<1>1. p \in Threads /\ step[p] = "load" /\ Counters!Goto(p, "loadSize")
  BY DEF Counters!LoadMax, Threads
<1>2. /\ old' = [old EXCEPT ![p] = maxSize]
      /\ UNCHANGED <<elements, size, maxSize, new, left, reset>>
      /\ step' = [step EXCEPT ![p] = "loadSize"]
  BY DEF Counters!LoadMax, Counters!Goto
<1>3. CounterType'
  <2>1. old' \in [Producers -> 0 .. Mod - 1]
    BY <1>2 DEF CounterInv, CounterType
  <2>2. step' \in [Threads -> {"idle", "increase", "load", "loadSize", "cas", "decrease"}]
    BY <1>1, <1>2 DEF CounterInv, CounterType
  <2>3. \A q \in Producers : step'[q] # "decrease"
    BY <1>1, <1>2 DEF CounterInv, CounterType, Threads
  <2>4. \A c \in Consumers : step'[c] \in {"idle", "decrease"}
    BY <1>1, <1>2 DEF CounterInv, CounterType, Threads, NoOverflow
  <2> QED
    BY <1>2, <2>1, <2>2, <2>3, <2>4 DEF CounterInv, CounterType, Mod, Counters!Mod
<1>4. BalanceInv'
  BY <1>1, <1>2, NotCounted
<1>5. MaxInv'
  <2>1. WillRecord(p)'
    BY <1>1, <1>2 DEF WillRecord, CounterInv, CounterType
  <2>2. \A q \in Producers : q # p => step'[q] = step[q] /\ old'[q] = old[q]
    BY <1>1, <1>2 DEF CounterInv, CounterType, Threads
  <2>3. step'[p] = "loadSize" /\ old'[p] = maxSize /\ maxSize \in Nat
    BY <1>1, <1>2 DEF CounterInv, CounterType
  <2> QED
    BY <1>2, <2>1, <2>2, <2>3 DEF CounterInv, MaxInv
<1> QED
  BY <1>3, <1>4, <1>5 DEF CounterInv

\* ... the size, ...
LEMMA LoadSizeKeeps ==
  ASSUME NoOverflow, CounterInv, NEW p \in Producers, Counters!LoadSize(p)
  PROVE  CounterInv'
<1>1. p \in Threads /\ step[p] = "loadSize" /\ Counters!Goto(p, "cas")
  BY DEF Counters!LoadSize, Threads
<1>2. /\ new' = [new EXCEPT ![p] = Counters!Larger(size, old[p])]
      /\ UNCHANGED <<elements, size, maxSize, old, left, reset>>
      /\ step' = [step EXCEPT ![p] = "cas"]
  BY DEF Counters!LoadSize, Counters!Goto
<1>3. /\ Counters!Larger(size, old[p]) \in 0 .. Mod - 1
      /\ size <= Counters!Larger(size, old[p]) /\ old[p] <= Counters!Larger(size, old[p])
  BY DEF Counters!Larger, CounterInv, CounterType, NoOverflow
<1>4. CounterType'
  <2>1. new' \in [Producers -> 0 .. Mod - 1]
    BY <1>2, <1>3 DEF CounterInv, CounterType
  <2>2. step' \in [Threads -> {"idle", "increase", "load", "loadSize", "cas", "decrease"}]
    BY <1>1, <1>2 DEF CounterInv, CounterType
  <2>3. \A q \in Producers : step'[q] # "decrease"
    BY <1>1, <1>2 DEF CounterInv, CounterType, Threads
  <2>4. \A c \in Consumers : step'[c] \in {"idle", "decrease"}
    BY <1>1, <1>2 DEF CounterInv, CounterType, Threads, NoOverflow
  <2> QED
    BY <1>2, <2>1, <2>2, <2>3, <2>4 DEF CounterInv, CounterType, Mod, Counters!Mod
<1>5. BalanceInv'
  BY <1>1, <1>2, NotCounted
<1>6. MaxInv'
  <2>1. step'[p] = "cas" /\ new'[p] = Counters!Larger(size, old[p])
    BY <1>1, <1>2 DEF CounterInv, CounterType
  <2>2. WillRecord(p)'
    BY <1>2, <1>3, <2>1 DEF WillRecord
  <2>3. \A q \in Producers : q # p => step'[q] = step[q] /\ new'[q] = new[q]
    BY <1>1, <1>2 DEF CounterInv, CounterType, Threads
  <2> QED
    BY <1>1, <1>2, <1>3, <2>1, <2>2, <2>3 DEF CounterInv, MaxInv
<1> QED
  BY <1>4, <1>5, <1>6 DEF CounterInv

\* ... and stores what is larger, unless another one came first; then it tries
\* again.  The maximum only grows, so that nobody stores a smaller one.
LEMMA CasKeeps ==
  ASSUME NoOverflow, CounterInv, NEW p \in Producers, Counters!Cas(p)
  PROVE  CounterInv'
<1>1. p \in Threads /\ step[p] = "cas"
  BY DEF Counters!Cas, Threads
<1>2. UNCHANGED <<elements, size, old, new, left, reset>>
  BY DEF Counters!Cas
<1>3. PICK b \in {"idle", "load"} :
        /\ Counters!Goto(p, b) /\ step' = [step EXCEPT ![p] = b]
        /\ b = "idle" => maxSize = old[p] /\ maxSize' = new[p]
        /\ b = "load" => maxSize' = maxSize
  BY DEF Counters!Cas, Counters!Goto
<1>4. CounterType'
  <2>1. maxSize' \in 0 .. Mod - 1
    BY <1>3 DEF CounterInv, CounterType
  <2>2. step' \in [Threads -> {"idle", "increase", "load", "loadSize", "cas", "decrease"}]
    BY <1>1, <1>3 DEF CounterInv, CounterType
  <2>3. \A q \in Producers : step'[q] # "decrease"
    BY <1>1, <1>3 DEF CounterInv, CounterType, Threads
  <2>4. \A c \in Consumers : step'[c] \in {"idle", "decrease"}
    BY <1>1, <1>3 DEF CounterInv, CounterType, Threads, NoOverflow
  <2> QED
    BY <1>2, <2>1, <2>2, <2>3, <2>4 DEF CounterInv, CounterType, Mod, Counters!Mod
<1>5. BalanceInv'
  BY <1>1, <1>2, <1>3, NotCounted
<1>6. MaxInv'
  <2> SUFFICES ASSUME ~reset
               PROVE  /\ size' <= maxSize' \/ \E q \in Producers : WillRecord(q)'
                      /\ \A q \in Producers :
                           /\ step'[q] \in {"loadSize", "cas"} => old'[q] <= maxSize'
                           /\ step'[q] = "cas" => old'[q] <= new'[q]
    BY <1>2 DEF MaxInv
  <2>1. step'[p] = b /\ \A q \in Producers : q # p => step'[q] = step[q]
    BY <1>1, <1>3 DEF CounterInv, CounterType, Threads
  <2>2. /\ size \in Nat /\ maxSize \in Nat
        /\ \A q \in Producers : old[q] \in Nat /\ new[q] \in Nat
    BY DEF CounterInv, CounterType, NoOverflow
  <2>3. /\ old[p] <= new[p]
        /\ \A q \in Producers :
             /\ step[q] \in {"loadSize", "cas"} => old[q] <= maxSize
             /\ step[q] = "cas" => old[q] <= new[q]
        /\ size <= maxSize \/ \E q \in Producers : WillRecord(q)
    BY <1>1 DEF CounterInv, MaxInv
  <2>4. maxSize' \in Nat /\ maxSize <= maxSize'
    BY <1>3, <2>2, <2>3
  <2>5. \A q \in Producers :
          /\ step'[q] \in {"loadSize", "cas"} => old'[q] <= maxSize'
          /\ step'[q] = "cas" => old'[q] <= new'[q]
    BY <1>2, <1>3, <2>1, <2>2, <2>3, <2>4
  <2>6. CASE size <= maxSize
    BY <1>2, <2>2, <2>4, <2>5, <2>6
  <2>7. CASE b = "load"
    BY <2>1, <2>5, <2>7 DEF WillRecord
  <2>8. CASE b = "idle" /\ \E q \in Producers : WillRecord(q)
    <3>1. PICK q \in Producers : WillRecord(q)
      BY <2>8
    <3>2. CASE q = p
      BY <1>1, <1>2, <1>3, <2>5, <2>8, <3>1, <3>2 DEF WillRecord
    <3>3. CASE q # p /\ step[q] # "cas"
      BY <2>1, <2>5, <3>1, <3>3 DEF WillRecord
    <3>4. CASE q # p /\ step[q] = "cas" /\ size <= new[q]
      BY <1>2, <2>1, <2>5, <3>4 DEF WillRecord
    <3>5. CASE q # p /\ step[q] = "cas" /\ maxSize # old[q]
      <4>1. old[q] < maxSize /\ step'[q] = "cas"
        BY <2>1, <2>2, <2>3, <3>5
      <4>2. maxSize' # old'[q]
        BY <1>2, <2>2, <2>4, <4>1
      <4> QED
        BY <2>5, <4>1, <4>2 DEF WillRecord
    <3> QED
      BY <3>1, <3>2, <3>3, <3>4, <3>5 DEF WillRecord
  <2> QED
    BY <1>3, <2>3, <2>6, <2>7, <2>8
<1> QED
  BY <1>4, <1>5, <1>6 DEF CounterInv

\* An element is taken; it will be discounted.
LEMMA PopKeeps ==
  ASSUME NoOverflow, CounterInv, NEW c \in Consumers, Counters!Pop(c)
  PROVE  CounterInv'
<1>1. c \in Threads /\ step[c] = "idle" /\ Counters!Goto(c, "decrease") /\ c \notin Producers
  BY DEF Counters!Pop, Threads, NoOverflow
<1>2. /\ elements' = elements - 1 /\ elements > 0
      /\ UNCHANGED <<size, maxSize, old, new, left, reset>>
      /\ step' = [step EXCEPT ![c] = "decrease"]
  BY DEF Counters!Pop, Counters!Goto
<1>3. \A q \in Threads : step'[q] = IF q = c THEN "decrease" ELSE step[q]
  BY <1>1, <1>2 DEF CounterInv, CounterType
<1>4. CounterType'
  <2>1. elements' \in Nat
    BY <1>2 DEF CounterInv, CounterType
  <2>2. step' \in [Threads -> {"idle", "increase", "load", "loadSize", "cas", "decrease"}]
    BY <1>1, <1>2 DEF CounterInv, CounterType
  <2>3. \A q \in Producers : step'[q] # "decrease"
    BY <1>1, <1>3 DEF CounterInv, CounterType, Threads
  <2>4. \A d \in Consumers : step'[d] \in {"idle", "decrease"}
    BY <1>3 DEF CounterInv, CounterType, Threads
  <2> QED
    BY <1>2, <2>1, <2>2, <2>3, <2>4 DEF CounterInv, CounterType, Mod, Counters!Mod
<1>5. BalanceInv'
  <2>1. Count("increase")' = Count("increase") /\ Count("decrease")' = Count("decrease") + 1
    BY <1>1, Goes DEF CounterInv
  <2>2. Pushed' = Pushed
    BY <1>2 DEF Pushed
  <2> QED
    BY <1>2, <2>1, <2>2, Below, CountIsNat DEF CounterInv, CounterType, BalanceInv, Mod,
      Counters!Mod, NoOverflow
<1>6. MaxInv'
  <2>1. \A q \in Producers : step'[q] = step[q]
    BY <1>1, <1>3 DEF Threads
  <2> QED
    BY <1>2, <2>1 DEF CounterInv, MaxInv, WillRecord
<1> QED
  BY <1>4, <1>5, <1>6 DEF CounterInv

\* The element is discounted.  If it was not counted before, its producer will
\* look at the size; otherwise the size is not zero and becomes smaller.
LEMMA DecreaseKeeps ==
  ASSUME NoOverflow, CounterInv, NEW c \in Consumers, Counters!Decrease(c)
  PROVE  CounterInv'
<1>1. c \in Threads /\ step[c] = "decrease" /\ Counters!Goto(c, "idle") /\ c \notin Producers
  BY DEF Counters!Decrease, Threads, NoOverflow
<1>2. /\ size' = (size + Mod - 1) % Mod
      /\ UNCHANGED <<elements, maxSize, old, new, left, reset>>
      /\ step' = [step EXCEPT ![c] = "idle"]
  BY DEF Counters!Decrease, Counters!Goto, Mod
<1>3. size' = IF size = 0 THEN Mod - 1 ELSE size - 1
  BY <1>2, Counting DEF CounterInv, CounterType, NoOverflow
<1>4. \A q \in Threads : step'[q] = IF q = c THEN "idle" ELSE step[q]
  BY <1>1, <1>2 DEF CounterInv, CounterType
<1>5. CounterType'
  <2>1. size' \in 0 .. Mod - 1
    BY <1>3 DEF CounterInv, CounterType, NoOverflow
  <2>2. step' \in [Threads -> {"idle", "increase", "load", "loadSize", "cas", "decrease"}]
    BY <1>1, <1>2 DEF CounterInv, CounterType
  <2>3. \A q \in Producers : step'[q] # "decrease"
    BY <1>1, <1>4 DEF CounterInv, CounterType, Threads
  <2>4. \A d \in Consumers : step'[d] \in {"idle", "decrease"}
    BY <1>4 DEF CounterInv, CounterType, Threads
  <2> QED
    BY <1>2, <2>1, <2>2, <2>3, <2>4 DEF CounterInv, CounterType, Mod, Counters!Mod
<1>6. c \in Counters!At("decrease")
  BY <1>1 DEF Counters!At, Counters!Threads
<1>7. Count("decrease") # 0
  BY <1>6, CountIsNat, FS_EmptySet DEF Count
<1>8. BalanceInv'
  <2>1. Count("increase")' = Count("increase") /\ Count("decrease")' = Count("decrease") - 1
    BY <1>1, Goes DEF CounterInv
  <2>2. Pushed' = Pushed
    BY <1>2 DEF Pushed
  <2>3. /\ Count("increase") \in Nat /\ Count("increase") < Mod
        /\ Count("decrease") \in Nat /\ Count("decrease") # 0
        /\ size \in Nat /\ elements \in Nat /\ Mod \in Nat /\ Cardinality(Pushed) \in Nat
        /\ Mod' = Mod /\ elements' = elements
    BY <1>2, <1>7, Below, CountIsNat DEF CounterInv, CounterType, Mod, Counters!Mod, NoOverflow
  <2>4. /\ elements + Count("decrease") <= Cardinality(Pushed)
        /\ \/ size + Count("increase") = elements + Count("decrease")
           \/ size + Count("increase") = elements + Count("decrease") + Mod
    BY DEF CounterInv, BalanceInv
  <2>5. elements + (Count("decrease") - 1) <= Cardinality(Pushed)
    BY <2>3, <2>4
  <2>6. \/ size' + Count("increase") = elements + (Count("decrease") - 1)
        \/ size' + Count("increase") = elements + (Count("decrease") - 1) + Mod
    BY <1>3, <2>3, <2>4
  <2> QED
    BY <2>1, <2>2, <2>3, <2>5, <2>6 DEF BalanceInv
<1>9. MaxInv'
  <2>1. \A q \in Producers : step'[q] = step[q]
    BY <1>1, <1>4 DEF Threads
  <2>2. CASE size = 0
    <3>1. Count("increase") # 0
      BY <1>7, <2>2, Below, CountIsNat DEF CounterInv, CounterType, BalanceInv, NoOverflow
    <3>2. PICK q \in Counters!At("increase") : TRUE
      BY <3>1, FS_EmptySet DEF Count
    <3>3. q \in Producers /\ step[q] = "increase"
      BY <3>2 DEF Counters!At, Counters!Threads, CounterInv, CounterType
    <3> QED
      BY <1>2, <2>1, <3>3 DEF CounterInv, MaxInv, WillRecord
  <2>3. CASE size # 0
    <3>1. size' = size - 1 /\ size \in Nat /\ maxSize \in Nat
          /\ \A q \in Producers : new[q] \in Nat
      BY <1>3, <2>3 DEF CounterInv, CounterType, NoOverflow
    <3> QED
      BY <1>2, <2>1, <3>1 DEF CounterInv, MaxInv, WillRecord
  <2> QED
    BY <2>2, <2>3
<1> QED
  BY <1>5, <1>8, <1>9 DEF CounterInv

\* Nothing that is counted changes when the maximum is reset.
LEMMA ResetKeeps ==
  ASSUME NoOverflow, CounterInv, Counters!ResetMaxSize \/ UNCHANGED Counters!vars
  PROVE  CounterInv'
<1>1. /\ UNCHANGED <<elements, size, step, old, new, left>>
      /\ maxSize' \in {0, maxSize} /\ (reset' = TRUE \/ UNCHANGED <<maxSize, reset>>)
      /\ reset' \in {TRUE, reset}
  BY DEF Counters!ResetMaxSize, Counters!vars
<1>2. CounterType'
  <2>1. maxSize' \in 0 .. Mod - 1
    BY <1>1 DEF CounterInv, CounterType, NoOverflow
  <2>2. reset' \in BOOLEAN
    BY <1>1 DEF CounterInv, CounterType
  <2> QED
    BY <1>1, <2>1, <2>2 DEF CounterInv, CounterType, Mod, Counters!Mod
<1>3. BalanceInv'
  BY <1>1 DEF CounterInv, BalanceInv, Mod, Counters!Mod, Count, Counters!At, Pushed
<1>4. MaxInv'
  BY <1>1 DEF CounterInv, MaxInv, WillRecord
<1> QED
  BY <1>2, <1>3, <1>4 DEF CounterInv

\* The counters of a lockfree queue, with any number of threads: the size differs
\* from what the queue holds by the calls that are under way, and when none is,
\* the maximum covers it.
THEOREM CountersAgree ==
  ASSUME NoOverflow
  PROVE  Counters!Spec => []CountersFollow
<1>1. Counters!Init => CounterInv
  <2> SUFFICES ASSUME Counters!Init
               PROVE  CounterInv
    OBVIOUS
  <2>1. CounterType
    <3>1. 0 \in 0 .. Mod - 1
      <4>1. Cardinality(Producers) * Pushes \in Nat
        <5>1. Cardinality(Producers) \in Nat
          BY FS_Subset, FS_CardinalityType DEF NoOverflow, Threads
        <5> QED
          BY <5>1 DEF NoOverflow
      <4> QED
        BY <4>1 DEF NoOverflow
    <3> QED
      <4>1. /\ elements \in Nat /\ size \in 0 .. Mod - 1 /\ maxSize \in 0 .. Mod - 1
            /\ old \in [Producers -> 0 .. Mod - 1] /\ new \in [Producers -> 0 .. Mod - 1]
        BY <3>1 DEF Counters!Init
      <4>2. /\ step \in [Threads -> {"idle", "increase", "load", "loadSize", "cas", "decrease"}]
            /\ \A t \in Threads : step[t] = "idle"
        BY DEF Counters!Init, Counters!Threads, Threads
      <4>3. left \in [Producers -> 0 .. Pushes]
        BY DEF Counters!Init, NoOverflow
      <4>4. reset \in BOOLEAN
        BY DEF Counters!Init
      <4> QED
        BY <4>1, <4>2, <4>3, <4>4 DEF CounterType, Threads
  <2>2. BalanceInv
    <3>1. Counters!At("increase") = {} /\ Counters!At("decrease") = {}
      BY DEF Counters!At, Counters!Init, Counters!Threads
    <3>2. Pushed = {}
      BY DEF Pushed, Counters!Init, NoOverflow
    <3> QED
      BY <3>1, <3>2, FS_EmptySet DEF BalanceInv, Count, Counters!Init
  <2>3. MaxInv
    BY DEF MaxInv, Counters!Init, Counters!Threads
  <2> QED
    BY <2>1, <2>2, <2>3 DEF CounterInv
<1>2. CounterInv /\ [Counters!Next]_Counters!vars => CounterInv'
  BY PushKeeps, IncreaseKeeps, LoadMaxKeeps, LoadSizeKeeps, CasKeeps, PopKeeps, DecreaseKeeps,
    ResetKeeps
    DEF Counters!Next, Counters!Pusher, Counters!Popper, Counters!Terminated
<1>3. CounterInv => CountersFollow
  <2> SUFFICES ASSUME CounterInv
               PROVE  CountersFollow
    OBVIOUS
  <2>1. Counters!SizeLags
    <3>1. (size + Count("increase")) % Mod = (elements + Count("decrease")) % Mod
      <4>1. elements + Count("decrease") \in 0 .. Mod - 1
        BY Below, CountIsNat DEF CounterInv, CounterType, BalanceInv, NoOverflow
      <4> QED
        BY <4>1, Remainders DEF CounterInv, BalanceInv, NoOverflow
    <3> QED
      BY <3>1, SameCardinality DEF Counters!SizeLags, Count, Mod
  <2>2. Counters!MaxCoversSize
    <3>1. ASSUME Counters!AtRest, ~reset
          PROVE  size <= maxSize
      BY <3>1 DEF Counters!AtRest, Counters!Threads, CounterInv, MaxInv, WillRecord
    <3> QED
      BY <3>1 DEF Counters!MaxCoversSize, CounterInv, CounterType, NoOverflow
  <2> QED
    BY <2>1, <2>2 DEF CountersFollow, Counters!CountersFollow
<1> QED
  BY <1>1, <1>2, <1>3, PTL DEF Counters!Spec

-----------------------------------------------------------------------------
(* The queues of any_queue_container                                       *)

\* A container has queues of the known types, and the priority of a job is a
\* number.
ContainerConstants ==
  /\ QueueType \in Seq({"guarded_deque", "circular_queue", "lockfree_stack",
                        "lockfree_spsc_queue"})
  /\ QueueType # <<>>
  /\ Prio \in [Jobs -> Nat] /\ Shutdown \in Nat /\ Capacity \in Nat

Queues == Container!Queues
Cell == Jobs \cup {NoJob}

\* The first n cells, the last of them first.
Backwards(c, n) == [i \in 1 .. n |-> c[n - i + 1]]

\* d has the first m elements of c, at their places or one place further.
SameStart(d, c, m) == \A i \in 1 .. m : d[i] = c[i]
Shifted(d, c, m) == \A i \in 1 .. m : d[i + 1] = c[i]

\* d is c, or its first cells, with j in front.
AddedInFront(d, j, c) ==
  Len(d) <= Len(c) + 1 /\ d[1] = j /\ Shifted(d, c, Len(d) - 1)

\* In a circular buffer with cells c, n of them used.
Fits(ty, c, n) == ty = "circular_queue" => n <= Len(c)

\* The jobs of a queue of type ty with cells c, n of which are used.
Held(ty, c, n) ==
  IF ty = "guarded_deque" THEN Backwards(c, Len(c))
  ELSE IF ty = "circular_queue" THEN Backwards(c, n) ELSE c

\* The used cells of a circular buffer are its first ones, within its capacity.
CellsInv ==
  /\ cells \in [Queues -> Seq(Cell)]
  /\ used \in [Queues -> Nat] /\ capacity \in [Queues -> Nat]
  /\ \A q \in Queues : QueueType[q] = "circular_queue" =>
       used[q] <= Len(cells[q]) /\ Len(cells[q]) <= capacity[q]

\* What was pushed to a queue has been taken or is there.
OrderInv ==
  /\ pushed \in [Queues -> Seq(Jobs)] /\ taken \in [Queues -> Seq(Cell)]
  /\ QueuesKeepOrder

\* The jobs in the queues that a thread has passed came later.
LateInv ==
  /\ enabled \subseteq Queues
  /\ at \in [Container!Threads -> {0} \cup Queues]
  /\ late = [t \in Container!Threads |-> late[t]]
  /\ \A t \in Container!Threads : \A q \in enabled : q < at[t] /\ Container!MayTake(t, q) =>
       Container!ToSet(Container!JobsIn(q)) \subseteq late[t]

ContainerInv == CellsInv /\ OrderInv /\ LateInv

\* The queues are numbered.
LEMMA QueueNumbers ==
  ASSUME ContainerConstants
  PROVE  /\ Container!Lowest \in Nat \ {0} /\ Queues = 1 .. Container!Lowest
         /\ \A q \in Queues : QueueType[q] \in {"guarded_deque", "circular_queue",
                                                "lockfree_stack", "lockfree_spsc_queue"}
BY DEF ContainerConstants, Queues, Container!Queues, Container!Lowest

\* A sequence is known by its elements.
LEMMA SameSeq ==
  ASSUME NEW S, NEW s \in Seq(S), NEW t \in Seq(S), Len(s) = Len(t),
         \A i \in 1 .. Len(s) : s[i] = t[i]
  PROVE  s = t
OBVIOUS

\* Backwards is a sequence.
LEMMA BackwardsSeq ==
  ASSUME NEW c \in Seq(Cell), NEW n \in 0 .. Len(c)
  PROVE  /\ Backwards(c, n) \in Seq(Cell) /\ Len(Backwards(c, n)) = n
         /\ \A i \in 1 .. n : Backwards(c, n)[i] = c[n - i + 1]
<1>1. \A i \in 1 .. n : c[n - i + 1] \in Cell
  OBVIOUS
<1>2. n \in Nat /\ Backwards(c, n) \in [1 .. n -> Cell]
  BY <1>1 DEF Backwards
<1> QED
  BY <1>2 DEF Backwards

\* What the modules of queues say of their cells, in terms of Held.
LEMMA HeldCells ==
  ASSUME NEW ty, NEW c \in Seq(Cell), NEW n \in Nat, Fits(ty, c, n)
  PROVE  /\ ty = "guarded_deque" => Held(ty, c, n) = Container!Reverse(c)
         /\ ty = "circular_queue" => Held(ty, c, n) = Container!Reverse(SubSeq(c, 1, n))
         /\ ty \notin {"circular_queue", "guarded_deque"} => Held(ty, c, n) = c
         /\ Held(ty, c, n) \in Seq(Cell)
<1>1. Container!Reverse(c) = Backwards(c, Len(c))
  <2>1. \A i \in 1 .. Len(c) : Len(c) - i + 1 = (Len(c) - i) + 1
    OBVIOUS
  <2> QED
    BY <2>1 DEF Container!Reverse, Backwards
<1>2. CASE ty = "circular_queue"
  <2> DEFINE s == SubSeq(c, 1, n)
  <2>1. n \in 0 .. Len(c)
    BY <1>2 DEF Fits
  <2>2. s \in Seq(Cell) /\ Len(s) = n /\ \A i \in 1 .. n : s[i] = c[i]
    BY <2>1
  <2>3. \A i \in 1 .. n : n - i + 1 \in 1 .. n /\ (n - i) + 1 = n - i + 1
    BY <2>1
  <2> HIDE DEF s
  <2>4. Container!Reverse(s) = [i \in 1 .. n |-> s[(n - i) + 1]]
    BY <2>2 DEF Container!Reverse
  <2>5. Container!Reverse(s) = Backwards(c, n)
    BY <2>2, <2>3, <2>4 DEF Backwards
  <2> QED
    BY <1>2, <2>1, <2>5, BackwardsSeq DEF Held, s
<1>3. CASE ty = "guarded_deque"
  BY <1>1, <1>3, BackwardsSeq DEF Held
<1>4. CASE ty \notin {"circular_queue", "guarded_deque"}
  BY <1>4 DEF Held
<1> QED
  BY <1>2, <1>3, <1>4

\* JobsIn, before and after a step.
LEMMA JobsHeld ==
  ASSUME NEW q \in Queues
  PROVE  /\ CellsInv => /\ Container!JobsIn(q) = Held(QueueType[q], cells[q], used[q])
                        /\ Container!JobsIn(q) \in Seq(Cell)
         /\ CellsInv' => /\ Container!JobsIn(q)' = Held(QueueType[q], cells'[q], used'[q])
                         /\ Container!JobsIn(q)' \in Seq(Cell)
<1>1. ASSUME CellsInv
      PROVE  /\ Container!JobsIn(q) = Held(QueueType[q], cells[q], used[q])
             /\ Container!JobsIn(q) \in Seq(Cell)
  <2>1. cells[q] \in Seq(Cell) /\ used[q] \in Nat
        /\ Fits(QueueType[q], cells[q], used[q])
    BY <1>1 DEF CellsInv, Fits
  <2>2. /\ QueueType[q] = "guarded_deque" => Container!JobsIn(q) = Container!Reverse(cells[q])
        /\ QueueType[q] = "circular_queue" =>
             Container!JobsIn(q) = Container!Reverse(SubSeq(cells[q], 1, used[q]))
        /\ QueueType[q] \notin {"circular_queue", "guarded_deque"} => Container!JobsIn(q) = cells[q]
    BY DEF Container!JobsIn, Container!DequeJobs, Container!CircularJobs
  <2>3. Container!JobsIn(q) = Held(QueueType[q], cells[q], used[q])
    BY <2>1, <2>2, HeldCells
  <2> QED
    BY <2>1, <2>3, HeldCells
<1>2. ASSUME CellsInv'
      PROVE  /\ Container!JobsIn(q)' = Held(QueueType[q], cells'[q], used'[q])
             /\ Container!JobsIn(q)' \in Seq(Cell)
  <2>1. cells'[q] \in Seq(Cell) /\ used'[q] \in Nat
        /\ Fits(QueueType[q], cells'[q], used'[q])
    BY <1>2 DEF CellsInv, Queues, Container!Queues, Fits
  <2>2. /\ QueueType[q] = "guarded_deque" => Container!JobsIn(q)' = Container!Reverse(cells'[q])
        /\ QueueType[q] = "circular_queue" =>
             Container!JobsIn(q)' = Container!Reverse(SubSeq(cells'[q], 1, used'[q]))
        /\ QueueType[q] \notin {"circular_queue", "guarded_deque"} =>
             Container!JobsIn(q)' = cells'[q]
    BY DEF Container!JobsIn, Container!DequeJobs, Container!CircularJobs
  <2>3. Container!JobsIn(q)' = Held(QueueType[q], cells'[q], used'[q])
    BY <2>1, <2>2, HeldCells
  <2> QED
    BY <2>1, <2>3, HeldCells
<1> QED
  BY <1>1, <1>2

\* A cell in front of the others.
LEMMA Prepended ==
  ASSUME NEW c \in Seq(Cell), NEW j \in Cell
  PROVE  /\ <<j>> \o c \in Seq(Cell) /\ Len(<<j>> \o c) = Len(c) + 1
         /\ (<<j>> \o c)[1] = j /\ Shifted(<<j>> \o c, c, Len(c))
<1>1. <<j>> \in Seq(Cell) /\ Len(<<j>>) = 1
  OBVIOUS
<1> QED
  BY <1>1 DEF Shifted

\* A new first cell is the last one backwards.
LEMMA BackwardsPrepended ==
  ASSUME NEW c \in Seq(Cell), NEW d \in Seq(Cell), NEW j \in Cell, NEW n \in 0 .. Len(c),
         NEW m, m = n + 1, m <= Len(d), AddedInFront(d, j, c)
  PROVE  Backwards(d, m) = Append(Backwards(c, n), j)
<1> DEFINE s == Backwards(c, n)
           r == Backwards(d, m)
<1>1. s \in Seq(Cell) /\ Len(s) = n /\ \A i \in 1 .. n : s[i] = c[n - i + 1]
  BY BackwardsSeq
<1>2. /\ m \in 0 .. Len(d) /\ m = n + 1
      /\ Len(d) <= Len(c) + 1 /\ d[1] = j /\ Shifted(d, c, Len(d) - 1)
  BY DEF AddedInFront
<1>3. r \in Seq(Cell) /\ Len(r) = n + 1 /\ \A i \in 1 .. n + 1 : r[i] = d[n + 1 - i + 1]
  BY <1>2, BackwardsSeq
<1> HIDE DEF s, r
<1>4. /\ Append(s, j) \in Seq(Cell) /\ Len(Append(s, j)) = n + 1
      /\ \A i \in 1 .. n + 1 : Append(s, j)[i] = IF i = n + 1 THEN j ELSE s[i]
  BY <1>1
<1>5. \A i \in 1 .. n : r[i] = c[n - i + 1]
  <2> SUFFICES ASSUME NEW i \in 1 .. n
               PROVE  r[i] = c[n - i + 1]
    OBVIOUS
  <2>1. n - i + 1 \in 1 .. Len(d) - 1 /\ n + 1 - i + 1 = (n - i + 1) + 1
    BY <1>2
  <2>2. d[(n - i + 1) + 1] = c[n - i + 1]
    BY <1>2, <2>1 DEF Shifted
  <2> QED
    BY <1>3, <2>1, <2>2
<1>6. r[n + 1] = j
  BY <1>2, <1>3
<1>7. \A i \in 1 .. n + 1 : r[i] = Append(s, j)[i]
  <2>1. \A i \in 1 .. n + 1 : i = n + 1 \/ i \in 1 .. n
    OBVIOUS
  <2>2. \A i \in 1 .. n : i # n + 1 /\ i \in 1 .. n + 1
    OBVIOUS
  <2> QED
    BY <1>1, <1>4, <1>5, <1>6, <2>1, <2>2
<1>8. r = Append(s, j)
  BY <1>3, <1>4, <1>7, SameSeq
<1> QED
  BY <1>8 DEF r, s

\* Without the last cell, backwards, the first one is missing.
LEMMA BackwardsShorter ==
  ASSUME NEW c \in Seq(Cell), NEW d \in Seq(Cell), NEW n \in 1 .. Len(c), NEW m, m = n - 1,
         m <= Len(d), SameStart(d, c, m)
  PROVE  /\ Backwards(d, m) = Tail(Backwards(c, n))
         /\ Backwards(c, n) # <<>> /\ Head(Backwards(c, n)) = c[n]
<1> DEFINE s == Backwards(c, n)
           r == Backwards(d, m)
<1>1. s \in Seq(Cell) /\ Len(s) = n /\ \A i \in 1 .. n : s[i] = c[n - i + 1]
  BY BackwardsSeq
<1>2. m \in 0 .. Len(d) /\ m = n - 1
  OBVIOUS
<1>3. r \in Seq(Cell) /\ Len(r) = n - 1 /\ \A i \in 1 .. n - 1 : r[i] = d[n - 1 - i + 1]
  BY <1>2, BackwardsSeq
<1> HIDE DEF s, r
<1>4. Tail(s) \in Seq(Cell) /\ Len(Tail(s)) = n - 1 /\ \A i \in 1 .. n - 1 : Tail(s)[i] = s[i + 1]
  BY <1>1
<1>5. \A i \in 1 .. n - 1 : r[i] = Tail(s)[i]
  <2> SUFFICES ASSUME NEW i \in 1 .. n - 1
               PROVE  r[i] = Tail(s)[i]
    OBVIOUS
  <2>1. n - 1 - i + 1 \in 1 .. n - 1 /\ i + 1 \in 1 .. n /\ n - 1 - i + 1 = n - (i + 1) + 1
    OBVIOUS
  <2>2. d[n - 1 - i + 1] = c[n - 1 - i + 1]
    BY <2>1 DEF SameStart
  <2> QED
    BY <1>1, <1>3, <1>4, <2>1, <2>2
<1>6. r = Tail(s)
  BY <1>3, <1>4, <1>5, SameSeq
<1>7. s # <<>> /\ Head(s) = c[n]
  BY <1>1
<1> QED
  BY <1>6, <1>7 DEF r, s

\* A queue whose cells change.
LEMMA OneQueueChanges ==
  ASSUME ContainerConstants, CellsInv, NEW q \in Queues, NEW d \in Seq(Cell), NEW m \in Nat,
         NEW k \in Nat, cells' = [cells EXCEPT ![q] = d], used' = [used EXCEPT ![q] = m],
         capacity' = [capacity EXCEPT ![q] = k],
         QueueType[q] = "circular_queue" => m <= Len(d) /\ Len(d) <= k
  PROVE  /\ CellsInv' /\ cells'[q] = d /\ used'[q] = m
         /\ \A p \in Queues : p # q => Container!JobsIn(p)' = Container!JobsIn(p)
<1>1. \A p \in Queues : /\ cells'[p] = IF p = q THEN d ELSE cells[p]
                        /\ used'[p] = IF p = q THEN m ELSE used[p]
                        /\ capacity'[p] = IF p = q THEN k ELSE capacity[p]
  BY DEF CellsInv
<1>2. Queues' = Queues
  BY DEF Queues, Container!Queues
<1>3. CellsInv'
  <2>1. cells' \in [Queues -> Seq(Cell)]
    BY DEF CellsInv
  <2>2. used' \in [Queues -> Nat] /\ capacity' \in [Queues -> Nat]
    BY DEF CellsInv
  <2>3. \A p \in Queues : QueueType[p] = "circular_queue" =>
          used'[p] <= Len(cells'[p]) /\ Len(cells'[p]) <= capacity'[p]
    BY <1>1 DEF CellsInv
  <2> QED
    BY <1>2, <2>1, <2>2, <2>3 DEF CellsInv
<1> QED
  BY <1>1, <1>3, JobsHeld

\* The queue has one job more, behind the others, or before them in a stack.
LEMMA PushAdds ==
  ASSUME ContainerConstants, CellsInv, NEW q \in Queues, NEW j \in Jobs, Container!PushTo(q, j)
  PROVE  /\ CellsInv'
         /\ \A p \in Queues : p # q => Container!JobsIn(p)' = Container!JobsIn(p)
         /\ Container!JobsIn(q)' = IF QueueType[q] = "lockfree_stack"
                                   THEN <<j>> \o Container!JobsIn(q)
                                   ELSE Append(Container!JobsIn(q), j)
<1> DEFINE c == cells[q]
           n == used[q]
           k == capacity[q]
<1>1. /\ c \in Seq(Cell) /\ n \in Nat /\ k \in Nat /\ j \in Cell
      /\ used = [used EXCEPT ![q] = n] /\ capacity = [capacity EXCEPT ![q] = k]
      /\ QueueType[q] = "circular_queue" => n <= Len(c) /\ Len(c) <= k
  BY DEF CellsInv, Cell
<1>2. Container!JobsIn(q) = Held(QueueType[q], c, n)
  BY JobsHeld
<1>3. CASE QueueType[q] = "guarded_deque"
  <2> DEFINE d == <<j>> \o c
  <2>1. cells' = [cells EXCEPT ![q] = d] /\ used' = used /\ capacity' = capacity
    BY <1>3 DEF Container!PushTo, Container!PushDeque
  <2>2. d \in Seq(Cell) /\ Len(d) = Len(c) + 1 /\ d[1] = j /\ Shifted(d, c, Len(c))
    BY <1>1, Prepended
  <2> HIDE DEF d
  <2>3. /\ CellsInv' /\ cells'[q] = d /\ used'[q] = n
        /\ \A p \in Queues : p # q => Container!JobsIn(p)' = Container!JobsIn(p)
    BY <1>1, <1>3, <2>1, <2>2, OneQueueChanges
  <2>4. Backwards(d, Len(c) + 1) = Append(Backwards(c, Len(c)), j)
    <3> DEFINE l == Len(c)
               m == l + 1
    <3>1. l \in 0 .. Len(c) /\ m = l + 1 /\ m <= Len(d) /\ Len(d) - 1 = Len(c)
      BY <1>1, <2>2
    <3>2. AddedInFront(d, j, c)
      BY <1>1, <2>2, <3>1 DEF AddedInFront
    <3> HIDE DEF l, m
    <3>3. Backwards(d, m) = Append(Backwards(c, l), j)
      BY <1>1, <2>2, <3>1, <3>2, BackwardsPrepended
    <3> QED
      BY <3>3 DEF l, m
  <2> QED
    BY <1>2, <1>3, <2>2, <2>3, <2>4, JobsHeld DEF Held
<1>4. CASE QueueType[q] = "lockfree_stack"
  <2> DEFINE d == <<j>> \o c
  <2>1. cells' = [cells EXCEPT ![q] = d] /\ used' = used /\ capacity' = capacity
    BY <1>4 DEF Container!PushTo, Container!PushStack
  <2>2. d \in Seq(Cell)
    BY <1>1, Prepended
  <2> HIDE DEF d
  <2>3. /\ CellsInv' /\ cells'[q] = d /\ used'[q] = n
        /\ \A p \in Queues : p # q => Container!JobsIn(p)' = Container!JobsIn(p)
    BY <1>1, <1>4, <2>1, <2>2, OneQueueChanges
  <2> QED
    BY <1>2, <1>4, <2>3, JobsHeld DEF Held, d
<1>5. CASE QueueType[q] = "lockfree_spsc_queue"
  <2> DEFINE d == Append(c, j)
  <2>1. cells' = [cells EXCEPT ![q] = d] /\ used' = used /\ capacity' = capacity
    BY <1>5 DEF Container!PushTo, Container!PushSpsc
  <2>2. d \in Seq(Cell)
    BY <1>1
  <2> HIDE DEF d
  <2>3. /\ CellsInv' /\ cells'[q] = d /\ used'[q] = n
        /\ \A p \in Queues : p # q => Container!JobsIn(p)' = Container!JobsIn(p)
    BY <1>1, <1>5, <2>1, <2>2, OneQueueChanges
  <2> QED
    BY <1>2, <1>5, <2>3, JobsHeld DEF Held, d
<1>6. CASE QueueType[q] = "circular_queue"
  <2> DEFINE room == IF n = k THEN Container!Grown(k) ELSE k
             kept == IF Len(c) = room THEN Container!Front(c) ELSE c
             d == <<j>> \o kept
  <2>1. /\ cells' = [cells EXCEPT ![q] = d] /\ used' = [used EXCEPT ![q] = n + 1]
        /\ capacity' = [capacity EXCEPT ![q] = room]
    BY <1>6 DEF Container!PushTo, Container!PushCircular
  <2>2. Container!Grown(k) \in Nat /\ Container!Grown(k) > k
    BY <1>1 DEF Container!Grown
  <2>3. room \in Nat /\ (n = k => room > k) /\ (n # k => room = k)
    BY <1>1, <2>2
  <2>4. /\ kept \in Seq(Cell) /\ n <= Len(kept) /\ Len(kept) <= Len(c) /\ Len(kept) + 1 <= room
        /\ SameStart(kept, c, Len(kept))
    <3>1. CASE Len(c) = room
      <4>1. n < Len(c) /\ kept = SubSeq(c, 1, Len(c) - 1)
        BY <1>1, <1>6, <2>3, <3>1 DEF Container!Front
      <4> HIDE DEF kept, room
      <4>2. kept \in Seq(Cell) /\ Len(kept) = Len(c) - 1 /\ SameStart(kept, c, Len(kept))
        BY <1>1, <4>1 DEF SameStart
      <4> QED
        BY <1>1, <3>1, <4>1, <4>2
    <3>2. CASE Len(c) # room
      BY <1>1, <1>6, <2>3, <3>2 DEF SameStart
    <3> QED
      BY <3>1, <3>2
  <2> HIDE DEF room, kept
  <2>5. /\ d \in Seq(Cell) /\ Len(d) = Len(kept) + 1 /\ d[1] = j
        /\ Shifted(d, kept, Len(kept))
    BY <1>1, <2>4, Prepended
  <2> HIDE DEF d
  <2>6. n + 1 \in Nat /\ n + 1 <= Len(d) /\ Len(d) <= room
    BY <1>1, <2>4, <2>5
  <2>7. /\ CellsInv' /\ cells'[q] = d /\ used'[q] = n + 1
        /\ \A p \in Queues : p # q => Container!JobsIn(p)' = Container!JobsIn(p)
    BY <2>1, <2>3, <2>5, <2>6, OneQueueChanges
  <2>8. Backwards(d, n + 1) = Append(Backwards(c, n), j)
    <3> DEFINE m == n + 1
    <3>1. n \in 0 .. Len(c) /\ m = n + 1 /\ m <= Len(d) /\ Len(d) <= Len(c) + 1
          /\ Len(d) - 1 = Len(kept)
      BY <1>1, <1>6, <2>4, <2>5
    <3>2. Shifted(d, c, Len(kept))
      BY <2>4, <2>5 DEF Shifted, SameStart
    <3>3. AddedInFront(d, j, c)
      BY <2>5, <3>1, <3>2 DEF AddedInFront
    <3> HIDE DEF m
    <3>4. Backwards(d, m) = Append(Backwards(c, n), j)
      BY <1>1, <2>5, <3>1, <3>3, BackwardsPrepended
    <3> QED
      BY <3>4 DEF m
  <2> QED
    BY <1>2, <1>6, <2>7, <2>8, JobsHeld DEF Held
<1> QED
  BY <1>3, <1>4, <1>5, <1>6, QueueNumbers

\* The queue loses its first job.
LEMMA TakeRemoves ==
  ASSUME ContainerConstants, CellsInv, NEW q \in Queues, Container!JobsIn(q) # <<>>,
         Container!TakeFrom(q)
  PROVE  /\ CellsInv'
         /\ \A p \in Queues : p # q => Container!JobsIn(p)' = Container!JobsIn(p)
         /\ Container!JobsIn(q)' = Tail(Container!JobsIn(q))
<1> DEFINE c == cells[q]
           n == used[q]
           k == capacity[q]
<1>1. /\ c \in Seq(Cell) /\ n \in Nat /\ k \in Nat
      /\ used = [used EXCEPT ![q] = n] /\ capacity = [capacity EXCEPT ![q] = k]
      /\ QueueType[q] = "circular_queue" => n <= Len(c) /\ Len(c) <= k
  BY DEF CellsInv
<1>2. Container!JobsIn(q) = Held(QueueType[q], c, n)
  BY JobsHeld
<1>3. CASE QueueType[q] = "guarded_deque"
  <2> DEFINE d == Container!Front(c)
  <2>1. cells' = [cells EXCEPT ![q] = d] /\ used' = used /\ capacity' = capacity
    BY <1>3 DEF Container!TakeFrom, Container!TakeDeque
  <2>2. Len(c) # 0
    <3>1. Backwards(c, Len(c)) # <<>>
      BY <1>2, <1>3 DEF Held
    <3> QED
      BY <1>1, <3>1, BackwardsSeq
  <2>3. d = SubSeq(c, 1, Len(c) - 1)
    BY DEF Container!Front
  <2>4. d \in Seq(Cell) /\ Len(d) = Len(c) - 1 /\ SameStart(d, c, Len(c) - 1)
    BY <1>1, <2>2, <2>3 DEF SameStart
  <2> HIDE DEF d
  <2>5. /\ CellsInv' /\ cells'[q] = d /\ used'[q] = n
        /\ \A p \in Queues : p # q => Container!JobsIn(p)' = Container!JobsIn(p)
    BY <1>1, <1>3, <2>1, <2>4, OneQueueChanges
  <2>6. Backwards(d, Len(c) - 1) = Tail(Backwards(c, Len(c)))
    <3> DEFINE l == Len(c)
               m == l - 1
    <3>1. l \in 1 .. Len(c) /\ m = l - 1 /\ m <= Len(d) /\ SameStart(d, c, m)
      BY <1>1, <2>2, <2>4
    <3> HIDE DEF l, m
    <3>2. Backwards(d, m) = Tail(Backwards(c, l))
      BY <1>1, <2>4, <3>1, BackwardsShorter
    <3> QED
      BY <3>2 DEF l, m
  <2> QED
    BY <1>2, <1>3, <2>4, <2>5, <2>6, JobsHeld DEF Held
<1>4. CASE QueueType[q] \in {"lockfree_stack", "lockfree_spsc_queue"}
  <2> DEFINE d == Tail(c)
  <2>1. cells' = [cells EXCEPT ![q] = d] /\ used' = used /\ capacity' = capacity
    BY <1>4 DEF Container!TakeFrom, Container!TakeStack, Container!TakeSpsc
  <2>2. c # <<>>
    BY <1>2, <1>4 DEF Held
  <2>3. d \in Seq(Cell)
    BY <1>1, <2>2
  <2> HIDE DEF d
  <2>4. /\ CellsInv' /\ cells'[q] = d /\ used'[q] = n
        /\ \A p \in Queues : p # q => Container!JobsIn(p)' = Container!JobsIn(p)
    BY <1>1, <1>4, <2>1, <2>3, OneQueueChanges
  <2> QED
    BY <1>2, <1>4, <2>4, JobsHeld DEF Held, d
<1>5. CASE QueueType[q] = "circular_queue"
  <2> DEFINE d == [c EXCEPT ![n] = NoJob]
  <2>1. cells' = [cells EXCEPT ![q][n] = NoJob] /\ used' = [used EXCEPT ![q] = n - 1]
        /\ capacity' = capacity
    BY <1>5 DEF Container!TakeFrom, Container!TakeCircular
  <2>2. cells' = [cells EXCEPT ![q] = d]
    BY <2>1 DEF CellsInv
  <2>3. n # 0
    <3>1. Backwards(c, n) # <<>>
      BY <1>2, <1>5 DEF Held
    <3> QED
      BY <1>1, <1>5, <3>1, BackwardsSeq
  <2>4. NoJob \in Cell
    BY DEF Cell
  <2>5. d \in Seq(Cell) /\ Len(d) = Len(c) /\ SameStart(d, c, n - 1)
    BY <1>1, <1>5, <2>3, <2>4 DEF SameStart
  <2> HIDE DEF d
  <2>6. n - 1 \in Nat /\ n - 1 <= Len(d) /\ Len(d) <= k
    BY <1>1, <1>5, <2>3, <2>5
  <2>7. /\ CellsInv' /\ cells'[q] = d /\ used'[q] = n - 1
        /\ \A p \in Queues : p # q => Container!JobsIn(p)' = Container!JobsIn(p)
    BY <1>1, <2>1, <2>2, <2>5, <2>6, OneQueueChanges
  <2>8. Backwards(d, n - 1) = Tail(Backwards(c, n))
    <3> DEFINE m == n - 1
    <3>1. n \in 1 .. Len(c) /\ m = n - 1 /\ m <= Len(d) /\ SameStart(d, c, m)
      BY <1>1, <1>5, <2>3, <2>5, <2>6
    <3> HIDE DEF m
    <3>2. Backwards(d, m) = Tail(Backwards(c, n))
      BY <1>1, <2>5, <3>1, BackwardsShorter
    <3> QED
      BY <3>2 DEF m
  <2> QED
    BY <1>2, <1>5, <2>7, <2>8, JobsHeld DEF Held
<1> QED
  BY <1>3, <1>4, <1>5, QueueNumbers

\* What was pushed to a queue of type ty, what was taken, and the jobs it has.
Kept(ty, p, t, jobs) ==
  IF ty = "lockfree_stack"
    THEN /\ Container!ToSet(p) = Container!ToSet(t) \cup Container!ToSet(jobs)
         /\ Len(p) = Len(t) + Len(jobs)
    ELSE p = t \o jobs

\* The elements of sequences.
LEMMA Elements ==
  ASSUME NEW s \in Seq(Cell)
  PROVE  /\ \A j \in Cell : /\ Container!ToSet(Append(s, j)) = Container!ToSet(s) \cup {j}
                            /\ Container!ToSet(<<j>> \o s) = Container!ToSet(s) \cup {j}
         /\ s # <<>> => Container!ToSet(s) = Container!ToSet(Tail(s)) \cup {Head(s)}
         /\ s = <<>> => Container!ToSet(s) = {}
<1>1. \A r \in Seq(Cell) : Container!ToSet(r) = {r[i] : i \in 1 .. Len(r)}
  BY DEF Container!ToSet
<1>2. ASSUME NEW j \in Cell
      PROVE  Container!ToSet(Append(s, j)) = Container!ToSet(s) \cup {j}
  <2> DEFINE r == Append(s, j)
  <2>1. /\ r \in Seq(Cell) /\ Len(r) = Len(s) + 1 /\ Len(s) \in Nat
        /\ \A i \in 1 .. Len(r) : r[i] = IF i = Len(s) + 1 THEN j ELSE s[i]
    OBVIOUS
  <2> HIDE DEF r
  <2>2. {r[i] : i \in 1 .. Len(r)} = {s[i] : i \in 1 .. Len(s)} \cup {j}
    <3>1. \A i \in 1 .. Len(s) : i \in 1 .. Len(r) /\ i # Len(s) + 1
      BY <2>1
    <3>2. Len(s) + 1 \in 1 .. Len(r) /\ \A i \in 1 .. Len(r) : i = Len(s) + 1 \/ i \in 1 .. Len(s)
      BY <2>1
    <3> QED
      BY <2>1, <3>1, <3>2
  <2> QED
    BY <1>1, <2>1, <2>2 DEF r
<1>3. ASSUME NEW j \in Cell
      PROVE  Container!ToSet(<<j>> \o s) = Container!ToSet(s) \cup {j}
  <2> DEFINE r == <<j>> \o s
  <2>1. /\ r \in Seq(Cell) /\ Len(r) = Len(s) + 1 /\ r[1] = j
        /\ \A i \in 1 .. Len(s) : r[i + 1] = s[i]
    BY Prepended DEF Shifted
  <2> HIDE DEF r
  <2>2. {r[i] : i \in 1 .. Len(r)} = {s[i] : i \in 1 .. Len(s)} \cup {j}
    <3>1. \A i \in 1 .. Len(s) : i + 1 \in 1 .. Len(r)
      BY <2>1
    <3>2. /\ 1 \in 1 .. Len(r)
          /\ \A i \in 1 .. Len(r) : i = 1 \/ (i - 1 \in 1 .. Len(s) /\ (i - 1) + 1 = i)
      BY <2>1
    <3>3. \A i \in 1 .. Len(r) : r[i] \in {s[k] : k \in 1 .. Len(s)} \cup {j}
      <4> SUFFICES ASSUME NEW i \in 1 .. Len(r), i # 1
                   PROVE  r[i] \in {s[k] : k \in 1 .. Len(s)}
        BY <2>1
      <4>1. i - 1 \in 1 .. Len(s) /\ (i - 1) + 1 = i
        BY <3>2
      <4>2. r[i] = s[i - 1]
        BY <2>1, <4>1
      <4> QED
        BY <4>1, <4>2
    <3>4. \A i \in 1 .. Len(s) : s[i] \in {r[k] : k \in 1 .. Len(r)}
      BY <2>1, <3>1
    <3> QED
      BY <2>1, <3>2, <3>3, <3>4
  <2> QED
    BY <1>1, <2>1, <2>2 DEF r
<1>4. ASSUME s # <<>>
      PROVE  Container!ToSet(s) = Container!ToSet(Tail(s)) \cup {Head(s)}
  <2>1. /\ Tail(s) \in Seq(Cell) /\ Len(s) = Len(Tail(s)) + 1 /\ s[1] = Head(s)
        /\ \A i \in 1 .. Len(Tail(s)) : s[i + 1] = Tail(s)[i]
    BY <1>4
  <2> DEFINE r == Tail(s)
             h == Head(s)
  <2>2. {s[i] : i \in 1 .. Len(s)} = {r[i] : i \in 1 .. Len(r)} \cup {h}
    <3> HIDE DEF r, h
    <3>1. \A i \in 1 .. Len(r) : i + 1 \in 1 .. Len(s)
      BY <2>1 DEF r
    <3>2. /\ 1 \in 1 .. Len(s)
          /\ \A i \in 1 .. Len(s) : i = 1 \/ (i - 1 \in 1 .. Len(r) /\ (i - 1) + 1 = i)
      BY <2>1 DEF r
    <3>3. \A i \in 1 .. Len(s) : s[i] \in {r[k] : k \in 1 .. Len(r)} \cup {h}
      BY <2>1, <3>2 DEF r, h
    <3>4. \A i \in 1 .. Len(r) : r[i] \in {s[k] : k \in 1 .. Len(s)}
      BY <2>1, <3>1 DEF r
    <3> QED
      BY <2>1, <3>2, <3>3, <3>4 DEF h
  <2> QED
    BY <1>1, <2>1, <2>2
<1>5. s = <<>> => Container!ToSet(s) = {}
  BY DEF Container!ToSet
<1> QED
  BY <1>2, <1>3, <1>4, <1>5

\* A job that is pushed goes where it belongs.
LEMMA KeptPushed ==
  ASSUME NEW ty, NEW p \in Seq(Cell), NEW t \in Seq(Cell), NEW jobs \in Seq(Cell), NEW j \in Cell,
         Kept(ty, p, t, jobs)
  PROVE  Kept(ty, Append(p, j), t, IF ty = "lockfree_stack" THEN <<j>> \o jobs ELSE Append(jobs, j))
<1>1. CASE ty = "lockfree_stack"
  <2>1. /\ Container!ToSet(Append(p, j)) = Container!ToSet(p) \cup {j}
        /\ Container!ToSet(<<j>> \o jobs) = Container!ToSet(jobs) \cup {j}
    BY Elements
  <2>2. Len(Append(p, j)) = Len(p) + 1 /\ Len(<<j>> \o jobs) = Len(jobs) + 1
    BY Prepended
  <2>3. /\ Container!ToSet(p) = Container!ToSet(t) \cup Container!ToSet(jobs)
        /\ Len(p) = Len(t) + Len(jobs) /\ Len(t) \in Nat /\ Len(jobs) \in Nat
    BY <1>1 DEF Kept
  <2>4. Len(Append(p, j)) = Len(t) + Len(<<j>> \o jobs)
    BY <2>2, <2>3
  <2>5. Container!ToSet(Append(p, j)) = Container!ToSet(t) \cup Container!ToSet(<<j>> \o jobs)
    BY <2>1, <2>3
  <2> QED
    BY <1>1, <2>4, <2>5 DEF Kept
<1>2. CASE ty # "lockfree_stack"
  <2>1. p = t \o jobs
    BY <1>2 DEF Kept
  <2>2. Append(t \o jobs, j) = t \o Append(jobs, j)
    <3>1. <<j>> \in Seq(Cell) /\ t \o jobs \in Seq(Cell)
      OBVIOUS
    <3>2. Append(t \o jobs, j) = (t \o jobs) \o <<j>> /\ Append(jobs, j) = jobs \o <<j>>
      BY <3>1, AppendIsConcat
    <3>3. (t \o jobs) \o <<j>> = t \o (jobs \o <<j>>)
      BY <3>1, ConcatAssociative
    <3> QED
      BY <3>2, <3>3
  <2> QED
    BY <1>2, <2>1, <2>2 DEF Kept
<1> QED
  BY <1>1, <1>2

\* The first job is taken after those taken before.
LEMMA KeptTaken ==
  ASSUME NEW ty, NEW p \in Seq(Cell), NEW t \in Seq(Cell), NEW jobs \in Seq(Cell), jobs # <<>>,
         Kept(ty, p, t, jobs)
  PROVE  Kept(ty, p, Append(t, Head(jobs)), Tail(jobs))
<1>1. Head(jobs) \in Cell /\ Tail(jobs) \in Seq(Cell) /\ Len(jobs) = Len(Tail(jobs)) + 1
  OBVIOUS
<1>2. CASE ty = "lockfree_stack"
  <2>1. /\ Container!ToSet(Append(t, Head(jobs))) = Container!ToSet(t) \cup {Head(jobs)}
        /\ Container!ToSet(jobs) = Container!ToSet(Tail(jobs)) \cup {Head(jobs)}
    BY <1>1, Elements
  <2>2. Len(Append(t, Head(jobs))) = Len(t) + 1 /\ Len(t) \in Nat /\ Len(Tail(jobs)) \in Nat
    BY <1>1
  <2>3. /\ Container!ToSet(p) = Container!ToSet(t) \cup Container!ToSet(jobs)
        /\ Len(p) = Len(t) + Len(jobs)
    BY <1>2 DEF Kept
  <2>4. Len(p) = Len(Append(t, Head(jobs))) + Len(Tail(jobs))
    BY <1>1, <2>2, <2>3
  <2>5. Container!ToSet(p) =
          Container!ToSet(Append(t, Head(jobs))) \cup Container!ToSet(Tail(jobs))
    BY <2>1, <2>3
  <2> QED
    BY <1>2, <2>4, <2>5 DEF Kept
<1>3. CASE ty # "lockfree_stack"
  <2>1. p = t \o jobs
    BY <1>3 DEF Kept
  <2>2. t \o jobs = Append(t, Head(jobs)) \o Tail(jobs)
    OBVIOUS
  <2> QED
    BY <1>3, <2>1, <2>2 DEF Kept
<1> QED
  BY <1>2, <1>3

\* The queues keep the order if each does.
LEMMA EachKept ==
  ASSUME CellsInv
  PROVE  QueuesKeepOrder <=>
         \A q \in Queues : Kept(QueueType[q], pushed[q], taken[q], Container!JobsIn(q))
<1>1. \A q \in Queues : QueueType[q] = "lockfree_stack" => Container!JobsIn(q) = cells[q]
  BY DEF Container!JobsIn
<1> QED
  BY <1>1 DEF QueuesKeepOrder, Container!QueuesKeepOrder, Kept, Queues

\* Likewise after a step.
LEMMA EachKeptNext ==
  ASSUME CellsInv', \A q \in Queues :
                      Kept(QueueType[q], pushed'[q], taken'[q], Container!JobsIn(q)')
  PROVE  QueuesKeepOrder'
<1>1. \A q \in Queues : QueueType[q] = "lockfree_stack" => Container!JobsIn(q)' = cells'[q]
  BY DEF Container!JobsIn
<1> QED
  BY <1>1 DEF QueuesKeepOrder, Container!QueuesKeepOrder, Kept, Queues, Container!Queues

\* The queues are empty at first.
LEMMA ContainerInit ==
  ASSUME ContainerConstants, Container!Init
  PROVE  ContainerInv
<1>1. CellsInv
  BY DEF Container!Init, ContainerConstants, CellsInv, Queues
<1>2. OrderInv
  <2>1. pushed \in [Queues -> Seq(Jobs)] /\ taken \in [Queues -> Seq(Cell)]
    BY DEF Container!Init, Queues
  <2>2. \A q \in Queues : Container!JobsIn(q) = <<>>
    <3>1. \A q \in Queues : cells[q] = <<>> /\ used[q] = 0
      BY DEF Container!Init, Queues
    <3>2. ASSUME NEW q \in Queues
          PROVE  Container!JobsIn(q) = <<>>
      <4>1. Container!JobsIn(q) = Held(QueueType[q], <<>>, 0)
        BY <1>1, <3>1, JobsHeld
      <4>2. 0 \in 0 .. Len(<<>>) /\ <<>> \in Seq(Cell)
        OBVIOUS
      <4>3. Backwards(<<>>, 0) = <<>>
        <5>1. Backwards(<<>>, 0) \in Seq(Cell) /\ Len(Backwards(<<>>, 0)) = 0
          BY <4>2, BackwardsSeq
        <5> QED
          BY <5>1
      <4> QED
        BY <4>1, <4>2, <4>3 DEF Held
    <3> QED
      BY <3>2
  <2>3. \A q \in Queues : pushed[q] = <<>> /\ taken[q] = <<>>
    BY DEF Container!Init, Queues
  <2>4. \A q \in Queues : Kept(QueueType[q], <<>>, <<>>, <<>>)
    BY DEF Kept
  <2> QED
    BY <1>1, <2>1, <2>2, <2>3, <2>4, EachKept DEF OrderInv
<1>3. LateInv
  <2>1. \A t \in Container!Threads : at[t] = 0
    BY DEF Container!Init
  <2>2. \A q \in Queues : ~(q < 0)
    BY QueueNumbers
  <2> QED
    BY <2>1, <2>2 DEF Container!Init, LateInv, Queues
<1> QED
  BY <1>1, <1>2, <1>3 DEF ContainerInv

\* A push.
LEMMA PushStep ==
  ASSUME ContainerConstants, ContainerInv, NEW j \in Jobs, Container!Push(j)
  PROVE  ContainerInv'
<1>1. PICK q \in Container!Positions(Prio[j]) :
        /\ Container!PushTo(q, j)
        /\ pushed' = [pushed EXCEPT ![q] = Append(@, j)]
        /\ late' = [t \in Container!Threads |-> IF q < at[t] THEN late[t] \cup {j} ELSE late[t]]
  BY DEF Container!Push
<1>2. q \in Queues
  <2>1. Prio[j] \in Nat
    BY DEF ContainerConstants
  <2> QED
    BY <1>1, <2>1, QueueNumbers DEF Container!Positions, Queues
<1>3. enabled' = enabled /\ at' = at /\ taken' = taken
  BY DEF Container!Push
<1>4. CellsInv /\ OrderInv /\ LateInv /\ j \in Cell
  BY DEF ContainerInv, Cell
<1>5. /\ CellsInv'
      /\ \A p \in Queues : p # q => Container!JobsIn(p)' = Container!JobsIn(p)
      /\ Container!JobsIn(q)' = IF QueueType[q] = "lockfree_stack"
                                THEN <<j>> \o Container!JobsIn(q)
                                ELSE Append(Container!JobsIn(q), j)
  BY <1>1, <1>2, <1>4, PushAdds
<1>6. OrderInv'
  <2>1. pushed' \in [Queues -> Seq(Jobs)]
    BY <1>1, <1>2, <1>4 DEF OrderInv
  <2>2. \A p \in Queues : Kept(QueueType[p], pushed[p], taken[p], Container!JobsIn(p))
    BY <1>4, EachKept DEF OrderInv
  <2>3. Kept(QueueType[q], pushed'[q], taken'[q], Container!JobsIn(q)')
    <3>1. pushed[q] \in Seq(Cell) /\ taken[q] \in Seq(Cell) /\ Container!JobsIn(q) \in Seq(Cell)
      <4>1. pushed[q] \in Seq(Jobs) /\ taken[q] \in Seq(Cell)
        BY <1>2, <1>4 DEF OrderInv
      <4>2. pushed[q] \in Seq(Cell)
        BY <4>1 DEF Cell
      <4> QED
        BY <1>2, <1>4, <4>1, <4>2, JobsHeld
    <3>2. pushed'[q] = Append(pushed[q], j) /\ taken'[q] = taken[q]
      BY <1>1, <1>2, <1>3, <1>4 DEF OrderInv
    <3>3. Kept(QueueType[q], Append(pushed[q], j), taken[q],
               IF QueueType[q] = "lockfree_stack" THEN <<j>> \o Container!JobsIn(q)
                                                  ELSE Append(Container!JobsIn(q), j))
      BY <1>2, <1>4, <2>2, <3>1, KeptPushed
    <3> QED
      BY <1>5, <3>2, <3>3
  <2>4. ASSUME NEW p \in Queues, p # q
        PROVE  Kept(QueueType[p], pushed'[p], taken'[p], Container!JobsIn(p)')
    <3>1. pushed'[p] = pushed[p] /\ taken'[p] = taken[p]
      BY <1>1, <1>3, <1>4, <2>4 DEF OrderInv
    <3> QED
      BY <1>5, <2>2, <2>4, <3>1
  <2>5. QueuesKeepOrder'
    BY <1>5, <2>3, <2>4, EachKeptNext
  <2>6. Queues' = Queues
    BY DEF Queues, Container!Queues
  <2> QED
    BY <1>3, <1>4, <2>1, <2>5, <2>6 DEF OrderInv
<1>7. LateInv'
  <2>1. Queues' = Queues /\ Container!Threads' = Container!Threads
    BY DEF Queues, Container!Queues, Container!Threads
  <2>2. \A t \in Container!Threads : late'[t] = IF q < at[t] THEN late[t] \cup {j} ELSE late[t]
    BY <1>1
  <2>3. Container!ToSet(Container!JobsIn(q)') = Container!ToSet(Container!JobsIn(q)) \cup {j}
    BY <1>2, <1>4, <1>5, JobsHeld, Elements
  <2>4. \A t \in Container!Threads : \A p \in enabled : p < at[t] /\ Container!MayTake(t, p) =>
          Container!ToSet(Container!JobsIn(p)') \subseteq late'[t]
    <3> SUFFICES ASSUME NEW t \in Container!Threads, NEW p \in enabled, p < at[t],
                        Container!MayTake(t, p)
                 PROVE  Container!ToSet(Container!JobsIn(p)') \subseteq late'[t]
      OBVIOUS
    <3>1. Container!ToSet(Container!JobsIn(p)) \subseteq late[t] /\ p \in Queues
      BY <1>4 DEF LateInv
    <3>2. CASE p = q
      BY <2>2, <2>3, <3>1, <3>2
    <3>3. CASE p # q
      BY <1>5, <2>2, <3>1, <3>3
    <3> QED
      BY <3>2, <3>3
  <2>5. /\ enabled' \subseteq Queues /\ at' \in [Container!Threads -> {0} \cup Queues]
        /\ late' = [t \in Container!Threads |-> late'[t]]
    BY <1>1, <1>3, <1>4 DEF LateInv
  <2>6. \A t, p : Container!MayTake(t, p)' = Container!MayTake(t, p)
    BY DEF Container!MayTake
  <2>7. \A p : Container!ToSet(Container!JobsIn(p))' = Container!ToSet(Container!JobsIn(p)')
    BY DEF Container!ToSet
  <2> QED
    BY <1>3, <2>1, <2>4, <2>5, <2>6, <2>7 DEF LateInv
<1> QED
  BY <1>5, <1>6, <1>7 DEF ContainerInv

\* A job is taken.
LEMMA TakeStep ==
  ASSUME ContainerConstants, ContainerInv, NEW t \in Container!Threads, Container!Take(t)
  PROVE  ContainerInv'
<1>1. CellsInv /\ OrderInv /\ LateInv
  BY DEF ContainerInv
<1>2. PICK q \in Queues : at[t] = q
  BY <1>1 DEF LateInv, Container!Take, Container!Finds
<1> DEFINE jobs == Container!JobsIn(q)
<1>3. /\ Container!TakeFrom(q) /\ jobs # <<>>
      /\ taken' = [taken EXCEPT ![q] = Append(@, Head(jobs))]
      /\ at' = [at EXCEPT ![t] = 0]
      /\ enabled' = enabled /\ late' = late /\ pushed' = pushed
  BY <1>2 DEF Container!Take, Container!Finds
<1>4. /\ CellsInv'
      /\ \A p \in Queues : p # q => Container!JobsIn(p)' = Container!JobsIn(p)
      /\ Container!JobsIn(q)' = Tail(jobs)
  BY <1>3, <1>1, TakeRemoves
<1>5. jobs \in Seq(Cell)
  BY <1>1, <1>2, JobsHeld
<1>6. \A p \in Queues : Container!ToSet(Container!JobsIn(p)')
                          \subseteq Container!ToSet(Container!JobsIn(p))
  <2>1. Container!ToSet(Tail(jobs)) \subseteq Container!ToSet(jobs)
    BY <1>3, <1>5, Elements
  <2> QED
    BY <1>4, <2>1
<1>7. Queues' = Queues /\ Container!Threads' = Container!Threads
  BY DEF Queues, Container!Queues, Container!Threads
<1>8. OrderInv'
  <2>1. \A p \in Queues : Kept(QueueType[p], pushed[p], taken[p], Container!JobsIn(p))
    BY <1>1, EachKept DEF OrderInv
  <2>2. pushed[q] \in Seq(Cell) /\ taken[q] \in Seq(Cell)
    <3>1. pushed[q] \in Seq(Jobs) /\ taken[q] \in Seq(Cell)
      BY <1>1, <1>2 DEF OrderInv
    <3>2. pushed[q] \in Seq(Cell)
      BY <3>1 DEF Cell
    <3> QED
      BY <3>1, <3>2
  <2> HIDE DEF jobs
  <2>3. taken'[q] = Append(taken[q], Head(jobs)) /\ taken' \in [Queues -> Seq(Cell)]
    BY <1>3, <1>1, <1>2, <1>5, <2>2 DEF OrderInv
  <2>4. Kept(QueueType[q], pushed[q], taken'[q], Tail(jobs))
    <3>1. Kept(QueueType[q], pushed[q], taken[q], jobs)
      BY <1>2, <2>1 DEF jobs
    <3> QED
      BY <1>3, <1>5, <2>2, <2>3, <3>1, KeptTaken
  <2>5. ASSUME NEW p \in Queues, p # q
        PROVE  Kept(QueueType[p], pushed[p], taken'[p], Container!JobsIn(p)')
    <3>1. taken'[p] = taken[p]
      BY <1>3, <1>1, <2>5 DEF OrderInv
    <3> QED
      BY <1>4, <2>1, <2>5, <3>1
  <2>6. QueuesKeepOrder'
    BY <1>3, <1>4, <2>4, <2>5, EachKeptNext
  <2> QED
    BY <1>3, <1>1, <1>7, <2>3, <2>6 DEF OrderInv
<1>9. LateInv'
  <2>1. \A u \in Container!Threads : at'[u] = IF u = t THEN 0 ELSE at[u]
    BY <1>3, <1>1 DEF LateInv
  <2>2. \A p \in Queues : ~(p < 0)
    BY QueueNumbers
  <2>3. \A u \in Container!Threads : \A p \in enabled : p < at'[u] /\ Container!MayTake(u, p) =>
          Container!ToSet(Container!JobsIn(p)') \subseteq late[u]
    <3> SUFFICES ASSUME NEW u \in Container!Threads, NEW p \in enabled, p < at'[u],
                        Container!MayTake(u, p)
                 PROVE  Container!ToSet(Container!JobsIn(p)') \subseteq late[u]
      OBVIOUS
    <3>1. p \in Queues
      BY <1>1 DEF LateInv
    <3>2. u # t /\ p < at[u]
      BY <2>1, <2>2, <3>1
    <3>3. Container!ToSet(Container!JobsIn(p)) \subseteq late[u]
      BY <1>1, <3>2 DEF LateInv
    <3> QED
      BY <1>6, <3>1, <3>3
  <2>4. at' \in [Container!Threads -> {0} \cup Queues]
    BY <1>3, <1>1 DEF LateInv
  <2>5. \A u, p : Container!MayTake(u, p)' = Container!MayTake(u, p)
    BY DEF Container!MayTake
  <2>6. \A p : Container!ToSet(Container!JobsIn(p))' = Container!ToSet(Container!JobsIn(p)')
    BY DEF Container!ToSet
  <2> QED
    BY <1>3, <1>1, <1>7, <2>3, <2>4, <2>5, <2>6 DEF LateInv
<1> QED
  BY <1>4, <1>8, <1>9 DEF ContainerInv

\* A step that leaves the queues alone.
LEMMA QueuesUnchanged ==
  ASSUME CellsInv, OrderInv, UNCHANGED <<cells, used, capacity, pushed, taken>>
  PROVE  CellsInv' /\ OrderInv' /\ \A q : Container!JobsIn(q)' = Container!JobsIn(q)
<1>1. Queues' = Queues
  BY DEF Queues, Container!Queues
<1>2. CellsInv'
  BY <1>1 DEF CellsInv
<1>3. \A q : Container!JobsIn(q)' = Container!JobsIn(q)
  BY DEF Container!JobsIn, Container!DequeJobs, Container!CircularJobs
<1>4. QueuesKeepOrder'
  <2>1. \A q \in Queues : Kept(QueueType[q], pushed[q], taken[q], Container!JobsIn(q))
    BY EachKept DEF OrderInv
  <2> QED
    BY <1>2, <1>3, <2>1, EachKeptNext
<1> QED
  BY <1>1, <1>2, <1>3, <1>4 DEF OrderInv

\* enable_queue, the call of pop or try_steal, and the next queue tried.
LEMMA OtherStep ==
  ASSUME ContainerConstants, ContainerInv,
         \/ \E q \in Queues, on \in BOOLEAN : Container!EnableQueue(q, on)
         \/ \E t \in Container!Threads : Container!Call(t) \/ Container!GoOn(t)
         \/ UNCHANGED Container!vars
  PROVE  ContainerInv'
<1>1. UNCHANGED <<cells, used, capacity, pushed, taken>>
  BY DEF Container!EnableQueue, Container!Call, Container!GoOn, Container!vars
<1>2. CellsInv /\ OrderInv /\ LateInv
  BY DEF ContainerInv
<1>3. CellsInv' /\ OrderInv' /\ \A q : Container!JobsIn(q)' = Container!JobsIn(q)
  BY <1>1, <1>2, QueuesUnchanged
<1>4. Queues' = Queues /\ Container!Threads' = Container!Threads
  BY DEF Queues, Container!Queues, Container!Threads
<1>5. \A u, p : Container!MayTake(u, p)' = Container!MayTake(u, p)
  BY DEF Container!MayTake
<1>6. \A p : Container!ToSet(Container!JobsIn(p))' = Container!ToSet(Container!JobsIn(p))
  BY <1>3 DEF Container!ToSet
<1>7. ASSUME NEW q \in Queues, NEW on \in BOOLEAN, Container!EnableQueue(q, on)
      PROVE  LateInv'
  <2>1. /\ enabled' = IF on THEN enabled \cup {q} ELSE enabled \ {q}
        /\ late' = [t \in Container!Threads |->
                      IF on /\ q < at[t] THEN late[t] \cup Container!ToSet(Container!JobsIn(q))
                      ELSE late[t]]
        /\ at' = at
    BY <1>7 DEF Container!EnableQueue
  <2>2. enabled' \subseteq Queues
    BY <1>2, <2>1 DEF LateInv
  <2>3. ASSUME NEW t \in Container!Threads, NEW p \in enabled', p < at[t], Container!MayTake(t, p)
        PROVE  Container!ToSet(Container!JobsIn(p)) \subseteq late'[t]
    <3>1. late'[t] = IF on /\ q < at[t] THEN late[t] \cup Container!ToSet(Container!JobsIn(q))
                     ELSE late[t]
      BY <2>1
    <3>2. CASE p \in enabled
      BY <1>2, <2>3, <3>1, <3>2 DEF LateInv
    <3>3. CASE p \notin enabled
      BY <2>1, <2>3, <3>1, <3>3
    <3> QED
      BY <3>2, <3>3
  <2>4. late' = [t \in Container!Threads |-> late'[t]]
    BY <2>1
  <2> QED
    BY <1>2, <1>4, <1>5, <1>6, <2>1, <2>2, <2>3, <2>4 DEF LateInv
<1>8. ASSUME NEW t \in Container!Threads, Container!Call(t)
      PROVE  LateInv'
  <2>1. /\ at[t] = 0 /\ at' = [at EXCEPT ![t] = 1] /\ late' = [late EXCEPT ![t] = {}]
        /\ enabled' = enabled
    BY <1>8 DEF Container!Call, Container!FirstTried
  <2>2. 1 \in Queues /\ \A p \in Queues : ~(p < 1)
    BY QueueNumbers
  <2>3. at' \in [Container!Threads -> {0} \cup Queues]
    BY <1>2, <2>1, <2>2 DEF LateInv
  <2>4. ASSUME NEW u \in Container!Threads, NEW p \in enabled, p < at'[u], Container!MayTake(u, p)
        PROVE  Container!ToSet(Container!JobsIn(p)) \subseteq late'[u]
    <3>1. u # t
      BY <1>2, <2>1, <2>2, <2>4 DEF LateInv
    <3>2. at'[u] = at[u]
      BY <1>2, <2>1, <3>1 DEF LateInv
    <3>3. late'[u] = late[u]
      BY <1>2, <2>1, <3>1 DEF LateInv
    <3> QED
      BY <1>2, <2>4, <3>2, <3>3 DEF LateInv
  <2>5. late' = [u \in Container!Threads |-> late'[u]]
    BY <1>2, <2>1 DEF LateInv
  <2> QED
    BY <1>2, <1>4, <1>5, <1>6, <2>1, <2>3, <2>4, <2>5 DEF LateInv
<1>9. ASSUME NEW t \in Container!Threads, Container!GoOn(t)
      PROVE  LateInv'
  <2> DEFINE q == at[t]
             next == IF q = Container!Lowest THEN 0 ELSE q + 1
  <2>1. /\ q # 0 /\ ~Container!Finds(t) /\ at' = [at EXCEPT ![t] = next]
        /\ late' = late /\ enabled' = enabled
    BY <1>9 DEF Container!GoOn, Container!NextTried
  <2>2. q \in Queues
    BY <1>2, <2>1 DEF LateInv
  <2>3. /\ next \in {0} \cup Queues
        /\ \A p \in Queues : p < next => p < q \/ p = q
    BY <2>2, QueueNumbers
  <2>4. \/ q \notin enabled \/ ~Container!MayTake(t, q)
        \/ Container!ToSet(Container!JobsIn(q)) = {}
    BY <1>2, <2>1, <2>2, JobsHeld, Elements DEF Container!Finds
  <2> HIDE DEF next, q
  <2>5. at' \in [Container!Threads -> {0} \cup Queues]
    BY <1>2, <2>1, <2>3 DEF LateInv
  <2>6. ASSUME NEW u \in Container!Threads, NEW p \in enabled, p < at'[u], Container!MayTake(u, p)
        PROVE  Container!ToSet(Container!JobsIn(p)) \subseteq late[u]
    <3>1. at'[u] = IF u = t THEN next ELSE at[u]
      BY <1>2, <2>1 DEF LateInv
    <3>2. p \in Queues /\ (p < at[u] =>
             Container!ToSet(Container!JobsIn(p)) \subseteq late[u])
      BY <1>2, <2>6 DEF LateInv
    <3>3. CASE u # t
      BY <2>6, <3>1, <3>2, <3>3
    <3>4. CASE u = t
      BY <2>3, <2>4, <2>6, <3>1, <3>2, <3>4 DEF q
    <3> QED
      BY <3>3, <3>4
  <2> QED
    BY <1>2, <1>4, <1>5, <1>6, <2>1, <2>5, <2>6 DEF LateInv
<1>10. ASSUME UNCHANGED Container!vars
       PROVE  LateInv'
  <2>1. enabled' = enabled /\ at' = at /\ late' = late
    BY <1>10 DEF Container!vars
  <2> QED
    BY <1>2, <1>4, <1>5, <1>6, <2>1 DEF LateInv
<1> QED
  BY <1>3, <1>7, <1>8, <1>9, <1>10 DEF ContainerInv

\* The container keeps its invariant.
LEMMA ContainerNext ==
  ASSUME ContainerConstants, ContainerInv, [Container!Next]_(Container!vars)
  PROVE  ContainerInv'
BY PushStep, TakeStep, OtherStep DEF Container!Next, Queues

\* The jobs of each queue of any_queue_container are given once each, in the
\* order of their push, and none is lost: for any queues, threads and jobs.
THEOREM QueuesGiveInOrder == ASSUME ContainerConstants
                             PROVE  Container!Spec => []QueuesKeepOrder
<1>1. Container!Init => ContainerInv
  BY ContainerInit
<1>2. ContainerInv /\ [Container!Next]_(Container!vars) => ContainerInv'
  BY ContainerNext
<1>3. ContainerInv => QueuesKeepOrder
  BY DEF ContainerInv, OrderInv
<1> QED
  BY <1>1, <1>2, <1>3, PTL DEF Container!Spec

\* A worker or a thief takes a job only when every job of higher priority that
\* it could have had came, or was enabled, after it had looked there.
THEOREM ContainerRespectsPriority == ASSUME ContainerConstants
                                     PROVE  Container!Spec => PriorityRespected
<1>1. Container!Init => ContainerInv
  BY ContainerInit
<1>2. ContainerInv /\ [Container!Next]_(Container!vars) => ContainerInv'
  BY ContainerNext
<1> DEFINE InTurn ==
             \A t \in Container!Threads : at[t] # 0 /\ at'[t] = 0 /\ taken' # taken =>
               \A q \in enabled : q < at[t] /\ Container!MayTake(t, q) =>
                 Container!ToSet(Container!JobsIn(q)) \subseteq late[t]
<1>3. ContainerInv /\ [Container!Next]_(Container!vars) => [InTurn]_(Container!vars)
  BY DEF ContainerInv, LateInv
<1>4. Container!Spec => [][InTurn]_(Container!vars)
  <2> HIDE DEF InTurn
  <2> QED
    BY <1>1, <1>2, <1>3, PTL DEF Container!Spec
<1> QED
  BY <1>4 DEF PriorityRespected, Container!PriorityRespected
=============================================================================
