---------------------------- MODULE ParallelVector ----------------------------
(***************************************************************************)
(* boost::asynchronous::vector and the asynchronous operations of          *)
(* container/algorithms.hpp.                                               *)
(*                                                                         *)
(* A vector owns memory (m_data, a placement_deleter) in which it          *)
(* constructs, moves, assigns and destroys its elements, by parallel       *)
(* algorithms posted to its scheduler or, without scheduler, in the        *)
(* calling thread.  Both ways end before the call returns and do the same  *)
(* to the memory, with one exception: parallel_move must not move onto its *)
(* own source.  The size is kept twice, in the vector and in its           *)
(* placement_deleter, and the capacity apart from the memory.              *)
(***************************************************************************)
EXTENDS Integers, Sequences, FiniteSets

CONSTANTS Vectors, Values,
          DefaultCapacity,      \* default_capacity, 10 in the code
          Spare,                \* what calc_new_capacity adds, 10 in the code
          MaxElements,          \* bound: elements in all vectors together
          MaxRoom,              \* bound: cells of one allocation
          Beyond                \* calls of a client that the code gets wrong:
                                \* see Supports

VectorAssumption ==
    /\ DefaultCapacity \in Nat
    /\ Spare \in Nat \ {0}
    /\ MaxElements \in Nat
    /\ MaxRoom \in Nat

VARIABLES vec,                  \* the vectors
          silent                \* an asynchronous call will never answer

vars == <<vec, silent>>

-----------------------------------------------------------------------------
(* Memory: a cell is raw, holds an object, or something was done to it that *)
(* is undefined: an object constructed over another one (Overwritten),      *)
(* destroyed, assigned or read where there is none (Torn).  Cells beyond    *)
(* the room that was allocated exist in order to see that they are touched. *)

Raw         == "raw"
Default     == "T()"
Moved       == "moved"
Overwritten == "overwritten"
Torn        == "torn"

Elements == Values \cup {Default}
Live     == Elements \cup {Moved}
Cell     == Live \cup {Raw, Overwritten, Torn}

Top == 2 * MaxElements + 1

Unused == [i \in 1 .. Top |-> Raw]

Read(cells, b, e) == [k \in 1 .. e - b |-> cells[b + k - 1]]

Placed(cells, b, e, x) ==
    [i \in 1 .. Top |-> IF i \notin b .. e - 1 THEN cells[i]
                        ELSE IF cells[i] = Raw THEN x ELSE Overwritten]

Destroyed(cells, b, e) ==
    [i \in 1 .. Top |-> IF i \notin b .. e - 1 THEN cells[i]
                        ELSE IF cells[i] \in Live THEN Raw ELSE Torn]

Assigned(cells, b, xs) ==
    [i \in 1 .. Top |-> IF i \notin b .. b + Len(xs) - 1 THEN cells[i]
                        ELSE IF cells[i] \in Live /\ xs[i - b + 1] \in Elements
                        THEN xs[i - b + 1] ELSE Torn]

MovedFrom(cells, b, e) ==
    [i \in 1 .. Top |-> IF i \in b .. e - 1 /\ cells[i] \in Live THEN Moved ELSE cells[i]]

-----------------------------------------------------------------------------
(* The vector itself.  has: m_data is not null; room and cells: what it     *)
(* points to; dsize: m_data->size_; lost: memory was freed before all that  *)
(* lived in it was destroyed, or after more was destroyed.                  *)

Vector == [sched : BOOLEAN, has : BOOLEAN, room : Nat, cells : [1 .. Top -> Cell],
           dsize : Nat, size : Nat, cap : Nat, lost : BOOLEAN]

Contents(w) == Read(w.cells, 1, w.size + 1)

\* The vectors made by a constructor, with n elements xs.
Constructed(sched, xs) ==
    [sched |-> sched, has |-> TRUE, room |-> Len(xs),
     cells |-> [i \in 1 .. Top |-> IF i \in DOMAIN xs THEN xs[i] ELSE Raw],
     dsize |-> Len(xs), size |-> Len(xs), cap |-> Len(xs), lost |-> FALSE]

DefaultConstructed(sched) ==
    [Constructed(sched, <<>>) EXCEPT !.room = DefaultCapacity, !.cap = DefaultCapacity]

Repeated(n, x) == [i \in 1 .. n |-> x]

\* The copy constructor constructs n defaults and assigns them.
CopyConstructed(u) ==
    LET w == Constructed(u.sched, Repeated(u.size, Default)) IN
    [w EXCEPT !.cells = Assigned(w.cells, 1, Contents(u))]

\* What is left of a vector when its elements are destroyed and its memory freed.
Emptied(w) ==
    [w EXCEPT !.has = FALSE, !.room = 0, !.cells = Unused, !.dsize = 0,
              !.lost = w.lost \/ (w.has /\ Destroyed(w.cells, 1, w.dsize + 1) # Unused)]

MovedOut(u) == [u EXCEPT !.sched = FALSE, !.has = FALSE, !.room = 0, !.cells = Unused,
                         !.dsize = 0, !.size = 0]

NewCapacity(hint) == 2 * hint + Spare

\* reallocate_helper: defaults in the new memory, then the elements are moved;
\* the capacity is left to the caller.
Reallocated(w, room) ==
    LET cells == Assigned(Placed(Unused, 1, w.size + 1, Default), 1, Contents(w)) IN
    [Emptied(w) EXCEPT !.has = TRUE, !.room = room, !.cells = cells, !.dsize = w.size]

\* async_reallocate followed by set_internal_data: n elements in the new memory.
AsyncReallocated(w, room, n) ==
    LET cells == Assigned(Placed(Unused, 1, n + 1, Default), 1, Contents(w)) IN
    [Emptied(w) EXCEPT !.has = TRUE, !.room = room, !.cells = cells, !.dsize = n,
                       !.size = n, !.cap = room]

Grown(w, n) == [w EXCEPT !.size = @ + n, !.dsize = @ + n]

PushedBack(w, x) ==
    LET roomy == IF w.size + 1 <= w.cap THEN w
                 ELSE [Reallocated(w, NewCapacity(w.size)) EXCEPT !.cap = NewCapacity(w.size)]
    IN  [Grown(roomy, 1) EXCEPT !.cells = Placed(roomy.cells, w.size + 1, w.size + 2, x)]

\* The first element is destroyed.
PoppedBack(w) ==
    [w EXCEPT !.cells = Destroyed(w.cells, 1, 2), !.size = @ - 1, !.dsize = @ - 1]

Reserved(w, n) == IF n <= w.cap THEN w ELSE [Reallocated(w, n) EXCEPT !.cap = n]

ShrunkToFit(w) ==
    IF w.size = w.cap THEN w ELSE [Reallocated(w, w.size) EXCEPT !.cap = w.size]

\* Mutant of Resized: resize leaves the size of the placement_deleter alone.
ResizedVectorOnly(w, n, x) ==
    IF n > w.size
    THEN LET roomy == Reserved(w, n) IN
         [roomy EXCEPT !.cells = Placed(roomy.cells, w.size + 1, n + 1, x), !.size = n]
    ELSE [w EXCEPT !.cells = Destroyed(w.cells, n + 1, w.size + 1), !.size = n]

Resized(w, n, x) ==
    IF n > w.size
    THEN LET roomy == Reserved(w, n) IN
         [roomy EXCEPT !.cells = Placed(roomy.cells, w.size + 1, n + 1, x),
                       !.size = n, !.dsize = n]
    ELSE [w EXCEPT !.cells = Destroyed(w.cells, n + 1, w.size + 1), !.size = n, !.dsize = n]

\* With a scheduler the memory is handed over; m_capacity stays.
Cleared(w) ==
    IF w.sched THEN [Emptied(w) EXCEPT !.size = 0]
    ELSE [w EXCEPT !.cells = Destroyed(w.cells, 1, w.dsize + 1), !.dsize = 0, !.size = 0]

-----------------------------------------------------------------------------
(* Inserting at an offset and erasing. *)

\* The capacity is compared but not changed when memory was reallocated.
RoomFor(w, n) ==
    IF w.size + n > w.cap THEN Reallocated(w, NewCapacity(w.size + n)) ELSE w

\* The elements behind the offset wait in a temporary buffer.
Opened(w, offset, n) ==
    [w EXCEPT !.cells = Placed(MovedFrom(w.cells, offset + 1, w.size + 1),
                               w.size + 1, w.size + n + 1, Default)]

\* Mutant of Closed: the buffer is moved back over the inserted elements.
ClosedTooEarly(open, cells, offset, n, behind) ==
    [Grown(open, n) EXCEPT !.cells = Assigned(cells, offset + 1, behind)]

Closed(open, cells, offset, n, behind) ==
    [Grown(open, n) EXCEPT !.cells = Assigned(cells, offset + n + 1, behind)]

Behind(w, offset) == Read(w.cells, offset + 1, w.size + 1)

Inserted(w, offset, xs) ==
    LET n == Len(xs)
        roomy == RoomFor(w, n)
        open == Opened(roomy, offset, n)
    IN  Closed(open, Assigned(open.cells, offset + 1, xs), offset, n, Behind(roomy, offset))

\* A missing element is constructed at the end; the one at the offset is
\* destroyed and constructed again.
Emplaced(w, offset, x) ==
    LET roomy == RoomFor(w, 1)
        open == Opened(roomy, offset, 1)
        at == offset + 1
    IN  Closed(open, Placed(Destroyed(open.cells, at, at + 1), at, at + 1, x), offset, 1,
               Behind(roomy, offset))

\* parallel_move of the n cells from `from' to `to', in any order of its parts.
Shifted(w, from, to, n) ==
    IF w.sched /\ to < from /\ from < to + n
    THEN Assigned(w.cells, to, Repeated(n, Torn))
    ELSE Assigned(MovedFrom(w.cells, from, from + n), to, Read(w.cells, from, from + n))

\* Mutant of Erased: the elements behind are always moved directly.
ErasedDirectly(w, first, last) ==
    LET behind == w.size - last IN
    IF behind = 0 THEN Resized(w, first, Default)
    ELSE Resized([w EXCEPT !.cells = Shifted(w, last + 1, first + 1, behind)],
                 w.size - (last - first), Default)

\* Elements first + 1 .. last are erased; those behind move directly, or
\* through a temporary buffer if they would overlap.
Erased(w, first, last) ==
    LET behind == w.size - last IN
    IF behind = 0 THEN Resized(w, first, Default)
    ELSE LET cells == IF last - first >= behind THEN Shifted(w, last + 1, first + 1, behind)
                      ELSE Assigned(w.cells, first + 1, Read(w.cells, last + 1, w.size + 1))
         IN  Resized([w EXCEPT !.cells = cells], w.size - (last - first), Default)

-----------------------------------------------------------------------------
(* Assigning. *)

AssignedFrom(w, xs) ==
    LET sized == Resized(w, Len(xs), Default) IN
    [sized EXCEPT !.cells = Assigned(sized.cells, 1, xs)]

CopyAssigned(w, u) == AssignedFrom([w EXCEPT !.sched = u.sched], Contents(u))

\* assign(count, value) swaps with a temporary, which is destroyed.
AssignedRepeated(w, n, x) ==
    [Constructed(w.sched, Repeated(n, x)) EXCEPT !.lost = Emptied(w).lost]

\* swap exchanges all but scheduler, cutoff, name and priority.
Exchanged(w, u) == [u EXCEPT !.sched = w.sched]

-----------------------------------------------------------------------------
(* The asynchronous operations, which work on a vector without scheduler. *)

AsyncPushedBack(w, x) ==
    IF w.size + 1 <= w.cap THEN PushedBack(w, x)
    ELSE PushedBack(AsyncReallocated(w, NewCapacity(w.size), w.size), x)

\* A vector that has the capacity to grow is dropped without an answer.
AnswersResize(w, n) == n <= w.size \/ n > w.cap

AsyncResized(w, n) ==
    IF n = w.size THEN w
    ELSE IF n < w.size
    THEN [w EXCEPT !.cells = Destroyed(w.cells, n + 1, w.size + 1), !.dsize = n, !.size = n]
    ELSE IF n > w.cap THEN AsyncReallocated(w, NewCapacity(n), n)
    ELSE [Emptied(w) EXCEPT !.size = 0]

AsyncReserved(w, n) == IF n <= w.cap THEN w ELSE AsyncReallocated(w, n, w.size)

AsyncShrunkToFit(w) == IF w.size = w.cap THEN w ELSE AsyncReallocated(w, w.size, w.size)

\* The elements of the second vector are moved behind the end of the resized one.
Merged(w, u) ==
    LET sized == AsyncResized(w, w.size + u.size) IN
    [sized EXCEPT !.cells = Assigned(sized.cells, sized.size + 1, Contents(u))]

\* Many containers: the first one is resized to the size of all of them.
MergedAll(w, u) == Merged(w, u)

-----------------------------------------------------------------------------
(* The client.  What the code gets wrong is left to the runs that show it:  *)
(*   "pop_back"     of a vector with several elements                       *)
(*   "emptied"      the use of a vector without memory: cleared in parallel *)
(*                  or moved from                                           *)
(*   "reserve"      when insert has left the capacity below the size        *)
(*   "own"          a reference to an element of the vector as argument of  *)
(*                  a call that moves that element                          *)
(*   "async_resize" to a larger size within the capacity                    *)
(*   "merge"        of two vectors that both have elements                  *)

Supports(call, condition) == condition \/ call \in Beyond

Usable(v) == Supports("emptied", vec[v].has)

Arguments == UNION {[1 .. n -> Values] : n \in 0 .. 2}

Offsets(v) == 0 .. vec[v].size

Becomes(v, w) == vec' = [vec EXCEPT ![v] = w] /\ UNCHANGED silent

Replaces(v, w) == Becomes(v, [w EXCEPT !.lost = Emptied(vec[v]).lost])

-----------------------------------------------------------------------------
(* The operations.                                                          *)

Init ==
    /\ vec \in [Vectors -> {DefaultConstructed(sched) : sched \in BOOLEAN}]
    /\ silent = FALSE

Construct(v, sched, xs) == Replaces(v, Constructed(sched, xs))

CopyConstruct(v, u) == v # u /\ Replaces(v, CopyConstructed(vec[u]))

MoveConstruct(v, u) ==
    /\ v # u
    /\ vec' = [vec EXCEPT ![v] = [vec[u] EXCEPT !.lost = @ \/ Emptied(vec[v]).lost],
                          ![u] = MovedOut(@)]
    /\ UNCHANGED silent

CopyAssign(v, u) == v # u /\ Usable(v) /\ Becomes(v, CopyAssigned(vec[v], vec[u]))

MoveAssign(v, u) ==
    v # u /\ vec' = [vec EXCEPT ![v] = vec[u], ![u] = vec[v]] /\ UNCHANGED silent

Assign(v, xs) == Usable(v) /\ Becomes(v, AssignedFrom(vec[v], xs))

AssignCount(v, n, x) == Becomes(v, AssignedRepeated(vec[v], n, x))

Swap(v, u) ==
    /\ v # u
    /\ vec' = [vec EXCEPT ![v] = Exchanged(@, vec[u]), ![u] = Exchanged(@, vec[v])]
    /\ UNCHANGED silent

Clear(v) == Becomes(v, Cleared(vec[v]))

PushBack(v, x) == Usable(v) /\ Becomes(v, PushedBack(vec[v], x))

EmplaceBack(v, x) == Usable(v) /\ Becomes(v, PushedBack(vec[v], x))

\* push_back and insert of a reference to an element of the vector itself, which
\* is read when the elements behind the offset wait in their buffer.
PushBackOwn(v, i) ==
    LET w == vec[v] IN
    /\ Usable(v)
    /\ Supports("own", w.size < w.cap)
    /\ Becomes(v, PushedBack(w, IF w.size < w.cap THEN w.cells[i] ELSE Torn))

InsertOwn(v, offset, i) ==
    LET w == vec[v]
        x == IF w.size < w.cap THEN Opened(w, offset, 1).cells[i] ELSE Torn
    IN  /\ Usable(v)
        /\ Supports("own", w.size < w.cap /\ i <= offset)
        /\ Becomes(v, Inserted(w, offset, <<x>>))

PopBack(v) ==
    vec[v].size > 0 /\ Supports("pop_back", vec[v].size = 1) /\ Becomes(v, PoppedBack(vec[v]))

Reserve(v, n) == Supports("reserve", n >= vec[v].size) /\ Becomes(v, Reserved(vec[v], n))

ShrinkToFit(v) == Becomes(v, ShrunkToFit(vec[v]))

Resize(v, n, x) == n # vec[v].size /\ Usable(v) /\ Becomes(v, Resized(vec[v], n, x))

\* The overloads of insert, which differ in what is copied to the free cells.
Insert(v, offset, xs) ==
    /\ Usable(v)
    /\ Becomes(v, Inserted(vec[v], offset, xs))

InsertRange(v, offset, xs) == xs # <<>> /\ Insert(v, offset, xs)

InsertCopy(v, offset, x) == Insert(v, offset, <<x>>)

InsertMoved(v, offset, x) == Insert(v, offset, <<x>>)

InsertCount(v, offset, n, x) == Insert(v, offset, Repeated(n, x))

Emplace(v, offset, x) == Usable(v) /\ Becomes(v, Emplaced(vec[v], offset, x))

Erase(v, first, last) ==
    first < last /\ Usable(v) /\ Becomes(v, Erased(vec[v], first, last))

SetScheduler(v) == ~vec[v].sched /\ Becomes(v, [vec[v] EXCEPT !.sched = TRUE])

ReleaseScheduler(v) == vec[v].sched /\ Becomes(v, [vec[v] EXCEPT !.sched = FALSE])

\* An asynchronous operation is posted to the pool: its vector cannot hold it.
Async(v) == ~vec[v].sched

AsyncPushBack(v, x) == Async(v) /\ Usable(v) /\ Becomes(v, AsyncPushedBack(vec[v], x))

AsyncResize(v, n) ==
    /\ Async(v)
    /\ Supports("async_resize", AnswersResize(vec[v], n))
    /\ vec' = [vec EXCEPT ![v] = AsyncResized(@, n)]
    /\ silent' = (silent \/ ~AnswersResize(vec[v], n))

AsyncReserve(v, n) ==
    /\ Async(v)
    /\ Supports("reserve", n >= vec[v].size)
    /\ Becomes(v, AsyncReserved(vec[v], n))

AsyncShrinkToFit(v) == Async(v) /\ Becomes(v, AsyncShrunkToFit(vec[v]))

\* The result of the merge is v; u is used up.
AsyncMerge(v, u) ==
    LET w == vec[v]
        both == w.size > 0 /\ vec[u].size > 0
        merged == IF vec[u].size = 0 THEN w
                  ELSE IF w.size = 0 THEN [vec[u] EXCEPT !.lost = @ \/ Emptied(w).lost]
                  ELSE Merged(w, vec[u])
    IN
    /\ v # u /\ Async(v) /\ Async(u)
    /\ Supports("merge", ~both)
    /\ vec' = [vec EXCEPT ![v] = merged,
                          ![u] = IF both \/ vec[u].size = 0
                                 THEN [Emptied(@) EXCEPT !.size = 0] ELSE MovedOut(@)]
    /\ silent' = (silent \/ (both /\ ~AnswersResize(w, w.size + vec[u].size)))

AsyncMergeAll(v, u) ==
    LET total == vec[v].size + vec[u].size IN
    /\ v # u /\ Async(v) /\ Async(u)
    /\ Supports("merge", vec[u].size = 0)
    /\ vec' = [vec EXCEPT ![v] = MergedAll(@, vec[u]), ![u] = [Emptied(@) EXCEPT !.size = 0]]
    /\ silent' = (silent \/ ~AnswersResize(vec[v], total))

MakeAsynchronousRange(v, n) == Replaces(v, Constructed(FALSE, Repeated(n, Default)))

Sizes == 0 .. MaxElements

Bounded ==
    /\ \A v \in Vectors : vec'[v].room <= MaxRoom
    /\ \A v, u \in Vectors :
          vec'[v].size + (IF u = v THEN 0 ELSE vec'[u].size) <= MaxElements

Modify(v) ==
    \/ \E xs \in Arguments : Construct(v, TRUE, xs) \/ Construct(v, FALSE, xs) \/ Assign(v, xs)
    \/ \E n \in Sizes, x \in Values : AssignCount(v, n, x) \/ Resize(v, n, x)
    \/ Clear(v) \/ PopBack(v) \/ ShrinkToFit(v) \/ SetScheduler(v) \/ ReleaseScheduler(v)
    \/ \E x \in Values : PushBack(v, x) \/ EmplaceBack(v, x)
    \/ \E i \in 1 .. vec[v].size : PushBackOwn(v, i)
    \/ \E n \in 0 .. MaxRoom : Reserve(v, n)
    \/ \E offset \in Offsets(v) :
          \/ \E xs \in Arguments : InsertRange(v, offset, xs)
          \/ \E x \in Values : Emplace(v, offset, x) \/ InsertCopy(v, offset, x) \/ InsertMoved(v, offset, x)
          \/ \E n \in 0 .. 2, x \in Values : InsertCount(v, offset, n, x)
          \/ \E i \in 1 .. vec[v].size : InsertOwn(v, offset, i)
          \/ \E last \in Offsets(v) : Erase(v, offset, last)

ModifyAsync(v) ==
    \/ \E x \in Values : AsyncPushBack(v, x)
    \/ \E n \in Sizes : AsyncResize(v, n) \/ MakeAsynchronousRange(v, n)
    \/ \E n \in 0 .. MaxRoom : AsyncReserve(v, n)
    \/ AsyncShrinkToFit(v)

Both(v, u) ==
    \/ CopyConstruct(v, u) \/ MoveConstruct(v, u) \/ CopyAssign(v, u) \/ MoveAssign(v, u)
    \/ Swap(v, u) \/ AsyncMerge(v, u) \/ AsyncMergeAll(v, u)

Next ==
    /\ \/ \E v \in Vectors : Modify(v) \/ ModifyAsync(v)
       \/ \E v, u \in Vectors : Both(v, u)
    /\ Bounded

Spec == Init /\ [][Next]_vars

-----------------------------------------------------------------------------
TypeOK ==
    /\ silent \in BOOLEAN
    /\ \A v \in Vectors : vec[v] \in Vector

\* Exactly the elements of a vector live in its memory and none lies outside
\* of it; the three sizes agree; a push_back within the capacity has the room.
WellFormed(w) ==
    /\ \A i \in 1 .. w.size : w.cells[i] \in Elements
    /\ \A i \in w.size + 1 .. Top : w.cells[i] = Raw
    /\ w.dsize = w.size
    /\ w.size <= w.room
    /\ w.has => w.cap <= w.room

\* After any calls every vector is well formed: the calls construct, assign and
\* destroy objects where they should, whatever the calls before them left, and
\* memory is freed when all that was constructed in it has been destroyed.
LiveCells == \A v \in Vectors : WellFormed(vec[v]) /\ ~vec[v].lost

\* Whatever calls have brought a vector into its state (capacity above or below
\* the size, memory larger than the capacity), each operation does to its
\* elements what that of std::vector does.
LikeStdVector ==
    \A v \in Vectors :
       LET w == vec[v]
           s == Contents(w)
           Upto(i) == SubSeq(s, 1, i)
           From(i) == SubSeq(s, i + 1, Len(s))
           Sized(n, x) == [i \in 1 .. n |-> IF i <= Len(s) THEN s[i] ELSE x]
       IN  Usable(v) =>
             /\ \A x \in Values :
                   /\ Contents(PushedBack(w, x)) = Append(s, x)
                   /\ Contents(AsyncPushedBack(w, x)) = Append(s, x)
                   /\ \A n \in Sizes : Contents(Resized(w, n, x)) = Sized(n, x)
                   /\ \A i \in Offsets(v) : Contents(Emplaced(w, i, x)) = Upto(i) \o <<x>> \o From(i)
             /\ \A xs \in Arguments :
                   /\ Contents(AssignedFrom(w, xs)) = xs
                   /\ \A i \in Offsets(v) :
                         Contents(Inserted(w, i, xs)) = Upto(i) \o xs \o From(i)
             /\ \A i, j \in Offsets(v) : i < j => Contents(Erased(w, i, j)) = Upto(i) \o From(j)
             /\ \A n \in Sizes : AnswersResize(w, n) => Contents(AsyncResized(w, n)) = Sized(n, Default)
             /\ \A n \in w.size .. MaxRoom : s = Contents(Reserved(w, n)) /\ s = Contents(AsyncReserved(w, n))
             /\ s = Contents(ShrunkToFit(w)) /\ s = Contents(AsyncShrunkToFit(w))
             /\ Contents(Cleared(w)) = <<>>

-----------------------------------------------------------------------------
(* What the documentation says of the vector and does not hold.             *)

\* "asynchronous::vector can be used like std::vector" (README.md:3262): pop_back
\* removes the last element.
PopBackRemovesLast ==
    \A v \in Vectors : vec[v].size > 0 =>
       Contents(PoppedBack(vec[v])) = SubSeq(Contents(vec[v]), 1, vec[v].size - 1)

\* The asynchronous operations answer.
AllAnswered == ~silent
=============================================================================
