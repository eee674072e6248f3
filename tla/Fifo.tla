--------------------------------- MODULE Fifo ---------------------------------
(***************************************************************************)
(* What the queues of boost::asynchronous promise to a scheduler: elements *)
(* come out once each, in the order in which they went in.                 *)
(***************************************************************************)
EXTENDS Sequences

CONSTANT Values

VARIABLES
  content, \* pushed and not popped
  popped   \* every element that was popped, in that order

TypeOK == content \in Seq(Values) /\ popped \in Seq(Values)

Init == content = <<>> /\ popped = <<>>

Push(v) == content' = Append(content, v) /\ UNCHANGED popped

Pop == /\ content # <<>>
       /\ popped' = Append(popped, Head(content))
       /\ content' = Tail(content)

Next == Pop \/ \E v \in Values : Push(v)

Spec == Init /\ [][Next]_<<content, popped>>
=============================================================================
