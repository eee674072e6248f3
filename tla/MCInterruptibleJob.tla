------------------------- MODULE MCInterruptibleJob -------------------------
(***************************************************************************)
(* Instances of InterruptibleJob: jobs that fork two subtasks, posted      *)
(* alone or beside a job that forks none.                                  *)
(***************************************************************************)
EXTENDS InterruptibleJob

CONSTANTS fib, plainFib, left, right, loop, next

ForkTwo ==
  [j \in Jobs |-> IF j \in {fib, plainFib} THEN <<left, right>> ELSE <<>>]

\* A job that can be interrupted forks alone, or one that cannot forks beside
\* one that can.
EitherForks == {{fib}, {plainFib, loop}}

AllPosted == {Interruptible \cup Plain}
=============================================================================
