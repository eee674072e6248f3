------------------------------- MODULE JobPool -------------------------------
(***************************************************************************)
(* What a scheduler of this library promises to the code that posts to it, *)
(* whatever queues and threads it is built from: a job is accepted while   *)
(* somebody owns the scheduler, every accepted job starts once and ends,   *)
(* and the shutdown reports "joined" only when nothing is left to run.     *)
(***************************************************************************)
CONSTANT Jobs

VARIABLES state,   \* [Jobs -> JobStates]
          closed,  \* the last owner is gone: nothing is accepted any more
          joined   \* the destructor of the last proxy has joined the workers

vars == <<state, closed, joined>>

\* "refused": a subtask whose scheduler was gone when it was to be posted.
JobStates == {"new", "posted", "running", "ended", "refused"}

TypeOK == /\ state \in [Jobs -> JobStates]
          /\ closed \in BOOLEAN
          /\ joined \in BOOLEAN

Init == /\ state = [j \in Jobs |-> "new"]
        /\ closed = FALSE
        /\ joined = FALSE

Move(j, from, to) == /\ state[j] = from
                     /\ state' = [state EXCEPT ![j] = to]
                     /\ UNCHANGED <<closed, joined>>

Post(j)  == ~closed /\ Move(j, "new", "posted")
Start(j) == Move(j, "posted", "running")
End(j)   == Move(j, "running", "ended")

\* The subtasks of one job are refused together.
Refuse == /\ closed
          /\ \E S \in SUBSET {j \in Jobs : state[j] = "new"} :
               state' = [j \in Jobs |-> IF j \in S THEN "refused" ELSE state[j]]
          /\ UNCHANGED <<closed, joined>>

Close == /\ ~closed
         /\ closed' = TRUE
         /\ UNCHANGED <<state, joined>>

Join == /\ closed
        /\ \A j \in Jobs : state[j] \notin {"posted", "running"}
        /\ joined' = TRUE
        /\ UNCHANGED <<state, closed>>

Next == \/ \E j \in Jobs : Post(j) \/ Start(j) \/ End(j)
        \/ Refuse \/ Close \/ Join

Spec == Init /\ [][Next]_vars
=============================================================================
