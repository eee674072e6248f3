---------------------- MODULE MCMultipleThreadScheduler ----------------------
(***************************************************************************)
(* Instances of MultipleThreadScheduler: the jobs of two or three servants.*)
(***************************************************************************)
EXTENDS MultipleThreadScheduler

CONSTANTS void0, future0, future1, more1, void1, callback1, deleter1

KindOf == [j \in Jobs |-> CASE j \in {void0, void1} -> "void"
                            [] j \in {future0, future1, more1} -> "future"
                            [] j = callback1 -> "callback"
                            [] j = deleter1 -> "deleter"]

ServantOf == [j \in Jobs |-> IF j \in {void0, future0} THEN 0 ELSE 1]
=============================================================================
