----------------------- MODULE MCThreadpoolScheduler -----------------------
(***************************************************************************)
(* Instances of ThreadpoolScheduler.  fib forks two subtasks; patient      *)
(* forks one and waits for it with a timeout; guarded is interruptible and *)
(* forks two.  What the clients have to post is chosen once, so that a     *)
(* behaviour is about one of the scenarios.                                *)
(***************************************************************************)
EXTENDS ThreadpoolScheduler, Functions, FiniteSets

CONSTANTS
  fib, left, right, patient, late, guarded, first, last,
  Scenarios          \* sets of jobs that the clients may post

ForkOnce ==
  [j \in Jobs |-> Jobs \cap CASE j = fib -> {left, right}
                              [] j = patient -> {late}
                              [] j = guarded -> {first, last}
                              [] OTHER -> {}]

OneForks == {{fib}, {patient}, {guarded}}

VARIABLE offered     \* the scenario of the behaviour

\* The client that has made the pool; it does not matter which one it is.
Maker == CHOOSE c \in Clients : TRUE

MCInit == Init /\ held = {Maker} /\ offered \in Scenarios

\* Beside fib only the first worker is sent a private task, beside guarded none.
PrivateTasksBound ==
  /\ fib \in offered => \A w \in Workers \ {1} : "task" \notin Range(priv'[w])
  /\ guarded \in offered => \A w \in Workers : "task" \notin Range(priv'[w])

\* The client of guarded is alone, and posts by its proxy.
ClientsBound ==
  guarded \in offered => locks' \cap Clients = {} /\ held' \subseteq {Maker}

\* Two states are marked, each once, before its job has ended or, for that of
\* a parent, before its continuation is called.
InterruptsBound ==
  /\ Cardinality(requested') <= 2
  /\ \A j \in marked' \ marked :
       /\ j \notin requested
       /\ status[j] \notin Ended \/ (Subtasks[j] # {} /\ j \notin continued)

MCNext ==
  /\ Next
  /\ \A j \in Roots \ offered : status'[j] = "new"
  /\ PrivateTasksBound
  /\ ClientsBound
  /\ InterruptsBound
  /\ UNCHANGED offered

MCSpec == MCInit /\ [][MCNext]_<<vars, offered>> /\ Fairness
=============================================================================
