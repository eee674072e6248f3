------------------------------ MODULE JobServer ------------------------------
(***************************************************************************)
(* Distribution of jobs over tcp: tcp_server_scheduler takes jobs from its *)
(* queue (or steals them) and gives them to the servant job_server, which  *)
(* has them serialized in a worker pool and sends one to each client that  *)
(* asks.  simple_tcp_client asks on a timer, executes and returns results. *)
(*                                                                         *)
(* Threads: the scheduler, the thread of job_server, the asio thread of    *)
(* the connections, and one thread per client beside its own pool.  The    *)
(* callback of a failed send is not a safe callback: it runs in the asio   *)
(* thread and touches the containers of job_server.  That is a data race;  *)
(* the model takes each operation on a container as one step.              *)
(*                                                                         *)
(* Connections break and clients die; what was on the way may be lost.  A  *)
(* write to a broken connection fails, or is accepted and lost.            *)
(***************************************************************************)
EXTENDS Naturals, Sequences, FiniteSets, SequencesExt

CONSTANTS
  Jobs,
  Stealable,  \* jobs of other schedulers' queues
  Clients,
  Conns,      \* connections that may be made: the bound on reconnections
  MaxCrashes, \* bound on clients that die
  None, NoJob \* NoJob: the response with task id 0 and an empty task

ASSUME ConnsAssumption ==
  /\ Stealable \subseteq Jobs
  /\ None \notin Jobs \cup Conns
  /\ NoJob \notin Jobs \cup {None}

VARIABLES
  stealing,     \* m_stealing, fixed at construction
  queue,        \* m_queue, and the queues of the others
  serializing,  \* jobs of add_task that the worker pool serializes
  unprocessed,  \* m_unprocessed_jobs
  waiting,      \* m_waiting_jobs
  inserting,    \* send_first_job is between send and insert
  waitingConns, \* m_waiting_connections
  keepalive,    \* m_keepalive_connections
  outbox,       \* sends posted to the asio thread: <<connection, job or NoJob>>
  up,           \* connections that work
  used,         \* connections that were made
  toServer,     \* requests under way or posted to job_server
  toClient,     \* the response under way
  pc,           \* the client: "check" (timer), "request" (being written),
                \* "response" (awaited) or "dead"
  conn,         \* m_socket of the client
  executing,    \* jobs in the pool of the client
  write,        \* the result being written: <<job, connection>>
  waitingReqs,  \* m_waiting_requests
  results,      \* how often the result of a job was handed to its poster
  lost,         \* jobs that were swallowed by a connection or a client
  raced         \* a send failed inside send_first_job of the other thread

server  == <<stealing, queue, serializing, unprocessed, waiting, inserting,
             waitingConns, keepalive>>
network == <<outbox, up, used, toServer, toClient>>
client  == <<pc, conn, executing, write, waitingReqs>>
vars == <<server, network, client, results, lost, raced>>

Get == <<"get", None>>
Result(j) == <<"result", j>>

\* m_is_writing: a request or a result is being written.
Writing(k) == pc[k] = "request" \/ write[k] # <<>>

TypeOK ==
  /\ stealing \in BOOLEAN /\ inserting \in BOOLEAN /\ raced \in BOOLEAN
  /\ queue \subseteq Jobs /\ serializing \subseteq Jobs /\ waiting \subseteq Jobs
  /\ lost \subseteq Jobs
  /\ unprocessed \in Seq(Jobs)
  /\ waitingConns \in Seq(Conns)
  /\ keepalive \subseteq Conns /\ up \subseteq used /\ used \subseteq Conns
  /\ outbox \subseteq Conns \X (Jobs \cup {NoJob})
  /\ toServer \in [Conns -> Seq({Get} \cup {Result(j) : j \in Jobs})]
  /\ toClient \in [Conns -> Jobs \cup {NoJob, None}]
  /\ pc \in [Clients -> {"check", "request", "response", "dead"}]
  /\ conn \in [Clients -> Conns \cup {None}]
  /\ executing \in [Clients -> SUBSET Jobs]
  /\ write \in [Clients -> {<<>>} \cup (Jobs \X (Conns \cup {None}))]
  /\ waitingReqs \in [Clients -> Seq(Jobs)]
  /\ results \in [Jobs -> Nat]

Init ==
  /\ stealing \in BOOLEAN
  /\ queue = Jobs
  /\ serializing = {} /\ unprocessed = <<>> /\ waiting = {} /\ inserting = FALSE
  /\ waitingConns = <<>> /\ keepalive = {}
  /\ outbox = {} /\ up = {} /\ used = {}
  /\ toServer = [c \in Conns |-> <<>>]
  /\ toClient = [c \in Conns |-> None]
  /\ pc = [k \in Clients |-> "check"]
  /\ conn = [k \in Clients |-> None]
  /\ executing = [k \in Clients |-> {}]
  /\ write = [k \in Clients |-> <<>>]
  /\ waitingReqs = [k \in Clients |-> <<>>]
  /\ results = [j \in Jobs |-> 0]
  /\ lost = {}
  /\ raced = FALSE

-----------------------------------------------------------------------------
(* tcp_server_scheduler::run                                               *)

\* A job is taken from the queue, or stolen while clients wait, and given to
\* job_server, which posts its serialization to the worker pool.
Forward(j) ==
  /\ j \in queue
  /\ j \in Stealable => /\ queue \subseteq Stealable
                        /\ waitingConns # <<>>
                        /\ ~inserting
  /\ queue' = queue \ {j}
  /\ serializing' = serializing \cup {j}
  /\ UNCHANGED <<stealing, unprocessed, waiting, inserting, waitingConns,
                 keepalive, network, client, results, lost, raced>>

\* Mutant of NoJobs: the connections are forgotten without an answer.
NoJobsSilent ==
  /\ ~inserting
  /\ queue \subseteq Stealable
  /\ waitingConns # <<>>
  /\ waitingConns' = <<>>
  /\ UNCHANGED <<stealing, queue, serializing, unprocessed, waiting, inserting,
                 keepalive, network, client, results, lost, raced>>

\* Nothing to take: the clients that wait are told so.
NoJobs ==
  /\ ~inserting
  /\ queue \subseteq Stealable
  /\ waitingConns # <<>>
  /\ outbox' = outbox \cup {<<c, NoJob>> : c \in ToSet(waitingConns)}
  /\ waitingConns' = <<>>
  /\ UNCHANGED <<stealing, queue, serializing, unprocessed, waiting, inserting,
                 keepalive, up, used, toServer, toClient, client, results, lost, raced>>

-----------------------------------------------------------------------------
(* job_server                                                              *)

\* send_first_job, first half: the send is posted to the asio thread.
Send(c, jobs) ==
  /\ outbox' = outbox \cup {<<c, Head(jobs)>>}
  /\ inserting' = TRUE
  /\ unprocessed' = jobs

\* send_first_job, second half: the first job moves to m_waiting_jobs.
Insert ==
  /\ inserting
  /\ waiting' = waiting \cup {Head(unprocessed)}
  /\ unprocessed' = Tail(unprocessed)
  /\ inserting' = FALSE
  /\ UNCHANGED <<stealing, queue, serializing, waitingConns, keepalive, network,
                 client, results, lost, raced>>

\* Mutant of AddTask: the connection that gets the job goes on waiting.
AddTaskKeepsConnection(j) ==
  /\ ~inserting
  /\ j \in serializing
  /\ serializing' = serializing \ {j}
  /\ IF waitingConns # <<>>
     THEN Send(Head(waitingConns), Append(unprocessed, j))
     ELSE /\ unprocessed' = Append(unprocessed, j)
          /\ UNCHANGED <<outbox, inserting>>
  /\ UNCHANGED <<stealing, queue, waiting, waitingConns, keepalive, up, used, toServer,
                 toClient, client, results, lost, raced>>

\* The callback of add_task: the job is serialized, and sent at once when a
\* connection waits for one.
AddTask(j) ==
  /\ ~inserting
  /\ j \in serializing
  /\ serializing' = serializing \ {j}
  /\ IF waitingConns # <<>>
     THEN /\ Send(Head(waitingConns), Append(unprocessed, j))
          /\ waitingConns' = Tail(waitingConns)
     ELSE /\ unprocessed' = Append(unprocessed, j)
          /\ UNCHANGED <<outbox, inserting, waitingConns>>
  /\ UNCHANGED <<stealing, queue, waiting, keepalive, up, used, toServer, toClient,
                 client, results, lost, raced>>

\* handleRequest: BOOST_ASYNCHRONOUS_TCP_CLIENT_GET_JOB.
HandleGet(c) ==
  /\ ~inserting
  /\ c \in keepalive
  /\ toServer[c] # <<>> /\ Head(toServer[c]) = Get
  /\ toServer' = [toServer EXCEPT ![c] = Tail(@)]
  /\ \/ /\ unprocessed # <<>>
        /\ Send(c, unprocessed)
        /\ UNCHANGED waitingConns
     \/ /\ unprocessed = <<>> /\ ~stealing
        /\ outbox' = outbox \cup {<<c, NoJob>>}
        /\ UNCHANGED <<unprocessed, inserting, waitingConns>>
     \/ /\ unprocessed = <<>> /\ stealing
        /\ waitingConns' = Append(waitingConns, c)
        /\ UNCHANGED <<outbox, unprocessed, inserting>>
  /\ UNCHANGED <<stealing, queue, serializing, waiting, keepalive, up, used,
                 toClient, client, results, lost, raced>>

\* handleRequest: BOOST_ASYNCHRONOUS_TCP_CLIENT_JOB_RESULT.  The job stays in
\* m_waiting_jobs; the result of a job that is not there is ignored.
HandleResult(c) ==
  /\ ~inserting
  /\ c \in keepalive
  /\ toServer[c] # <<>>
  /\ \E j \in Jobs :
       /\ Head(toServer[c]) = Result(j)
       /\ results' = IF j \in waiting THEN [results EXCEPT ![j] = @ + 1] ELSE results
       /\ lost' = IF j \in waiting THEN lost ELSE lost \cup {j}
  /\ toServer' = [toServer EXCEPT ![c] = Tail(@)]
  /\ UNCHANGED <<server, outbox, up, used, toClient, client, raced>>

\* handleRequest: BOOST_ASYNCHRONOUS_TCP_CLIENT_COM_ERROR, the last request
\* of a connection.
HandleComError(c) ==
  /\ ~inserting
  /\ c \in keepalive \ up
  /\ toServer[c] = <<>>
  /\ keepalive' = keepalive \ {c}
  /\ UNCHANGED <<stealing, queue, serializing, unprocessed, waiting, inserting,
                 waitingConns, network, client, results, lost, raced>>

-----------------------------------------------------------------------------
(* server_connection::send, in the asio thread                             *)

\* handle_error_send: the job is taken back, if it is waiting.
TakeBack(m) ==
  /\ raced' = (raced \/ (m # NoJob /\ inserting))
  /\ IF m \in waiting
     THEN /\ unprocessed' = <<m>> \o unprocessed
          /\ waiting' = waiting \ {m}
     ELSE UNCHANGED <<unprocessed, waiting>>

\* async_write of a response ends.
Written(c, m) ==
  /\ <<c, m>> \in outbox
  /\ outbox' = outbox \ {<<c, m>>}
  /\ \/ /\ c \in up
        /\ toClient' = [toClient EXCEPT ![c] = m]
        /\ UNCHANGED <<unprocessed, waiting, lost, raced>>
     \/ /\ c \notin up
        /\ lost' = lost \cup ({m} \cap Jobs)
        /\ UNCHANGED <<toClient, unprocessed, waiting, raced>>
     \/ /\ c \notin up
        /\ TakeBack(m)
        /\ UNCHANGED <<toClient, lost>>
  /\ UNCHANGED <<stealing, queue, serializing, inserting, waitingConns, keepalive,
                 up, used, toServer, client, results>>

-----------------------------------------------------------------------------
(* simple_tcp_client                                                       *)

\* The timer of the check policy: check_for_work, request_content, and
\* get_task, which gives up while a result is being written.
CheckForWork(k) ==
  /\ pc[k] = "check"
  /\ write[k] = <<>>
  /\ conn[k] # None
  /\ pc' = [pc EXCEPT ![k] = "request"]
  /\ UNCHANGED <<server, network, conn, executing, write, waitingReqs, results, lost, raced>>

\* The same without a connection: resolve, connect, then get_task.  The
\* server keeps the connection and starts to read from it (handle_connect).
Connect(k) ==
  /\ pc[k] = "check"
  /\ conn[k] = None
  /\ \E c \in Conns \ used :
       /\ used' = used \cup {c}
       /\ up' = up \cup {c}
       /\ keepalive' = keepalive \cup {c}
       /\ conn' = [conn EXCEPT ![k] = c]
  /\ pc' = IF write[k] = <<>> THEN [pc EXCEPT ![k] = "request"] ELSE pc
  /\ UNCHANGED <<stealing, queue, serializing, unprocessed, waiting, inserting,
                 waitingConns, outbox, toServer, toClient, executing, write, waitingReqs,
                 results, lost, raced>>

\* Mutant of RequestWritten: the timer is not armed again after an error.
RequestWrittenOnce(k) ==
  /\ pc[k] = "request"
  /\ conn[k] \in up
  /\ toServer' = [toServer EXCEPT ![conn[k]] = Append(@, Get)]
  /\ pc' = [pc EXCEPT ![k] = "response"]
  /\ UNCHANGED <<server, outbox, up, used, toClient, conn, executing, write, waitingReqs,
                 results, lost, raced>>

\* handle_write_request: the request is written, or the write fails and
\* stop() closes the socket.  m_is_writing is reset; results that were queued
\* meanwhile are not looked at.
RequestWritten(k) ==
  /\ pc[k] = "request"
  /\ \/ /\ conn[k] \in up
        /\ toServer' = [toServer EXCEPT ![conn[k]] = Append(@, Get)]
        /\ pc' = [pc EXCEPT ![k] = "response"]
        /\ UNCHANGED conn
     \/ /\ conn[k] \notin up
        /\ pc' = [pc EXCEPT ![k] = "check"]
        /\ conn' = [conn EXCEPT ![k] = None]
        /\ UNCHANGED toServer
  /\ UNCHANGED <<server, outbox, up, used, toClient, executing, write, waitingReqs, results,
                 lost, raced>>

\* The response is read.  A job goes to the pool of the client.
ResponseRead(k) ==
  /\ pc[k] = "response"
  /\ toClient[conn[k]] # None
  /\ toClient' = [toClient EXCEPT ![conn[k]] = None]
  /\ executing' = [executing EXCEPT ![k] = @ \cup ({toClient[conn[k]]} \cap Jobs)]
  /\ pc' = [pc EXCEPT ![k] = "check"]
  /\ UNCHANGED <<server, outbox, up, used, toServer, conn, write, waitingReqs, results, lost,
                 raced>>

\* The read fails: stop() closes the socket, the timer is armed again.
ReadFails(k) ==
  /\ pc[k] = "response"
  /\ conn[k] \notin up
  /\ toClient[conn[k]] = None
  /\ pc' = [pc EXCEPT ![k] = "check"]
  /\ conn' = [conn EXCEPT ![k] = None]
  /\ UNCHANGED <<server, network, executing, write, waitingReqs, results, lost, raced>>

\* A job has been executed and deserialize_and_call_task calls send_task_result,
\* which waits in m_waiting_requests while something is being written.
SendTaskResult(k, j) ==
  /\ pc[k] # "dead"
  /\ j \in executing[k]
  /\ executing' = [executing EXCEPT ![k] = @ \ {j}]
  /\ IF Writing(k)
     THEN /\ waitingReqs' = [waitingReqs EXCEPT ![k] = Append(@, j)]
          /\ UNCHANGED write
     ELSE /\ write' = [write EXCEPT ![k] = <<j, conn[k]>>]
          /\ UNCHANGED waitingReqs
  /\ UNCHANGED <<server, network, pc, conn, results, lost, raced>>

\* The write of a result ends; an error is ignored.  try_send_one_waiting_request
\* writes the next one.
ResultWritten(k) ==
  /\ pc[k] # "dead"
  /\ write[k] # <<>>
  /\ LET j == write[k][1]
         c == write[k][2] IN
       IF c \in up
       THEN /\ toServer' = [toServer EXCEPT ![c] = Append(@, Result(j))]
            /\ UNCHANGED lost
       ELSE /\ lost' = lost \cup {j}
            /\ UNCHANGED toServer
  /\ IF waitingReqs[k] # <<>>
     THEN /\ write' = [write EXCEPT ![k] = <<Head(waitingReqs[k]), conn[k]>>]
          /\ waitingReqs' = [waitingReqs EXCEPT ![k] = Tail(@)]
     ELSE /\ write' = [write EXCEPT ![k] = <<>>]
          /\ UNCHANGED waitingReqs
  /\ UNCHANGED <<server, outbox, up, used, toClient, pc, conn, executing, results, raced>>

-----------------------------------------------------------------------------
(* Faults                                                                  *)

\* Jobs in what a connection carries to the server behind the first n requests.
Dropped(c, n) ==
  {j \in Jobs : Result(j) \in ToSet(SubSeq(toServer[c], n + 1, Len(toServer[c])))}

\* Connection c stops working: the requests behind the first n, and possibly
\* the response, are lost.
Break(c) ==
  /\ c \in up
  /\ up' = up \ {c}
  /\ \E n \in 0 .. Len(toServer[c]), keep \in BOOLEAN :
       /\ toServer' = [toServer EXCEPT ![c] = SubSeq(@, 1, n)]
       /\ toClient' = IF keep THEN toClient ELSE [toClient EXCEPT ![c] = None]
       /\ lost' = lost \cup Dropped(c, n) \cup (IF keep THEN {} ELSE {toClient[c]} \cap Jobs)
  /\ UNCHANGED <<server, outbox, used, client, results, raced>>

\* What client k holds.
Held(k) ==
  executing[k] \cup ToSet(waitingReqs[k])
    \cup (IF write[k] # <<>> THEN {write[k][1]} ELSE {})
    \cup (IF conn[k] # None THEN {toClient[conn[k]]} \cap Jobs ELSE {})

\* Client k dies, and its connection with it.
Crash(k) ==
  /\ pc[k] # "dead"
  /\ Cardinality({l \in Clients : pc[l] = "dead"}) < MaxCrashes
  /\ pc' = [pc EXCEPT ![k] = "dead"]
  /\ up' = up \ {conn[k]}
  /\ lost' = lost \cup Held(k)
  /\ executing' = [executing EXCEPT ![k] = {}]
  /\ waitingReqs' = [waitingReqs EXCEPT ![k] = <<>>]
  /\ write' = [write EXCEPT ![k] = <<>>]
  /\ toClient' = [c \in Conns |-> IF c = conn[k] THEN None ELSE toClient[c]]
  /\ UNCHANGED <<server, outbox, used, toServer, conn, results, raced>>

-----------------------------------------------------------------------------
Scheduler == (\E j \in Jobs : Forward(j)) \/ NoJobs

Write(c) == \E m \in Jobs \cup {NoJob} : Written(c, m)

Ask(k) ==
  CheckForWork(k) \/ Connect(k) \/ RequestWritten(k) \/ ResponseRead(k) \/ ReadFails(k)

Execute(k) == \E j \in Jobs : SendTaskResult(k, j)

Client(k) == Ask(k) \/ ResultWritten(k) \/ Execute(k)

Handle(c) == HandleGet(c) \/ HandleResult(c) \/ HandleComError(c)

\* Every client is dead, or has no connection left to make (Conns).
Terminated ==
  /\ \A k \in Clients : pc[k] = "dead" \/ (conn[k] = None /\ used = Conns)
  /\ UNCHANGED vars

Next ==
  \/ Scheduler
  \/ Insert \/ \E j \in Jobs : AddTask(j)
  \/ \E c \in Conns : Handle(c) \/ Write(c)
  \/ \E k \in Clients : Client(k) \/ Crash(k)
  \/ \E c \in Conns : Break(c)
  \/ Terminated

\* The threads of the server are scheduled, the queue of the servant is a FIFO
\* (hence SF: its thread may be busy in between), the timers of a live client
\* fire and its pool executes.  Nothing is assumed of faults and of stealing.
Fairness ==
  /\ \A j \in Jobs \ Stealable : WF_vars(Forward(j))
  /\ SF_vars(NoJobs)
  /\ WF_vars(Insert)
  /\ \A j \in Jobs : SF_vars(AddTask(j))
  /\ \A c \in Conns : SF_vars(Handle(c))
  /\ \A c \in Conns : WF_vars(Write(c))
  /\ \A k \in Clients : /\ WF_vars(Ask(k))
                        /\ WF_vars(ResultWritten(k))
                        /\ WF_vars(Execute(k))

Spec == Init /\ [][Next]_vars
FairSpec == Spec /\ Fairness

-----------------------------------------------------------------------------
(* Properties                                                              *)

\* Where job j is outside the containers of job_server: being sent, under way,
\* at a client, or in a result under way.
Out(j) ==
  Cardinality({c \in Conns : <<c, j>> \in outbox})
  + Cardinality({c \in Conns : toClient[c] = j})
  + Cardinality({k \in Clients : j \in executing[k]})
  + Cardinality({k \in Clients : j \in ToSet(waitingReqs[k])})
  + Cardinality({k \in Clients : write[k] # <<>> /\ write[k][1] = j})
  + Cardinality({c \in Conns : Result(j) \in ToSet(toServer[c])})

\* Where job j is inside; inside send_first_job the first job has left.
In(j) ==
  Cardinality({i \in DOMAIN unprocessed : unprocessed[i] = j /\ ~(inserting /\ i = 1)})
  + (IF j \in queue THEN 1 ELSE 0) + (IF j \in serializing THEN 1 ELSE 0)

\* A job of the tcp scheduler is in one place, with the server or with one
\* client, until its result was delivered: errors, dead clients and
\* reconnections neither lose it inside the server nor give it to a second
\* client, so that its result comes once.  (Unless the error callback ran inside
\* send_first_job.)
JobInOnePlace ==
  ~raced => \A j \in Jobs :
    In(j) + Out(j) = IF j \in lost \/ results[j] > 0 THEN 0 ELSE 1

\* Every posted job is answered, unless it was lost with a connection or a
\* client, or nobody is left to ask, or its result waits behind a request
\* (WaitingResultsAreSent).
JobAnswered ==
  \A j \in Jobs \ Stealable :
    j \in queue ~> \/ results[j] > 0
                   \/ j \in lost
                   \/ raced
                   \/ \E k \in Clients : j \in ToSet(waitingReqs[k])
                   \/ \A k \in Clients : pc[k] = "dead" \/ (used = Conns /\ conn[k] \notin up)

\* A client that asked gets an answer or notices the error: a stealing server
\* that has nothing keeps the connection, and must come back to it.
RequestAnswered ==
  \A k \in Clients : pc[k] = "response" ~> pc[k] # "response"

\* Whoever waits for the server gets an answer: both of the above.
EveryoneAnswered == JobAnswered /\ RequestAnswered

\* README.md:1531-1533: "The client execute the work on behalf of the
\* tcp_server_scheduler and sends it back the results."
WaitingResultsAreSent ==
  \A k \in Clients, j \in Jobs :
    j \in ToSet(waitingReqs[k]) ~> j \notin ToSet(waitingReqs[k])

\* job_server.hpp:209: "a real task got an error during communication and will
\* no be processed this time, get it back".
ErrorGetsJobBack ==
  \A j \in Jobs : In(j) + Out(j) = IF j \in lost \/ results[j] > 0 THEN 0 ELSE 1
=============================================================================
