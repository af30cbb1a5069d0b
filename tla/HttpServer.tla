------------------------------ MODULE HttpServer ------------------------------
(***************************************************************************)
(* The life of the C++ process: cpp/src/main.cpp and the classes           *)
(* HttpServer and HttpThread of cpp/src/server/server.cpp.                 *)
(*                                                                         *)
(* main() constructs the elements of HttpServer::threads, registers the    *)
(* endpoint, starts a worker per element, and returns.  The destructors    *)
(* then run, element by element: the body of ~HttpThread closes the        *)
(* socket, and the members go in the reverse of their declarations, http,  *)
(* ev_base and the jthread, whose destructor joins the worker.  Meanwhile  *)
(* the workers run event_base_dispatch.                                    *)
(*                                                                         *)
(* libevent is modelled from its headers: event_base_dispatch returns when *)
(* the base has no event, and evhttp_free closes the listening socket and  *)
(* the connections.  What a worker does with a base or a request that      *)
(* main() has freed is undefined.                                          *)
(***************************************************************************)
EXTENDS Integers

CONSTANTS
  N,           \* config::n_thread
  Connections  \* the connections clients open, of one request each

ASSUME NPositive == N \in Nat \ {0}

Elements == 1..N

VARIABLES
  main,       \* the next statement of main()
  at,         \* the element of threads it is for
  live,       \* what each element owns
  worker,     \* what each element's jthread is doing
  fate,       \* what has become of each connection
  place,      \* the element whose socket took it, 0 before
  reused,     \* the worker that has opened a descriptor with the number of
              \* the socket that main() has just closed, 0 if none has
  connector,  \* mysql_connector is alive
  process     \* how the process is

vars == <<main, at, live, worker, fate, place, reused, connector, process>>

(* What the constructor makes, and what setup_cb adds.                      *)
Constructed == {"ev_base", "http", "sock"}
Owned == Constructed \cup {"cb"}

Unsettled == {"queued", "open"}
-----------------------------------------------------------------------------
(* The connections for which P holds, if they wait for something, get no   *)
(* answer any more.                                                         *)
Reset(P) ==
  [c \in Connections |-> IF P[c] /\ fate[c] \in Unsettled THEN "reset" ELSE fate[c]]

End(how) ==
  /\ process' = how
  /\ fate' = Reset([c \in Connections |-> TRUE])
  /\ UNCHANGED <<main, at, live, worker, place, reused, connector>>

Main(statement) == process = "running" /\ main = statement

\* Mutant of Advance: the loop goes on past the last element.
AdvancePastEnd(following) ==
  IF at <= N
  THEN at' = at + 1 /\ UNCHANGED main
  ELSE at' = 1 /\ main' = following

(* A loop over threads: the next element, or the statement after the loop.  *)
Advance(following) ==
  IF at < N
  THEN at' = at + 1 /\ UNCHANGED main
  ELSE at' = 1 /\ main' = following

(* HttpThread(): socket, bind and listen may each fail, and exit(1).        *)
Construct ==
  /\ Main("construct")
  /\ live' = [live EXCEPT ![at] = Constructed]
  /\ Advance("setup_cb")
  /\ UNCHANGED <<worker, fate, place, reused, connector, process>>

ConstructFails == Main("construct") /\ End("exited")

SetupCb ==
  /\ Main("setup_cb")
  /\ live' = [live EXCEPT ![at] = @ \cup {"cb"}]
  /\ Advance("run")
  /\ UNCHANGED <<worker, fate, place, reused, connector, process>>

\* Mutant of Run: only the first worker is started.
RunFirst ==
  /\ Main("run")
  /\ worker' = [worker EXCEPT ![1] = "started"]
  /\ Advance("close")
  /\ UNCHANGED <<live, fate, place, reused, connector, process>>

Run ==
  /\ Main("run")
  /\ worker' = [worker EXCEPT ![at] = "started"]
  /\ Advance("close")
  /\ UNCHANGED <<live, fate, place, reused, connector, process>>
-----------------------------------------------------------------------------
(* ~HttpThread().  Connections that no worker has accepted are reset.       *)
CloseSocket ==
  /\ Main("close")
  /\ live' = [live EXCEPT ![at] = @ \ {"sock"}]
  /\ fate' = Reset([c \in Connections |-> place[c] = at /\ fate[c] = "queued"])
  /\ main' = "free_http"
  /\ UNCHANGED <<at, worker, place, reused, connector, process>>

\* Mutant of FreeHttp: the destructor forgets the connections that are open.
CloseSocketAgain ==
  /\ Main("free_http")
  /\ live' = [live EXCEPT ![at] = @ \ {"http", "cb"}]
  /\ fate' = Reset([c \in Connections |-> place[c] = reused])
  /\ reused' = 0
  /\ main' = "free_base"
  /\ UNCHANGED <<at, worker, place, connector, process>>

(* evhttp_free closes the connections of the element, and the number of the *)
(* listening socket once more.                                              *)
FreeHttp ==
  /\ Main("free_http")
  /\ live' = [live EXCEPT ![at] = @ \ {"http", "cb"}]
  /\ fate' = Reset([c \in Connections |-> place[c] \in {at, reused}])
  /\ reused' = 0
  /\ main' = "free_base"
  /\ UNCHANGED <<at, worker, place, connector, process>>

(* The number is of a handler's connection to MySQL: its query throws.      *)
FreeHttpClosesMySQL == Main("free_http") /\ reused # 0 /\ End("aborted")

FreeBase ==
  /\ Main("free_base")
  /\ live' = [live EXCEPT ![at] = @ \ {"ev_base"}]
  /\ main' = "join"
  /\ UNCHANGED <<at, worker, fate, place, reused, connector, process>>

\* Mutant of Join: a std::thread that has been detached.
Detach ==
  /\ Main("join")
  /\ IF at < N THEN at' = at + 1 /\ main' = "close" ELSE at' = 1 /\ main' = "destroy"
  /\ UNCHANGED <<live, worker, fate, place, reused, connector, process>>

(* ~jthread joins a thread that was started.                                *)
Join ==
  /\ Main("join")
  /\ worker[at] \in {"none", "done"}
  /\ IF at < N THEN at' = at + 1 /\ main' = "close" ELSE at' = 1 /\ main' = "destroy"
  /\ UNCHANGED <<live, worker, fate, place, reused, connector, process>>

\* Mutant of DestroyConnector: main() declares the connector after the server.
ConnectorFirst ==
  /\ process = "running"
  /\ main \in {"close", "destroy"}
  /\ connector
  /\ connector' = FALSE
  /\ UNCHANGED <<main, at, live, worker, fate, place, reused, process>>

(* ~MySQLConnector(), after ~HttpServer(): the reverse of main's            *)
(* declarations.                                                            *)
DestroyConnector ==
  /\ Main("destroy")
  /\ connector' = FALSE
  /\ main' = "exit"
  /\ UNCHANGED <<at, live, worker, fate, place, reused, process>>

Exit == Main("exit") /\ End("exited")
-----------------------------------------------------------------------------
(* A client connects: the kernel gives the connection to one of the sockets *)
(* that listen on the port.                                                 *)
Connect(c) ==
  /\ process = "running"
  /\ fate[c] = "outside"
  /\ \E i \in Elements :
       /\ "sock" \in live[i]
       /\ place' = [place EXCEPT ![c] = i]
  /\ fate' = [fate EXCEPT ![c] = "queued"]
  /\ UNCHANGED <<main, at, live, worker, reused, connector, process>>

Worker(i, doing) == process = "running" /\ worker[i] = doing

(* The worker uses what has been freed: it is lost in a wait that nothing   *)
(* ends, or its loop returns, or it ends the process.                       *)
Undefined(i) ==
  \/ /\ \E outcome \in {"lost", "done"} : worker' = [worker EXCEPT ![i] = outcome]
     /\ reused' = IF reused = i THEN 0 ELSE reused
     /\ UNCHANGED <<main, at, live, fate, place, connector, process>>
  \/ End("aborted")

(* event_base_dispatch is called, with the listener's event or none.        *)
Dispatch(i) ==
  /\ Worker(i, "started")
  /\ "ev_base" \in live[i]
  /\ worker' = [worker EXCEPT ![i] = IF "http" \in live[i] THEN "waiting" ELSE "done"]
  /\ UNCHANGED <<main, at, live, fate, place, reused, connector, process>>

DispatchFreed(i) ==
  /\ worker[i] \in {"started", "waiting"}
  /\ Worker(i, worker[i])
  /\ "ev_base" \notin live[i]
  /\ Undefined(i)

(* The loop accepts a connection and reads its request: the endpoint's      *)
(* callback is called, or without one evhttp answers 404.                   *)
Accept(i) ==
  /\ Worker(i, "waiting")
  /\ "http" \in live[i]
  /\ \E c \in Connections :
       /\ place[c] = i
       /\ fate[c] = "queued"
       /\ fate' = [fate EXCEPT ![c] = IF "cb" \in live[i] THEN "open" ELSE "answered"]
  /\ worker' = [worker EXCEPT ![i] = IF "cb" \in live[i] THEN "handling" ELSE "waiting"]
  /\ UNCHANGED <<main, at, live, place, reused, connector, process>>

(* A descriptor that the worker has opened for the connection or for MySQL  *)
(* gets the lowest free number, which may be the one of the closed socket.  *)
ReuseNumber(i) ==
  /\ Worker(i, "handling")
  /\ main = "free_http"
  /\ reused = 0
  /\ reused' = i
  /\ UNCHANGED <<main, at, live, worker, fate, place, connector, process>>

(* auction_handler returns after evhttp_send_reply.                         *)
Reply(i) ==
  /\ Worker(i, "handling")
  /\ "http" \in live[i]
  /\ fate' = [c \in Connections |->
                IF place[c] = i /\ fate[c] = "open" THEN "answered" ELSE fate[c]]
  /\ worker' = [worker EXCEPT ![i] = "waiting"]
  /\ reused' = IF reused = i THEN 0 ELSE reused
  /\ UNCHANGED <<main, at, live, place, connector, process>>

ReplyFreed(i) ==
  /\ Worker(i, "handling")
  /\ "http" \notin live[i]
  /\ Undefined(i)

(* An exception of the database leaves auction_handler: std::terminate.     *)
HandlerThrows(i) == Worker(i, "handling") /\ End("aborted")
-----------------------------------------------------------------------------
Init ==
  /\ main = "construct"
  /\ at = 1
  /\ live = [i \in Elements |-> {}]
  /\ worker = [i \in Elements |-> "none"]
  /\ fate = [c \in Connections |-> "outside"]
  /\ place = [c \in Connections |-> 0]
  /\ reused = 0
  /\ connector = TRUE
  /\ process = "running"

MainStep ==
  \/ Construct
  \/ ConstructFails
  \/ SetupCb
  \/ Run
  \/ CloseSocket
  \/ FreeHttp
  \/ FreeHttpClosesMySQL
  \/ FreeBase
  \/ Join
  \/ DestroyConnector
  \/ Exit

WorkerStep(i) ==
  \/ Dispatch(i)
  \/ DispatchFreed(i)
  \/ Accept(i)
  \/ ReuseNumber(i)
  \/ Reply(i)
  \/ ReplyFreed(i)
  \/ HandlerThrows(i)

Next ==
  \/ MainStep
  \/ \E i \in Elements : WorkerStep(i)
  \/ \E c \in Connections : Connect(c)

(* main() and the workers are threads that the system runs, and a handler   *)
(* returns (CppAuction); a client need not connect.                         *)
Spec ==
  /\ Init
  /\ [][Next]_vars
  /\ WF_vars(MainStep)
  /\ \A i \in Elements : WF_vars(WorkerStep(i))
-----------------------------------------------------------------------------
Statements == {"construct", "setup_cb", "run", "close", "free_http", "free_base",
               "join", "destroy", "exit"}

(* Every variable has its type; main() never runs past its elements.        *)
TypeOK ==
  /\ main \in Statements
  /\ at \in Elements
  /\ live \in [Elements -> SUBSET Owned]
  /\ worker \in [Elements ->
       {"none", "started", "waiting", "handling", "lost", "done"}]
  /\ fate \in [Connections -> Unsettled \cup {"outside", "answered", "reset"}]
  /\ place \in [Connections -> 0..N]
  /\ reused \in 0..N
  /\ connector \in BOOLEAN
  /\ process \in {"running", "exited", "aborted"}

(* The server keeps serving because ~jthread waits: once run() has returned, *)
(* a worker that has not ended protects every element after its own, of     *)
(* which main() has touched nothing.                                        *)
OthersServe ==
  main \notin {"construct", "setup_cb", "run"} =>
    \A i, j \in Elements : i < j /\ worker[i] # "done" => live[j] = Owned

(* auction_handler gets a pointer to main's mysql_connector: the connector  *)
(* outlives every handler.                                                  *)
ConnectorOutlivesHandlers ==
  \A i \in Elements : worker[i] = "handling" => connector

(* A client that waits is held by something that can still answer or reset  *)
(* it, whatever main() has torn down and whichever workers are lost: in the *)
(* backlog of a socket that is open, or by a handler, which has one request *)
(* at a time, of an evhttp that has not been freed.                         *)
WaitersAreHeld ==
  \A c \in Connections :
    /\ fate[c] \in Unsettled => process = "running" /\ place[c] \in Elements
    /\ fate[c] = "queued" => "sock" \in live[place[c]]
    /\ fate[c] = "open" =>
         /\ "http" \in live[place[c]]
         /\ worker[place[c]] = "handling"
         /\ \A d \in Connections : fate[d] = "open" /\ place[d] = place[c] => d = c

(* A connection that a socket of the process took in is answered or reset,  *)
(* also when its element is torn down, its worker is lost, or the process   *)
(* ends: no client waits for ever.                                          *)
EveryConnectionSettled ==
  \A c \in Connections : fate[c] \in Unsettled ~> fate[c] \notin Unsettled

(* cpp/src/server/server.cpp:86 says of run() that it runs the server and   *)
(* waits for requests: while the process goes on no request is lost.        *)
WaitsForRequests ==
  process = "running" => \A c \in Connections : fate[c] # "reset"
=============================================================================
