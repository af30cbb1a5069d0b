------------------------------ MODULE Measurement ------------------------------
(***************************************************************************)
(* The client of LoadClient and the C++ server's process of HttpServer.    *)
(* Each worker opens a connection for each post, which the server answers  *)
(* or resets, or which nobody accepts.  The process may be killed and      *)
(* started again at any moment (the targets kill-process and run of the    *)
(* Makefile).                                                              *)
(***************************************************************************)
EXTENDS LoadClient

CONSTANT N  \* config::n_thread

ASSUME ThreadsPositive == N \in Nat \ {0}

VARIABLES main, at, live, worker, fate, place, reused, connector, process

servervars == <<main, at, live, worker, fate, place, reused, connector, process>>
vars == <<clientvars, servervars>>

Server == INSTANCE HttpServer WITH Connections <- Workers

Listening ==
  process = "running" /\ \E i \in Server!Elements : "sock" \in live[i]
-----------------------------------------------------------------------------
Connect(w) ==
  /\ pc[w] = "post"
  /\ Server!Connect(w)
  /\ UNCHANGED clientvars

(* The client closes a connection that is over.                             *)
Close(w) ==
  /\ fate' = [fate EXCEPT ![w] = "outside"]
  /\ place' = [place EXCEPT ![w] = 0]
  /\ UNCHANGED <<main, at, live, worker, reused, connector, process>>

Answered(w) ==
  /\ fate[w] = "answered"
  /\ Respond(w)
  /\ Close(w)

ConnectionReset(w) ==
  /\ fate[w] = "reset"
  /\ Raise(w)
  /\ Close(w)

ConnectionRefused(w) ==
  /\ fate[w] = "outside"
  /\ ~Listening
  /\ Raise(w)
  /\ UNCHANGED servervars

WorkerSteps(w) ==
  \/ Alone(w) /\ UNCHANGED servervars
  \/ Connect(w)
  \/ Answered(w)
  \/ ConnectionReset(w)
  \/ ConnectionRefused(w)

Progress == Bar /\ UNCHANGED servervars

ServerMain == Server!MainStep /\ UNCHANGED clientvars
ServerWorker(i) == Server!WorkerStep(i) /\ UNCHANGED clientvars

(* kill $(lsof -t -i:6562)                                                  *)
Kill ==
  /\ process = "running"
  /\ Server!End("exited")
  /\ UNCHANGED clientvars

Start ==
  /\ process # "running"
  /\ main' = "construct"
  /\ at' = 1
  /\ live' = [i \in Server!Elements |-> {}]
  /\ worker' = [i \in Server!Elements |-> "none"]
  /\ reused' = 0
  /\ connector' = TRUE
  /\ process' = "running"
  /\ UNCHANGED <<clientvars, fate, place>>

Init == ClientInit /\ Server!Init

Next ==
  \/ \E w \in Workers : WorkerSteps(w)
  \/ Progress
  \/ ServerMain
  \/ \E i \in Server!Elements : ServerWorker(i)
  \/ Kill
  \/ Start

(* Threads that can run do; nobody need kill or start the server.           *)
Spec ==
  /\ Init
  /\ [][Next]_vars
  /\ \A w \in Workers : WF_vars(WorkerSteps(w))
  /\ WF_vars(Progress)
  /\ WF_vars(ServerMain)
  /\ \A i \in Server!Elements : WF_vars(ServerWorker(i))
-----------------------------------------------------------------------------
(* What the process of the C++ server keeps it keeps through any number of  *)
(* ends and starts, with connections of the time before still to be closed  *)
(* by the client: workers serve, handlers have their connector, and no post *)
(* of the client waits at what is gone.                                     *)
RestartsKeepServer ==
  /\ Server!OthersServe
  /\ Server!ConnectorOutlivesHandlers
  /\ Server!WaitersAreHeld

(* The measurement ends if from some time on a socket of the server listens: *)
(* also when main() tears an element down under its worker, when a worker   *)
(* is lost, and after any number of ends and starts before that time.       *)
MeasurementEnds == <>[]Listening => <>Finished
=============================================================================
