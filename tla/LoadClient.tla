------------------------------ MODULE LoadClient ------------------------------
(***************************************************************************)
(* The client of test/calculate_performance.py: N_WORKER threads take the  *)
(* requests from a queue.Queue, post them, put them back when no answer    *)
(* came, and end when the queue has been empty for a moment.  A thread     *)
(* more draws the progress bar.  The executor waits for all of them, and   *)
(* what is then in `response` is compared with the expected answers.       *)
(*                                                                         *)
(* The server is an environment that answers a post or makes it raise;     *)
(* Measurement puts a server in its place.                                 *)
(***************************************************************************)
EXTENDS Integers, Sequences, FiniteSets

CONSTANTS
  Workers,    \* the threads of send_request
  N_REQUEST,  \* how many requests there are, N_REQUEST * coff in the code
  Statuses    \* the status codes a server answers with

ASSUME WorkersFinite == IsFiniteSet(Workers) /\ Workers # {}
ASSUME RequestsCounted == N_REQUEST \in Nat

VARIABLES
  que,          \* the requests nobody works on
  pc,           \* the next statement of each worker
  data,         \* the request a worker holds, 0 for none
  response,     \* the answers, in the order in which they came
  done_threads, \* how many workers have ended
  server_alive, \* whether the last post to finish got an answer
  bar           \* what the progress bar's thread does

clientvars == <<que, pc, data, response, done_threads, server_alive, bar>>

Requests == 1..N_REQUEST

(* que.get(timeout=0.1) raises only if it finds nothing when time is up.    *)
TimeOut(w) ==
  /\ pc[w] = "get"
  /\ que = <<>>
  /\ done_threads' = done_threads + 1
  /\ pc' = [pc EXCEPT ![w] = "done"]
  /\ UNCHANGED <<que, data, response, server_alive, bar>>

Get(w) ==
  /\ pc[w] = "get"
  /\ que # <<>>
  /\ data' = [data EXCEPT ![w] = Head(que)]
  /\ que' = Tail(que)
  /\ pc' = [pc EXCEPT ![w] = "post"]
  /\ UNCHANGED <<response, done_threads, server_alive, bar>>

(* requests.post returns, and server_alive is set.                          *)
Respond(w) ==
  /\ pc[w] = "post"
  /\ server_alive' = TRUE
  /\ pc' = [pc EXCEPT ![w] = "record"]
  /\ UNCHANGED <<que, data, response, done_threads, bar>>

\* Mutant of Raise: the request is put back, and the worker goes on with the
\* answer it had before: there is no `continue`.
PutBackAndGoOn(w) ==
  /\ pc[w] = "post"
  /\ que' = Append(que, data[w])
  /\ pc' = [pc EXCEPT ![w] = "record"]
  /\ UNCHANGED <<data, response, done_threads, server_alive, bar>>

(* requests.post raises, and the request is put back.                       *)
Raise(w) ==
  /\ pc[w] = "post"
  /\ que' = Append(que, data[w])
  /\ data' = [data EXCEPT ![w] = 0]
  /\ pc' = [pc EXCEPT ![w] = "mark"]
  /\ UNCHANGED <<response, done_threads, server_alive, bar>>

\* Mutant of MarkDown: a worker whose post failed is counted as one that ended.
CountOnError(w) ==
  /\ pc[w] = "mark"
  /\ server_alive' = FALSE
  /\ done_threads' = done_threads + 1
  /\ pc' = [pc EXCEPT ![w] = "get"]
  /\ UNCHANGED <<que, data, response, bar>>

\* Mutant of MarkDown: the worker ends with a `break`.
BreakOnError(w) ==
  /\ pc[w] = "mark"
  /\ server_alive' = FALSE
  /\ done_threads' = done_threads + 1
  /\ pc' = [pc EXCEPT ![w] = "done"]
  /\ UNCHANGED <<que, data, response, bar>>

(* server_alive = False comes after the put: another worker may have got an *)
(* answer to the same request in between.                                   *)
MarkDown(w) ==
  /\ pc[w] = "mark"
  /\ server_alive' = FALSE
  /\ pc' = [pc EXCEPT ![w] = "get"]
  /\ UNCHANGED <<que, data, response, done_threads, bar>>

(* 200 and 204 are answers; with any other status the request is put back.  *)
Record(w) ==
  /\ pc[w] = "record"
  /\ \E status \in Statuses :
       IF status \in {200, 204}
       THEN response' = Append(response, data[w]) /\ UNCHANGED que
       ELSE que' = Append(que, data[w]) /\ UNCHANGED response
  /\ data' = [data EXCEPT ![w] = 0]
  /\ pc' = [pc EXCEPT ![w] = "get"]
  /\ UNCHANGED <<done_threads, server_alive, bar>>

(* The bar's loop: draw, and end or sleep; then the message if the server   *)
(* seems down, and a longer sleep.                                          *)
Draw ==
  /\ bar = "draw"
  /\ bar' = IF Len(response) >= N_REQUEST \/ done_threads >= Cardinality(Workers)
            THEN "ended" ELSE "sleep"
  /\ UNCHANGED <<que, pc, data, response, done_threads, server_alive>>

Wake ==
  /\ bar = "sleep"
  /\ bar' = IF server_alive THEN "draw" ELSE "down"
  /\ UNCHANGED <<que, pc, data, response, done_threads, server_alive>>

WakeAgain ==
  /\ bar = "down"
  /\ bar' = "draw"
  /\ UNCHANGED <<que, pc, data, response, done_threads, server_alive>>
-----------------------------------------------------------------------------
ClientInit ==
  /\ que = [i \in Requests |-> i]
  /\ pc = [w \in Workers |-> "get"]
  /\ data = [w \in Workers |-> 0]
  /\ response = <<>>
  /\ done_threads = 0
  /\ server_alive = TRUE
  /\ bar = "draw"

(* What the client does on its own, and what it does with the server.       *)
Alone(w) == Get(w) \/ TimeOut(w) \/ MarkDown(w) \/ Record(w)
Bar == Draw \/ Wake \/ WakeAgain

ClientNext ==
  \/ Bar
  \/ \E w \in Workers : Alone(w) \/ Respond(w) \/ Raise(w)

Client == ClientInit /\ [][ClientNext]_clientvars

(* The executor's threads have all returned.                                *)
Finished == bar = "ended" /\ \A w \in Workers : pc[w] = "done"
-----------------------------------------------------------------------------
(* Every variable has its type.                                             *)
ClientTypeOK ==
  /\ que \in Seq(Requests)
  /\ pc \in [Workers -> {"get", "post", "mark", "record", "done"}]
  /\ data \in [Workers -> Requests \cup {0}]
  /\ response \in Seq(Requests)
  /\ done_threads \in 0..Cardinality(Workers)
  /\ server_alive \in BOOLEAN
  /\ bar \in {"draw", "sleep", "down", "ended"}

In(seq, r) == \E i \in DOMAIN seq : seq[i] = r
Distinct(seq) == \A i, j \in DOMAIN seq : seq[i] = seq[j] => i = j

(* Through every failure and retry each request is in one place, once: in   *)
(* the queue, with one worker, or among the answers.  None is lost, and no  *)
(* answer is counted twice.                                                 *)
RequestsConserved ==
  /\ Distinct(que) /\ Distinct(response)
  /\ \A v, w \in Workers : data[v] = data[w] /\ data[v] # 0 => v = w
  /\ \A r \in Requests :
       LET held == \E w \in Workers : data[w] = r
       IN  \/ In(que, r) /\ ~held /\ ~In(response, r)
           \/ ~In(que, r) /\ held /\ ~In(response, r)
           \/ ~In(que, r) /\ ~held /\ In(response, r)

(* When the executor's block is left there is an answer to every request: a *)
(* worker that timed out has left none behind, although others may have put *)
(* theirs back later.                                                       *)
AllAnswered == Finished => \A r \in Requests : In(response, r)
=============================================================================
