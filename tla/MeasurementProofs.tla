--------------------------- MODULE MeasurementProofs ---------------------------
(***************************************************************************)
(* Proofs about LoadClient for any number of workers and requests, any     *)
(* status codes and any behaviour of the server, and about Measurement,    *)
(* whose steps are steps of that client and, but for Start and the closing *)
(* of settled connections, of the process of HttpServer.                   *)
(***************************************************************************)
EXTENDS Measurement, FiniteSetTheorems, TLAPS

Done == {w \in Workers : pc[w] = "done"}

(* A worker holds a request exactly while it posts it or has its answer.    *)
HoldsWhenBusy ==
  \A w \in Workers : data[w] # 0 <=> pc[w] \in {"post", "record"}

(* The last worker to end found the queue empty.                            *)
LastFoundNothing == (\A w \in Workers : pc[w] = "done") => que = <<>>

DoneCounted == done_threads = Cardinality(Done)

(* What the functions and the sequences are.                                *)
Shapes ==
  /\ que \in Seq(Requests)
  /\ pc \in [Workers -> {"get", "post", "mark", "record", "done"}]
  /\ data \in [Workers -> Requests \cup {0}]
  /\ response \in Seq(Requests)
  /\ server_alive \in BOOLEAN
  /\ bar \in {"draw", "sleep", "down", "ended"}

ClientInv ==
  /\ Shapes
  /\ DoneCounted
  /\ HoldsWhenBusy
  /\ LastFoundNothing
  /\ RequestsConserved

-----------------------------------------------------------------------------
(* What a sequence without duplicates holds after Append and Tail.          *)
LEMMA AppendDistinct ==
  ASSUME NEW S, NEW s \in Seq(S), NEW x \in S, Distinct(s), ~In(s, x)
  PROVE  /\ Append(s, x) \in Seq(S)
         /\ Distinct(Append(s, x))
         /\ \A r : In(Append(s, x), r) <=> In(s, r) \/ r = x
<1> DEFINE t == Append(s, x)
<1>1. /\ t \in Seq(S)
      /\ Len(s) \in Nat
      /\ Len(t) = Len(s) + 1
      /\ DOMAIN s = 1..Len(s) /\ DOMAIN t = 1..(Len(s) + 1)
      /\ \A i \in 1..Len(s) : t[i] = s[i]
      /\ t[Len(s) + 1] = x
  OBVIOUS
<1> HIDE DEF t
<1>2. Distinct(t)
  BY <1>1 DEF Distinct, In
<1>3. \A r : In(t, r) <=> In(s, r) \/ r = x
  <2>1. \A i \in DOMAIN t : i \in DOMAIN s \/ i = Len(s) + 1 BY <1>1
  <2>2. Len(s) + 1 \in DOMAIN t /\ DOMAIN s \subseteq DOMAIN t BY <1>1
  <2> QED BY <1>1, <2>1, <2>2 DEF In
<1> QED BY <1>1, <1>2, <1>3 DEF t

LEMMA TailDistinct ==
  ASSUME NEW S, NEW s \in Seq(S), s # <<>>, Distinct(s)
  PROVE  /\ Head(s) \in S /\ In(s, Head(s))
         /\ Tail(s) \in Seq(S)
         /\ Distinct(Tail(s))
         /\ \A r : In(Tail(s), r) <=> In(s, r) /\ r # Head(s)
<1> DEFINE t == Tail(s)
<1>1. /\ t \in Seq(S)
      /\ Len(s) \in Nat \ {0}
      /\ DOMAIN s = 1..Len(s) /\ DOMAIN t = 1..(Len(s) - 1)
      /\ \A i \in 1..(Len(s) - 1) : t[i] = s[i + 1]
      /\ Head(s) = s[1] /\ s[1] \in S
  OBVIOUS
<1> HIDE DEF t
<1>2. Distinct(t)
  <2> SUFFICES ASSUME NEW i \in DOMAIN t, NEW j \in DOMAIN t, t[i] = t[j] PROVE i = j
    BY DEF Distinct
  <2>1. i + 1 \in DOMAIN s /\ j + 1 \in DOMAIN s /\ s[i + 1] = s[j + 1] BY <1>1
  <2>2. i + 1 = j + 1 BY <2>1 DEF Distinct
  <2> QED BY <1>1, <2>2
<1>3. \A r : In(t, r) => In(s, r) /\ r # Head(s)
  BY <1>1 DEF In, Distinct
<1>4. \A r : In(s, r) /\ r # Head(s) => In(t, r)
  <2> SUFFICES ASSUME NEW i \in DOMAIN s, s[i] # Head(s) PROVE In(t, s[i])
    BY DEF In
  <2>1. i - 1 \in DOMAIN t /\ t[i - 1] = s[i] BY <1>1
  <2> QED BY <2>1 DEF In
<1>5. In(s, Head(s)) BY <1>1 DEF In
<1> QED BY <1>1, <1>2, <1>3, <1>4, <1>5 DEF t
-----------------------------------------------------------------------------
LEMMA ClientInitInv == ClientInit => ClientInv
<1> SUFFICES ASSUME ClientInit PROVE ClientInv
  OBVIOUS
<1>1. que = [i \in 1..N_REQUEST |-> i] /\ response = <<>>
  BY DEF ClientInit, Requests
<1>2. que \in Seq(Requests) /\ DOMAIN que = 1..N_REQUEST /\ DOMAIN response = {}
  BY <1>1, RequestsCounted DEF Requests
<1>3. Shapes BY <1>2 DEF ClientInit, Shapes
<1>4. Distinct(que) /\ Distinct(response) BY <1>1, <1>2 DEF Distinct
<1>5. \A r \in Requests : In(que, r) /\ ~In(response, r)
  BY <1>1, <1>2 DEF In, Requests
<1>6. \A w \in Workers : data[w] = 0 BY DEF ClientInit
<1>7. 0 \notin Requests BY DEF Requests
<1>8. RequestsConserved BY <1>4, <1>5, <1>6, <1>7 DEF RequestsConserved
<1>9. Done = {} BY DEF ClientInit, Done
<1>10. DoneCounted BY <1>9, FS_EmptySet DEF ClientInit, DoneCounted
<1>11. HoldsWhenBusy BY DEF ClientInit, HoldsWhenBusy
<1>12. LastFoundNothing BY WorkersFinite DEF ClientInit, LastFoundNothing
<1> QED BY <1>3, <1>8, <1>10, <1>11, <1>12 DEF ClientInv

(* A step that ends no worker leaves the count alone.                       *)
LEMMA NobodyEnds ==
  ASSUME ClientInv, NEW w \in Workers, pc[w] # "done",
         NEW statement \in {"get", "post", "mark", "record"},
         pc' = [pc EXCEPT ![w] = statement], done_threads' = done_threads
  PROVE  /\ pc' \in [Workers -> {"get", "post", "mark", "record", "done"}]
         /\ DoneCounted'
         /\ LastFoundNothing'
<1>1. pc' \in [Workers -> {"get", "post", "mark", "record", "done"}] /\ pc'[w] = statement
  BY DEF ClientInv, Shapes
<1>2. Done' = Done BY DEF ClientInv, Shapes, Done
<1>3. DoneCounted' BY <1>2 DEF ClientInv, DoneCounted
<1>4. LastFoundNothing' BY <1>1 DEF LastFoundNothing
<1> QED BY <1>1, <1>3, <1>4

LEMMA GetInv ==
  ASSUME ClientInv, NEW w \in Workers, Get(w)
  PROVE  ClientInv'
<1>1. /\ Head(que) \in Requests /\ In(que, Head(que))
      /\ que' \in Seq(Requests) /\ Distinct(que')
      /\ \A r : In(que', r) <=> In(que, r) /\ r # Head(que)
  BY TailDistinct DEF ClientInv, Shapes, RequestsConserved, Get
<1>2. data' \in [Workers -> Requests \cup {0}]
  BY <1>1 DEF ClientInv, Shapes, Get
<1>3. /\ pc' \in [Workers -> {"get", "post", "mark", "record", "done"}]
      /\ DoneCounted' /\ LastFoundNothing'
  BY NobodyEnds DEF Get
<1>4. Shapes' BY <1>1, <1>2, <1>3 DEF ClientInv, Shapes, Get
<1>5. Head(que) # 0 BY <1>1 DEF Requests
<1>6. HoldsWhenBusy'
  BY <1>5 DEF ClientInv, Shapes, HoldsWhenBusy, Get
<1>7. data[w] = 0 BY DEF ClientInv, HoldsWhenBusy, Get
<1>8. \A v \in Workers : data'[v] = IF v = w THEN Head(que) ELSE data[v]
  BY DEF ClientInv, Shapes, Get
<1>9. \A v \in Workers : data[v] # Head(que)
  BY <1>1 DEF ClientInv, RequestsConserved
<1>10. RequestsConserved'
  <2>1. \A u, v \in Workers : data'[u] = data'[v] /\ data'[v] # 0 => u = v
    BY <1>8, <1>9 DEF ClientInv, RequestsConserved
  <2>2. response' = response BY DEF Get
  <2>3. ASSUME NEW r \in Requests
        PROVE  LET held == \E v \in Workers : data'[v] = r
               IN  \/ In(que', r) /\ ~held /\ ~In(response', r)
                   \/ ~In(que', r) /\ held /\ ~In(response', r)
                   \/ ~In(que', r) /\ ~held /\ In(response', r)
    <3>1. r # 0 BY DEF Requests
    <3>2. CASE r = Head(que)
      BY <3>2, <1>1, <1>8, <2>2 DEF ClientInv, RequestsConserved
    <3>3. CASE r # Head(que)
      <4>1. (\E v \in Workers : data'[v] = r) <=> (\E v \in Workers : data[v] = r)
        BY <3>1, <3>3, <1>7, <1>8
      <4> QED BY <4>1, <3>3, <1>1, <2>2 DEF ClientInv, RequestsConserved
    <3> QED BY <3>2, <3>3
  <2> QED BY <1>1, <2>1, <2>2, <2>3 DEF ClientInv, RequestsConserved
<1> QED BY <1>3, <1>4, <1>6, <1>10 DEF ClientInv

(* A request goes from the worker's hands to the end of one of the lists.   *)
LEMMA HandsOver ==
  ASSUME ClientInv, NEW w \in Workers, pc[w] \in {"post", "record"},
         data' = [data EXCEPT ![w] = 0],
         \/ que' = Append(que, data[w]) /\ response' = response
         \/ response' = Append(response, data[w]) /\ que' = que
  PROVE  /\ que' \in Seq(Requests) /\ response' \in Seq(Requests)
         /\ data' \in [Workers -> Requests \cup {0}]
         /\ RequestsConserved'
<1> DEFINE x == data[w]
<1>1. x \in Requests /\ x # 0
  BY DEF ClientInv, Shapes, HoldsWhenBusy
<1>2. ~In(que, x) /\ ~In(response, x)
  BY <1>1 DEF ClientInv, RequestsConserved
<1>3. que \in Seq(Requests) /\ response \in Seq(Requests) /\ Distinct(que) /\ Distinct(response)
  BY DEF ClientInv, Shapes, RequestsConserved
<1>4. \A v \in Workers : data'[v] = IF v = w THEN 0 ELSE data[v]
  BY DEF ClientInv, Shapes
<1>5. data' \in [Workers -> Requests \cup {0}] BY DEF ClientInv, Shapes
<1>6. /\ que' \in Seq(Requests) /\ response' \in Seq(Requests)
      /\ Distinct(que') /\ Distinct(response')
      /\ \A r : r # x => (In(que', r) <=> In(que, r)) /\ (In(response', r) <=> In(response, r))
      /\ In(que', x) <=> ~In(response', x)
  <2>1. CASE que' = Append(que, x) /\ response' = response
    <3>1. /\ que' \in Seq(Requests) /\ Distinct(que')
          /\ \A r : In(que', r) <=> In(que, r) \/ r = x
      BY <1>1, <1>2, <1>3, <2>1, AppendDistinct
    <3> QED BY <1>2, <1>3, <2>1, <3>1, Zenon DEF In
  <2>2. CASE response' = Append(response, x) /\ que' = que
    <3>1. /\ response' \in Seq(Requests) /\ Distinct(response')
          /\ \A r : In(response', r) <=> In(response, r) \/ r = x
      BY <1>1, <1>2, <1>3, <2>2, AppendDistinct
    <3> QED BY <1>2, <1>3, <2>2, <3>1, Zenon DEF In
  <2> QED BY <2>1, <2>2
<1>7. \A u, v \in Workers : data'[u] = data'[v] /\ data'[v] # 0 => u = v
  BY <1>4 DEF ClientInv, RequestsConserved
<1>8. \A v \in Workers : data'[v] # x
  BY <1>1, <1>4 DEF ClientInv, RequestsConserved
<1>9. ASSUME NEW r \in Requests
      PROVE  LET held == \E v \in Workers : data'[v] = r
             IN  \/ In(que', r) /\ ~held /\ ~In(response', r)
                 \/ ~In(que', r) /\ held /\ ~In(response', r)
                 \/ ~In(que', r) /\ ~held /\ In(response', r)
  <2>1. r # 0 BY DEF Requests
  <2>2. CASE r = x BY <2>2, <1>6, <1>8
  <2>3. CASE r # x
    <3>1. (\E v \in Workers : data'[v] = r) <=> (\E v \in Workers : data[v] = r)
      BY <2>1, <2>3, <1>4
    <3> QED BY <3>1, <2>3, <1>6 DEF ClientInv, RequestsConserved
  <2> QED BY <2>2, <2>3
<1> QED BY <1>5, <1>6, <1>7, <1>9 DEF RequestsConserved

LEMMA RaiseInv ==
  ASSUME ClientInv, NEW w \in Workers, Raise(w)
  PROVE  ClientInv'
<1>1. /\ que' \in Seq(Requests) /\ response' \in Seq(Requests)
      /\ data' \in [Workers -> Requests \cup {0}]
      /\ RequestsConserved'
  BY HandsOver DEF Raise
<1>2. /\ pc' \in [Workers -> {"get", "post", "mark", "record", "done"}]
      /\ DoneCounted' /\ LastFoundNothing'
  BY NobodyEnds DEF Raise
<1>3. Shapes' BY <1>1, <1>2 DEF ClientInv, Shapes, Raise
<1>4. HoldsWhenBusy' BY DEF ClientInv, Shapes, HoldsWhenBusy, Raise
<1> QED BY <1>1, <1>2, <1>3, <1>4 DEF ClientInv

LEMMA RecordInv ==
  ASSUME ClientInv, NEW w \in Workers, Record(w)
  PROVE  ClientInv'
<1>1. \/ que' = Append(que, data[w]) /\ response' = response
      \/ response' = Append(response, data[w]) /\ que' = que
  BY DEF Record
<1>2. /\ que' \in Seq(Requests) /\ response' \in Seq(Requests)
      /\ data' \in [Workers -> Requests \cup {0}]
      /\ RequestsConserved'
  BY <1>1, HandsOver DEF Record
<1>3. /\ pc' \in [Workers -> {"get", "post", "mark", "record", "done"}]
      /\ DoneCounted' /\ LastFoundNothing'
  BY NobodyEnds DEF Record
<1>4. Shapes' BY <1>2, <1>3 DEF ClientInv, Shapes, Record
<1>5. HoldsWhenBusy' BY DEF ClientInv, Shapes, HoldsWhenBusy, Record
<1> QED BY <1>2, <1>3, <1>4, <1>5 DEF ClientInv

(* Respond and MarkDown move no request.                                    *)
LEMMA NothingMoves ==
  ASSUME ClientInv, NEW w \in Workers, Respond(w) \/ MarkDown(w)
  PROVE  ClientInv'
<1>1. /\ pc' \in [Workers -> {"get", "post", "mark", "record", "done"}]
      /\ DoneCounted' /\ LastFoundNothing'
  BY NobodyEnds DEF Respond, MarkDown
<1>2. UNCHANGED <<que, data, response>> BY DEF Respond, MarkDown
<1>3. RequestsConserved' BY <1>2 DEF ClientInv, RequestsConserved, Distinct, In
<1>4. Shapes' BY <1>1, <1>2 DEF ClientInv, Shapes, Respond, MarkDown
<1>5. HoldsWhenBusy'
  BY DEF ClientInv, Shapes, HoldsWhenBusy, Respond, MarkDown
<1> QED BY <1>1, <1>3, <1>4, <1>5 DEF ClientInv

LEMMA TimeOutInv ==
  ASSUME ClientInv, NEW w \in Workers, TimeOut(w)
  PROVE  ClientInv'
<1>1. Done' = Done \cup {w} /\ w \notin Done
  BY DEF ClientInv, Shapes, Done, TimeOut
<1>2. IsFiniteSet(Done)
  BY FS_Subset, WorkersFinite DEF Done
<1>3. DoneCounted'
  BY <1>1, <1>2, FS_AddElement DEF ClientInv, DoneCounted, TimeOut
<1>4. UNCHANGED <<que, data, response, server_alive, bar>> BY DEF TimeOut
<1>5. RequestsConserved' BY <1>4 DEF ClientInv, RequestsConserved, Distinct, In
<1>6. Shapes' BY <1>4 DEF ClientInv, Shapes, TimeOut
<1>7. HoldsWhenBusy'
  BY DEF ClientInv, Shapes, HoldsWhenBusy, TimeOut
<1>8. LastFoundNothing' BY DEF LastFoundNothing, TimeOut
<1> QED BY <1>3, <1>5, <1>6, <1>7, <1>8 DEF ClientInv

(* ClientInv is inductive.                                                  *)
LEMMA ClientNextInv == ClientInv /\ [ClientNext]_clientvars => ClientInv'
<1> SUFFICES ASSUME ClientInv, [ClientNext]_clientvars PROVE ClientInv'
  OBVIOUS
<1>1. CASE UNCHANGED <<que, pc, data, response, done_threads, server_alive>>
           /\ bar' \in {"draw", "sleep", "down", "ended"}
  BY <1>1 DEF ClientInv, Shapes, DoneCounted, Done, HoldsWhenBusy, LastFoundNothing,
              RequestsConserved, Distinct, In
<1>2. CASE Bar BY <1>1, <1>2 DEF Bar, Draw, Wake, WakeAgain
<1>3. CASE UNCHANGED clientvars
  BY <1>1, <1>3 DEF clientvars, ClientInv, Shapes
<1>4. ASSUME NEW w \in Workers, Alone(w) \/ Respond(w) \/ Raise(w)
      PROVE  ClientInv'
  BY <1>4, GetInv, TimeOutInv, RaiseInv, RecordInv, NothingMoves DEF Alone
<1> QED BY <1>2, <1>3, <1>4 DEF ClientNext

(* Every reachable state of the client satisfies ClientInv.                 *)
THEOREM ClientInvariant == Client => []ClientInv
BY ClientInitInv, ClientNextInv, PTL DEF Client

(* Every reachable state of the client is typed.                            *)
THEOREM ClientTyped == Client => []ClientTypeOK
<1>1. ClientInv => ClientTypeOK
  <2> SUFFICES ASSUME ClientInv PROVE ClientTypeOK
    OBVIOUS
  <2>1. /\ Cardinality(Done) \in Nat /\ Cardinality(Workers) \in Nat
        /\ Cardinality(Done) <= Cardinality(Workers)
    <3>1. Done \subseteq Workers BY DEF Done
    <3> QED BY <3>1, FS_Subset, FS_CardinalityType, WorkersFinite
  <2> QED BY <2>1 DEF ClientInv, Shapes, DoneCounted, ClientTypeOK
<1> QED BY <1>1, ClientInvariant, PTL

(* No request is lost and no answer counted twice, whatever the server does. *)
THEOREM RequestsAreConserved == Client => []RequestsConserved
<1>1. ClientInv => RequestsConserved BY DEF ClientInv
<1> QED BY <1>1, ClientInvariant, PTL

(* When all threads have ended every request has its answer.                *)
THEOREM FinishedMeansAnswered == Client => []AllAnswered
<1>1. ClientInv => AllAnswered
  <2> SUFFICES ASSUME ClientInv, Finished, NEW r \in Requests PROVE In(response, r)
    BY DEF AllAnswered
  <2>1. que = <<>> BY DEF ClientInv, LastFoundNothing, Finished
  <2>2. ~In(que, r) BY <2>1 DEF In
  <2>3. \A w \in Workers : data[w] = 0 BY DEF ClientInv, HoldsWhenBusy, Finished
  <2>4. r # 0 BY DEF Requests
  <2> QED BY <2>2, <2>3, <2>4 DEF ClientInv, RequestsConserved
<1> QED BY <1>1, ClientInvariant, PTL
-----------------------------------------------------------------------------
(* With the C++ process as its server the client is still that client: each *)
(* step of Measurement is one of its steps or leaves it alone.              *)
THEOREM MeasurementIsClient == Spec => Client
<1>1. Init => ClientInit BY DEF Init
<1>2. ASSUME [Next]_vars PROVE [ClientNext]_clientvars
  <2>1. CASE UNCHANGED vars BY <2>1 DEF vars, clientvars
  <2>2. ASSUME NEW w \in Workers, WorkerSteps(w) PROVE [ClientNext]_clientvars
    BY <2>2 DEF WorkerSteps, Connect, Answered, ConnectionReset, ConnectionRefused, ClientNext
  <2>3. CASE Progress BY <2>3 DEF Progress, ClientNext
  <2>4. CASE ServerMain BY <2>4 DEF ServerMain
  <2>5. CASE \E i \in Server!Elements : ServerWorker(i) BY <2>5 DEF ServerWorker
  <2>6. CASE Kill BY <2>6 DEF Kill
  <2>7. CASE Start BY <2>7 DEF Start, clientvars
  <2> QED BY <1>2, <2>1, <2>2, <2>3, <2>4, <2>5, <2>6, <2>7 DEF Next
<1> QED BY <1>1, <1>2, PTL DEF Spec, Client

(* No request is lost or answered twice through the ends and starts of the  *)
(* C++ process, and when the measurement ends every request has its answer. *)
THEOREM MeasurementIsComplete == Spec => [](RequestsConserved /\ AllAnswered)
BY MeasurementIsClient, RequestsAreConserved, FinishedMeansAnswered, PTL
-----------------------------------------------------------------------------
(* What HttpServerProofs shows of the steps of the process, with the posts   *)
(* of the client as its connections.                                        *)
Process == INSTANCE HttpServerProofs WITH Connections <- Workers

RestartInv == Process!Teardown /\ Process!WaitersAreHeld

LEMMA SameMain == Server!MainStep => Process!MainStep
<1>1. /\ Server!Construct => Process!Construct
      /\ Server!SetupCb => Process!SetupCb
      /\ Server!Run => Process!Run
  BY DEF Server!Construct, Process!Construct, Server!SetupCb, Process!SetupCb,
         Server!Run, Process!Run, Server!Main, Process!Main, Server!Advance,
         Process!Advance, Server!Constructed, Process!Constructed
<1>2. \A how : Server!End(how) => Process!End(how)
  BY DEF Server!End, Process!End, Server!Reset, Process!Reset, Server!Unsettled,
         Process!Unsettled
<1>3. /\ Server!ConstructFails => Process!ConstructFails
      /\ Server!FreeHttpClosesMySQL => Process!FreeHttpClosesMySQL
      /\ Server!Exit => Process!Exit
  BY <1>2 DEF Server!ConstructFails, Process!ConstructFails, Server!FreeHttpClosesMySQL,
              Process!FreeHttpClosesMySQL, Server!Exit, Process!Exit, Server!Main,
              Process!Main
<1>4. /\ Server!CloseSocket => Process!CloseSocket
      /\ Server!FreeHttp => Process!FreeHttp
  BY DEF Server!CloseSocket, Process!CloseSocket, Server!FreeHttp, Process!FreeHttp,
         Server!Main, Process!Main, Server!Reset, Process!Reset, Server!Unsettled,
         Process!Unsettled
<1>5. /\ Server!FreeBase => Process!FreeBase
      /\ Server!Join => Process!Join
      /\ Server!DestroyConnector => Process!DestroyConnector
  BY DEF Server!FreeBase, Process!FreeBase, Server!Join, Process!Join,
         Server!DestroyConnector, Process!DestroyConnector, Server!Main, Process!Main
<1> QED BY <1>1, <1>3, <1>4, <1>5 DEF Server!MainStep, Process!MainStep

LEMMA SameWorker ==
  ASSUME NEW i \in Server!Elements, Server!WorkerStep(i)
  PROVE  i \in Process!Elements /\ Process!WorkerStep(i)
<1>1. i \in Process!Elements BY DEF Server!Elements, Process!Elements
<1>2. \A how : Server!End(how) => Process!End(how)
  BY DEF Server!End, Process!End, Server!Reset, Process!Reset, Server!Unsettled,
         Process!Unsettled
<1>3. Server!Undefined(i) => Process!Undefined(i)
  BY <1>2 DEF Server!Undefined, Process!Undefined
<1>4. /\ Server!DispatchFreed(i) => Process!DispatchFreed(i)
      /\ Server!ReplyFreed(i) => Process!ReplyFreed(i)
      /\ Server!HandlerThrows(i) => Process!HandlerThrows(i)
  BY <1>2, <1>3 DEF Server!DispatchFreed, Process!DispatchFreed, Server!ReplyFreed,
                    Process!ReplyFreed, Server!HandlerThrows, Process!HandlerThrows,
                    Server!Worker, Process!Worker
<1>5. /\ Server!Dispatch(i) => Process!Dispatch(i)
      /\ Server!Accept(i) => Process!Accept(i)
      /\ Server!ReuseNumber(i) => Process!ReuseNumber(i)
      /\ Server!Reply(i) => Process!Reply(i)
  BY DEF Server!Dispatch, Process!Dispatch, Server!Accept, Process!Accept,
         Server!ReuseNumber, Process!ReuseNumber, Server!Reply, Process!Reply,
         Server!Worker, Process!Worker
<1> QED BY <1>1, <1>4, <1>5 DEF Server!WorkerStep, Process!WorkerStep

LEMMA SameConnect ==
  ASSUME NEW w \in Workers, Server!Connect(w)
  PROVE  Process!Connect(w)
BY DEF Server!Connect, Process!Connect, Server!Elements, Process!Elements

(* RestartInv is about the variables of the process alone.                  *)
LEMMA RestartStutter == RestartInv /\ UNCHANGED servervars => RestartInv'
BY DEF RestartInv, servervars, Process!Teardown, Process!TypeOK, Process!Launching,
       Process!Ordered, Process!WaitersAreHeld

(* The client may forget a connection that is over.                         *)
LEMMA CloseKeepsRestart ==
  ASSUME RestartInv, NEW w \in Workers, Close(w)
  PROVE  RestartInv'
<1>1. Process!TypeOK BY DEF RestartInv, Process!Teardown
<1>2. Process!TypeOK'
  BY <1>1, ThreadsPositive DEF Close, Process!TypeOK
<1>3. Process!Launching' /\ Process!Ordered' /\ (connector \/ main = "exit")'
  BY DEF RestartInv, Process!Teardown, Process!Launching, Process!Ordered, Close
<1>4. /\ fate'[w] = "outside"
      /\ \A v \in Workers \ {w} : fate'[v] = fate[v] /\ place'[v] = place[v]
  BY <1>1 DEF Close, Process!TypeOK
<1>5. UNCHANGED <<live, worker, process>> BY DEF Close
<1>6. Process!WaitersAreHeld'
  BY <1>4, <1>5 DEF RestartInv, Process!WaitersAreHeld, Process!Unsettled
<1> QED BY <1>2, <1>3, <1>6 DEF RestartInv, Process!Teardown

(* A new process finds nobody waiting for the one before.                   *)
LEMMA StartKeepsRestart ==
  ASSUME RestartInv, Start
  PROVE  RestartInv'
<1>1. Process!TypeOK BY DEF RestartInv, Process!Teardown
<1>2. Process!Elements = Server!Elements BY DEF Process!Elements, Server!Elements
<1>3. Process!TypeOK'
  BY <1>1, <1>2, ThreadsPositive
  DEF Start, Process!TypeOK, Process!Elements, Process!Statements
<1>4. Process!Launching' /\ Process!Ordered' /\ (connector \/ main = "exit")'
  BY <1>2, ThreadsPositive
  DEF Start, Process!Launching, Process!Ordered, Process!Tearing, Process!Last,
      Process!Elements
<1>5. \A w \in Workers : fate'[w] \notin Process!Unsettled
  BY DEF RestartInv, Process!WaitersAreHeld, Start
<1>6. Process!WaitersAreHeld'
  BY <1>5 DEF Process!WaitersAreHeld, Process!Unsettled
<1> QED BY <1>3, <1>4, <1>6 DEF RestartInv, Process!Teardown

(* A step of the process, or its end, is one that HttpServerProofs covers.  *)
LEMMA ProcessKeepsRestart ==
  ASSUME RestartInv, Process!Next
  PROVE  RestartInv'
BY ThreadsPositive, Process!NextKeepsTeardown, Process!NextHoldsWaiters DEF RestartInv

LEMMA KillKeepsRestart ==
  ASSUME RestartInv, Kill
  PROVE  RestartInv'
<1>1. Process!End("exited")
  BY DEF Kill, Server!End, Process!End, Server!Reset, Process!Reset, Server!Unsettled,
         Process!Unsettled
<1>2. Process!Teardown' /\ Process!WaitersAreHeld'
  BY <1>1, ThreadsPositive, Process!EndKeepsTeardown, Process!EndHoldsWaiters
  DEF RestartInv, Process!Teardown
<1> QED BY <1>2 DEF RestartInv

(* RestartInv is inductive.                                                 *)
LEMMA NextKeepsRestart == RestartInv /\ [Next]_vars => RestartInv'
<1> SUFFICES ASSUME RestartInv, [Next]_vars PROVE RestartInv'
  OBVIOUS
<1>1. CASE UNCHANGED servervars BY <1>1, RestartStutter
<1>2. CASE UNCHANGED vars BY <1>1, <1>2 DEF vars
<1>3. ASSUME NEW w \in Workers, WorkerSteps(w) PROVE RestartInv'
  <2>1. CASE Connect(w)
    <3>1. Process!Connect(w) BY <2>1, SameConnect DEF Connect
    <3> QED BY <3>1, ProcessKeepsRestart DEF Process!Next
  <2>2. CASE Answered(w) \/ ConnectionReset(w)
    BY <2>2, CloseKeepsRestart DEF Answered, ConnectionReset
  <2>3. CASE ConnectionRefused(w) \/ (Alone(w) /\ UNCHANGED servervars)
    BY <1>1, <2>3 DEF ConnectionRefused
  <2> QED BY <1>3, <2>1, <2>2, <2>3 DEF WorkerSteps
<1>4. CASE Progress BY <1>1, <1>4 DEF Progress
<1>5. CASE ServerMain
  BY <1>5, SameMain, ProcessKeepsRestart DEF ServerMain, Process!Next
<1>6. ASSUME NEW i \in Server!Elements, ServerWorker(i) PROVE RestartInv'
  <2>1. i \in Process!Elements /\ Process!WorkerStep(i)
    BY <1>6, SameWorker DEF ServerWorker
  <2> QED BY <2>1, ProcessKeepsRestart DEF Process!Next
<1>7. CASE Kill BY <1>7, KillKeepsRestart
<1>8. CASE Start BY <1>8, StartKeepsRestart
<1> QED BY <1>2, <1>3, <1>4, <1>5, <1>6, <1>7, <1>8 DEF Next

(* Through any number of ends and starts of the C++ process its workers     *)
(* serve, its handlers have their connector, and no post of the client      *)
(* waits at what is gone.                                                   *)
THEOREM RestartsAreSafe == Spec => []RestartsKeepServer
<1>1. Init => RestartInv
  <2>1. Server!Init => Process!Init
    BY DEF Server!Init, Process!Init, Server!Elements, Process!Elements
  <2>2. Process!Init => Process!Teardown BY ThreadsPositive, Process!InitTeardown
  <2>3. Process!Init => Process!WaitersAreHeld
    BY DEF Process!Init, Process!WaitersAreHeld, Process!Unsettled
  <2> QED BY <2>1, <2>2, <2>3 DEF Init, RestartInv
<1>2. RestartInv => RestartsKeepServer
  <2> SUFFICES ASSUME RestartInv PROVE RestartsKeepServer
    OBVIOUS
  <2>1. Server!OthersServe
    BY ThreadsPositive
    DEF RestartInv, Process!Teardown, Process!TypeOK, Process!Launching, Process!Ordered,
        Process!Tearing, Process!Last, Process!Statements, Process!Elements,
        Process!Owned, Process!Constructed, Server!OthersServe, Server!Elements,
        Server!Owned, Server!Constructed
  <2>2. Server!ConnectorOutlivesHandlers
    BY DEF RestartInv, Process!Teardown, Process!Ordered, Process!Last, Process!Elements,
           Server!ConnectorOutlivesHandlers, Server!Elements
  <2>3. Server!WaitersAreHeld
    BY DEF RestartInv, Process!WaitersAreHeld, Process!Unsettled, Process!Elements,
           Server!WaitersAreHeld, Server!Unsettled, Server!Elements
  <2> QED BY <2>1, <2>2, <2>3 DEF RestartsKeepServer
<1> QED BY <1>1, <1>2, NextKeepsRestart, PTL DEF Spec
=============================================================================
