--------------------------- MODULE HttpServerProofs ---------------------------
(***************************************************************************)
(* Proofs about HttpServer for every number of threads and every set of    *)
(* connections: its type, that a worker which has not ended protects the   *)
(* elements after its own, that the connector outlives the handlers, and   *)
(* that a waiting client is held by something that lives.                  *)
(*                                                                         *)
(* The first three come from one inductive invariant, Teardown: how far    *)
(* main() has come says what each element owns and which workers have      *)
(* ended.  With it WaitersAreHeld is inductive too.                        *)
(***************************************************************************)
EXTENDS HttpServer, TLAPS

MainInit == {"construct", "setup_cb", "run"}
Tearing == {"close", "free_http", "free_base", "join"}
Last == {"destroy", "exit"}

(* Before a worker is started it is "none"; once all are, none is.          *)
Launching ==
  /\ main = "construct" =>
       \A i \in Elements : worker[i] = "none" /\ (i < at => live[i] = Constructed)
  /\ main = "setup_cb" =>
       \A i \in Elements :
         /\ worker[i] = "none"
         /\ live[i] = IF i < at THEN Owned ELSE Constructed
  /\ main = "run" =>
       \A i \in Elements : live[i] = Owned /\ (i < at <=> worker[i] # "none")

(* main() is at one element: the workers before it have ended, and the      *)
(* elements after it are whole.                                             *)
Ordered ==
  /\ main \in Tearing =>
       \A i \in Elements :
         /\ worker[i] # "none"
         /\ i < at => worker[i] = "done"
         /\ i > at => live[i] = Owned
  /\ main \in Last => \A i \in Elements : worker[i] = "done"

Teardown ==
  /\ TypeOK
  /\ Launching
  /\ Ordered
  /\ connector \/ main = "exit"

-----------------------------------------------------------------------------
(* What a step of main() leaves of the connections is typed.                *)
LEMMA ResetTyped ==
  ASSUME TypeOK, NEW P
  PROVE  Reset(P) \in [Connections -> Unsettled \cup {"outside", "answered", "reset"}]
BY DEF TypeOK, Reset, Unsettled

(* Init establishes Teardown.                                               *)
LEMMA InitTeardown == Init => Teardown
BY NPositive DEF Init, Teardown, TypeOK, Launching, Ordered, Tearing, Last, Elements,
                 Statements, Unsettled, Owned

(* A process that ends changes nothing that Teardown speaks of.             *)
LEMMA EndKeepsTeardown ==
  ASSUME Teardown, NEW how \in {"running", "exited", "aborted"}, End(how)
  PROVE  Teardown'
<1>1. TypeOK BY DEF Teardown
<1>2. Reset([c \in Connections |-> TRUE])
        \in [Connections -> Unsettled \cup {"outside", "answered", "reset"}]
  BY <1>1, ResetTyped
<1>3. TypeOK' BY <1>1, <1>2 DEF TypeOK, End, Statements
<1>4. Launching' /\ Ordered' /\ (connector \/ main = "exit")'
  BY DEF Teardown, Launching, Ordered, End
<1> QED BY <1>3, <1>4 DEF Teardown

(* Every step of main() preserves Teardown.                                 *)
LEMMA MainKeepsTeardown ==
  ASSUME Teardown, MainStep
  PROVE  Teardown'
<1> USE NPositive DEF Elements
<1>1. TypeOK BY DEF Teardown
<1>2. CASE Construct
  <2>1. TypeOK'
    BY <1>1, <1>2 DEF TypeOK, Construct, Main, Advance, Statements, Owned, Constructed
  <2>2. Launching'
    BY <1>1, <1>2 DEF Teardown, Launching, TypeOK, Construct, Main, Advance
  <2>3. Ordered' /\ (connector \/ main = "exit")'
    BY <1>1, <1>2 DEF Teardown, Ordered, Tearing, Last, Construct, Main, Advance
  <2> QED BY <2>1, <2>2, <2>3 DEF Teardown
<1>3. CASE ConstructFails
  BY <1>3, EndKeepsTeardown DEF ConstructFails
<1>4. CASE SetupCb
  <2>1. TypeOK'
    BY <1>1, <1>4 DEF TypeOK, SetupCb, Main, Advance, Statements, Owned
  <2>2. Constructed \cup {"cb"} = Owned BY DEF Owned
  <2>3. live' = [live EXCEPT ![at] = Owned]
    <3>1. at \in Elements /\ live[at] = Constructed
      BY <1>1, <1>4 DEF Teardown, Launching, TypeOK, SetupCb, Main
    <3> QED BY <1>1, <1>4, <2>2, <3>1 DEF SetupCb, TypeOK
  <2>4. Launching'
    <3>1. CASE at < N
      <4>1. main' = "setup_cb" /\ at' = at + 1 /\ worker' = worker
        BY <1>4, <3>1 DEF SetupCb, Main, Advance
      <4>2. ASSUME NEW i \in Elements
            PROVE  /\ worker[i] = "none"
                   /\ live'[i] = IF i < at + 1 THEN Owned ELSE Constructed
        <5>1. /\ worker[i] = "none"
              /\ live[i] = IF i < at THEN Owned ELSE Constructed
          BY <1>4 DEF Teardown, Launching, SetupCb, Main
        <5>2. live'[i] = IF i = at THEN Owned ELSE live[i]
          BY <1>1, <2>3 DEF TypeOK
        <5>3. i < at + 1 <=> i < at \/ i = at BY <1>1 DEF TypeOK
        <5> QED BY <5>1, <5>2, <5>3
      <4> QED BY <4>1, <4>2 DEF Launching
    <3>2. CASE ~(at < N)
      <4>1. main' = "run" /\ at' = 1 BY <1>4, <3>2 DEF SetupCb, Main, Advance
      <4>2. ASSUME NEW i \in Elements PROVE live'[i] = Owned /\ worker'[i] = "none"
        BY <1>1, <1>4, <2>3, <3>2 DEF Teardown, Launching, TypeOK, SetupCb, Main
      <4> QED BY <4>1, <4>2 DEF Launching
    <3> QED BY <3>1, <3>2
  <2>5. Ordered' /\ (connector \/ main = "exit")'
    BY <1>1, <1>4 DEF Teardown, Ordered, Tearing, Last, SetupCb, Main, Advance
  <2> QED BY <2>1, <2>4, <2>5 DEF Teardown
<1>5. CASE Run
  <2>1. TypeOK'
    BY <1>1, <1>5 DEF TypeOK, Run, Main, Advance, Statements
  <2>2. Launching'
    BY <1>1, <1>5 DEF Teardown, Launching, TypeOK, Run, Main, Advance
  <2>3. Ordered' /\ (connector \/ main = "exit")'
    BY <1>1, <1>5 DEF Teardown, Launching, Ordered, Tearing, Last, TypeOK, Run, Main,
                      Advance
  <2> QED BY <2>1, <2>2, <2>3 DEF Teardown
<1>6. CASE CloseSocket
  <2>1. Reset([c \in Connections |-> place[c] = at /\ fate[c] = "queued"])
          \in [Connections -> Unsettled \cup {"outside", "answered", "reset"}]
    BY <1>1, ResetTyped
  <2>2. TypeOK'
    BY <1>1, <1>6, <2>1 DEF TypeOK, CloseSocket, Main, Statements
  <2>3. Launching' /\ Ordered' /\ (connector \/ main = "exit")'
    BY <1>1, <1>6 DEF Teardown, Launching, Ordered, Tearing, Last, TypeOK, CloseSocket,
                      Main
  <2> QED BY <2>2, <2>3 DEF Teardown
<1>7. CASE FreeHttp
  <2>1. Reset([c \in Connections |-> place[c] \in {at, reused}])
          \in [Connections -> Unsettled \cup {"outside", "answered", "reset"}]
    BY <1>1, ResetTyped
  <2>2. TypeOK'
    BY <1>1, <1>7, <2>1 DEF TypeOK, FreeHttp, Main, Statements
  <2>3. Launching' /\ Ordered' /\ (connector \/ main = "exit")'
    BY <1>1, <1>7 DEF Teardown, Launching, Ordered, Tearing, Last, TypeOK, FreeHttp,
                      Main
  <2> QED BY <2>2, <2>3 DEF Teardown
<1>8. CASE FreeHttpClosesMySQL
  BY <1>8, EndKeepsTeardown DEF FreeHttpClosesMySQL
<1>9. CASE FreeBase
  <2>1. TypeOK'
    BY <1>1, <1>9 DEF TypeOK, FreeBase, Main, Statements
  <2>2. Launching' /\ Ordered' /\ (connector \/ main = "exit")'
    BY <1>1, <1>9 DEF Teardown, Launching, Ordered, Tearing, Last, TypeOK, FreeBase,
                      Main
  <2> QED BY <2>1, <2>2 DEF Teardown
<1>10. CASE Join
  <2>1. TypeOK'
    BY <1>1, <1>10 DEF TypeOK, Join, Main, Statements
  <2>2. worker[at] = "done"
    BY <1>1, <1>10 DEF Teardown, Ordered, Tearing, TypeOK, Join, Main
  <2>3. Launching' /\ Ordered' /\ (connector \/ main = "exit")'
    BY <1>1, <1>10, <2>2 DEF Teardown, Launching, Ordered, Tearing, Last, TypeOK, Join,
                             Main
  <2> QED BY <2>1, <2>3 DEF Teardown
<1>11. CASE DestroyConnector
  BY <1>1, <1>11 DEF Teardown, TypeOK, Launching, Ordered, Tearing, Last, Statements,
                     DestroyConnector, Main
<1>12. CASE Exit
  BY <1>12, EndKeepsTeardown DEF Exit
<1> QED BY <1>2, <1>3, <1>4, <1>5, <1>6, <1>7, <1>8, <1>9, <1>10, <1>11, <1>12
        DEF MainStep

(* A worker that takes a step has been started and has not ended, and stays  *)
(* started: Teardown speaks of nothing else that it changes.                *)
LEMMA WorkerMoves ==
  ASSUME Teardown, NEW i \in Elements, worker[i] \notin {"none", "done"},
         NEW doing \in {"waiting", "handling", "lost", "done"},
         worker' = [worker EXCEPT ![i] = doing],
         UNCHANGED <<main, at, live, connector>>
  PROVE  Launching' /\ Ordered' /\ (connector \/ main = "exit")'
BY NPositive DEF Teardown, TypeOK, Launching, Ordered, Tearing, Last

(* What the undefined behaviour may do preserves Teardown.                  *)
LEMMA UndefinedKeepsTeardown ==
  ASSUME Teardown, NEW i \in Elements, worker[i] \notin {"none", "done"}, Undefined(i)
  PROVE  Teardown'
<1>1. CASE End("aborted") BY <1>1, EndKeepsTeardown
<1>2. CASE /\ \E outcome \in {"lost", "done"} : worker' = [worker EXCEPT ![i] = outcome]
           /\ reused' = IF reused = i THEN 0 ELSE reused
           /\ UNCHANGED <<main, at, live, fate, place, connector, process>>
  <2>1. PICK outcome \in {"lost", "done"} : worker' = [worker EXCEPT ![i] = outcome]
    BY <1>2
  <2>2. TypeOK' BY <1>2, <2>1, NPositive DEF Teardown, TypeOK
  <2>3. Launching' /\ Ordered' /\ (connector \/ main = "exit")'
    BY <1>2, <2>1, WorkerMoves
  <2> QED BY <2>2, <2>3 DEF Teardown
<1> QED BY <1>1, <1>2 DEF Undefined

(* Every step of a worker preserves Teardown.                               *)
LEMMA WorkerKeepsTeardown ==
  ASSUME Teardown, NEW i \in Elements, WorkerStep(i)
  PROVE  Teardown'
<1>1. TypeOK BY DEF Teardown
<1>2. CASE Dispatch(i)
  <2>1. PICK doing \in {"waiting", "done"} : worker' = [worker EXCEPT ![i] = doing]
    BY <1>2 DEF Dispatch
  <2>2. TypeOK' BY <1>1, <1>2, <2>1 DEF TypeOK, Dispatch
  <2>3. Launching' /\ Ordered' /\ (connector \/ main = "exit")'
    BY <1>2, <2>1, WorkerMoves DEF Dispatch, Worker
  <2> QED BY <2>2, <2>3 DEF Teardown
<1>3. CASE DispatchFreed(i)
  BY <1>3, UndefinedKeepsTeardown DEF DispatchFreed
<1>4. CASE Accept(i)
  <2>1. PICK doing \in {"waiting", "handling"} : worker' = [worker EXCEPT ![i] = doing]
    BY <1>4 DEF Accept
  <2>2. TypeOK' BY <1>1, <1>4, <2>1 DEF TypeOK, Accept, Unsettled
  <2>3. Launching' /\ Ordered' /\ (connector \/ main = "exit")'
    BY <1>4, <2>1, WorkerMoves DEF Accept, Worker
  <2> QED BY <2>2, <2>3 DEF Teardown
<1>5. CASE ReuseNumber(i)
  BY <1>1, <1>5, NPositive DEF ReuseNumber, Teardown, TypeOK, Launching, Ordered,
                               Elements
<1>6. CASE Reply(i)
  <2>1. worker' = [worker EXCEPT ![i] = "waiting"] BY <1>6 DEF Reply
  <2>2. TypeOK' BY <1>1, <1>6, <2>1, NPositive DEF TypeOK, Reply, Unsettled
  <2>3. Launching' /\ Ordered' /\ (connector \/ main = "exit")'
    BY <1>6, <2>1, WorkerMoves DEF Reply, Worker
  <2> QED BY <2>2, <2>3 DEF Teardown
<1>7. CASE ReplyFreed(i)
  BY <1>7, UndefinedKeepsTeardown DEF ReplyFreed, Worker
<1>8. CASE HandlerThrows(i)
  BY <1>8, EndKeepsTeardown DEF HandlerThrows
<1> QED BY <1>2, <1>3, <1>4, <1>5, <1>6, <1>7, <1>8 DEF WorkerStep

(* A client's connection preserves Teardown.                                *)
LEMMA ConnectKeepsTeardown ==
  ASSUME Teardown, NEW c \in Connections, Connect(c)
  PROVE  Teardown'
<1>1. TypeOK BY DEF Teardown
<1>2. TypeOK' BY <1>1, NPositive DEF TypeOK, Connect, Unsettled, Elements
<1>3. Launching' /\ Ordered' /\ (connector \/ main = "exit")'
  BY DEF Teardown, Launching, Ordered, Connect
<1> QED BY <1>2, <1>3 DEF Teardown

(* Teardown is inductive.                                                   *)
LEMMA NextKeepsTeardown == Teardown /\ [Next]_vars => Teardown'
<1> SUFFICES ASSUME Teardown, [Next]_vars PROVE Teardown'
  OBVIOUS
<1>1. CASE MainStep BY <1>1, MainKeepsTeardown
<1>2. ASSUME NEW i \in Elements, WorkerStep(i) PROVE Teardown'
  BY <1>2, WorkerKeepsTeardown
<1>3. ASSUME NEW c \in Connections, Connect(c) PROVE Teardown'
  BY <1>3, ConnectKeepsTeardown
<1>4. CASE UNCHANGED vars
  BY <1>4 DEF vars, Teardown, TypeOK, Launching, Ordered
<1> QED BY <1>1, <1>2, <1>3, <1>4 DEF Next

(* How far main() has come says what lives, in every reachable state.       *)
THEOREM TeardownIsOrdered == Spec => []Teardown
BY InitTeardown, NextKeepsTeardown, PTL DEF Spec

(* Every reachable state of the process is typed.                           *)
THEOREM TypeCorrect == Spec => []TypeOK
<1>1. Teardown => TypeOK BY DEF Teardown
<1> QED BY <1>1, TeardownIsOrdered, PTL

(* While a worker has not ended, main() is at its element or before it, and  *)
(* the elements after it own all they were given.                           *)
THEOREM LaterElementsAreWhole == Spec => []OthersServe
<1>1. Teardown => OthersServe
  BY NPositive DEF Teardown, TypeOK, OthersServe, Ordered, Launching, Tearing, Last,
                   Elements, Statements
<1> QED BY <1>1, TeardownIsOrdered, PTL

(* main() destroys the connector when every worker has ended.               *)
THEOREM HandlersHaveConnector == Spec => []ConnectorOutlivesHandlers
<1>1. Teardown => ConnectorOutlivesHandlers
  BY DEF Teardown, Ordered, Last, ConnectorOutlivesHandlers
<1> QED BY <1>1, TeardownIsOrdered, PTL
-----------------------------------------------------------------------------
(* Nobody waits any more when the process ends.                             *)
LEMMA EndHoldsWaiters ==
  ASSUME TypeOK, NEW how, End(how)
  PROVE  WaitersAreHeld'
<1>1. \A c \in Connections : fate'[c] \notin Unsettled
  BY DEF TypeOK, End, Reset, Unsettled
<1> QED BY <1>1 DEF WaitersAreHeld, Unsettled

(* What closes parts of one element holds the waiters if it settles those   *)
(* that the parts held and touches no other.                                *)
LEMMA ClosingHoldsWaiters ==
  ASSUME WaitersAreHeld, UNCHANGED <<worker, place, process>>,
         \A c \in Connections : fate'[c] \in Unsettled => fate'[c] = fate[c],
         \A c \in Connections : fate'[c] = "queued" => "sock" \in live'[place[c]],
         \A c \in Connections : fate'[c] = "open" => "http" \in live'[place[c]]
  PROVE  WaitersAreHeld'
<1>1. \A c \in Connections : fate'[c] = "open" => fate[c] = "open"
  BY DEF Unsettled
<1>2. ASSUME NEW c \in Connections, fate'[c] \in Unsettled
      PROVE  process' = "running" /\ place'[c] \in Elements
  BY <1>2 DEF WaitersAreHeld
<1>3. ASSUME NEW c \in Connections, fate'[c] = "open"
      PROVE  /\ worker'[place'[c]] = "handling"
             /\ \A d \in Connections :
                  fate'[d] = "open" /\ place'[d] = place'[c] => d = c
  BY <1>1, <1>3 DEF WaitersAreHeld
<1> QED
  BY <1>2, <1>3 DEF WaitersAreHeld

(* Every step of main() leaves what the waiting clients need, or resets     *)
(* them.                                                                    *)
LEMMA MainHoldsWaiters ==
  ASSUME Teardown, WaitersAreHeld, MainStep
  PROVE  WaitersAreHeld'
<1>1. TypeOK BY DEF Teardown
<1>2. CASE ConstructFails \/ FreeHttpClosesMySQL \/ Exit
  BY <1>1, <1>2, EndHoldsWaiters DEF ConstructFails, FreeHttpClosesMySQL, Exit
<1>3. CASE Construct
  BY <1>1, <1>3 DEF WaitersAreHeld, Teardown, Launching, TypeOK, Construct, Main,
                    Constructed, Unsettled
<1>4. CASE SetupCb
  BY <1>1, <1>4 DEF WaitersAreHeld, TypeOK, SetupCb
<1>5. CASE Run
  <2>1. worker[at] = "none" /\ \A i \in Elements \ {at} : worker'[i] = worker[i]
    BY <1>1, <1>5 DEF Teardown, Launching, TypeOK, Run, Main, Elements
  <2> QED BY <1>1, <1>5, <2>1 DEF WaitersAreHeld, TypeOK, Run, Unsettled
<1>6. CASE CloseSocket
  <2>1. \A i \in Elements : live'[i] = IF i = at THEN live[i] \ {"sock"} ELSE live[i]
    BY <1>1, <1>6 DEF TypeOK, CloseSocket
  <2>2. \A c \in Connections :
          /\ fate'[c] \in Unsettled => fate'[c] = fate[c]
          /\ fate'[c] = "queued" => place[c] # at
    BY <1>1, <1>6 DEF TypeOK, CloseSocket, Reset, Unsettled
  <2>3. \A c \in Connections : fate'[c] \in Unsettled => place[c] \in Elements
    BY <2>2 DEF WaitersAreHeld
  <2>4. \A c \in Connections : fate'[c] = "queued" => "sock" \in live'[place[c]]
    BY <2>1, <2>2, <2>3 DEF WaitersAreHeld, Unsettled
  <2>5. \A c \in Connections : fate'[c] = "open" => "http" \in live'[place[c]]
    BY <2>1, <2>2, <2>3 DEF WaitersAreHeld, Unsettled
  <2>6. UNCHANGED <<worker, place, process>> BY <1>6 DEF CloseSocket
  <2> QED BY <2>2, <2>4, <2>5, <2>6, ClosingHoldsWaiters
<1>7. CASE FreeHttp
  <2>1. \A i \in Elements : live'[i] = IF i = at THEN live[i] \ {"http", "cb"} ELSE live[i]
    BY <1>1, <1>7 DEF TypeOK, FreeHttp
  <2>2. \A c \in Connections :
          fate'[c] \in Unsettled => fate'[c] = fate[c] /\ place[c] # at
    BY <1>1, <1>7 DEF TypeOK, FreeHttp, Reset, Unsettled
  <2>3. \A c \in Connections : fate'[c] \in Unsettled => place[c] \in Elements
    BY <2>2 DEF WaitersAreHeld
  <2>4. \A c \in Connections : fate'[c] = "queued" => "sock" \in live'[place[c]]
    BY <2>1, <2>2, <2>3 DEF WaitersAreHeld, Unsettled
  <2>5. \A c \in Connections : fate'[c] = "open" => "http" \in live'[place[c]]
    BY <2>1, <2>2, <2>3 DEF WaitersAreHeld, Unsettled
  <2>6. UNCHANGED <<worker, place, process>> BY <1>7 DEF FreeHttp
  <2> QED BY <2>2, <2>4, <2>5, <2>6, ClosingHoldsWaiters
<1>8. CASE FreeBase
  BY <1>1, <1>8 DEF WaitersAreHeld, TypeOK, FreeBase
<1>9. CASE Join \/ DestroyConnector
  BY <1>9 DEF WaitersAreHeld, Join, DestroyConnector
<1> QED BY <1>2, <1>3, <1>4, <1>5, <1>6, <1>7, <1>8, <1>9 DEF MainStep

(* A worker that handles nothing, or has lost its evhttp, holds no client:  *)
(* what it does next leaves the others where they are.                      *)
LEMMA IdleHoldsNobody ==
  ASSUME TypeOK, WaitersAreHeld, NEW i \in Elements,
         worker[i] # "handling" \/ "http" \notin live[i],
         NEW doing, worker' = [worker EXCEPT ![i] = doing],
         UNCHANGED <<live, fate, place, process>>
  PROVE  WaitersAreHeld'
BY DEF TypeOK, WaitersAreHeld, Unsettled

(* Every step of a worker keeps the waiting clients held: it accepts only    *)
(* when its last request has been answered.                                 *)
LEMMA WorkerHoldsWaiters ==
  ASSUME TypeOK, WaitersAreHeld, NEW i \in Elements, WorkerStep(i)
  PROVE  WaitersAreHeld'
<1>1. CASE Dispatch(i)
  <2>1. PICK doing \in {"waiting", "done"} : worker' = [worker EXCEPT ![i] = doing]
    BY <1>1 DEF Dispatch
  <2> QED BY <1>1, <2>1, IdleHoldsNobody DEF Dispatch, Worker
<1>2. CASE Undefined(i) /\ (worker[i] # "handling" \/ "http" \notin live[i])
  <2>1. CASE End("aborted") BY <2>1, EndHoldsWaiters
  <2>2. CASE /\ \E outcome \in {"lost", "done"} : worker' = [worker EXCEPT ![i] = outcome]
             /\ UNCHANGED <<main, at, live, fate, place, connector, process>>
    BY <1>2, <2>2, IdleHoldsNobody
  <2> QED BY <1>2, <2>1, <2>2 DEF Undefined
<1>3. CASE DispatchFreed(i) BY <1>2, <1>3 DEF DispatchFreed
<1>4. CASE ReplyFreed(i) BY <1>2, <1>4 DEF ReplyFreed
<1>5. CASE Accept(i)
  <2>1. PICK c \in Connections :
          /\ place[c] = i /\ fate[c] = "queued"
          /\ fate' = [fate EXCEPT ![c] = IF "cb" \in live[i] THEN "open" ELSE "answered"]
    BY <1>5 DEF Accept
  <2>2. \A d \in Connections : fate[d] = "open" => place[d] # i
    BY <1>5 DEF WaitersAreHeld, Accept, Worker
  <2>3. \A j \in Elements \ {i} : worker'[j] = worker[j]
    BY <1>5 DEF TypeOK, Accept
  <2>4. "cb" \in live[i] => worker'[i] = "handling"
    BY <1>5 DEF TypeOK, Accept
  <2>5. "http" \in live[i] /\ process = "running" /\ UNCHANGED <<live, place, process>>
    BY <1>5 DEF Accept, Worker
  <2>6. /\ fate'[c] = IF "cb" \in live[i] THEN "open" ELSE "answered"
        /\ \A d \in Connections \ {c} : fate'[d] = fate[d]
    BY <2>1 DEF TypeOK
  <2>7. ASSUME NEW d \in Connections, d # c PROVE
          /\ fate'[d] \in Unsettled => process' = "running" /\ place'[d] \in Elements
          /\ fate'[d] = "queued" => "sock" \in live'[place'[d]]
          /\ fate'[d] = "open" =>
               /\ "http" \in live'[place'[d]]
               /\ worker'[place'[d]] = "handling"
               /\ \A e \in Connections : fate'[e] = "open" /\ place'[e] = place'[d] => e = d
    <3>1. fate'[d] = fate[d] /\ place'[d] = place[d] BY <2>5, <2>6, <2>7
    <3>2. /\ fate[d] \in Unsettled => process = "running" /\ place[d] \in Elements
          /\ fate[d] = "queued" => "sock" \in live[place[d]]
          /\ fate[d] = "open" => "http" \in live[place[d]] /\ worker[place[d]] = "handling"
          /\ fate[d] = "open" =>
               \A e \in Connections : fate[e] = "open" /\ place[e] = place[d] => e = d
      BY DEF WaitersAreHeld
    <3>3. fate[d] = "open" => place[d] \in Elements \ {i}
      BY <2>2, <3>2 DEF Unsettled
    <3>4. fate[d] = "open" => worker'[place[d]] = "handling"
      BY <2>3, <3>2, <3>3
    <3>5. fate[d] = "open" =>
            \A e \in Connections : fate'[e] = "open" /\ place[e] = place[d] => e = d
      BY <2>1, <2>6, <3>2, <3>3
    <3> QED BY <2>5, <3>1, <3>2, <3>4, <3>5
  <2>8. /\ fate'[c] \in Unsettled => process' = "running" /\ place'[c] \in Elements
        /\ fate'[c] = "queued" => "sock" \in live'[place'[c]]
        /\ fate'[c] = "open" =>
             /\ "http" \in live'[place'[c]]
             /\ worker'[place'[c]] = "handling"
             /\ \A e \in Connections : fate'[e] = "open" /\ place'[e] = place'[c] => e = c
    BY <2>1, <2>2, <2>4, <2>5, <2>6
  <2> QED BY <2>7, <2>8 DEF WaitersAreHeld
<1>6. CASE ReuseNumber(i) BY <1>6 DEF WaitersAreHeld, ReuseNumber
<1>7. CASE Reply(i)
  <2>1. \A c \in Connections :
          fate'[c] \in Unsettled => fate'[c] = fate[c] /\ ~(fate[c] = "open" /\ place[c] = i)
    BY <1>7 DEF TypeOK, Reply, Unsettled
  <2>2. \A j \in Elements \ {i} : worker'[j] = worker[j]
    BY <1>7 DEF TypeOK, Reply
  <2>3. UNCHANGED <<live, place, process>> BY <1>7 DEF Reply
  <2> QED BY <2>1, <2>2, <2>3 DEF WaitersAreHeld, Unsettled
<1>8. CASE HandlerThrows(i) BY <1>8, EndHoldsWaiters DEF HandlerThrows
<1> QED BY <1>1, <1>3, <1>4, <1>5, <1>6, <1>7, <1>8 DEF WorkerStep

(* A new client is in the backlog of a socket that listens.                 *)
LEMMA ConnectHoldsWaiters ==
  ASSUME TypeOK, WaitersAreHeld, NEW c \in Connections, Connect(c)
  PROVE  WaitersAreHeld'
<1>1. PICK i \in Elements : "sock" \in live[i] /\ place' = [place EXCEPT ![c] = i]
  BY DEF Connect
<1>2. \A d \in Connections \ {c} : fate'[d] = fate[d] /\ place'[d] = place[d]
  BY <1>1 DEF TypeOK, Connect
<1>3. fate'[c] = "queued" /\ place'[c] = i BY <1>1 DEF TypeOK, Connect
<1>4. process = "running" /\ UNCHANGED <<live, worker, process>> BY DEF Connect
<1> QED BY <1>1, <1>2, <1>3, <1>4 DEF WaitersAreHeld, Unsettled

(* Every step of the process keeps the waiting clients held.                *)
LEMMA NextHoldsWaiters ==
  Teardown /\ WaitersAreHeld /\ [Next]_vars => WaitersAreHeld'
<1> SUFFICES ASSUME Teardown, WaitersAreHeld, [Next]_vars PROVE WaitersAreHeld'
  OBVIOUS
<1>1. TypeOK BY DEF Teardown
<1>2. CASE MainStep BY <1>2, MainHoldsWaiters
<1>3. ASSUME NEW i \in Elements, WorkerStep(i) PROVE WaitersAreHeld'
  BY <1>1, <1>3, WorkerHoldsWaiters
<1>4. ASSUME NEW c \in Connections, Connect(c) PROVE WaitersAreHeld'
  BY <1>1, <1>4, ConnectHoldsWaiters
<1>5. CASE UNCHANGED vars BY <1>5 DEF vars, WaitersAreHeld
<1> QED BY <1>2, <1>3, <1>4, <1>5 DEF Next

(* A client that waits is always held by something that lives, whatever     *)
(* main() has torn down under the workers.                                  *)
THEOREM WaitersAlwaysHeld == Spec => []WaitersAreHeld
<1>1. Init => WaitersAreHeld BY DEF Init, WaitersAreHeld, Unsettled
<1> QED BY <1>1, NextHoldsWaiters, TeardownIsOrdered, PTL DEF Spec
=============================================================================
