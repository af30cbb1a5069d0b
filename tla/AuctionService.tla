---------------------------- MODULE AuctionService ----------------------------
(***************************************************************************)
(* What the auction endpoint promises over a database that nobody changes: *)
(* a handler takes a request and later sends, in one step, the answer the  *)
(* rules of AuctionRules give for it; requests do not disturb each other,  *)
(* none is answered twice, and none that was taken stays unanswered.       *)
(***************************************************************************)
EXTENDS AuctionRules

CONSTANT Handlers  \* what takes requests: threads, goroutines, workers

VARIABLES
  waiting,   \* requests that no handler has taken
  handling,  \* the request each handler has taken, if any
  answers    \* the answers sent

servicevars == <<waiting, handling, answers, dbvars>>

ServiceInit ==
  /\ DBInit
  /\ waiting \in SUBSET Request
  /\ handling = [h \in Handlers |-> {}]
  /\ answers = {}

Take(h) ==
  /\ handling[h] = {}
  /\ \E rq \in waiting :
       /\ waiting' = waiting \ {rq}
       /\ handling' = [handling EXCEPT ![h] = {rq}]
  /\ UNCHANGED <<answers, dbvars>>

Answer(h) ==
  /\ \E rq \in handling[h] :
       answers' = answers \cup
                    {[request |-> rq, answer |-> DocumentedAnswer(db, rq)]}
  /\ handling' = [handling EXCEPT ![h] = {}]
  /\ UNCHANGED <<waiting, dbvars>>

ServiceNext == \E h \in Handlers : Take(h) \/ Answer(h)

Service ==
  /\ ServiceInit
  /\ [][ServiceNext]_servicevars
  /\ \A h \in Handlers : WF_servicevars(Answer(h))
=============================================================================
