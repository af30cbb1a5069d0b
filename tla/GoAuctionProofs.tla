---------------------------- MODULE GoAuctionProofs ----------------------------
(***************************************************************************)
(* Proofs about GoAuction for any number of requests and places: the       *)
(* channel counts the handlers.                                            *)
(***************************************************************************)
EXTENDS GoAuction, AuctionChecksProofs, FiniteSetTheorems, TLAPS

Inside == {g \in Bodies : pc[g] \notin {"arrived", "done"}}

(* The places, typed, and the handlers, finite in number.                   *)
Counted ==
  /\ pc \in [Bodies -> Queries \cup Outside \cup {"reply"}]
  /\ IsFiniteSet(Inside)
  /\ threads = Cardinality(Inside)
  /\ threads <= N_Thread

(* No request is inside when the server starts.                             *)
LEMMA InitCounted == Init => Counted
<1> SUFFICES ASSUME Init PROVE Counted
  OBVIOUS
<1>1. Inside = {} BY DEF Init, Inside
<1>2. IsFiniteSet(Inside) /\ Cardinality(Inside) = 0 BY <1>1, FS_EmptySet
<1> QED BY <1>2, ThreadsPositive DEF Init, Counted, Outside

(* A goroutine that stays inside changes nothing that Counted speaks of.    *)
LEMMA StaysInside ==
  ASSUME Counted, NEW g \in Inside, NEW place \in Queries \cup {"reply", "release"},
         pc' = [pc EXCEPT ![g] = place], threads' = threads
  PROVE  Counted'
<1>1. Inside' = Inside BY QueryNames DEF Counted, Inside
<1> QED BY <1>1 DEF Counted, Inside, Outside

(* Where a loop that begins, or goes on, leaves the goroutine.              *)
LEMMA BeginPlace ==
  ASSUME NEW g, NEW statement \in Queries, NEW rows, Begin(g, statement, rows)
  PROVE  \E place \in Queries \cup {"reply"} : pc' = [pc EXCEPT ![g] = place]
<1>1. CASE rows = {} \/ statement # "fetchAdsFeature" BY <1>1 DEF Begin
<1>2. CASE ~(rows = {} \/ statement # "fetchAdsFeature")
  <2>1. PICK a \in rows : pc' = [pc EXCEPT ![g] = statement] BY <1>2 DEF Begin
  <2> QED BY <2>1
<1> QED BY <1>1, <1>2

LEMMA VisitedPlace ==
  ASSUME NEW g, NEW a, NEW keep, NEW statement \in Queries, NEW following \in Queries,
         Visited(g, a, keep, statement, following)
  PROVE  \E place \in Queries \cup {"reply"} : pc' = [pc EXCEPT ![g] = place]
<1>1. CASE todo[g] \ {a} # {} BY <1>1 DEF Visited
<1>2. CASE todo[g] \ {a} = {}
  <2>1. Begin(g, following, IF keep THEN kept[g] \cup {a} ELSE kept[g])
    BY <1>2 DEF Visited
  <2> QED BY <2>1, BeginPlace
<1> QED BY <1>1, <1>2

(* A goroutine that has asked the database goes on, or has an answer to     *)
(* send.                                                                    *)
Asks(g) ==
  \/ FetchAdses(g) \/ FetchAdSize(g) \/ FetchAdvertiser(g)
  \/ FetchAdvertiserAgain(g) \/ FetchCategoryBlocking(g) \/ FetchAdsFeature(g)

LEMMA AskingPlace ==
  ASSUME NEW P, pc \in [Bodies -> P], NEW g \in Bodies, Asks(g)
  PROVE  /\ pc[g] \in Queries /\ UNCHANGED <<threads, answer, dbvars>>
         /\ \E place \in Queries \cup {"reply"} : pc' = [pc EXCEPT ![g] = place]
<1> USE QueryNames
<1>1. pc[g] \in Queries /\ UNCHANGED <<threads, answer, dbvars>>
  BY DEF Asks, FetchAdses, FetchAdSize, FetchAdvertiser, FetchAdvertiserAgain,
         FetchCategoryBlocking, FetchAdsFeature, Query
<1>2. CASE FetchAdses(g)
  <2>1. PICK failed \in {FALSE, PingFails} :
          Begin(g, "fetchAdSize",
                IF failed THEN {} ELSE Found("fetchAdses", SelectAdses(db)))
    BY <1>2 DEF FetchAdses
  <2> QED BY <1>1, <2>1, BeginPlace
<1>3. CASE FetchAdSize(g)
  <2>1. PICK a, keep : Visited(g, a, keep, "fetchAdSize", "fetchAdvertiser")
    BY <1>3 DEF FetchAdSize
  <2> QED BY <1>1, <2>1, VisitedPlace
<1>4. CASE FetchAdvertiser(g)
  <2>1. PICK a, keep : Visited(g, a, keep, "fetchAdvertiser", "fetchAdvertiserAgain")
    BY <1>4 DEF FetchAdvertiser
  <2> QED BY <1>1, <2>1, VisitedPlace
<1>5. CASE FetchAdvertiserAgain(g)
  BY <1>1, <1>5 DEF FetchAdvertiserAgain
<1>6. CASE FetchCategoryBlocking(g)
  <2>1. PICK a, keep : Visited(g, a, keep, "fetchAdvertiserAgain", "fetchAdsFeature")
    BY <1>6 DEF FetchCategoryBlocking
  <2> QED BY <1>1, <2>1, VisitedPlace
<1>7. CASE FetchAdsFeature(g)
  <2>1. \/ UNCHANGED pc
        \/ \E rows : Begin(g, "fetchAdsFeature", rows)
    BY <1>7 DEF FetchAdsFeature, EndOfAdvertiser
  <2>2. CASE UNCHANGED pc
    <3>1. pc' = [pc EXCEPT ![g] = pc[g]] BY <2>2
    <3> QED BY <3>1, <1>1
  <2>3. CASE \E rows : Begin(g, "fetchAdsFeature", rows) BY <1>1, <2>3, BeginPlace
  <2> QED BY <2>1, <2>2, <2>3
<1> QED BY <1>2, <1>3, <1>4, <1>5, <1>6, <1>7 DEF Asks

(* Every statement of the handler, except the last, keeps it inside.        *)
LEMMA QueriesStayInside ==
  ASSUME Counted, NEW g \in Bodies, Asks(g)
  PROVE  Counted'
<1>1. /\ pc[g] \in Queries /\ threads' = threads
      /\ \E place \in Queries \cup {"reply"} : pc' = [pc EXCEPT ![g] = place]
  BY AskingPlace DEF Counted
<1>2. g \in Inside BY <1>1, QueryNames DEF Inside
<1> QED BY <1>1, <1>2, StaysInside

(* A goroutine enters only when there is a place.                           *)
LEMMA AcquireCounts ==
  ASSUME Counted, NEW g \in Bodies, Acquire(g)
  PROVE  Counted'
<1>1. Inside' = Inside \cup {g} /\ g \notin Inside
  BY QueryNames DEF Counted, Inside, Acquire
<1>2. IsFiniteSet(Inside') /\ Cardinality(Inside') = Cardinality(Inside) + 1
  BY <1>1, FS_AddElement DEF Counted
<1>3. Cardinality(Inside) \in Nat BY FS_CardinalityType DEF Counted
<1>4. threads' = Cardinality(Inside') /\ threads' <= N_Thread
  BY <1>2, <1>3, ThreadsPositive DEF Counted, Acquire
<1>5. pc' \in [Bodies -> Queries \cup Outside \cup {"reply"}]
  BY QueryNames DEF Counted, Acquire
<1> QED BY <1>2, <1>4, <1>5 DEF Counted

(* A goroutine that leaves gives its place back.                            *)
LEMMA ReleaseCounts ==
  ASSUME Counted, NEW g \in Bodies, Release(g)
  PROVE  Counted'
<1>1. Inside' = Inside \ {g} /\ g \in Inside
  BY DEF Counted, Inside, Release
<1>2. IsFiniteSet(Inside') /\ Cardinality(Inside') = Cardinality(Inside) - 1
  BY <1>1, FS_RemoveElement DEF Counted
<1>3. Cardinality(Inside) \in Nat BY FS_CardinalityType DEF Counted
<1>4. threads' = Cardinality(Inside') /\ threads' <= N_Thread
  BY <1>2, <1>3, ThreadsPositive DEF Counted, Release
<1>5. pc' \in [Bodies -> Queries \cup Outside \cup {"reply"}]
  BY DEF Counted, Release, Outside
<1> QED BY <1>2, <1>4, <1>5 DEF Counted

(* Counted is inductive.                                                    *)
LEMMA NextCounted == Counted /\ [Next]_vars => Counted'
<1> SUFFICES ASSUME Counted, [Next]_vars PROVE Counted'
  OBVIOUS
<1>1. CASE UNCHANGED <<pc, threads>>
  BY <1>1 DEF Counted, Inside
<1>2. CASE Setup BY <1>1, <1>2 DEF Setup
<1>3. CASE UNCHANGED vars BY <1>1, <1>3 DEF vars
<1>4. ASSUME NEW g \in Bodies, Acquire(g) PROVE Counted'
  BY <1>4, AcquireCounts
<1>5. ASSUME NEW g \in Bodies, Handler(g) PROVE Counted'
  <2>1. CASE Lock(g) BY <1>1, <2>1 DEF Lock
  <2>2. CASE Reply(g)
    <3>1. g \in Inside /\ threads' = threads /\ pc' = [pc EXCEPT ![g] = "release"]
      BY <2>2 DEF Reply, Inside
    <3> QED BY <3>1, StaysInside
  <2>3. CASE Release(g) BY <2>3, ReleaseCounts
  <2> QED BY <1>5, <2>1, <2>2, <2>3, QueriesStayInside DEF Handler, Asks
<1> QED BY <1>2, <1>3, <1>4, <1>5 DEF Next

(* The channel's count is the number of handlers, at most N_Thread of them. *)
THEOREM PlacesAreCounted == Spec => []ThreadsAreCounted
<1>1. Counted => ThreadsAreCounted BY DEF Counted, ThreadsAreCounted, Inside
<1> QED BY <1>1, InitCounted, NextCounted, PTL DEF Spec
=============================================================================
