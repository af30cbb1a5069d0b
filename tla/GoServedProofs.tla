----------------------------- MODULE GoServedProofs -----------------------------
(***************************************************************************)
(* What the Go server serves, for any number of requests and places, any   *)
(* contents of the database and any connections refused: types, the checks *)
(* that the ad of a bid passed, and the exact answer of a request during   *)
(* which the contents stood still.  Then, while nobody changes the         *)
(* database, that the steps of the server are those of AuctionService,     *)
(* also when MySQL refuses some requests a connection.                     *)
(***************************************************************************)
EXTENDS GoAuctionProofs

LoopsTyped ==
  /\ pc \in [Bodies -> Queries \cup Outside \cup {"reply"}]
  /\ todo \in [Bodies -> SUBSET Ads]
  /\ kept \in [Bodies -> SUBSET Ads]

RestTyped ==
  /\ advertiser \in [Bodies -> SUBSET Advertiser]
  /\ features \in [Bodies -> SUBSET AdsFeature]
  /\ targetted \in [Bodies -> SUBSET Ads]
  /\ mut \subseteq Bodies
  /\ answer \in [Bodies -> SUBSET [ads : AdTexts, price : Nat]]
  /\ since \in [Bodies -> 0..LastStep]
  /\ until \in [Bodies -> 0..LastStep]
  /\ refused \subseteq Bodies

(* TypeOK, with the database and without the channel, which Counted types.  *)
Typed == DBTypeOK /\ LoopsTyped /\ RestTyped

(* Where a loop that begins, or goes on, leaves the goroutine and its rows. *)
LEMMA BeginRows ==
  ASSUME LoopsTyped, NEW g \in Bodies, NEW statement \in Queries,
         NEW rows \in SUBSET Ads, Begin(g, statement, rows)
  PROVE  /\ LoopsTyped'
         /\ \A h \in Bodies \ {g} :
              pc'[h] = pc[h] /\ todo'[h] = todo[h] /\ kept'[h] = kept[h]
         /\ pc'[g] \in {statement, "reply"}
         /\ todo'[g] \subseteq rows
         /\ kept'[g] \subseteq rows
         /\ statement # "fetchAdsFeature" => kept'[g] = {}
         /\ statement = "fetchAdsFeature" => kept'[g] = rows
<1>1. CASE rows = {} \/ statement # "fetchAdsFeature"
  BY <1>1 DEF Begin, LoopsTyped
<1>2. CASE ~(rows = {} \/ statement # "fetchAdsFeature")
  <2>1. PICK a \in rows :
          /\ pc' = [pc EXCEPT ![g] = statement]
          /\ todo' = [todo EXCEPT ![g] =
                        {b \in rows : b.advertiser_id = a.advertiser_id}]
          /\ kept' = [kept EXCEPT ![g] = rows]
    BY <1>2 DEF Begin
  <2> QED
    BY <1>2, <2>1 DEF LoopsTyped
<1> QED
  BY <1>1, <1>2

LEMMA VisitedRows ==
  ASSUME LoopsTyped, NEW g \in Bodies, NEW a \in todo[g], NEW keep \in BOOLEAN,
         NEW statement \in Queries \ {"fetchAdsFeature"}, NEW following \in Queries,
         Visited(g, a, keep, statement, following)
  PROVE  /\ LoopsTyped'
         /\ \A h \in Bodies \ {g} :
              pc'[h] = pc[h] /\ todo'[h] = todo[h] /\ kept'[h] = kept[h]
         /\ pc'[g] \in {statement, following, "reply"}
         /\ todo'[g] \cup kept'[g] \subseteq todo[g] \cup kept[g]
<1> DEFINE rows == IF keep THEN kept[g] \cup {a} ELSE kept[g]
<1>1. rows \in SUBSET Ads
  BY DEF LoopsTyped
<1>2. CASE todo[g] \ {a} # {}
  BY <1>1, <1>2 DEF Visited, LoopsTyped
<1>3. CASE todo[g] \ {a} = {}
  <2>1. Begin(g, following, rows)
    BY <1>3 DEF Visited
  <2> QED
    BY <1>1, <2>1, BeginRows
<1> QED
  BY <1>2, <1>3

(* The loop goes on with the rows that are left, or the next one begins     *)
(* with the rows that were kept.                                            *)
Advances(g, rows, statement, following) ==
  \/ /\ pc'[g] = statement
     /\ todo'[g] \subseteq todo[g]
     /\ kept'[g] = rows
  \/ /\ pc'[g] \in {following, "reply"}
     /\ todo'[g] \subseteq rows
     /\ kept'[g] \subseteq rows
     /\ following # "fetchAdsFeature" => kept'[g] = {}
     /\ following = "fetchAdsFeature" => kept'[g] = rows

LEMMA VisitedAdvances ==
  ASSUME LoopsTyped, NEW g \in Bodies, NEW a \in todo[g], NEW keep \in BOOLEAN,
         NEW statement \in Queries, NEW following \in Queries,
         Visited(g, a, keep, statement, following)
  PROVE  Advances(g, IF keep THEN kept[g] \cup {a} ELSE kept[g], statement, following)
<1> DEFINE rows == IF keep THEN kept[g] \cup {a} ELSE kept[g]
<1>1. rows \in SUBSET Ads
  BY DEF LoopsTyped
<1>2. CASE todo[g] \ {a} # {}
  BY <1>1, <1>2 DEF Visited, LoopsTyped, Advances
<1>3. CASE todo[g] \ {a} = {}
  <2>1. Begin(g, following, rows)
    BY <1>3 DEF Visited
  <2> QED
    BY <1>1, <2>1, BeginRows DEF Advances
<1> QED
  BY <1>2, <1>3

LEMMA VisitedOthers ==
  ASSUME LoopsTyped, NEW g \in Bodies, NEW a, NEW keep, NEW statement, NEW following,
         Visited(g, a, keep, statement, following), NEW h \in Bodies \ {g}
  PROVE  pc'[h] = pc[h] /\ todo'[h] = todo[h] /\ kept'[h] = kept[h]
<1>1. PICK place, rest, rows :
        /\ pc' = [pc EXCEPT ![g] = place]
        /\ todo' = [todo EXCEPT ![g] = rest]
        /\ kept' = [kept EXCEPT ![g] = rows]
  <2>1. CASE todo[g] \ {a} # {}
    BY <2>1 DEF Visited
  <2>2. CASE todo[g] \ {a} = {}
    <3>1. PICK rows : Begin(g, following, rows)
      BY <2>2 DEF Visited
    <3>2. CASE rows = {} \/ following # "fetchAdsFeature"
      BY <3>1, <3>2 DEF Begin
    <3>3. CASE ~(rows = {} \/ following # "fetchAdsFeature")
      BY <3>1, <3>3 DEF Begin
    <3> QED
      BY <3>2, <3>3
  <2> QED
    BY <2>1, <2>2
<1> QED
  BY <1>1 DEF LoopsTyped

LEMMA FoundTypes ==
  ASSUME DBTypeOK
  PROVE  /\ Found("fetchAdses", SelectAdses(db)) \in SUBSET Ads
         /\ \A a, failed : \A statement \in {"fetchAdvertiser", "fetchAdvertiserAgain"} :
              FoundAdvertiser(statement, failed, a) \in SUBSET Advertiser
         /\ \A i : Found("fetchAdsFeature", SelectAdsFeature(db, i)) \in SUBSET AdsFeature
<1>1. ZeroAdvertiser \in Advertiser
  BY NoDomainIsDomain DEF ZeroAdvertiser, Advertiser, ALLOW
<1>2. step \in 0..LastStep /\ db = DBAt(step)
  BY DEF DBTypeOK, db
<1>3. TableOf["fetchAdses"] = "adses" /\ TableOf["fetchAdsFeature"] = "ads_features"
      /\ \A statement \in {"fetchAdvertiser", "fetchAdvertiserAgain"} :
           TableOf[statement] = "advertisers"
  BY DEF TableOf
<1>4. Found("fetchAdses", SelectAdses(db)) \in SUBSET Ads
  BY <1>2, <1>3, QueryTypes DEF Found
<1>5. \A i : Found("fetchAdsFeature", SelectAdsFeature(db, i)) \in SUBSET AdsFeature
  BY <1>2, <1>3, QueryTypes DEF Found
<1>6. ASSUME NEW a, NEW failed,
             NEW statement \in {"fetchAdvertiser", "fetchAdvertiserAgain"}
      PROVE  FoundAdvertiser(statement, failed, a) \in SUBSET Advertiser
  BY <1>1, <1>2, <1>3, QueryTypes DEF FoundAdvertiser, Found, Readable
<1> QED
  BY <1>4, <1>5, <1>6

LEMMA InitTyped == Init => Typed
BY DEF Init, DBInit, Typed, DBTypeOK, LoopsTyped, RestTyped, LastStep, Outside

LEMMA SetupFrame ==
  ASSUME Typed, Setup
  PROVE  /\ UNCHANGED <<old, fresh>>
         /\ step' \in 0..LastStep /\ step <= step'
         /\ UNCHANGED <<pc, threads, locals, mut, answer, history>>
BY DEF Typed, DBTypeOK, Setup, SetupDB, DropDatabase, CreateTable, LoadTable, LastStep

(* What a query leaves alone.                                               *)
LEMMA QueryFrame ==
  ASSUME Typed, NEW g \in Bodies, NEW statement \in Queries, NEW failed \in BOOLEAN,
         Query(g, statement, failed)
  PROVE  /\ UNCHANGED <<old, fresh, step, answer, since, until>>
         /\ pc[g] = statement
         /\ mut' \subseteq Bodies /\ refused' \subseteq Bodies
         /\ refused \subseteq refused'
         /\ \A h \in Bodies \ {g} : h \in refused' => h \in refused
         /\ failed => g \in refused'
         /\ DBTypeOK'
BY DEF Query, dbvars, Typed, RestTyped, DBTypeOK

LEMMA FailedIsBoolean ==
  ASSUME Typed
  PROVE  {FALSE, PingFails} \subseteq BOOLEAN
BY OutagesIsBoolean DEF PingFails, Typed, DBTypeOK

LEMMA HandlerTyped ==
  ASSUME Typed, NEW g \in Bodies, Acquire(g) \/ Handler(g)
  PROVE  Typed'
<1> USE QueryNames
<1>1. DBTypeOK /\ LoopsTyped /\ RestTyped
  BY DEF Typed
<1>2. \A a \in Least(todo[g], "ads_id") : a \in todo[g] /\ a \in Ads
  BY <1>1 DEF Least, LoopsTyped
<1>3. {FALSE, PingFails} \subseteq BOOLEAN
  BY FailedIsBoolean
<1>4. CASE Acquire(g)
  BY <1>1, <1>4 DEF Acquire, Typed, DBTypeOK, LoopsTyped, RestTyped, locals, dbvars
<1>5. CASE Lock(g)
  BY <1>1, <1>5 DEF Lock, Typed, DBTypeOK, LoopsTyped, RestTyped, locals, history,
     dbvars
<1>6. CASE Reply(g)
  <2>1. {Bid(a) : a \in Winner(targetted[g])} \in SUBSET [ads : AdTexts, price : Nat]
    BY <1>1 DEF Bid, Winner, Least, Ads, RestTyped
  <2> QED
    BY <1>1, <1>6, <2>1 DEF Reply, Typed, DBTypeOK, LoopsTyped, RestTyped, Outside,
       dbvars
<1>7. CASE Release(g)
  BY <1>1, <1>7 DEF Release, Typed, DBTypeOK, LoopsTyped, RestTyped, Outside, locals,
     history, dbvars
<1>8. CASE FetchAdses(g)
  <2>1. PICK failed \in {FALSE, PingFails} :
          /\ Query(g, "fetchAdses", failed)
          /\ Begin(g, "fetchAdSize",
                   IF failed THEN {} ELSE Found("fetchAdses", SelectAdses(db)))
          /\ UNCHANGED <<advertiser, features, targetted>>
    BY <1>8 DEF FetchAdses
  <2>2. LoopsTyped'
    BY <1>1, <1>3, <2>1, FoundTypes, BeginRows
  <2>3. RestTyped' /\ DBTypeOK'
    BY <1>1, <1>3, <2>1, QueryFrame DEF RestTyped
  <2> QED
    BY <2>2, <2>3 DEF Typed
<1>9. ASSUME NEW failed \in {FALSE, PingFails}, NEW statement \in Queries,
             Query(g, statement, failed),
             NEW a \in Least(todo[g], "ads_id"), NEW keep \in BOOLEAN,
             NEW again \in Queries \ {"fetchAdsFeature"}, NEW following \in Queries,
             Visited(g, a, keep, again, following),
             UNCHANGED <<features, targetted>>,
             advertiser' \in [Bodies -> SUBSET Advertiser]
      PROVE  Typed'
  <2>1. LoopsTyped'
    BY <1>1, <1>2, <1>9, VisitedRows
  <2>2. RestTyped' /\ DBTypeOK'
    BY <1>1, <1>3, <1>9, QueryFrame DEF RestTyped
  <2> QED
    BY <2>1, <2>2 DEF Typed
<1>10. CASE FetchAdSize(g)
  BY <1>1, <1>9, <1>10 DEF FetchAdSize, SizeMatches, RestTyped
<1>11. CASE FetchAdvertiser(g)
  BY <1>1, <1>9, <1>11 DEF FetchAdvertiser, DomainPasses, RestTyped
<1>12. CASE FetchAdvertiserAgain(g)
  <2>1. PICK failed \in {FALSE, PingFails}, a \in Least(todo[g], "ads_id") :
          /\ Query(g, "fetchAdvertiserAgain", failed)
          /\ advertiser' = [advertiser EXCEPT ![g] =
                              FoundAdvertiser("fetchAdvertiserAgain", failed, a)]
          /\ pc' = [pc EXCEPT ![g] = "fetchCategoryBlocking"]
          /\ UNCHANGED <<todo, kept, features, targetted>>
    BY <1>12 DEF FetchAdvertiserAgain
  <2>2. FoundAdvertiser("fetchAdvertiserAgain", failed, a) \in SUBSET Advertiser
    BY <1>1, FoundTypes
  <2>3. LoopsTyped'
    BY <1>1, <2>1 DEF LoopsTyped
  <2>4. RestTyped' /\ DBTypeOK'
    BY <1>1, <1>3, <2>1, <2>2, QueryFrame DEF RestTyped
  <2> QED
    BY <2>3, <2>4 DEF Typed
<1>13. CASE FetchCategoryBlocking(g)
  <2>1. PICK failed \in {FALSE, PingFails}, a \in Least(todo[g], "ads_id"), keep \in BOOLEAN :
          /\ Query(g, "fetchCategoryBlocking", failed)
          /\ Visited(g, a, keep, "fetchAdvertiserAgain", "fetchAdsFeature")
          /\ advertiser' = [advertiser EXCEPT ![g] = {}]
          /\ UNCHANGED <<features, targetted>>
    BY <1>13 DEF FetchCategoryBlocking, Blocks
  <2>2. advertiser' \in [Bodies -> SUBSET Advertiser]
    BY <1>1, <2>1 DEF RestTyped
  <2> QED
    BY <1>9, <2>1, <2>2
<1>14. CASE FetchAdsFeature(g)
  <2>1. PICK failed \in {FALSE, PingFails}, a \in Least(todo[g], "ads_id") :
          LET rest == todo[g] \ {a}
              found == IF failed THEN {ZeroFeature(a.ads_id)}
                       ELSE Found("fetchAdsFeature", SelectAdsFeature(db, a.ads_id))
              ads_features == features[g] \cup found
          IN  /\ Query(g, "fetchAdsFeature", failed)
              /\ IF rest # {}
                 THEN /\ todo' = [todo EXCEPT ![g] = rest]
                      /\ features' = [features EXCEPT ![g] = ads_features]
                      /\ UNCHANGED <<pc, kept, targetted>>
                 ELSE EndOfAdvertiser(g, a, ads_features)
              /\ UNCHANGED advertiser
    BY <1>14 DEF FetchAdsFeature
  <2> DEFINE found == IF failed THEN {ZeroFeature(a.ads_id)}
                      ELSE Found("fetchAdsFeature", SelectAdsFeature(db, a.ads_id))
             ads_features == features[g] \cup found
  <2>2. ads_features \in SUBSET AdsFeature
    <3>1. ZeroFeature(a.ads_id) \in AdsFeature
      BY <1>2 DEF ZeroFeature, AdsFeature, Ads
    <3> QED
      BY <1>1, <3>1, FoundTypes DEF RestTyped
  <2>3. Query(g, "fetchAdsFeature", failed) /\ UNCHANGED advertiser
    BY <2>1
  <2>4. CASE todo[g] \ {a} # {}
    <3>1. LoopsTyped' /\ features' \in [Bodies -> SUBSET AdsFeature]
          /\ UNCHANGED targetted
      BY <1>1, <2>1, <2>2, <2>4 DEF LoopsTyped, RestTyped
    <3> QED
      BY <1>1, <1>3, <2>3, <3>1, QueryFrame DEF RestTyped, Typed
  <2>5. CASE todo[g] \ {a} = {}
    <3>1. EndOfAdvertiser(g, a, ads_features)
      BY <2>1, <2>5
    <3>2. PICK rows \in SUBSET kept[g] :
            /\ targetted' = [targetted EXCEPT ![g] = @ \cup (kept[g] \cap rows)]
            /\ features' = [features EXCEPT ![g] = {}]
      BY <3>1 DEF EndOfAdvertiser
    <3>3. PICK rows2 \in SUBSET kept[g] : Begin(g, "fetchAdsFeature", rows2)
      BY <3>1 DEF EndOfAdvertiser
    <3>4. rows2 \in SUBSET Ads
      BY <1>1 DEF LoopsTyped
    <3>5. LoopsTyped'
      BY <1>1, <3>3, <3>4, BeginRows
    <3>6. /\ targetted' \in [Bodies -> SUBSET Ads]
          /\ features' \in [Bodies -> SUBSET AdsFeature]
      BY <1>1, <3>2 DEF RestTyped, LoopsTyped
    <3> QED
      BY <1>1, <1>3, <2>3, <3>5, <3>6, QueryFrame DEF RestTyped, Typed
  <2> QED
    BY <2>4, <2>5
<1> QED
  BY <1>4, <1>5, <1>6, <1>7, <1>8, <1>10, <1>11, <1>12, <1>13, <1>14 DEF Handler

LEMMA NextTyped == Typed /\ [Next]_vars => Typed'
<1> SUFFICES ASSUME Typed, [Next]_vars PROVE Typed'
  OBVIOUS
<1>1. CASE UNCHANGED vars
  BY <1>1 DEF vars, locals, history, dbvars, Typed, DBTypeOK, LoopsTyped, RestTyped
<1>2. CASE Setup
  BY <1>2, SetupFrame DEF locals, history, Typed, DBTypeOK, LoopsTyped, RestTyped
<1> QED
  BY <1>1, <1>2, HandlerTyped DEF Next

(* Every reachable state is typed, and no more than N_Thread goroutines are *)
(* in the channel.                                                          *)
THEOREM TypeCorrect == Spec => []TypeOK
<1>1. Typed /\ Counted => TypeOK
  <2> SUFFICES ASSUME Typed, Counted PROVE TypeOK
    OBVIOUS
  <2>1. threads \in 0..N_Thread
    BY FS_CardinalityType, ThreadsPositive DEF Counted
  <2> QED
    BY <2>1 DEF Typed, DBTypeOK, LoopsTyped, RestTyped, TypeOK
<1> QED
  BY <1>1, InitTyped, NextTyped, InitCounted, NextCounted, PTL DEF Spec
-----------------------------------------------------------------------------
(* The rows of an auction are rows of one reading of adses, which ads_id    *)
(* tells apart; a loop only leaves rows out.                                *)
Rows(g) == todo[g] \cup kept[g] \cup targetted[g]

Keyed(g) ==
  /\ Unique(Rows(g), "ads_id")
  /\ pc[g] \notin {"fetchAdsFeature", "reply"} => targetted[g] = {}
  /\ pc[g] # "fetchAdsFeature" => features[g] = {}

AllKeyed == \A g \in Bodies : Keyed(g)

(* The end of the loop over an advertiser's ads.                            *)
LEMMA EndRows ==
  ASSUME Typed, NEW g \in Bodies, NEW a \in Ads, NEW ads_features,
         EndOfAdvertiser(g, a, ads_features)
  PROVE  /\ Rows(g)' \subseteq Rows(g)
         /\ pc'[g] \in {"fetchAdsFeature", "reply"}
         /\ features'[g] = {}
         /\ kept'[g] \subseteq kept[g]
         /\ \A h \in Bodies \ {g} :
              /\ pc'[h] = pc[h] /\ todo'[h] = todo[h] /\ kept'[h] = kept[h]
              /\ features'[h] = features[h] /\ targetted'[h] = targetted[h]
<1> USE QueryNames
<1>1. LoopsTyped /\ RestTyped
  BY DEF Typed
<1> DEFINE adv_adses == {b \in kept[g] : b.advertiser_id = a.advertiser_id}
           best == {b \in adv_adses :
                      \E f \in FeatureTargeting(ads_features,
                                                ParseRequest(g).zone_feature) :
                        b.ads_id = f.ads_id}
<1>2. /\ targetted' = [targetted EXCEPT ![g] = @ \cup best]
      /\ features' = [features EXCEPT ![g] = {}]
      /\ Begin(g, "fetchAdsFeature", kept[g] \ adv_adses)
  BY DEF EndOfAdvertiser
<1>3. kept[g] \ adv_adses \in SUBSET Ads /\ best \subseteq kept[g]
  BY <1>1 DEF LoopsTyped
<1>4. /\ pc'[g] \in {"fetchAdsFeature", "reply"}
      /\ todo'[g] \subseteq kept[g] /\ kept'[g] \subseteq kept[g]
      /\ \A h \in Bodies \ {g} :
           pc'[h] = pc[h] /\ todo'[h] = todo[h] /\ kept'[h] = kept[h]
  BY <1>1, <1>2, <1>3, BeginRows
<1>5. targetted'[g] = targetted[g] \cup best /\ features'[g] = {}
  BY <1>1, <1>2 DEF RestTyped
<1>6. \A h \in Bodies \ {g} : features'[h] = features[h] /\ targetted'[h] = targetted[h]
  BY <1>1, <1>2 DEF RestTyped
<1> QED
  BY <1>3, <1>4, <1>5, <1>6 DEF Rows

(* What one statement of a goroutine does to the rows of all.               *)
LEMMA HandlerKeyed ==
  ASSUME Typed, NEW g \in Bodies, Acquire(g) \/ Handler(g), Keyed(g)
  PROVE  /\ Keyed(g)'
         /\ \A h \in Bodies \ {g} :
              /\ pc'[h] = pc[h] /\ todo'[h] = todo[h] /\ kept'[h] = kept[h]
              /\ features'[h] = features[h] /\ targetted'[h] = targetted[h]
              /\ advertiser'[h] = advertiser[h]
<1> USE QueryNames
<1>1. LoopsTyped /\ RestTyped /\ DBTypeOK
  BY DEF Typed
<1>2. \A a \in Least(todo[g], "ads_id") : a \in todo[g] /\ a \in Ads
  BY <1>1 DEF Least, LoopsTyped
<1>3. {FALSE, PingFails} \subseteq BOOLEAN
  BY FailedIsBoolean
<1>4. CASE Acquire(g) \/ Lock(g) \/ Reply(g) \/ Release(g)
  BY <1>1, <1>4 DEF Acquire, Lock, Reply, Release, locals, LoopsTyped, RestTyped,
     Keyed, Rows, Unique
<1>5. CASE FetchAdses(g)
  <2>1. PICK failed \in {FALSE, PingFails} :
          /\ Query(g, "fetchAdses", failed)
          /\ Begin(g, "fetchAdSize",
                   IF failed THEN {} ELSE Found("fetchAdses", SelectAdses(db)))
          /\ UNCHANGED <<advertiser, features, targetted>>
    BY <1>5 DEF FetchAdses
  <2> DEFINE rows == IF failed THEN {} ELSE Found("fetchAdses", SelectAdses(db))
  <2>2. Unique(rows, "ads_id") /\ rows \in SUBSET Ads
    <3>1. TableOf["fetchAdses"] = "adses" /\ db = DBAt(step) /\ step \in 0..LastStep
      BY <1>1 DEF TableOf, db, DBTypeOK
    <3> QED
      BY <1>1, <3>1, AdsesKeyed, FoundTypes DEF Found, Unique
  <2>3. pc[g] = "fetchAdses"
    BY <2>1 DEF Query
  <2>4. /\ todo'[g] \subseteq rows /\ kept'[g] = {}
        /\ pc'[g] \in {"fetchAdSize", "reply"}
        /\ \A h \in Bodies \ {g} :
             pc'[h] = pc[h] /\ todo'[h] = todo[h] /\ kept'[h] = kept[h]
    BY <1>1, <2>1, <2>2, BeginRows
  <2>5. Keyed(g)'
    BY <2>1, <2>2, <2>3, <2>4 DEF Keyed, Rows, Unique
  <2> QED
    BY <2>1, <2>4, <2>5
<1>6. ASSUME NEW failed, NEW statement \in Queries \ {"fetchAdsFeature"},
             Query(g, statement, failed),
             NEW a \in Least(todo[g], "ads_id"), NEW keep \in BOOLEAN,
             NEW again \in Queries \ {"fetchAdsFeature"}, NEW following \in Queries,
             Visited(g, a, keep, again, following),
             UNCHANGED <<features, targetted>>,
             \A h \in Bodies \ {g} : advertiser'[h] = advertiser[h]
      PROVE  /\ Keyed(g)'
             /\ \A h \in Bodies \ {g} :
                  /\ pc'[h] = pc[h] /\ todo'[h] = todo[h] /\ kept'[h] = kept[h]
                  /\ features'[h] = features[h] /\ targetted'[h] = targetted[h]
                  /\ advertiser'[h] = advertiser[h]
  <2>1. /\ todo'[g] \cup kept'[g] \subseteq todo[g] \cup kept[g]
        /\ \A h \in Bodies \ {g} :
             pc'[h] = pc[h] /\ todo'[h] = todo[h] /\ kept'[h] = kept[h]
    <3>1. a \in todo[g] /\ LoopsTyped /\ Visited(g, a, keep, again, following)
      BY <1>1, <1>2, <1>6
    <3>2. todo'[g] \cup kept'[g] \subseteq todo[g] \cup kept[g]
      BY <1>6, <3>1, VisitedRows
    <3>3. ASSUME NEW h \in Bodies \ {g}
          PROVE  pc'[h] = pc[h] /\ todo'[h] = todo[h] /\ kept'[h] = kept[h]
      BY <3>1, VisitedOthers
    <3> QED
      BY <3>2, <3>3
  <2>2. pc[g] = statement
    BY <1>6 DEF Query
  <2>3. Keyed(g)'
    BY <1>6, <2>1, <2>2 DEF Keyed, Rows, Unique
  <2> QED
    BY <1>6, <2>1, <2>3
<1>7. CASE FetchAdSize(g)
  BY <1>6, <1>7 DEF FetchAdSize, SizeMatches
<1>8. CASE FetchAdvertiser(g)
  BY <1>6, <1>8 DEF FetchAdvertiser, DomainPasses
<1>9. CASE FetchAdvertiserAgain(g)
  BY <1>1, <1>9 DEF FetchAdvertiserAgain, Query, LoopsTyped, RestTyped, Keyed, Rows
<1>10. CASE FetchCategoryBlocking(g)
  <2>1. PICK failed \in {FALSE, PingFails}, a \in Least(todo[g], "ads_id"), keep \in BOOLEAN :
          /\ Query(g, "fetchCategoryBlocking", failed)
          /\ Visited(g, a, keep, "fetchAdvertiserAgain", "fetchAdsFeature")
          /\ advertiser' = [advertiser EXCEPT ![g] = {}]
          /\ UNCHANGED <<features, targetted>>
    BY <1>10 DEF FetchCategoryBlocking, Blocks
  <2>2. \A h \in Bodies \ {g} : advertiser'[h] = advertiser[h]
    BY <1>1, <2>1 DEF RestTyped
  <2> QED
    BY <1>6, <2>1, <2>2
<1>11. CASE FetchAdsFeature(g)
  <2>1. PICK failed \in {FALSE, PingFails}, a \in Least(todo[g], "ads_id") :
          /\ Query(g, "fetchAdsFeature", failed)
          /\ \E ads_features :
               IF todo[g] \ {a} # {}
               THEN /\ todo' = [todo EXCEPT ![g] = todo[g] \ {a}]
                    /\ features' = [features EXCEPT ![g] = ads_features]
                    /\ UNCHANGED <<pc, kept, targetted>>
               ELSE EndOfAdvertiser(g, a, ads_features)
          /\ UNCHANGED advertiser
    BY <1>11 DEF FetchAdsFeature
  <2>2. pc[g] = "fetchAdsFeature"
    BY <2>1 DEF Query
  <2>3. CASE todo[g] \ {a} # {}
    BY <1>1, <2>1, <2>2, <2>3 DEF Keyed, Rows, Unique, LoopsTyped, RestTyped
  <2>4. CASE todo[g] \ {a} = {}
    <3>1. PICK ads_features : EndOfAdvertiser(g, a, ads_features)
      BY <2>1, <2>4
    <3>2. Keyed(g)'
      BY <1>2, <3>1, EndRows DEF Keyed, Unique
    <3> QED
      BY <1>2, <2>1, <3>1, <3>2, EndRows
  <2> QED
    BY <2>3, <2>4
<1> QED
  BY <1>4, <1>5, <1>7, <1>8, <1>9, <1>10, <1>11 DEF Handler

LEMMA InitKeyed == Init => AllKeyed
BY DEF Init, AllKeyed, Keyed, Rows, Unique

LEMMA NextKeyed == Typed /\ AllKeyed /\ [Next]_vars => AllKeyed'
<1> SUFFICES ASSUME Typed, AllKeyed, [Next]_vars PROVE AllKeyed'
  OBVIOUS
<1>1. CASE UNCHANGED vars \/ Setup
  <2>1. UNCHANGED <<pc, locals>>
    BY <1>1 DEF vars, Setup
  <2> QED
    BY <2>1 DEF locals, AllKeyed, Keyed, Rows
<1>2. ASSUME NEW g \in Bodies, Acquire(g) \/ Handler(g)
      PROVE  AllKeyed'
  BY <1>2, HandlerKeyed DEF AllKeyed, Keyed, Rows
<1> QED
  BY <1>1, <1>2 DEF Next
-----------------------------------------------------------------------------
(* What the rows of a goroutine have passed so far, if MySQL refused it no  *)
(* connection: the inductive invariant behind ServedAsChecked.              *)
AdvertiserSeen(a, rq, found, from, to) ==
  \E u \in from..to :
    /\ AlsoDomain(a, rq, from, u)
    /\ Exists("advertisers", u) =>
         found = Readable(SelectAdvertiser(DBAt(u), a.advertiser_id))

AlsoFound(a, rq, from, to) ==
  \E v \in from..to :
    /\ CategoryNotBlocked(a, rq, from, v)
    /\ Exists("ads_features", v)
    /\ SelectAdsFeature(DBAt(v), a.ads_id) # {}

SizeLoop(g) ==
  pc[g] = "fetchAdSize" =>
    /\ \A a \in todo[g] : Read(a, since[g], step)
    /\ \A a \in kept[g] : ReadAndFits(a, ParseRequest(g), since[g], step)

DomainLoop(g) ==
  pc[g] = "fetchAdvertiser" =>
    /\ \A a \in todo[g] : ReadAndFits(a, ParseRequest(g), since[g], step)
    /\ \A a \in kept[g] : AlsoDomain(a, ParseRequest(g), since[g], step)

CategoryLoop(g) ==
  pc[g] \in {"fetchAdvertiserAgain", "fetchCategoryBlocking"} =>
    /\ \A a \in todo[g] : AlsoDomain(a, ParseRequest(g), since[g], step)
    /\ \A a \in kept[g] : CategoryNotBlocked(a, ParseRequest(g), since[g], step)

BetweenReads(g) ==
  pc[g] = "fetchCategoryBlocking" =>
    \A a \in Least(todo[g], "ads_id") :
      AdvertiserSeen(a, ParseRequest(g), advertiser[g], since[g], step)

FeatureLoop(g) ==
  pc[g] = "fetchAdsFeature" =>
    /\ \A a \in kept[g] : CategoryNotBlocked(a, ParseRequest(g), since[g], step)
    /\ \A f \in features[g] : \A a \in kept[g] :
         a.ads_id = f.ads_id => AlsoFound(a, ParseRequest(g), since[g], step)

Targets(g) ==
  pc[g] \in {"fetchAdsFeature", "reply"} =>
    \A a \in targetted[g] : AlsoFound(a, ParseRequest(g), since[g], step)

Stage(g) ==
  /\ SizeLoop(g)
  /\ DomainLoop(g)
  /\ CategoryLoop(g)
  /\ BetweenReads(g)
  /\ FeatureLoop(g)
  /\ Targets(g)

Began(g) ==
  /\ since[g] <= step
  /\ pc[g] \notin {"release", "done"} => answer[g] = {}

Checked ==
  /\ \A g \in Bodies : Began(g) /\ (g \notin refused => Stage(g))
  /\ ServedAsChecked

(* What was read stays read.                                                *)
LEMMA CategoryIsRigid ==
  ASSUME UNCHANGED <<old, fresh>>, NEW a, NEW rq, NEW found, NEW from \in 0..LastStep,
         NEW to \in 0..LastStep
  PROVE  /\ CategoryNotBlocked(a, rq, from, to)' = CategoryNotBlocked(a, rq, from, to)
         /\ AdvertiserSeen(a, rq, found, from, to)' =
              AdvertiserSeen(a, rq, found, from, to)
         /\ AlsoFound(a, rq, from, to)' = AlsoFound(a, rq, from, to)
<1> USE DEF LastStep
<1>1. \A v \in 0..LastStep :
        DBAt(v)' = DBAt(v) /\ \A t : Exists(t, v)' = Exists(t, v)
  BY HistoryIsRigid DEF Exists
<1>2. \A v \in 0..LastStep : AlsoDomain(a, rq, from, v)' = AlsoDomain(a, rq, from, v)
  BY AlsoDomainIsRigid
<1>3. \A v \in 0..LastStep :
        CategoryNotBlocked(a, rq, from, v)' = CategoryNotBlocked(a, rq, from, v)
  BY <1>1, <1>2 DEF CategoryNotBlocked
<1>4. AdvertiserSeen(a, rq, found, from, to)' = AdvertiserSeen(a, rq, found, from, to)
  BY <1>1, <1>2 DEF AdvertiserSeen
<1>5. AlsoFound(a, rq, from, to)' = AlsoFound(a, rq, from, to)
  BY <1>1, <1>3 DEF AlsoFound
<1> QED
  BY <1>3, <1>4, <1>5

LEMMA CategoryPersists ==
  ASSUME UNCHANGED <<old, fresh>>, step \in 0..LastStep, step' \in 0..LastStep,
         step <= step', NEW a, NEW rq, NEW found, NEW from \in 0..LastStep
  PROVE  /\ CategoryNotBlocked(a, rq, from, step) =>
              CategoryNotBlocked(a, rq, from, step)'
         /\ AdvertiserSeen(a, rq, found, from, step) =>
              AdvertiserSeen(a, rq, found, from, step)'
         /\ AlsoFound(a, rq, from, step) => AlsoFound(a, rq, from, step)'
<1> USE DEF LastStep
<1>0. \A v \in from..step : v \in from..step' /\ v \in 0..LastStep
  OBVIOUS
<1>1. \A v \in 0..LastStep :
        DBAt(v)' = DBAt(v) /\ \A t : Exists(t, v)' = Exists(t, v)
  BY HistoryIsRigid DEF Exists
<1>2. \A v \in 0..LastStep : AlsoDomain(a, rq, from, v)' = AlsoDomain(a, rq, from, v)
  BY AlsoDomainIsRigid
<1>3. \A v \in 0..LastStep :
        CategoryNotBlocked(a, rq, from, v)' = CategoryNotBlocked(a, rq, from, v)
  BY CategoryIsRigid
<1>4. CategoryNotBlocked(a, rq, from, step) => CategoryNotBlocked(a, rq, from, step)'
  BY <1>0, <1>1, <1>2 DEF CategoryNotBlocked
<1>5. AdvertiserSeen(a, rq, found, from, step) =>
        AdvertiserSeen(a, rq, found, from, step)'
  BY <1>0, <1>1, <1>2 DEF AdvertiserSeen
<1>6. AlsoFound(a, rq, from, step) => AlsoFound(a, rq, from, step)'
  BY <1>0, <1>1, <1>3 DEF AlsoFound
<1> QED
  BY <1>4, <1>5, <1>6

LEMMA Frame ==
  ASSUME Typed, UNCHANGED <<old, fresh>>, step' \in 0..LastStep, step <= step',
         NEW g \in Bodies, Stage(g), pc'[g] = pc[g], todo'[g] = todo[g],
         kept'[g] = kept[g], advertiser'[g] = advertiser[g],
         features'[g] = features[g], targetted'[g] = targetted[g],
         since'[g] = since[g]
  PROVE  Stage(g)'
<1>1. since[g] \in 0..LastStep /\ step \in 0..LastStep
  BY DEF Typed, DBTypeOK, RestTyped
<1>2. SizeLoop(g)'
  BY <1>1, Persists DEF Stage, SizeLoop
<1>3. DomainLoop(g)'
  BY <1>1, Persists DEF Stage, DomainLoop
<1>4. CategoryLoop(g)'
  BY <1>1, Persists, CategoryPersists DEF Stage, CategoryLoop
<1>5. BetweenReads(g)'
  BY <1>1, CategoryPersists DEF Stage, BetweenReads, Least
<1>6. FeatureLoop(g)'
  BY <1>1, CategoryPersists DEF Stage, FeatureLoop
<1>7. Targets(g)'
  BY <1>1, CategoryPersists DEF Stage, Targets
<1> QED
  BY <1>2, <1>3, <1>4, <1>5, <1>6, <1>7 DEF Stage

(* A query that MySQL did not refuse reads the database as it is.           *)
LEMMA QueryReads ==
  ASSUME Typed, NEW g \in Bodies, NEW statement \in Queries,
         NEW failed \in {FALSE, PingFails}, Query(g, statement, failed),
         g \notin refused', Began(g)
  PROVE  /\ failed = FALSE
         /\ g \notin refused
         /\ UNCHANGED <<old, fresh, step, since>>
         /\ step \in 0..LastStep /\ step' \in 0..LastStep /\ step <= step'
         /\ since[g] \in 0..LastStep /\ step \in since[g]..step
         /\ pc[g] = statement
         /\ DBAt(step) = db
         /\ \A rows : Found(statement, rows) =
              IF Exists(TableOf[statement], step) THEN rows ELSE {}
<1>1. failed \in BOOLEAN
  BY FailedIsBoolean
<1>2. failed = FALSE /\ g \notin refused
  BY <1>1, QueryFrame
<1>3. UNCHANGED <<old, fresh, step, since>> /\ pc[g] = statement
  BY <1>1, QueryFrame
<1>4. step \in 0..LastStep /\ since[g] \in 0..LastStep /\ since[g] <= step
  BY DEF Typed, DBTypeOK, RestTyped, Began
<1>5. step' \in 0..LastStep /\ step <= step' /\ step \in since[g]..step
  BY <1>3, <1>4 DEF LastStep
<1> QED
  BY <1>2, <1>3, <1>4, <1>5 DEF Found, Exists, db

(* One lemma for each query: the stage of the goroutine after it.          *)
LEMMA FetchAdsesStage ==
  ASSUME Typed, NEW g \in Bodies, Began(g), FetchAdses(g), g \notin refused',
         Keyed(g)
  PROVE  Stage(g)'
<1> USE QueryNames
<1>1. PICK failed \in {FALSE, PingFails} :
        /\ Query(g, "fetchAdses", failed)
        /\ Begin(g, "fetchAdSize",
                 IF failed THEN {} ELSE Found("fetchAdses", SelectAdses(db)))
        /\ UNCHANGED <<advertiser, features, targetted>>
  BY DEF FetchAdses
<1> DEFINE rows == Found("fetchAdses", SelectAdses(db))
<1>2. /\ failed = FALSE
      /\ UNCHANGED <<old, fresh, step, since>>
      /\ step \in 0..LastStep /\ step' \in 0..LastStep /\ step <= step'
      /\ since[g] \in 0..LastStep /\ step \in since[g]..step
      /\ pc[g] = "fetchAdses"
      /\ DBAt(step) = db
      /\ rows = IF Exists("adses", step) THEN SelectAdses(db) ELSE {}
  BY <1>1, QueryReads DEF TableOf
<1>3. LoopsTyped /\ DBTypeOK
  BY DEF Typed
<1>4. rows \in SUBSET Ads
  BY <1>3, FoundTypes
<1>5. Begin(g, "fetchAdSize", rows)
  BY <1>1, <1>2
<1>6. /\ pc'[g] \in {"fetchAdSize", "reply"}
      /\ todo'[g] \subseteq rows
      /\ kept'[g] = {}
  BY <1>3, <1>4, <1>5, BeginRows
<1>7. \A a \in rows : Read(a, since[g], step)
  BY <1>2 DEF Read
<1>8. \A a \in todo'[g] : Read(a, since[g], step)'
  BY <1>2, <1>6, <1>7, Persists
<1>9. SizeLoop(g)'
  BY <1>2, <1>6, <1>8 DEF SizeLoop
<1>10. targetted'[g] = {}
  BY <1>1, <1>2 DEF Keyed
<1> QED
  BY <1>6, <1>9, <1>10 DEF Stage, DomainLoop, CategoryLoop, BetweenReads, FeatureLoop,
     Targets

LEMMA FetchAdSizeStage ==
  ASSUME Typed, NEW g \in Bodies, Began(g), FetchAdSize(g), g \notin refused',
         Keyed(g), g \notin refused => Stage(g)
  PROVE  Stage(g)'
<1> USE QueryNames
<1>1. PICK failed \in {FALSE, PingFails}, a \in Least(todo[g], "ads_id") :
        LET found == IF failed THEN {ZeroSize}
                     ELSE Found("fetchAdSize", SelectAdSize(db, a.size_id))
        IN  /\ Query(g, "fetchAdSize", failed)
            /\ Visited(g, a, SizeMatches(found, ParseRequest(g)),
                       "fetchAdSize", "fetchAdvertiser")
            /\ UNCHANGED <<advertiser, features, targetted>>
  BY DEF FetchAdSize
<1> DEFINE rq == ParseRequest(g)
           found == Found("fetchAdSize", SelectAdSize(db, a.size_id))
<1>2. /\ failed = FALSE
      /\ g \notin refused
      /\ UNCHANGED <<old, fresh, step, since>>
      /\ step \in 0..LastStep /\ step' \in 0..LastStep /\ step <= step'
      /\ since[g] \in 0..LastStep /\ step \in since[g]..step
      /\ pc[g] = "fetchAdSize"
      /\ DBAt(step) = db
      /\ found = IF Exists("ads_sizes", step) THEN SelectAdSize(db, a.size_id) ELSE {}
  BY <1>1, QueryReads DEF TableOf
<1>3. LoopsTyped /\ Stage(g) /\ a \in todo[g]
  BY <1>2 DEF Typed, Least
<1>4. PICK keep \in BOOLEAN : keep = SizeMatches(found, rq)
  BY DEF SizeMatches
<1> DEFINE rows == IF keep THEN kept[g] \cup {a} ELSE kept[g]
<1>5. Visited(g, a, keep, "fetchAdSize", "fetchAdvertiser")
  BY <1>1, <1>2, <1>4
<1>6. \/ /\ pc'[g] = "fetchAdSize"
         /\ todo'[g] \subseteq todo[g]
         /\ kept'[g] = rows
      \/ /\ pc'[g] \in {"fetchAdvertiser", "reply"}
         /\ todo'[g] \subseteq rows
         /\ kept'[g] = {}
  <2>1. Advances(g, rows, "fetchAdSize", "fetchAdvertiser")
    BY <1>3, <1>5, VisitedAdvances
  <2> QED
    BY <2>1 DEF Advances
<1>7. keep => ReadAndFits(a, rq, since[g], step)
  BY <1>2, <1>3, <1>4 DEF ReadAndFits, Stage, SizeLoop, SizeMatches
<1>8. \A b \in todo[g] : Read(b, since[g], step)'
  BY <1>2, <1>3, Persists DEF Stage, SizeLoop
<1>9. \A b \in rows : ReadAndFits(b, rq, since[g], step)'
  BY <1>2, <1>3, <1>7, Persists DEF Stage, SizeLoop
<1>10. SizeLoop(g)' /\ DomainLoop(g)'
  BY <1>2, <1>6, <1>8, <1>9 DEF SizeLoop, DomainLoop
<1>11. targetted'[g] = {}
  BY <1>1, <1>2 DEF Keyed
<1> QED
  BY <1>6, <1>10, <1>11 DEF Stage, CategoryLoop, BetweenReads, FeatureLoop, Targets

LEMMA FetchAdvertiserStage ==
  ASSUME Typed, NEW g \in Bodies, Began(g), FetchAdvertiser(g), g \notin refused',
         Keyed(g), g \notin refused => Stage(g)
  PROVE  Stage(g)'
<1> USE QueryNames
<1>1. PICK failed \in {FALSE, PingFails}, a \in Least(todo[g], "ads_id") :
        /\ Query(g, "fetchAdvertiser", failed)
        /\ Visited(g, a,
                   DomainPasses(FoundAdvertiser("fetchAdvertiser", failed, a),
                                ParseRequest(g)),
                   "fetchAdvertiser", "fetchAdvertiserAgain")
        /\ UNCHANGED <<advertiser, features, targetted>>
  BY DEF FetchAdvertiser
<1> DEFINE rq == ParseRequest(g)
           found == Found("fetchAdvertiser",
                          Readable(SelectAdvertiser(db, a.advertiser_id)))
<1>2. /\ failed = FALSE
      /\ g \notin refused
      /\ UNCHANGED <<old, fresh, step, since>>
      /\ step \in 0..LastStep /\ step' \in 0..LastStep /\ step <= step'
      /\ since[g] \in 0..LastStep /\ step \in since[g]..step
      /\ pc[g] = "fetchAdvertiser"
      /\ DBAt(step) = db
      /\ found = IF Exists("advertisers", step)
                 THEN Readable(SelectAdvertiser(db, a.advertiser_id)) ELSE {}
  BY <1>1, QueryReads DEF TableOf
<1>3. LoopsTyped /\ Stage(g) /\ a \in todo[g]
  BY <1>2 DEF Typed, Least
<1>4. PICK keep \in BOOLEAN : keep = DomainPasses(found, rq)
  BY DEF DomainPasses
<1> DEFINE rows == IF keep THEN kept[g] \cup {a} ELSE kept[g]
<1>5. Visited(g, a, keep, "fetchAdvertiser", "fetchAdvertiserAgain")
  BY <1>1, <1>2, <1>4 DEF FoundAdvertiser
<1>6. \/ /\ pc'[g] = "fetchAdvertiser"
         /\ todo'[g] \subseteq todo[g]
         /\ kept'[g] = rows
      \/ /\ pc'[g] \in {"fetchAdvertiserAgain", "reply"}
         /\ todo'[g] \subseteq rows
         /\ kept'[g] = {}
  <2>1. Advances(g, rows, "fetchAdvertiser", "fetchAdvertiserAgain")
    BY <1>3, <1>5, VisitedAdvances
  <2> QED
    BY <2>1 DEF Advances
<1>7. keep => AlsoDomain(a, rq, since[g], step)
  BY <1>2, <1>3, <1>4 DEF AlsoDomain, Stage, DomainLoop, DomainPasses, Readable
<1>8. \A b \in todo[g] : ReadAndFits(b, rq, since[g], step)'
  BY <1>2, <1>3, Persists DEF Stage, DomainLoop
<1>9. \A b \in rows : AlsoDomain(b, rq, since[g], step)'
  BY <1>2, <1>3, <1>7, Persists DEF Stage, DomainLoop
<1>10. DomainLoop(g)' /\ CategoryLoop(g)'
  BY <1>2, <1>6, <1>8, <1>9 DEF DomainLoop, CategoryLoop
<1>11. targetted'[g] = {}
  BY <1>1, <1>2 DEF Keyed
<1> QED
  BY <1>6, <1>10, <1>11 DEF Stage, SizeLoop, BetweenReads, FeatureLoop, Targets

LEMMA FetchAdvertiserAgainStage ==
  ASSUME Typed, NEW g \in Bodies, Began(g), FetchAdvertiserAgain(g),
         g \notin refused', Keyed(g), g \notin refused => Stage(g)
  PROVE  Stage(g)'
<1> USE QueryNames
<1>1. PICK failed \in {FALSE, PingFails}, a \in Least(todo[g], "ads_id") :
        /\ Query(g, "fetchAdvertiserAgain", failed)
        /\ advertiser' = [advertiser EXCEPT ![g] =
                            FoundAdvertiser("fetchAdvertiserAgain", failed, a)]
        /\ pc' = [pc EXCEPT ![g] = "fetchCategoryBlocking"]
        /\ UNCHANGED <<todo, kept, features, targetted>>
  BY DEF FetchAdvertiserAgain
<1> DEFINE rq == ParseRequest(g)
           found == Found("fetchAdvertiserAgain",
                          Readable(SelectAdvertiser(db, a.advertiser_id)))
<1>2. /\ failed = FALSE
      /\ g \notin refused
      /\ UNCHANGED <<old, fresh, step, since>>
      /\ step \in 0..LastStep /\ step' \in 0..LastStep /\ step <= step'
      /\ since[g] \in 0..LastStep /\ step \in since[g]..step
      /\ pc[g] = "fetchAdvertiserAgain"
      /\ DBAt(step) = db
      /\ found = IF Exists("advertisers", step)
                 THEN Readable(SelectAdvertiser(db, a.advertiser_id)) ELSE {}
  BY <1>1, QueryReads DEF TableOf
<1>3. Stage(g) /\ a \in todo[g]
  BY <1>2 DEF Least
<1> HIDE DEF found
<1>4. PICK seen : seen = found
  OBVIOUS
<1>5. advertiser'[g] = seen /\ pc'[g] = "fetchCategoryBlocking"
  BY <1>1, <1>2, <1>4 DEF FoundAdvertiser, Typed, LoopsTyped, RestTyped, found
<1>6. ASSUME NEW b \in Least(todo[g], "ads_id")
      PROVE  AdvertiserSeen(b, rq, seen, since[g], step)'
  <2>1. a = b
    <3>1. a.ads_id <= b.ads_id /\ b.ads_id <= a.ads_id /\ a \in Ads /\ b \in Ads
      BY <1>6 DEF Least, Typed, LoopsTyped
    <3> QED
      BY <1>3, <1>6, <3>1 DEF Keyed, Unique, Rows, Least, Ads
  <2>2. AlsoDomain(b, rq, since[g], step)
    BY <1>2, <1>3, <2>1 DEF Stage, CategoryLoop
  <2>3. AdvertiserSeen(b, rq, seen, since[g], step)
    BY <1>2, <1>4, <2>1, <2>2 DEF AdvertiserSeen
  <2> QED
    BY <1>2, <2>3, CategoryPersists
<1>7. BetweenReads(g)'
  BY <1>1, <1>2, <1>5, <1>6 DEF BetweenReads, Least
<1>8. CategoryLoop(g)'
  BY <1>1, <1>2, <1>3, <1>5, Persists, CategoryPersists DEF Stage, CategoryLoop
<1> QED
  BY <1>5, <1>7, <1>8 DEF Stage, SizeLoop, DomainLoop, FeatureLoop, Targets

LEMMA FetchCategoryBlockingStage ==
  ASSUME Typed, NEW g \in Bodies, Began(g), FetchCategoryBlocking(g),
         g \notin refused', Keyed(g), g \notin refused => Stage(g)
  PROVE  Stage(g)'
<1> USE QueryNames
<1>1. PICK failed \in {FALSE, PingFails}, a \in Least(todo[g], "ads_id") :
        LET ids == Found("fetchCategoryBlocking", SelectCategories(db, a.advertiser_id))
            categories == IF failed THEN {{}} ELSE {ids} \ {{}}
        IN  /\ Query(g, "fetchCategoryBlocking", failed)
            /\ Visited(g, a, ~Blocks(advertiser[g], categories, ParseRequest(g)),
                       "fetchAdvertiserAgain", "fetchAdsFeature")
            /\ advertiser' = [advertiser EXCEPT ![g] = {}]
            /\ UNCHANGED <<features, targetted>>
  BY DEF FetchCategoryBlocking
<1> DEFINE rq == ParseRequest(g)
           ids == Found("fetchCategoryBlocking", SelectCategories(db, a.advertiser_id))
<1>2. /\ failed = FALSE
      /\ g \notin refused
      /\ UNCHANGED <<old, fresh, step, since>>
      /\ step \in 0..LastStep /\ step' \in 0..LastStep /\ step <= step'
      /\ since[g] \in 0..LastStep /\ step \in since[g]..step
      /\ pc[g] = "fetchCategoryBlocking"
      /\ DBAt(step) = db
      /\ ids = IF Exists("category_blockings", step)
               THEN SelectCategories(db, a.advertiser_id) ELSE {}
  BY <1>1, QueryReads DEF TableOf
<1>3. LoopsTyped /\ Stage(g) /\ a \in todo[g]
  BY <1>2 DEF Typed, Least
<1>4. PICK keep \in BOOLEAN : keep = ~Blocks(advertiser[g], {ids} \ {{}}, rq)
  BY DEF Blocks
<1> DEFINE rows == IF keep THEN kept[g] \cup {a} ELSE kept[g]
<1>5. Visited(g, a, keep, "fetchAdvertiserAgain", "fetchAdsFeature")
  BY <1>1, <1>2, <1>4
<1>6. \/ /\ pc'[g] = "fetchAdvertiserAgain"
         /\ todo'[g] \subseteq todo[g]
         /\ kept'[g] = rows
      \/ /\ pc'[g] \in {"fetchAdsFeature", "reply"}
         /\ kept'[g] \subseteq rows
  <2>1. CASE todo[g] \ {a} # {}
    BY <1>3, <1>5, <2>1 DEF Visited, LoopsTyped
  <2>2. CASE todo[g] \ {a} = {}
    <3>1. Begin(g, "fetchAdsFeature", rows) /\ rows \in SUBSET Ads
      BY <1>3, <1>5, <2>2 DEF Visited, LoopsTyped
    <3> QED
      BY <1>3, <3>1, BeginRows
  <2> QED
    BY <2>1, <2>2
<1>7. keep => CategoryNotBlocked(a, rq, since[g], step)
  <2>1. PICK u \in since[g]..step :
          /\ AlsoDomain(a, rq, since[g], u)
          /\ Exists("advertisers", u) =>
               advertiser[g] = Readable(SelectAdvertiser(DBAt(u), a.advertiser_id))
    BY <1>2, <1>3 DEF Stage, BetweenReads, AdvertiserSeen
  <2>2. u <= step
    BY <1>2, <2>1 DEF LastStep
  <2>3. ASSUME keep, Exists("advertisers", u), Exists("category_blockings", step)
        PROVE  CategoryPasses(Readable(SelectAdvertiser(DBAt(u), a.advertiser_id)),
                              SelectCategories(DBAt(step), a.advertiser_id), rq)
    <3>1. advertiser[g] = Readable(SelectAdvertiser(DBAt(u), a.advertiser_id))
      BY <2>1, <2>3
    <3>2. ids = SelectCategories(DBAt(step), a.advertiser_id)
      BY <1>2, <2>3
    <3>3. ~Blocks(advertiser[g], {ids} \ {{}}, rq)
      BY <1>4, <2>3 DEF Blocks
    <3>4. CategoryPasses(advertiser[g], ids, rq)
      BY <3>3 DEF Blocks, CategoryPasses
    <3> QED
      BY <3>1, <3>2, <3>4
  <2> QED
    BY <1>2, <2>1, <2>2, <2>3 DEF CategoryNotBlocked
<1>8. \A b \in todo[g] : AlsoDomain(b, rq, since[g], step)'
  BY <1>2, <1>3, Persists DEF Stage, CategoryLoop
<1>9. \A b \in rows : CategoryNotBlocked(b, rq, since[g], step)'
  BY <1>2, <1>3, <1>7, CategoryPersists DEF Stage, CategoryLoop
<1>10. features'[g] = {} /\ targetted'[g] = {}
  BY <1>1, <1>2 DEF Keyed
<1>11. CategoryLoop(g)' /\ FeatureLoop(g)'
  BY <1>2, <1>6, <1>8, <1>9, <1>10 DEF CategoryLoop, FeatureLoop
<1> QED
  BY <1>6, <1>10, <1>11 DEF Stage, SizeLoop, DomainLoop, BetweenReads, Targets

LEMMA FetchAdsFeatureStage ==
  ASSUME Typed, NEW g \in Bodies, Began(g), FetchAdsFeature(g), g \notin refused',
         g \notin refused => Stage(g)
  PROVE  Stage(g)'
<1> USE QueryNames
<1>1. PICK failed \in {FALSE, PingFails}, a \in Least(todo[g], "ads_id") :
        LET rest == todo[g] \ {a}
            found == IF failed THEN {ZeroFeature(a.ads_id)}
                     ELSE Found("fetchAdsFeature", SelectAdsFeature(db, a.ads_id))
            ads_features == features[g] \cup found
        IN  /\ Query(g, "fetchAdsFeature", failed)
            /\ IF rest # {}
               THEN /\ todo' = [todo EXCEPT ![g] = rest]
                    /\ features' = [features EXCEPT ![g] = ads_features]
                    /\ UNCHANGED <<pc, kept, targetted>>
               ELSE EndOfAdvertiser(g, a, ads_features)
            /\ UNCHANGED advertiser
  BY DEF FetchAdsFeature
<1> DEFINE rq == ParseRequest(g)
           found == Found("fetchAdsFeature", SelectAdsFeature(db, a.ads_id))
<1>2. /\ failed = FALSE
      /\ g \notin refused
      /\ UNCHANGED <<old, fresh, step, since>>
      /\ step \in 0..LastStep /\ step' \in 0..LastStep /\ step <= step'
      /\ since[g] \in 0..LastStep /\ step \in since[g]..step
      /\ pc[g] = "fetchAdsFeature"
      /\ DBAt(step) = db
      /\ found = IF Exists("ads_features", step)
                 THEN SelectAdsFeature(db, a.ads_id) ELSE {}
  BY <1>1, QueryReads DEF TableOf
<1>3. LoopsTyped /\ RestTyped /\ Stage(g) /\ a \in todo[g] /\ a \in Ads
  BY <1>2 DEF Typed, Least, LoopsTyped
<1>4. PICK ads_features : ads_features = features[g] \cup found
  OBVIOUS
<1>5. \A b \in kept[g] : CategoryNotBlocked(b, rq, since[g], step)
  BY <1>2, <1>3 DEF Stage, FeatureLoop
<1>6. ASSUME NEW f \in ads_features, NEW b \in kept[g], b.ads_id = f.ads_id
      PROVE  AlsoFound(b, rq, since[g], step)
  <2>1. CASE f \in found
    <3>1. Exists("ads_features", step) /\ SelectAdsFeature(DBAt(step), b.ads_id) # {}
      BY <1>2, <1>6, <2>1 DEF SelectAdsFeature
    <3> QED
      BY <1>2, <1>5, <3>1 DEF AlsoFound
  <2>2. CASE f \in features[g]
    BY <1>2, <1>3, <1>6, <2>2 DEF Stage, FeatureLoop
  <2> QED
    BY <1>4, <2>1, <2>2
<1>7. /\ \A b \in kept[g] : CategoryNotBlocked(b, rq, since[g], step)'
      /\ \A f \in ads_features : \A b \in kept[g] :
           b.ads_id = f.ads_id => AlsoFound(b, rq, since[g], step)'
      /\ \A b \in targetted[g] : AlsoFound(b, rq, since[g], step)'
  BY <1>2, <1>3, <1>5, <1>6, CategoryPersists DEF Stage, Targets
<1>8. CASE todo[g] \ {a} # {}
  <2>1. /\ pc'[g] = "fetchAdsFeature" /\ kept' = kept /\ targetted' = targetted
        /\ features'[g] = ads_features
    BY <1>1, <1>2, <1>3, <1>4, <1>8 DEF RestTyped
  <2>2. FeatureLoop(g)' /\ Targets(g)'
    BY <1>2, <1>7, <2>1 DEF FeatureLoop, Targets
  <2> QED
    BY <2>1, <2>2 DEF Stage, SizeLoop, DomainLoop, CategoryLoop, BetweenReads
<1>9. CASE todo[g] \ {a} = {}
  <2>1. EndOfAdvertiser(g, a, ads_features)
    BY <1>1, <1>2, <1>4, <1>9
  <2>2. /\ pc'[g] \in {"fetchAdsFeature", "reply"}
        /\ features'[g] = {}
        /\ kept'[g] \subseteq kept[g]
    BY <1>3, <2>1, EndRows
  <2>3. ASSUME NEW b \in targetted'[g], b \notin targetted[g]
        PROVE  b \in kept[g] /\ \E f \in ads_features : b.ads_id = f.ads_id
    BY <1>3, <2>1, <2>3 DEF EndOfAdvertiser, FeatureTargeting, Least, RestTyped
  <2>4. \A b \in targetted'[g] : AlsoFound(b, rq, since[g], step)'
    BY <1>7, <2>3
  <2>5. FeatureLoop(g)' /\ Targets(g)'
    BY <1>2, <1>7, <2>2, <2>4 DEF FeatureLoop, Targets
  <2> QED
    BY <2>2, <2>5 DEF Stage, SizeLoop, DomainLoop, CategoryLoop, BetweenReads
<1> QED
  BY <1>8, <1>9

(* The bid that is sent is of an ad that passed.                            *)
LEMMA ReplyServes ==
  ASSUME Typed, NEW g \in Bodies, Began(g), Reply(g), Stage(g),
         NEW bid \in answer'[g]
  PROVE  \E a \in old["adses"] \cup fresh["adses"] :
           bid = Bid(a) /\ AlsoFound(a, ParseRequest(g), since[g], step)
<1>1. PICK a \in targetted[g] : bid = Bid(a)
  BY DEF Reply, Typed, RestTyped, Winner, Least
<1>2. AlsoFound(a, ParseRequest(g), since[g], step)
  BY <1>1 DEF Stage, Targets, Reply
<1>3. since[g] \in 0..LastStep /\ step \in 0..LastStep /\ DBTypeOK
  BY DEF Typed, RestTyped, DBTypeOK
<1>4. PICK v \in since[g]..step : Exists("adses", v) /\ a \in SelectAdses(DBAt(v))
  BY <1>2, <1>3 DEF AlsoFound, CategoryNotBlocked, AlsoDomain, ReadAndFits, Read,
     LastStep
<1>5. v \in 0..LastStep
  BY <1>3, <1>4 DEF LastStep
<1>6. a \in old["adses"] \cup fresh["adses"]
  BY <1>3, <1>4, <1>5, RowsOfTable, TableNames DEF Exists, SelectAdses
<1> QED
  BY <1>1, <1>2, <1>6

(* ServedAsChecked for one goroutine, and that it lasts.                    *)
AnswersChecked(g) ==
  \A bid \in answer[g] : \E a \in old["adses"] \cup fresh["adses"] :
    bid = Bid(a) /\ AlsoFound(a, ParseRequest(g), since[g], until[g])

LEMMA ServedParts == ServedAsChecked <=> \A g \in Bodies \ refused : AnswersChecked(g)
BY DEF ServedAsChecked, AnswersChecked, AlsoFound

LEMMA ServedLasts ==
  ASSUME Typed, NEW g \in Bodies, AnswersChecked(g), UNCHANGED <<old, fresh>>,
         answer'[g] = answer[g], since'[g] = since[g], until'[g] = until[g]
  PROVE  AnswersChecked(g)'
<1>1. since[g] \in 0..LastStep /\ until[g] \in 0..LastStep
  BY DEF Typed, RestTyped
<1> QED
  BY <1>1, CategoryIsRigid DEF AnswersChecked

(* The stage of the goroutine that moves.                                   *)
LEMMA HandlerStage ==
  ASSUME Typed, NEW g \in Bodies, Acquire(g) \/ Handler(g), Keyed(g), Began(g),
         g \notin refused => Stage(g), g \notin refused'
  PROVE  Stage(g)'
<1> USE QueryNames
<1>1. CASE Acquire(g)
  <2>1. pc'[g] = "fetchAdses"
    BY <1>1 DEF Acquire, Typed, LoopsTyped
  <2> QED
    BY <2>1 DEF Stage, SizeLoop, DomainLoop, CategoryLoop, BetweenReads, FeatureLoop,
       Targets
<1>2. CASE Lock(g)
  <2>1. step' = step /\ step \in 0..LastStep /\ step <= step'
    BY <1>2 DEF Lock, dbvars, Typed, DBTypeOK, LastStep
  <2> QED
    BY <1>2, <2>1, Frame DEF Lock, locals, history, dbvars
<1>3. CASE Reply(g) \/ Release(g)
  <2>1. pc'[g] \in {"release", "done"}
    BY <1>3 DEF Reply, Release, Typed, LoopsTyped
  <2> QED
    BY <2>1 DEF Stage, SizeLoop, DomainLoop, CategoryLoop, BetweenReads, FeatureLoop,
       Targets
<1> QED
  BY <1>1, <1>2, <1>3, FetchAdsesStage, FetchAdSizeStage, FetchAdvertiserStage,
     FetchAdvertiserAgainStage, FetchCategoryBlockingStage, FetchAdsFeatureStage
     DEF Handler

(* What a goroutine's statement does to its answer and to its times.        *)
LEMMA HandlerBegan ==
  ASSUME Typed, NEW g \in Bodies, Acquire(g) \/ Handler(g), Began(g),
         g \notin refused => Stage(g) /\ AnswersChecked(g)
  PROVE  Began(g)' /\ (g \notin refused' => AnswersChecked(g)')
<1> USE QueryNames
<1>1. /\ step \in 0..LastStep /\ UNCHANGED <<old, fresh, step>>
      /\ g \notin refused' => g \notin refused
  BY DEF Acquire, Handler, Lock, FetchAdses, FetchAdSize, FetchAdvertiser,
     FetchAdvertiserAgain, FetchCategoryBlocking, FetchAdsFeature, Reply, Release,
     Query, locals, history, dbvars, Typed, DBTypeOK
<1>2. CASE Acquire(g)
  <2>1. answer'[g] = {} /\ since'[g] = step /\ pc'[g] = "fetchAdses"
    BY <1>2 DEF Acquire, Typed, LoopsTyped, RestTyped, Began
  <2> QED
    BY <1>1, <2>1 DEF Began, AnswersChecked, LastStep
<1>3. CASE Reply(g)
  <2>1. since' = since /\ until'[g] = step /\ pc'[g] = "release"
    BY <1>3 DEF Reply, Typed, LoopsTyped, RestTyped
  <2>2. since[g] \in 0..LastStep
    BY DEF Typed, RestTyped
  <2>3. ASSUME NEW bid \in answer'[g], g \notin refused'
        PROVE  \E a \in old'["adses"] \cup fresh'["adses"] :
                 bid = Bid(a) /\ AlsoFound(a, ParseRequest(g), since[g], step)'
    <3>1. PICK a \in old["adses"] \cup fresh["adses"] :
            bid = Bid(a) /\ AlsoFound(a, ParseRequest(g), since[g], step)
      BY <1>1, <1>3, <2>3, ReplyServes
    <3> QED
      <4>1. AlsoFound(a, ParseRequest(g), since[g], step)'
        BY <1>1, <2>1, <2>2, <3>1, CategoryPersists DEF LastStep
      <4>2. a \in old'["adses"] \cup fresh'["adses"]
        BY <1>1, <3>1
      <4> QED
        BY <3>1, <4>1, <4>2
  <2> QED
    BY <1>1, <2>1, <2>3 DEF Began, AnswersChecked
<1>4. CASE Lock(g) \/ Release(g)
  <2>1. /\ UNCHANGED <<answer, since, until>>
        /\ pc'[g] \notin {"release", "done"} => pc[g] \notin {"release", "done"}
    BY <1>4 DEF Lock, Release, history, Typed, LoopsTyped
  <2> QED
    BY <1>1, <2>1, ServedLasts DEF Began
<1>5. CASE \/ FetchAdses(g) \/ FetchAdSize(g) \/ FetchAdvertiser(g)
           \/ FetchAdvertiserAgain(g) \/ FetchCategoryBlocking(g) \/ FetchAdsFeature(g)
  <2>1. UNCHANGED <<answer, since, until>> /\ pc[g] \notin {"release", "done"}
    BY <1>5 DEF FetchAdses, FetchAdSize, FetchAdvertiser, FetchAdvertiserAgain,
       FetchCategoryBlocking, FetchAdsFeature, Query
  <2> QED
    BY <1>1, <2>1, ServedLasts DEF Began
<1> QED
  BY <1>2, <1>3, <1>4, <1>5 DEF Handler

LEMMA OthersKeep ==
  ASSUME Typed, NEW g \in Bodies, Acquire(g) \/ Handler(g), Keyed(g),
         NEW h \in Bodies \ {g}, Began(h)
  PROVE  /\ Began(h)'
         /\ h \notin refused' => h \notin refused
         /\ Stage(h) => Stage(h)'
         /\ AnswersChecked(h) => AnswersChecked(h)'
<1> USE QueryNames
<1>1. /\ UNCHANGED <<old, fresh, step>> /\ step \in 0..LastStep /\ step <= step'
      /\ answer'[h] = answer[h] /\ since'[h] = since[h] /\ until'[h] = until[h]
      /\ h \notin refused' => h \notin refused
  <2>1. CASE Acquire(g) \/ Lock(g) \/ Reply(g) \/ Release(g)
    BY <2>1 DEF Acquire, Lock, Reply, Release, locals, history, dbvars, Typed, DBTypeOK,
       RestTyped, LastStep
  <2>2. CASE \E statement, failed : Query(g, statement, failed)
    BY <2>2 DEF Query, dbvars, Typed, DBTypeOK, LastStep
  <2> QED
    BY <2>1, <2>2 DEF Handler, FetchAdses, FetchAdSize, FetchAdvertiser,
       FetchAdvertiserAgain, FetchCategoryBlocking, FetchAdsFeature
<1>2. /\ pc'[h] = pc[h] /\ todo'[h] = todo[h] /\ kept'[h] = kept[h]
      /\ features'[h] = features[h] /\ targetted'[h] = targetted[h]
      /\ advertiser'[h] = advertiser[h]
  BY HandlerKeyed
<1>3. Stage(h) => Stage(h)'
  BY <1>1, <1>2, Frame
<1>4. AnswersChecked(h) => AnswersChecked(h)'
  BY <1>1, ServedLasts
<1> QED
  BY <1>1, <1>2, <1>3, <1>4 DEF Began

LEMMA InitChecked == Init => Checked
<1> SUFFICES ASSUME Init PROVE Checked
  OBVIOUS
<1>1. \A g \in Bodies : Began(g) /\ Stage(g) /\ answer[g] = {}
  BY DEF Init, DBInit, Began, Stage, SizeLoop, DomainLoop, CategoryLoop, BetweenReads,
     FeatureLoop, Targets
<1> QED
  BY <1>1 DEF Checked, ServedAsChecked

LEMMA NextChecked == Typed /\ AllKeyed /\ Checked /\ [Next]_vars => Checked'
<1> SUFFICES ASSUME Typed, AllKeyed, Checked, [Next]_vars PROVE Checked'
  OBVIOUS
<1>1. \A g \in Bodies :
        Keyed(g) /\ Began(g) /\ (g \notin refused => Stage(g) /\ AnswersChecked(g))
  BY ServedParts DEF AllKeyed, Checked
<1>2. ASSUME \A g \in Bodies : /\ Began(g)'
                               /\ g \notin refused' => Stage(g)' /\ AnswersChecked(g)'
      PROVE  Checked'
  <2>1. ServedAsChecked'
    BY <1>2 DEF ServedAsChecked, AnswersChecked, AlsoFound
  <2> QED
    BY <1>2, <2>1 DEF Checked
<1>3. CASE UNCHANGED vars \/ Setup
  <2>1. /\ UNCHANGED <<old, fresh, pc, locals, answer, history>>
        /\ step \in 0..LastStep /\ step' \in 0..LastStep /\ step <= step'
    BY <1>3, SetupFrame DEF vars, dbvars, Typed, DBTypeOK, LastStep
  <2>2. ASSUME NEW g \in Bodies
        PROVE  Began(g)' /\ (g \notin refused' => Stage(g)' /\ AnswersChecked(g)')
    <3>1. Began(g)'
      BY <1>1, <2>1 DEF Began, history, Typed, RestTyped, LastStep
    <3>2. Stage(g) => Stage(g)'
      BY <2>1, Frame DEF locals, history
    <3>3. AnswersChecked(g) => AnswersChecked(g)'
      BY <2>1, ServedLasts DEF history
    <3> QED
      BY <1>1, <2>1, <3>1, <3>2, <3>3 DEF history
  <2> QED
    BY <1>2, <2>2
<1>4. ASSUME NEW g \in Bodies, Acquire(g) \/ Handler(g)
      PROVE  Checked'
  <2>1. g \notin refused' => Stage(g)' /\ AnswersChecked(g)' /\ Began(g)'
    BY <1>1, <1>4, HandlerStage, HandlerBegan
  <2>2. Began(g)'
    BY <1>1, <1>4, HandlerBegan
  <2>3. \A h \in Bodies \ {g} :
          Began(h)' /\ (h \notin refused' => Stage(h)' /\ AnswersChecked(h)')
    BY <1>1, <1>4, OthersKeep
  <2> QED
    BY <1>2, <2>1, <2>2, <2>3
<1> QED
  BY <1>3, <1>4 DEF Next

(* The ad of every bid passed the checks, each against the database as it   *)
(* was at some moment of the request, unless MySQL refused the goroutine a  *)
(* connection; with the category check open while one of its tables is gone. *)
THEOREM ServedIsChecked == Spec => []ServedAsChecked
<1>1. Checked => ServedAsChecked
  BY DEF Checked
<1> QED
  BY <1>1, InitTyped, NextTyped, InitKeyed, NextKeyed, InitChecked, NextChecked, PTL
     DEF Spec
-----------------------------------------------------------------------------
(* The contents as a goroutine that asks now would scan them.  While they   *)
(* stand still under a request, each loop's rows are those of the rules     *)
(* over the contents as they are scanned and taken, unless MySQL has        *)
(* refused the goroutine a connection.  This inductive invariant is what    *)
(* makes the server the service of AuctionService, but for its liveness.    *)
Seen == Scanned(db)

Settled(g) == since[g] = step /\ Whole(step)

LEMMA SeenStays ==
  ASSUME UNCHANGED <<old, fresh, step>>
  PROVE  UNCHANGED <<Seen, db>> /\ (Whole(step) <=> Whole(step)')
BY DEF Seen, db, DBAt, Scanned, Readable, Whole

LEMMA ScannedIsTabular ==
  ASSUME NEW d, Tabular(d)
  PROVE  /\ Tabular(Scanned(d))
         /\ SelectAdses(Scanned(d)) = SelectAdses(d)
         /\ \A i :
              /\ SelectAdSize(Scanned(d), i) = SelectAdSize(d, i)
              /\ SelectAdvertiser(Scanned(d), i) = Readable(SelectAdvertiser(d, i))
              /\ SelectCategories(Scanned(d), i) = SelectCategories(d, i)
              /\ SelectAdsFeature(Scanned(d), i) = SelectAdsFeature(d, i)
<1>1. /\ Scanned(d) = [t \in Tables |-> Scanned(d)[t]]
      /\ \A t \in Tables : t # "advertisers" => Scanned(d)[t] = d[t]
      /\ Scanned(d)["advertisers"] = Readable(d["advertisers"])
  BY TableNames DEF Tabular, Scanned
<1>2. /\ Readable(d["advertisers"]) \subseteq d["advertisers"]
      /\ IsFiniteSet(d["advertisers"])
  BY TableNames DEF Readable, Tabular
<1>3. IsFiniteSet(Readable(d["advertisers"]))
  BY <1>2, FS_Subset
<1>4. Tabular(Scanned(d))
  BY <1>1, <1>2, <1>3, TableNames DEF Tabular, Unique
<1>5. \A i : SelectAdvertiser(Scanned(d), i) = Readable(SelectAdvertiser(d, i))
  BY <1>1 DEF SelectAdvertiser, Readable
<1> QED
  BY <1>1, <1>4, <1>5, TableNames
     DEF SelectAdses, SelectAdSize, SelectCategories, SelectAdsFeature

LEMMA ScannedAsTheyAre ==
  ASSUME NEW d, IsDatabase(d), Conforms(d)
  PROVE  Scanned(d) = d
<1>1. Readable(d["advertisers"]) = d["advertisers"]
  BY DEF Readable, Conforms, NULL, ALLOW, DENY
<1> QED
  BY <1>1, TableNames DEF Scanned, IsDatabase, Tabular

(* Then every query that is done finds what its SELECT returns.             *)
LEMMA QuietFinds ==
  ASSUME Typed, NEW g, Settled(g)
  PROVE  /\ Tabular(Seen)
         /\ SelectAdses(db) = SelectAdses(Seen)
         /\ \A i :
              /\ SelectAdSize(db, i) = SelectAdSize(Seen, i)
              /\ SelectCategories(db, i) = SelectCategories(Seen, i)
              /\ SelectAdsFeature(db, i) = SelectAdsFeature(Seen, i)
         /\ \A statement \in Queries : \A rows : Found(statement, rows) = rows
         /\ \A statement \in Queries : \A a :
              FoundAdvertiser(statement, FALSE, a) = SelectAdvertiser(Seen, a.advertiser_id)
<1>1. Tabular(db) /\ DOMAIN db = Tables
  BY WholeIsTabular DEF Settled, Whole, db, Typed, DBTypeOK
<1>2. \A statement \in Queries : TableOf[statement] \in Tables
  BY QueryNames, TableNames DEF TableOf
<1>3. \A statement \in Queries : \A rows : Found(statement, rows) = rows
  BY <1>1, <1>2 DEF Found
<1>4. \A i : SelectAdvertiser(Seen, i) = Readable(SelectAdvertiser(db, i))
  BY <1>1, ScannedIsTabular DEF Seen
<1>5. \A statement \in Queries : \A a :
        FoundAdvertiser(statement, FALSE, a) = SelectAdvertiser(Seen, a.advertiser_id)
  BY <1>3, <1>4 DEF FoundAdvertiser
<1> QED
  BY <1>1, <1>3, <1>5, ScannedIsTabular DEF Seen

LEMMA NotRefused ==
  ASSUME Typed, NEW g \in Bodies, NEW statement \in Queries,
         NEW failed \in {FALSE, PingFails}, Query(g, statement, failed),
         g \notin refused'
  PROVE  failed = FALSE
BY FailedIsBoolean, QueryFrame

SizesExact(g) ==
  pc[g] = "fetchAdSize" =>
    /\ todo[g] \subseteq SelectAdses(Seen)
    /\ kept[g] = Fitting(Seen, ParseRequest(g)) \ todo[g]

DomainsExact(g) ==
  pc[g] = "fetchAdvertiser" =>
    /\ todo[g] \subseteq Fitting(Seen, ParseRequest(g))
    /\ kept[g] = Unblocked(Seen, ParseRequest(g)) \ todo[g]

CategoriesExact(g) ==
  pc[g] \in {"fetchAdvertiserAgain", "fetchCategoryBlocking"} =>
    /\ todo[g] \subseteq Unblocked(Seen, ParseRequest(g))
    /\ kept[g] = Wanted(Seen, ParseRequest(g)) \ todo[g]

AdvertiserExact(g) ==
  pc[g] = "fetchCategoryBlocking" =>
    \A a \in Least(todo[g], "ads_id") : advertiser[g] = SelectAdvertiser(Seen, a.advertiser_id)

(* The last loop: kept has the advertisers that are not finished, whole.    *)
FeaturesExact(g) ==
  pc[g] = "fetchAdsFeature" =>
    /\ kept[g] \subseteq Wanted(Seen, ParseRequest(g))
    /\ \A a \in kept[g] : Group(Wanted(Seen, ParseRequest(g)), a) \subseteq kept[g]
    /\ targetted[g] = Representatives(Taken(Seen), ParseRequest(g)) \ kept[g]
    /\ \A a \in todo[g] :
         /\ a \in kept[g] /\ todo[g] \subseteq Group(kept[g], a)
         /\ features[g] = FeaturesOf(Seen, Group(kept[g], a) \ todo[g])

TargetsExact(g) ==
  pc[g] = "reply" => targetted[g] = Representatives(Taken(Seen), ParseRequest(g))

Exact(g) ==
  /\ SizesExact(g)
  /\ DomainsExact(g)
  /\ CategoriesExact(g)
  /\ AdvertiserExact(g)
  /\ FeaturesExact(g)
  /\ TargetsExact(g)

(* A filter loop that keeps, of the rows from, those that are in to: it goes *)
(* on over those that it has not handled, or has kept the rows that pass    *)
(* and is followed by the next loop.                                        *)
GoesOn(g, from, to, statement, following) ==
  \/ /\ pc'[g] = statement
     /\ todo'[g] \subseteq from
     /\ kept'[g] = to \ todo'[g]
  \/ Begin(g, following, to)

LEMMA FilterGoesOn ==
  ASSUME LoopsTyped, NEW g \in Bodies, NEW a \in todo[g], NEW keep \in BOOLEAN,
         NEW statement \in Queries, NEW following \in Queries,
         Visited(g, a, keep, statement, following),
         NEW from, NEW to \in SUBSET from, todo[g] \subseteq from,
         kept[g] = to \ todo[g], keep <=> a \in to
  PROVE  GoesOn(g, from, to, statement, following)
<1> USE DEF GoesOn
<1> DEFINE rows == IF keep THEN kept[g] \cup {a} ELSE kept[g]
<1>1. CASE todo[g] \ {a} # {}
  <2>1. /\ pc'[g] = statement /\ todo'[g] = todo[g] \ {a} /\ kept'[g] = rows
    BY <1>1 DEF Visited, LoopsTyped
  <2> QED
    BY <2>1
<1>2. CASE todo[g] \ {a} = {}
  <2>1. rows = to
    BY <1>2
  <2> QED
    BY <1>2, <2>1 DEF Visited
<1> QED
  BY <1>1, <1>2

LEMMA FilterBegins ==
  ASSUME LoopsTyped, NEW g \in Bodies, NEW rows,
         NEW statement \in Queries \ {"fetchAdsFeature"}, Begin(g, statement, rows)
  PROVE  /\ todo'[g] = rows /\ kept'[g] = {}
         /\ pc'[g] = IF rows = {} THEN "reply" ELSE statement
BY DEF Begin, LoopsTyped

(* The last loop takes the ads of one advertiser.                           *)
LEMMA LastLoopBegins ==
  ASSUME LoopsTyped, NEW g \in Bodies, NEW rows \in SUBSET Ads,
         Begin(g, "fetchAdsFeature", rows)
  PROVE  /\ kept'[g] = rows
         /\ pc'[g] = IF rows = {} THEN "reply" ELSE "fetchAdsFeature"
         /\ \A a \in todo'[g] : a \in rows /\ todo'[g] = Group(rows, a)
<1>1. CASE rows = {}
  BY <1>1 DEF Begin, LoopsTyped
<1>2. CASE rows # {}
  <2>1. PICK a \in rows : /\ pc' = [pc EXCEPT ![g] = "fetchAdsFeature"]
                          /\ todo' = [todo EXCEPT ![g] = Group(rows, a)]
                          /\ kept' = [kept EXCEPT ![g] = rows]
    BY <1>2 DEF Begin, Group
  <2>2. \A b \in Group(rows, a) : b \in rows /\ Group(rows, b) = Group(rows, a)
    BY DEF Group
  <2> QED
    BY <1>2, <2>1, <2>2 DEF LoopsTyped
<1> QED
  BY <1>1, <1>2

(* What holds of the contents makes the lemmas about the rules apply.       *)
LEMMA QuietRows ==
  ASSUME Typed, NEW g \in Bodies, Settled(g)
  PROVE  LET rq == ParseRequest(g)
             W == Wanted(Seen, rq)
         IN  /\ rq \in Request
             /\ Unblocked(Seen, rq) \subseteq Fitting(Seen, rq) /\ W \subseteq Unblocked(Seen, rq)
             /\ Fitting(Seen, rq) \subseteq SelectAdses(Seen)
             /\ W \subseteq Ads /\ Unique(W, "ads_id")
             /\ Representatives(Taken(Seen), rq) \subseteq W
<1>1. Tabular(Seen) /\ ParseRequest(g) \in Request
  BY QuietFinds, BodiesParse
<1> QED
  BY <1>1, RepresentativesAreWanted
     DEF Fitting, Unblocked, Wanted, SelectAdses, Tabular, Unique

(* The two queries around which no row is decided.                          *)
LEMMA FetchAdsesExact ==
  ASSUME Typed, NEW g \in Bodies, Settled(g), Keyed(g), FetchAdses(g),
         g \notin refused'
  PROVE  Exact(g)'
<1> USE QueryNames
<1> DEFINE rq == ParseRequest(g)
<1>1. /\ LoopsTyped /\ UNCHANGED <<Seen, targetted>>
      /\ pc[g] = "fetchAdses" /\ targetted[g] = {}
  BY SeenStays DEF FetchAdses, Query, dbvars, Typed, Keyed, LoopsTyped
<1>2. /\ todo'[g] = SelectAdses(Seen) /\ kept'[g] = {}
      /\ pc'[g] = IF SelectAdses(Seen) = {} THEN "reply" ELSE "fetchAdSize"
  <2>1. PICK failed \in {FALSE, PingFails} :
          /\ Query(g, "fetchAdses", failed)
          /\ Begin(g, "fetchAdSize",
                   IF failed THEN {} ELSE Found("fetchAdses", SelectAdses(db)))
    BY DEF FetchAdses
  <2>2. failed = FALSE /\ Found("fetchAdses", SelectAdses(db)) = SelectAdses(Seen)
    BY <1>1, <2>1, QuietFinds, NotRefused
  <2>3. Begin(g, "fetchAdSize", SelectAdses(Seen))
    BY <2>1, <2>2
  <2> QED
    BY <1>1, <2>3, FilterBegins
<1>3. SizesExact(g)'
  BY <1>1, <1>2, QuietRows DEF SizesExact
<1>4. TargetsExact(g)'
  <2>1. SelectAdses(Seen) = {} => Representatives(Taken(Seen), rq) = {}
    BY QuietRows
  <2> QED
    BY <1>1, <1>2, <2>1 DEF TargetsExact
<1> QED
  BY <1>2, <1>3, <1>4 DEF Exact, DomainsExact, CategoriesExact, AdvertiserExact,
     FeaturesExact

LEMMA FetchAdvertiserAgainExact ==
  ASSUME Typed, NEW g \in Bodies, Settled(g), Keyed(g), Exact(g),
         FetchAdvertiserAgain(g), g \notin refused'
  PROVE  Exact(g)'
<1> USE QueryNames
<1>1. /\ LoopsTyped /\ RestTyped /\ UNCHANGED <<Seen, todo, kept>>
      /\ pc[g] = "fetchAdvertiserAgain" /\ pc'[g] = "fetchCategoryBlocking"
  BY SeenStays DEF FetchAdvertiserAgain, Query, dbvars, Typed, Keyed, LoopsTyped
<1>2. CategoriesExact(g)'
  BY <1>1 DEF Exact, CategoriesExact
<1>3. PICK a \in Least(todo[g], "ads_id") :
        advertiser' = [advertiser EXCEPT ![g] = SelectAdvertiser(Seen, a.advertiser_id)]
  <2>1. PICK failed \in {FALSE, PingFails}, a \in Least(todo[g], "ads_id") :
          /\ Query(g, "fetchAdvertiserAgain", failed)
          /\ advertiser' = [advertiser EXCEPT ![g] =
                              FoundAdvertiser("fetchAdvertiserAgain", failed, a)]
    BY DEF FetchAdvertiserAgain
  <2>2. FoundAdvertiser("fetchAdvertiserAgain", FALSE, a) =
          SelectAdvertiser(Seen, a.advertiser_id) /\ failed = FALSE
    BY <2>1, QuietFinds, NotRefused
  <2> QED
    BY <2>1, <2>2
<1>4. \A b \in Least(todo[g], "ads_id") : b = a
  BY <1>1 DEF Least, LoopsTyped, Keyed, Rows, Unique, Ads
<1>5. AdvertiserExact(g)'
  BY <1>1, <1>3, <1>4 DEF AdvertiserExact, Least, RestTyped
<1> QED
  BY <1>1, <1>2, <1>5 DEF Exact, SizesExact, DomainsExact, FeaturesExact, TargetsExact

(* The three filter loops.                                                  *)
LEMMA FetchAdSizeExact ==
  ASSUME Typed, NEW g \in Bodies, Settled(g), Keyed(g), Exact(g), FetchAdSize(g),
         g \notin refused'
  PROVE  Exact(g)'
<1> USE QueryNames
<1> DEFINE rq == ParseRequest(g)
<1>1. /\ LoopsTyped /\ UNCHANGED <<Seen, targetted>>
      /\ pc[g] = "fetchAdSize" /\ targetted[g] = {}
  BY SeenStays DEF FetchAdSize, Query, dbvars, Typed, Keyed, LoopsTyped
<1>2. PICK a \in todo[g], keep \in BOOLEAN :
        /\ keep = SizeMatches(SelectAdSize(Seen, a.size_id), rq)
        /\ Visited(g, a, keep, "fetchAdSize", "fetchAdvertiser")
  <2>1. PICK failed \in {FALSE, PingFails}, a \in Least(todo[g], "ads_id") :
          LET found == IF failed THEN {ZeroSize}
                       ELSE Found("fetchAdSize", SelectAdSize(db, a.size_id))
          IN  /\ Query(g, "fetchAdSize", failed)
              /\ Visited(g, a, SizeMatches(found, rq), "fetchAdSize", "fetchAdvertiser")
    BY DEF FetchAdSize
  <2>2. /\ failed = FALSE
        /\ Found("fetchAdSize", SelectAdSize(db, a.size_id)) = SelectAdSize(Seen, a.size_id)
    BY <1>1, <2>1, QuietFinds, NotRefused
  <2>3. Visited(g, a, SizeMatches(SelectAdSize(Seen, a.size_id), rq),
                "fetchAdSize", "fetchAdvertiser")
    BY <2>1, <2>2
  <2>4. SizeMatches(SelectAdSize(Seen, a.size_id), rq) \in BOOLEAN
    BY DEF SizeMatches
  <2> QED
    BY <2>3, <2>4 DEF Least
<1>3. /\ todo[g] \subseteq SelectAdses(Seen)
      /\ kept[g] = Fitting(Seen, rq) \ todo[g]
      /\ keep <=> a \in Fitting(Seen, rq)
      /\ Fitting(Seen, rq) \in SUBSET SelectAdses(Seen)
  BY <1>1, <1>2, QuietRows DEF Exact, SizesExact, Fitting
<1>4. \/ /\ pc'[g] = "fetchAdSize"
         /\ todo'[g] \subseteq SelectAdses(Seen)
         /\ kept'[g] = Fitting(Seen, rq) \ todo'[g]
      \/ Begin(g, "fetchAdvertiser", Fitting(Seen, rq))
  <2>1. GoesOn(g, SelectAdses(Seen), Fitting(Seen, rq), "fetchAdSize", "fetchAdvertiser")
    BY <1>1, <1>2, <1>3, FilterGoesOn
  <2> QED
    BY <2>1 DEF GoesOn
<1>5. CASE pc'[g] = "fetchAdSize"
  <2>1. SizesExact(g)'
    BY <1>1, <1>4, <1>5, FilterBegins DEF SizesExact
  <2> QED
    BY <1>5, <2>1 DEF Exact, DomainsExact, CategoriesExact, AdvertiserExact,
       FeaturesExact, TargetsExact
<1>6. CASE Begin(g, "fetchAdvertiser", Fitting(Seen, rq))
  <2>1. /\ todo'[g] = Fitting(Seen, rq) /\ kept'[g] = {}
        /\ pc'[g] = IF Fitting(Seen, rq) = {} THEN "reply" ELSE "fetchAdvertiser"
    BY <1>1, <1>6, FilterBegins
  <2>2. DomainsExact(g)'
    BY <1>1, <2>1, QuietRows DEF DomainsExact
  <2>3. TargetsExact(g)'
    <3>1. Fitting(Seen, rq) = {} => Representatives(Taken(Seen), rq) = {}
      BY QuietRows
    <3> QED
      BY <1>1, <2>1, <3>1 DEF TargetsExact
  <2> QED
    BY <2>1, <2>2, <2>3 DEF Exact, SizesExact, CategoriesExact, AdvertiserExact,
       FeaturesExact
<1> QED
  BY <1>4, <1>5, <1>6

LEMMA FetchAdvertiserExact ==
  ASSUME Typed, NEW g \in Bodies, Settled(g), Keyed(g), Exact(g),
         FetchAdvertiser(g), g \notin refused'
  PROVE  Exact(g)'
<1> USE QueryNames
<1> DEFINE rq == ParseRequest(g)
<1>1. /\ LoopsTyped /\ UNCHANGED <<Seen, targetted>>
      /\ pc[g] = "fetchAdvertiser" /\ targetted[g] = {}
  BY SeenStays DEF FetchAdvertiser, Query, dbvars, Typed, Keyed, LoopsTyped
<1>2. PICK a \in todo[g], keep \in BOOLEAN :
        /\ keep = DomainPasses(SelectAdvertiser(Seen, a.advertiser_id), rq)
        /\ Visited(g, a, keep, "fetchAdvertiser", "fetchAdvertiserAgain")
  <2>1. PICK failed \in {FALSE, PingFails}, a \in Least(todo[g], "ads_id") :
          /\ Query(g, "fetchAdvertiser", failed)
          /\ Visited(g, a, DomainPasses(FoundAdvertiser("fetchAdvertiser", failed, a), rq),
                     "fetchAdvertiser", "fetchAdvertiserAgain")
    BY DEF FetchAdvertiser
  <2>2. /\ failed = FALSE
        /\ FoundAdvertiser("fetchAdvertiser", FALSE, a) =
             SelectAdvertiser(Seen, a.advertiser_id)
    BY <1>1, <2>1, QuietFinds, NotRefused
  <2>3. Visited(g, a, DomainPasses(SelectAdvertiser(Seen, a.advertiser_id), rq),
                "fetchAdvertiser", "fetchAdvertiserAgain")
    BY <2>1, <2>2
  <2>4. DomainPasses(SelectAdvertiser(Seen, a.advertiser_id), rq) \in BOOLEAN
    BY DEF DomainPasses
  <2> QED
    BY <2>3, <2>4 DEF Least
<1>3. /\ todo[g] \subseteq Fitting(Seen, rq)
      /\ kept[g] = Unblocked(Seen, rq) \ todo[g]
      /\ keep <=> a \in Unblocked(Seen, rq)
      /\ Unblocked(Seen, rq) \in SUBSET Fitting(Seen, rq)
  BY <1>1, <1>2, QuietRows DEF Exact, DomainsExact, Unblocked
<1>4. \/ /\ pc'[g] = "fetchAdvertiser"
         /\ todo'[g] \subseteq Fitting(Seen, rq)
         /\ kept'[g] = Unblocked(Seen, rq) \ todo'[g]
      \/ Begin(g, "fetchAdvertiserAgain", Unblocked(Seen, rq))
  <2>1. GoesOn(g, Fitting(Seen, rq), Unblocked(Seen, rq), "fetchAdvertiser", "fetchAdvertiserAgain")
    BY <1>1, <1>2, <1>3, FilterGoesOn
  <2> QED
    BY <2>1 DEF GoesOn
<1>5. CASE pc'[g] = "fetchAdvertiser"
  <2>1. DomainsExact(g)'
    BY <1>1, <1>4, <1>5, FilterBegins DEF DomainsExact
  <2> QED
    BY <1>5, <2>1 DEF Exact, SizesExact, CategoriesExact, AdvertiserExact,
       FeaturesExact, TargetsExact
<1>6. CASE Begin(g, "fetchAdvertiserAgain", Unblocked(Seen, rq))
  <2>1. /\ todo'[g] = Unblocked(Seen, rq) /\ kept'[g] = {}
        /\ pc'[g] = IF Unblocked(Seen, rq) = {} THEN "reply" ELSE "fetchAdvertiserAgain"
    BY <1>1, <1>6, FilterBegins
  <2>2. CategoriesExact(g)'
    BY <1>1, <2>1, QuietRows DEF CategoriesExact
  <2>3. TargetsExact(g)'
    <3>1. Unblocked(Seen, rq) = {} => Representatives(Taken(Seen), rq) = {}
      BY QuietRows
    <3> QED
      BY <1>1, <2>1, <3>1 DEF TargetsExact
  <2> QED
    BY <2>1, <2>2, <2>3 DEF Exact, SizesExact, DomainsExact, AdvertiserExact,
       FeaturesExact
<1> QED
  BY <1>4, <1>5, <1>6

LEMMA FetchCategoryBlockingExact ==
  ASSUME Typed, NEW g \in Bodies, Settled(g), Keyed(g), Exact(g),
         FetchCategoryBlocking(g), g \notin refused'
  PROVE  Exact(g)'
<1> USE QueryNames
<1> DEFINE rq == ParseRequest(g)
           W == Wanted(Seen, rq)
<1>1. /\ LoopsTyped /\ UNCHANGED <<Seen, targetted, features>>
      /\ pc[g] = "fetchCategoryBlocking" /\ targetted[g] = {} /\ features[g] = {}
  BY SeenStays DEF FetchCategoryBlocking, Query, dbvars, Typed, Keyed, LoopsTyped
<1>2. PICK a \in Least(todo[g], "ads_id"), keep \in BOOLEAN :
        /\ keep = CategoryPasses(advertiser[g], SelectCategories(Seen, a.advertiser_id), rq)
        /\ Visited(g, a, keep, "fetchAdvertiserAgain", "fetchAdsFeature")
  <2>1. PICK failed \in {FALSE, PingFails}, a \in Least(todo[g], "ads_id") :
          LET ids == Found("fetchCategoryBlocking", SelectCategories(db, a.advertiser_id))
              categories == IF failed THEN {{}} ELSE {ids} \ {{}}
          IN  /\ Query(g, "fetchCategoryBlocking", failed)
              /\ Visited(g, a, ~Blocks(advertiser[g], categories, rq),
                         "fetchAdvertiserAgain", "fetchAdsFeature")
    BY DEF FetchCategoryBlocking
  <2> DEFINE ids == SelectCategories(Seen, a.advertiser_id)
  <2>2. /\ failed = FALSE
        /\ Found("fetchCategoryBlocking", SelectCategories(db, a.advertiser_id)) = ids
    BY <1>1, <2>1, QuietFinds, NotRefused
  <2>3. Visited(g, a, ~Blocks(advertiser[g], {ids} \ {{}}, rq),
                "fetchAdvertiserAgain", "fetchAdsFeature")
    BY <2>1, <2>2
  <2>4. ~Blocks(advertiser[g], {ids} \ {{}}, rq) <=> CategoryPasses(advertiser[g], ids, rq)
    <3> HIDE DEF ids
    <3>1. \A x : x \in {ids} \ {{}} <=> x = ids /\ ids # {}
      OBVIOUS
    <3> QED
      BY <3>1 DEF Blocks, CategoryPasses
  <2>5. CategoryPasses(advertiser[g], ids, rq) \in BOOLEAN
        /\ (~Blocks(advertiser[g], {ids} \ {{}}, rq)) \in BOOLEAN
    BY DEF Blocks, CategoryPasses
  <2>6. Visited(g, a, CategoryPasses(advertiser[g], ids, rq),
                "fetchAdvertiserAgain", "fetchAdsFeature")
    BY <2>3, <2>4, <2>5
  <2> QED
    BY <2>5, <2>6
<1>3. /\ a \in todo[g]
      /\ advertiser[g] = SelectAdvertiser(Seen, a.advertiser_id)
  BY <1>1 DEF Exact, AdvertiserExact, Least
<1>4. /\ todo[g] \subseteq Unblocked(Seen, rq)
      /\ kept[g] = W \ todo[g]
      /\ keep <=> a \in W
      /\ W \in SUBSET Unblocked(Seen, rq)
  BY <1>1, <1>2, <1>3, QuietRows DEF Exact, CategoriesExact, Wanted
<1>5. \/ /\ pc'[g] = "fetchAdvertiserAgain"
         /\ todo'[g] \subseteq Unblocked(Seen, rq)
         /\ kept'[g] = W \ todo'[g]
      \/ Begin(g, "fetchAdsFeature", W)
  <2>1. LoopsTyped /\ Visited(g, a, keep, "fetchAdvertiserAgain", "fetchAdsFeature")
    BY <1>1, <1>2
  <2>2. a \in todo[g]
    BY <1>3
  <2> HIDE DEF rq
  <2>3. GoesOn(g, Unblocked(Seen, rq), W, "fetchAdvertiserAgain", "fetchAdsFeature")
    BY <1>4, <2>1, <2>2, FilterGoesOn
  <2> QED
    BY <2>3 DEF GoesOn
<1>6. CASE Begin(g, "fetchAdsFeature", W)
  <2>1. W \in SUBSET Ads /\ Unique(W, "ads_id") /\ Representatives(Taken(Seen), rq) \subseteq W
    BY QuietRows
  <2>2. /\ kept'[g] = W
        /\ pc'[g] = IF W = {} THEN "reply" ELSE "fetchAdsFeature"
        /\ \A b \in todo'[g] : b \in W /\ todo'[g] = Group(W, b)
    BY <1>1, <1>6, <2>1, LastLoopBegins
  <2>3. FeaturesOf(Seen, {}) = {}
    BY DEF FeaturesOf
  <2>4. FeaturesExact(g)'
    BY <1>1, <2>1, <2>2, <2>3 DEF FeaturesExact, Group, FeaturesOf
  <2>5. TargetsExact(g)'
    BY <1>1, <2>1, <2>2 DEF TargetsExact
  <2> QED
    BY <2>2, <2>4, <2>5 DEF Exact, SizesExact, DomainsExact, CategoriesExact,
       AdvertiserExact
<1>7. CASE /\ pc'[g] = "fetchAdvertiserAgain"
           /\ todo'[g] \subseteq Unblocked(Seen, rq)
           /\ kept'[g] = W \ todo'[g]
  <2>1. CategoriesExact(g)'
    BY <1>1, <1>7 DEF CategoriesExact
  <2> QED
    BY <1>7, <2>1 DEF Exact, SizesExact, DomainsExact, AdvertiserExact,
       FeaturesExact, TargetsExact
<1> QED
  BY <1>5, <1>6, <1>7

(* The distance is the same from both sides.                                *)
LEMMA SameNearest ==
  ASSUME NEW ads_features \in SUBSET AdsFeature, NEW n \in Int
  PROVE  FeatureTargeting(ads_features, n) = Nearest(ads_features, n)
<1>1. \A f \in ads_features : Abs(f.feature - n) = Abs(n - f.feature)
  BY DEF AdsFeature, Abs
<1> QED
  BY <1>1 DEF FeatureTargeting, Nearest

(* The last loop: the features read are those of the *)
(* advertiser's ads, and the nearest is that of its representative.         *)
LEMMA FetchAdsFeatureExact ==
  ASSUME Typed, NEW g \in Bodies, Settled(g), Keyed(g), Exact(g),
         FetchAdsFeature(g), g \notin refused'
  PROVE  Exact(g)'
<1> USE QueryNames
<1> DEFINE rq == ParseRequest(g)
           W == Wanted(Seen, rq)
<1>1. /\ LoopsTyped /\ RestTyped /\ UNCHANGED Seen
      /\ pc[g] = "fetchAdsFeature"
  BY SeenStays DEF FetchAdsFeature, Query, dbvars, Typed, Keyed, LoopsTyped
<1>2. PICK a \in todo[g] :
        LET ads_features == features[g] \cup SelectAdsFeature(Seen, a.ads_id)
        IN  IF todo[g] \ {a} # {}
            THEN /\ todo' = [todo EXCEPT ![g] = todo[g] \ {a}]
                 /\ features' = [features EXCEPT ![g] = ads_features]
                 /\ UNCHANGED <<pc, kept, targetted>>
            ELSE EndOfAdvertiser(g, a, ads_features)
  <2>1. PICK failed \in {FALSE, PingFails}, a \in Least(todo[g], "ads_id") :
          LET rest == todo[g] \ {a}
              found == IF failed THEN {ZeroFeature(a.ads_id)}
                       ELSE Found("fetchAdsFeature", SelectAdsFeature(db, a.ads_id))
              ads_features == features[g] \cup found
          IN  /\ Query(g, "fetchAdsFeature", failed)
              /\ IF rest # {}
                 THEN /\ todo' = [todo EXCEPT ![g] = rest]
                      /\ features' = [features EXCEPT ![g] = ads_features]
                      /\ UNCHANGED <<pc, kept, targetted>>
                 ELSE EndOfAdvertiser(g, a, ads_features)
    BY DEF FetchAdsFeature
  <2>2. /\ failed = FALSE
        /\ Found("fetchAdsFeature", SelectAdsFeature(db, a.ads_id)) =
             SelectAdsFeature(Seen, a.ads_id)
    BY <1>1, <2>1, QuietFinds, NotRefused
  <2>3. a \in todo[g]
    BY DEF Least
  <2> QED
    BY <2>1, <2>2, <2>3
<1> DEFINE G == Group(kept[g], a)
           T == FeaturesOf(Seen, G \ (todo[g] \ {a}))
<1>3. /\ kept[g] \subseteq W
      /\ \A b \in kept[g] : Group(W, b) \subseteq kept[g]
      /\ targetted[g] = Representatives(Taken(Seen), rq) \ kept[g]
      /\ a \in kept[g] /\ todo[g] \subseteq G /\ a \in W
      /\ features[g] = FeaturesOf(Seen, G \ todo[g])
  BY <1>1 DEF Exact, FeaturesExact
<1>4. /\ rq \in Request /\ W \subseteq Ads /\ Unique(W, "ads_id")
      /\ Representatives(Taken(Seen), rq) \subseteq W /\ Tabular(Seen)
  BY QuietRows, QuietFinds
<1>5. SelectAdsFeature(Seen, a.ads_id) = {f \in Seen["ads_features"] : f.ads_id = a.ads_id}
  BY DEF SelectAdsFeature
<1>6. features[g] \cup SelectAdsFeature(Seen, a.ads_id) = T
  BY <1>3, <1>5 DEF FeaturesOf, Group
<1>7. CASE todo[g] \ {a} # {}
  <2>1. /\ todo'[g] = todo[g] \ {a} /\ features'[g] = T
        /\ pc' = pc /\ kept' = kept /\ targetted' = targetted
    BY <1>1, <1>2, <1>6, <1>7 DEF LoopsTyped, RestTyped
  <2>2. \A b \in todo'[g] : b \in kept[g] /\ Group(kept[g], b) = G
    BY <1>3, <2>1 DEF Group
  <2>3. FeaturesExact(g)'
    BY <1>1, <1>3, <2>1, <2>2 DEF FeaturesExact
  <2> QED
    BY <1>1, <2>1, <2>3 DEF Exact, SizesExact, DomainsExact, CategoriesExact,
       AdvertiserExact, TargetsExact
<1>8. CASE todo[g] \ {a} = {}
  <2>1. G = Group(W, a)
    BY <1>3 DEF Group
  <2> DEFINE best == {b \in G : \E f \in Nearest(FeaturesOf(Seen, G), rq.zone_feature) :
                        b.ads_id = f.ads_id}
             rest == kept[g] \ G
  <2>2. T = FeaturesOf(Seen, G)
    BY <1>8
  <2>3. best = {b \in G : b \in Representatives(Taken(Seen), rq)}
    BY <1>4, <1>3, <2>1, NearestIsRepresentative
  <2>4. EndOfAdvertiser(g, a, FeaturesOf(Seen, G))
    BY <1>2, <1>6, <1>8, <2>2
  <2>5. /\ targetted'[g] = targetted[g] \cup best
        /\ features'[g] = {}
        /\ Begin(g, "fetchAdsFeature", rest)
    <3>1. FeaturesOf(Seen, G) \in SUBSET AdsFeature /\ rq.zone_feature \in Int
      BY <1>4 DEF FeaturesOf, Tabular, Request
    <3>2. FeatureTargeting(FeaturesOf(Seen, G), rq.zone_feature) =
            Nearest(FeaturesOf(Seen, G), rq.zone_feature)
      BY <3>1, SameNearest
    <3> QED
      BY <1>1, <2>4, <3>2 DEF EndOfAdvertiser, RestTyped, Group
  <2>6. targetted'[g] = Representatives(Taken(Seen), rq) \ rest
    BY <1>3, <2>3, <2>5
  <2>7. rest \in SUBSET Ads /\ Unique(rest, "ads_id") /\ rest \subseteq W
    BY <1>3, <1>4 DEF Unique
  <2>8. /\ kept'[g] = rest
        /\ pc'[g] = IF rest = {} THEN "reply" ELSE "fetchAdsFeature"
        /\ \A b \in todo'[g] : b \in rest /\ todo'[g] = Group(rest, b)
    BY <1>1, <2>5, <2>7, LastLoopBegins
  <2>9. \A b \in rest : Group(W, b) \subseteq rest
    BY <1>3 DEF Group
  <2>10. FeaturesExact(g)'
    BY <1>1, <2>5, <2>6, <2>7, <2>8, <2>9 DEF FeaturesExact, Group, FeaturesOf
  <2>11. TargetsExact(g)'
    BY <1>1, <2>6, <2>8 DEF TargetsExact
  <2> QED
    BY <2>8, <2>10, <2>11 DEF Exact, SizesExact, DomainsExact, CategoriesExact,
       AdvertiserExact
<1> QED
  BY <1>7, <1>8

(* The sort's first ad is the winner of the documents.                      *)
LEMMA WinnerIsDocumented ==
  ASSUME NEW d, NEW rq, Representatives(d, rq) \subseteq Ads
  PROVE  {Bid(a) : a \in Winner(Representatives(d, rq))} = DocumentedAnswer(d, rq)
<1> DEFINE R == Representatives(d, rq)
<1>1. \A a \in R : a.price \in Nat /\ a.ads_id \in Nat
  BY DEF Ads
<1>2. \A a \in R : a \in Winner(R) <=> a \in Winners(d, rq)
  BY <1>1 DEF Winner, Winners, Least
<1>3. Winner(R) = Winners(d, rq)
  BY <1>2 DEF Winner, Winners, Least
<1> QED
  BY <1>3 DEF DocumentedAnswer

(* A goroutine that has asked the database goes on, or has an answer to send. *)
LEMMA AskingGoesOn ==
  ASSUME Typed, NEW g \in Bodies, Asks(g)
  PROVE  /\ UNCHANGED <<answer, dbvars>>
         /\ pc[g] \in Queries /\ pc'[g] \in Queries \cup {"reply"}
<1>1. pc \in [Bodies -> Queries \cup Outside \cup {"reply"}]
  BY DEF Typed, LoopsTyped
<1>2. /\ pc[g] \in Queries /\ UNCHANGED <<threads, answer, dbvars>>
      /\ \E place \in Queries \cup {"reply"} : pc' = [pc EXCEPT ![g] = place]
  BY <1>1, AskingPlace
<1> QED
  BY <1>1, <1>2

(* MySQL refuses the goroutine that asks, and what it has refused stays so. *)
LEMMA RefusesTheAsking ==
  ASSUME Typed, NEW g \in Bodies, Asks(g)
  PROVE  /\ refused \subseteq refused'
         /\ \A h \in Bodies \ {g} : h \in refused' <=> h \in refused
<1>1. PICK statement \in Queries, failed \in {FALSE, PingFails} :
        Query(g, statement, failed)
  BY QueryNames
     DEF Asks, FetchAdses, FetchAdSize, FetchAdvertiser, FetchAdvertiserAgain,
         FetchCategoryBlocking, FetchAdsFeature
<1> QED
  BY <1>1, FailedIsBoolean, QueryFrame

AllExact == \A g \in Bodies \ refused : Settled(g) => Exact(g)

LEMMA InitExact == Init => AllExact
BY QueryNames DEF Init, AllExact, Exact, SizesExact, DomainsExact, CategoriesExact,
   AdvertiserExact, FeaturesExact, TargetsExact

(* A goroutine whose locals do not change stays exact.                      *)
LEMMA SameLocals ==
  ASSUME NEW g \in Bodies, Exact(g), UNCHANGED Seen,
         pc'[g] = pc[g], todo'[g] = todo[g], kept'[g] = kept[g],
         advertiser'[g] = advertiser[g], features'[g] = features[g],
         targetted'[g] = targetted[g]
  PROVE  Exact(g)'
BY DEF Exact, SizesExact, DomainsExact, CategoriesExact, AdvertiserExact,
   FeaturesExact, TargetsExact, Least

LEMMA HandlerPlaces ==
  ASSUME Typed, NEW g \in Bodies, Acquire(g) \/ Handler(g), NEW h \in Bodies \ {g}
  PROVE  pc'[h] = pc[h]
<1> USE QueryNames DEF Outside
<1>1. CASE Acquire(g) \/ Lock(g) \/ Reply(g) \/ Release(g)
  BY <1>1 DEF Acquire, Lock, Reply, Release, Typed, LoopsTyped
<1>2. CASE Asks(g)
  <2>1. pc \in [Bodies -> Queries \cup Outside \cup {"reply"}]
    BY DEF Typed, LoopsTyped
  <2>2. \E place : pc' = [pc EXCEPT ![g] = place]
    BY <1>2, <2>1, AskingPlace
  <2> QED
    BY <2>1, <2>2
<1> QED
  BY <1>1, <1>2 DEF Handler, Asks

(* A handler's times are its own.                                           *)
LEMMA HandlerTimes ==
  ASSUME Typed, NEW g \in Bodies, Acquire(g) \/ Handler(g)
  PROVE  /\ \A h \in Bodies \ {g} :
              /\ since'[h] = since[h] /\ until'[h] = until[h]
              /\ answer'[h] = answer[h]
         /\ ~Acquire(g) => since' = since
         /\ ~Reply(g) => UNCHANGED <<until, answer>>
<1>1. CASE Acquire(g) \/ Reply(g)
  BY <1>1 DEF Acquire, Reply, Typed, RestTyped
<1>2. CASE Lock(g) \/ Release(g)
  BY <1>2 DEF Lock, Release, history
<1>3. CASE \E statement, failed : Query(g, statement, failed)
  BY <1>3 DEF Query
<1> QED
  BY <1>1, <1>2, <1>3 DEF Handler, FetchAdses, FetchAdSize, FetchAdvertiser,
     FetchAdvertiserAgain, FetchCategoryBlocking, FetchAdsFeature

LEMMA HandlerExact ==
  ASSUME Typed, NEW g \in Bodies, Keyed(g), AllExact, Acquire(g) \/ Handler(g)
  PROVE  AllExact'
<1> USE QueryNames
<1>1. UNCHANGED <<Seen, step>> /\ (Whole(step) <=> Whole(step)')
  <2>1. UNCHANGED <<old, fresh, step>>
    BY AskingGoesOn DEF Handler, Asks, Acquire, Lock, Reply, Release, dbvars
  <2> QED
    BY <2>1, SeenStays
<1>2. /\ refused \subseteq refused'
      /\ \A h \in Bodies \ {g} : h \in refused' <=> h \in refused
  BY RefusesTheAsking DEF Handler, Asks, Acquire, Lock, Reply, Release, history
<1>3. ASSUME NEW h \in Bodies \ {g}, h \notin refused', Settled(h)'
      PROVE  Exact(h)'
  <2>1. since'[h] = since[h]
    BY HandlerTimes
  <2>2. Exact(h)
    BY <1>1, <1>2, <1>3, <2>1 DEF AllExact, Settled
  <2> QED
    BY <1>1, <2>2, HandlerKeyed, SameLocals
<1>4. ASSUME g \notin refused', Settled(g)'
      PROVE  Exact(g)'
  <2>1. ~Acquire(g) => Settled(g) /\ Exact(g)
    BY <1>1, <1>2, <1>4, HandlerTimes DEF AllExact, Settled
  <2>2. CASE Asks(g)
    <3>1. Settled(g) /\ Exact(g)
      BY <2>1, <2>2, QueryNames, AskingGoesOn DEF Acquire
    <3> QED
      BY <1>4, <2>2, <3>1, <2>2, FetchAdsesExact, FetchAdSizeExact, FetchAdvertiserExact,
         FetchAdvertiserAgainExact, FetchCategoryBlockingExact, FetchAdsFeatureExact
         DEF Asks
  <2>3. CASE Acquire(g) \/ Reply(g) \/ Release(g)
    <3>1. pc'[g] \in {"fetchAdses", "release", "done"}
      BY <2>3 DEF Acquire, Reply, Release, Typed, LoopsTyped
    <3> QED
      BY <3>1 DEF Exact, SizesExact, DomainsExact, CategoriesExact, AdvertiserExact,
         FeaturesExact, TargetsExact
  <2>4. CASE Lock(g)
    <3>1. UNCHANGED <<pc, locals>> /\ ~Acquire(g)
      BY <2>4, QueryNames DEF Lock, Acquire
    <3> QED
      BY <1>1, <2>1, <3>1, SameLocals DEF locals
  <2> QED
    BY <2>2, <2>3, <2>4 DEF Handler, Asks
<1> QED
  BY <1>3, <1>4 DEF AllExact

(* A step of the script unsettles every request that is being served.       *)
LEMMA SetupExact ==
  ASSUME Typed, Checked, Setup
  PROVE  AllExact'
<1>1. since' = since /\ step' = step + 1 /\ step \in 0..LastStep
  BY DEF Setup, SetupDB, DropDatabase, CreateTable, LoadTable, history, Typed, DBTypeOK
<1>2. \A g \in Bodies : since[g] \in 0..LastStep /\ since[g] <= step
  BY DEF Checked, Began, Typed, RestTyped
<1>3. \A g \in Bodies : since'[g] # step'
  BY <1>1, <1>2 DEF LastStep
<1> QED
  BY <1>3 DEF AllExact, Settled

LEMMA NextExact ==
  Typed /\ AllKeyed /\ Checked /\ AllExact /\ [Next]_vars => AllExact'
<1> SUFFICES ASSUME Typed, AllKeyed, Checked, AllExact, [Next]_vars
             PROVE  AllExact'
  OBVIOUS
<1>1. CASE UNCHANGED vars
  <2>1. UNCHANGED <<old, fresh, step, pc, locals, since, refused>>
    BY <1>1 DEF vars, dbvars, history
  <2>2. UNCHANGED Seen /\ (Whole(step) <=> Whole(step)')
    BY <2>1, SeenStays
  <2> QED
    BY <2>1, <2>2, SameLocals DEF AllExact, Settled, locals
<1>2. ASSUME NEW g \in Bodies, Acquire(g) \/ Handler(g)
      PROVE  AllExact'
  BY <1>2, HandlerExact DEF AllKeyed
<1> QED
  BY <1>1, <1>2, SetupExact DEF Next

(* Before the script the contents stand still under every request.          *)
LEMMA SettledBeforeSetup ==
  ASSUME Typed, NEW g \in Bodies, Began(g), step = 0
  PROVE  Settled(g) /\ Seen = Scanned(old)
<1>1. since[g] = 0
  BY DEF Typed, RestTyped, LastStep, Began
<1>2. DBAt(0) = old
  BY DEF DBAt
<1>3. DOMAIN old = Tables
  BY RowTypes DEF Typed, IsDatabase, Tabular
<1> QED
  BY <1>1, <1>2, <1>3 DEF Settled, Whole, Seen, db

(* A step after which the script has not begun is none of the script.       *)
LEMMA StepBeforeSetup ==
  ASSUME Typed, [Next]_vars, step' = 0
  PROVE  ~Setup /\ UNCHANGED <<old, step>>
<1>1. ~Setup
  <2> SUFFICES ASSUME Setup PROVE FALSE
    OBVIOUS
  <2>1. step \in Nat /\ step' = step + 1
    BY DEF Typed, DBTypeOK, Setup, SetupDB, DropDatabase, CreateTable, LoadTable
  <2> QED
    BY <2>1
<1>2. CASE UNCHANGED vars
  BY <1>1, <1>2 DEF vars, dbvars
<1>3. ASSUME NEW g \in Bodies, Acquire(g) \/ Handler(g)
      PROVE  UNCHANGED <<old, step>>
  BY <1>3, AskingGoesOn DEF Handler, Asks, Acquire, Lock, Reply, Release, dbvars
<1> QED
  BY <1>1, <1>2, <1>3 DEF Next
-----------------------------------------------------------------------------
(* What AnsweredFromOneState asks of an answer is what the sort returns.    *)
Due(v, rq) == DocumentedAnswer(Taken(Scanned(DBAt(v))), rq)

IsDue(g) ==
  since[g] = until[g] /\ Whole(since[g]) =>
    answer[g] = Due(since[g], ParseRequest(g))

AllDue == \A g \in Served : IsDue(g)

LEMMA DueIsRigid ==
  ASSUME UNCHANGED <<old, fresh>>, NEW v \in 0..LastStep
  PROVE  (Whole(v) <=> Whole(v)') /\ \A rq : Due(v, rq)' = Due(v, rq)
BY HistoryIsRigid DEF Due, Whole

LEMMA IsDueLasts ==
  ASSUME Typed, UNCHANGED <<old, fresh>>, NEW g \in Bodies, IsDue(g),
         since'[g] = since[g], until'[g] = until[g], answer'[g] = answer[g]
  PROVE  IsDue(g)'
<1>1. since[g] \in 0..LastStep
  BY DEF Typed, RestTyped
<1> QED
  BY <1>1, DueIsRigid DEF IsDue

LEMMA ReplyIsDue ==
  ASSUME Typed, NEW g \in Bodies, Settled(g), Exact(g), Reply(g)
  PROVE  answer'[g] = Due(step, ParseRequest(g))
<1>1. targetted[g] = Representatives(Taken(Seen), ParseRequest(g))
  BY DEF Reply, Exact, TargetsExact
<1>2. Representatives(Taken(Seen), ParseRequest(g)) \subseteq Ads
  <2>1. Representatives(Taken(Seen), ParseRequest(g)) \subseteq Wanted(Seen, ParseRequest(g))
        /\ Wanted(Seen, ParseRequest(g)) \subseteq Ads
    BY QuietRows
  <2> QED
    BY <2>1
<1>3. answer'[g] = {Bid(a) : a \in Winner(targetted[g])}
  BY DEF Reply, Typed, RestTyped
<1> QED
  BY <1>1, <1>2, <1>3, WinnerIsDocumented DEF Due, Seen, db

LEMMA HandlerDue ==
  ASSUME Typed, AllExact, AllDue, NEW g \in Bodies, Acquire(g) \/ Handler(g)
  PROVE  AllDue'
<1> USE QueryNames
<1>1. UNCHANGED <<old, fresh, step>>
  BY AskingGoesOn DEF Handler, Asks, Acquire, Lock, Reply, Release, dbvars
<1>2. refused \subseteq refused'
  BY RefusesTheAsking DEF Handler, Asks, Acquire, Lock, Reply, Release, history
<1>3. ASSUME NEW h \in Bodies \ {g}, h \in Served'
      PROVE  IsDue(h)'
  <2>1. h \in Served
    BY <1>2, <1>3, HandlerPlaces DEF Served
  <2> QED
    BY <1>1, <2>1, IsDueLasts, HandlerTimes DEF AllDue
<1>4. ASSUME g \in Served'
      PROVE  IsDue(g)'
  <2>1. CASE Reply(g)
    <3>1. /\ since'[g] = since[g] /\ until'[g] = step
          /\ g \notin refused /\ since[g] \in 0..LastStep
      BY <1>4, <2>1 DEF Reply, Typed, RestTyped, Served
    <3>2. ASSUME since[g] = step, Whole(since[g])
          PROVE  answer'[g] = Due(since[g], ParseRequest(g))
      BY <2>1, <3>1, <3>2, ReplyIsDue DEF AllExact, Settled
    <3> QED
      BY <1>1, <3>1, <3>2, DueIsRigid DEF IsDue
  <2>2. CASE Release(g)
    <3>1. g \in Served /\ UNCHANGED <<since, until, answer>>
      BY <1>2, <1>4, <2>2 DEF Release, history, Served
    <3> QED
      BY <1>1, <3>1, IsDueLasts DEF AllDue
  <2>3. CASE Acquire(g) \/ Lock(g) \/ Asks(g)
    <3>1. pc'[g] \in Queries \cup {"reply"}
      BY <2>3, AskingGoesOn DEF Acquire, Lock, Typed, LoopsTyped
    <3> QED
      BY <1>4, <3>1 DEF Served
  <2> QED
    BY <2>1, <2>2, <2>3 DEF Handler, Asks
<1> QED
  BY <1>3, <1>4 DEF AllDue, Served

(* Over any contents, whatever the other goroutines and the script do: a    *)
(* request during which no table was missing and the contents stood still,  *)
(* and to which MySQL refused no connection, has exactly the answer of the  *)
(* documents over the contents as they are scanned and taken.               *)
THEOREM AnswersFromOneState == Spec => []AnsweredFromOneState
<1>1. Init => AllDue
  BY DEF Init, AllDue, Served
<1>2. Typed /\ AllExact /\ AllDue /\ [Next]_vars => AllDue'
  <2> SUFFICES ASSUME Typed, AllExact, AllDue, [Next]_vars PROVE AllDue'
    OBVIOUS
  <2>1. CASE UNCHANGED vars \/ Setup
    <3>1. UNCHANGED <<old, fresh, pc, answer, history>>
      BY <2>1, SetupFrame DEF vars, dbvars
    <3>2. Served' = Served /\ Served \subseteq Bodies
      BY <3>1 DEF Served, history
    <3> QED
      BY <3>1, <3>2, IsDueLasts DEF AllDue, history
  <2> QED
    BY <2>1, HandlerDue DEF Next
<1>3. AllDue => AnsweredFromOneState
  BY DEF AllDue, IsDue, Due, AnsweredFromOneState
<1> QED
  BY <1>1, <1>2, <1>3, InitExact, NextExact, InitTyped, NextTyped, InitKeyed, NextKeyed,
     InitChecked, NextChecked, PTL DEF Spec
-----------------------------------------------------------------------------
(* A goroutine that gets its place takes a request of the service, a reply  *)
(* answers it, unless MySQL has refused the goroutine a connection, and     *)
(* every other statement is not seen by the clients.                        *)
OneBodyEach == \A b, c \in Bodies : ParseRequest(b) = ParseRequest(c) => b = c

Waiting == {ParseRequest(g) : g \in {h \in Bodies : pc[h] = "arrived"}}
Handling == [g \in Bodies |-> IF pc[g] = "arrived" \/ g \in Served
                              THEN {} ELSE {ParseRequest(g)}]
Sent == {[request |-> ParseRequest(g), answer |-> answer[g]] : g \in Served}

(* Answers that are sent are not changed.                                   *)
LEMMA SentStays ==
  ASSUME Served' = Served, \A g \in Served : answer'[g] = answer[g]
  PROVE  Sent' = Sent
<1>1. Sent' = {[request |-> ParseRequest(g), answer |-> answer'[g]] : g \in Served}
  BY DEF Sent
<1> QED
  BY <1>1 DEF Sent

LEMMA AcquireTakes ==
  ASSUME Typed, OneBodyEach, NEW g \in Bodies, Acquire(g)
  PROVE  Promise!Take(g)
<1> USE QueryNames DEF Outside
<1>1. /\ pc \in [Bodies -> Queries \cup Outside \cup {"reply"}]
      /\ pc[g] = "arrived" /\ pc' = [pc EXCEPT ![g] = "fetchAdses"]
      /\ UNCHANGED <<answer, refused, dbvars>>
  BY DEF Acquire, Typed, LoopsTyped
<1>2. Waiting' = Waiting \ {ParseRequest(g)} /\ ParseRequest(g) \in Waiting
  BY <1>1 DEF OneBodyEach, Waiting
<1>3. Served' = Served /\ g \notin Served
  BY <1>1 DEF Served
<1>4. Handling' = [Handling EXCEPT ![g] = {ParseRequest(g)}] /\ Handling[g] = {}
  BY <1>1, <1>3 DEF Handling
<1>5. Sent' = Sent
  BY <1>1, <1>3, SentStays
<1> QED
  BY <1>1, <1>2, <1>4, <1>5
     DEF Promise!Take, Promise!dbvars, dbvars, Waiting, Handling, Sent

(* The rules of the service are those of the server's module.               *)
LEMMA SameRules ==
  /\ step = 0 => Promise!db = Taken(Scanned(old))
  /\ \A d, rq : Promise!DocumentedAnswer(d, rq) = DocumentedAnswer(d, rq)
<1>1. step = 0 => Promise!db = Taken(Scanned(old))
  BY DEF Promise!db, Promise!DBAt
<1>2. \A d, i : /\ Promise!SelectAdses(d) = SelectAdses(d)
               /\ Promise!SelectAdSize(d, i) = SelectAdSize(d, i)
               /\ Promise!SelectAdvertiser(d, i) = SelectAdvertiser(d, i)
               /\ Promise!SelectCategories(d, i) = SelectCategories(d, i)
               /\ Promise!SelectAdsFeature(d, i) = SelectAdsFeature(d, i)
  BY DEF Promise!SelectAdses, Promise!SelectAdSize, Promise!SelectAdvertiser,
     Promise!SelectCategories, Promise!SelectAdsFeature, SelectAdses, SelectAdSize,
     SelectAdvertiser, SelectCategories, SelectAdsFeature
<1>3. \A d, rq, a : Promise!Candidate(d, rq, a) <=> Candidate(d, rq, a)
  BY <1>2 DEF Promise!Candidate, Promise!SizeFits, Promise!DomainBlocked,
     Promise!Deliverable, Promise!ALLOW, Candidate, SizeFits, DomainBlocked, Deliverable,
     ALLOW
<1>4. \A d, rq, a : Promise!Distances(d, rq, a) = Distances(d, rq, a)
  BY <1>2 DEF Promise!Distances, Promise!Abs, Distances, Abs
<1>5. \A d, rq : Promise!Candidates(d, rq) = Candidates(d, rq)
  BY <1>2, <1>3, <1>4 DEF Promise!Candidates, Candidates
<1>6. \A d, rq, a, b : Promise!Nearer(d, rq, a, b) <=> Nearer(d, rq, a, b)
  BY <1>4 DEF Promise!Nearer, Nearer
<1>7. \A d, rq : Promise!Representatives(d, rq) = Representatives(d, rq)
  BY <1>5, <1>6 DEF Promise!Representatives, Representatives
<1>8. \A d, rq : Promise!Winners(d, rq) = Winners(d, rq)
  BY <1>7 DEF Promise!Winners, Winners
<1> QED
  BY <1>1, <1>8 DEF Promise!DocumentedAnswer, DocumentedAnswer, Promise!Bid, Bid

LEMMA ReplyAnswers ==
  ASSUME Typed, AllExact, NEW g \in Bodies \ refused, Began(g), step = 0, Reply(g)
  PROVE  Promise!Answer(g)
<1> USE QueryNames DEF Outside
<1>1. /\ pc \in [Bodies -> Queries \cup Outside \cup {"reply"}]
      /\ answer \in [Bodies -> SUBSET [ads : AdTexts, price : Nat]]
      /\ pc[g] = "reply" /\ pc' = [pc EXCEPT ![g] = "release"]
      /\ answer' = [answer EXCEPT ![g] = {Bid(a) : a \in Winner(targetted[g])}]
      /\ UNCHANGED <<refused, dbvars>>
  BY DEF Reply, Typed, LoopsTyped, RestTyped
<1>2. answer'[g] = DocumentedAnswer(Taken(Scanned(old)), ParseRequest(g))
  BY SettledBeforeSetup, ReplyIsDue DEF AllExact, Due, DBAt
<1>3. Served' = Served \cup {g} /\ g \notin Served
  BY <1>1 DEF Served
<1>4. Sent' = Sent \cup
        {[request |-> ParseRequest(g),
          answer |-> DocumentedAnswer(Taken(Scanned(old)), ParseRequest(g))]}
  <2>1. \A h \in Served : answer'[h] = answer[h]
    BY <1>1, <1>3 DEF Served
  <2>2. Sent' = {[request |-> ParseRequest(h), answer |-> answer'[h]] : h \in Served \cup {g}}
    BY <1>3 DEF Sent
  <2>3. Sent = {[request |-> ParseRequest(h), answer |-> answer'[h]] : h \in Served}
    BY <2>1 DEF Sent
  <2>4. Sent' = Sent \cup {[request |-> ParseRequest(g), answer |-> answer'[g]]}
    BY <2>2, <2>3
  <2> QED
    BY <1>2, <2>4
<1>5. Waiting' = Waiting
  <2>1. {b \in Bodies : pc'[b] = "arrived"} = {b \in Bodies : pc[b] = "arrived"}
    BY <1>1
  <2> QED
    BY <2>1 DEF Waiting
<1>6. Handling' = [Handling EXCEPT ![g] = {}] /\ Handling[g] = {ParseRequest(g)}
  BY <1>1, <1>3 DEF Handling
<1> QED
  BY <1>1, <1>4, <1>5, <1>6, SameRules
     DEF Promise!Answer, Promise!dbvars, dbvars, Waiting, Handling, Sent

(* Nothing that a client sees happens.                                      *)
LEMMA StutterUnseen ==
  ASSUME UNCHANGED dbvars, Served' = Served, \A h \in Served : answer'[h] = answer[h],
         \A h \in Bodies : pc'[h] = "arrived" <=> pc[h] = "arrived"
  PROVE  UNCHANGED Promise!servicevars
<1>1. {b \in Bodies : pc'[b] = "arrived"} = {b \in Bodies : pc[b] = "arrived"}
  OBVIOUS
<1>2. Waiting' = Waiting
  BY <1>1 DEF Waiting
<1>3. Handling' = Handling
  BY DEF Handling
<1>4. Sent' = Sent
  BY SentStays
<1> QED
  BY <1>2, <1>3, <1>4
     DEF Promise!servicevars, Promise!dbvars, dbvars, Waiting, Handling, Sent

(* What MySQL refused changes nothing that a client may count on.           *)
LEMMA RefusedUnseen ==
  ASSUME Typed, NEW g \in Bodies, g \in refused, Reply(g)
  PROVE  UNCHANGED Promise!servicevars
<1> USE QueryNames DEF Outside
<1>1. /\ pc[g] = "reply" /\ pc'[g] = "release"
      /\ \A h \in Bodies \ {g} : pc'[h] = pc[h] /\ answer'[h] = answer[h]
      /\ UNCHANGED <<refused, dbvars>>
  BY DEF Reply, Typed, LoopsTyped, RestTyped
<1>2. Served' = Served /\ g \notin Served /\ Served \subseteq Bodies
  BY <1>1 DEF Served
<1> QED
  BY <1>1, <1>2, StutterUnseen

LEMMA HandlerServes ==
  ASSUME Typed, step = 0, OneBodyEach, AllExact, NEW g \in Bodies, Keyed(g),
         Began(g), Acquire(g) \/ Handler(g)
  PROVE  [Promise!ServiceNext]_(Promise!servicevars)
<1> USE QueryNames DEF Outside
<1>1. CASE Acquire(g)
  BY <1>1, AcquireTakes DEF Promise!ServiceNext
<1>2. CASE Reply(g)
  BY <1>2, ReplyAnswers, RefusedUnseen DEF Promise!ServiceNext
<1>3. CASE Lock(g)
  <2>1. UNCHANGED <<pc, answer, refused, dbvars>>
    BY <1>3 DEF Lock, history
  <2>2. Served' = Served
    BY <2>1 DEF Served
  <2> QED
    BY <2>1, <2>2, StutterUnseen
<1>4. CASE Release(g)
  <2>1. /\ UNCHANGED <<answer, refused, dbvars>> /\ pc[g] = "release" /\ pc'[g] = "done"
        /\ \A h \in Bodies \ {g} : pc'[h] = pc[h]
    BY <1>4 DEF Release, Typed, LoopsTyped, history
  <2>2. Served' = Served
    BY <2>1 DEF Served
  <2> QED
    BY <2>1, <2>2, StutterUnseen
<1>5. CASE Asks(g)
  <2>1. /\ UNCHANGED <<answer, dbvars>>
        /\ pc[g] \in Queries /\ pc'[g] \in Queries \cup {"reply"}
    BY <1>5, AskingGoesOn
  <2>2. \A h \in Bodies \ {g} : pc'[h] = pc[h]
    BY HandlerKeyed
  <2>3. \A h \in Bodies \ {g} : h \in refused' <=> h \in refused
    BY <1>5, RefusesTheAsking
  <2>4. Served' = Served
    BY <2>1, <2>2, <2>3 DEF Served
  <2> QED
    BY <2>1, <2>2, <2>4, StutterUnseen
<1> QED
  BY <1>1, <1>2, <1>3, <1>4, <1>5 DEF Handler, Asks

(* A step before the script's first command is one of the service or is not *)
(* seen.                                                                    *)
LEMMA StepServes ==
  ASSUME OneBodyEach, Typed, AllKeyed, Checked, AllExact, step' = 0, [Next]_vars
  PROVE  [Promise!ServiceNext]_(Promise!servicevars)
<1>1. ~Setup /\ step = 0
  BY StepBeforeSetup
<1>2. CASE UNCHANGED vars
  <2>1. UNCHANGED <<pc, answer, refused, dbvars>>
    BY <1>2 DEF vars, history
  <2>2. Served' = Served
    BY <2>1 DEF Served
  <2> QED
    BY <2>1, <2>2, StutterUnseen
<1>3. ASSUME NEW g \in Bodies, Acquire(g) \/ Handler(g)
      PROVE  [Promise!ServiceNext]_(Promise!servicevars)
  BY <1>1, <1>3, HandlerServes DEF AllKeyed, Checked
<1> QED
  BY <1>1, <1>2, <1>3 DEF Next

(* For any requests of which no two parse to one, any number of places, any *)
(* contents in which every advertiser has a category and one of the two     *)
(* types and any connections that MySQL refuses: while nobody changes the   *)
(* database, the server starts as the service over these contents does, and *)
(* each of its steps is a step of the service or is not seen; in whatever   *)
(* order a map gives its advertisers.  Only the requests that MySQL refused *)
(* go without the service's answer.                                         *)
THEOREM StepsKeepPromise ==
  ASSUME Reloading = FALSE,
         \A r \in Reloads : Conforms(r.old),
         OneBodyEach
  PROVE  Spec => Promise!ServiceInit /\ [][Promise!ServiceNext]_(Promise!servicevars)
<1> DEFINE Quiet == step = 0
<1>1. ASSUME Init
      PROVE  Promise!ServiceInit /\ Quiet
  <2>1. PICK r \in Reloads : old = r.old /\ fresh = r.fresh /\ step = 0
    BY <1>1 DEF Init, DBInit
  <2>2. Taken(Scanned(old)) = r.old
    BY <2>1, ReloadsAreDatabases, TakenAsTheyAre, ScannedAsTheyAre
  <2>3. Promise!DBInit
    BY <2>1, <2>2 DEF Promise!DBInit
  <2>4. Waiting \in SUBSET Promise!Request
    BY <1>1, BodiesParse DEF Init, Promise!Request, Request, Waiting
  <2>5. Handling = [g \in Bodies |-> {}]
    BY <1>1 DEF Init, Handling
  <2>6. Sent = {}
    <3>1. Served = {}
      BY <1>1 DEF Init, Served
    <3> QED
      BY <3>1 DEF Sent
  <2> QED
    BY <1>1, <2>1, <2>3, <2>4, <2>5, <2>6
       DEF Promise!ServiceInit, Waiting, Handling, Sent
<1>2. ASSUME Typed, Quiet, [Next]_vars
      PROVE  Quiet'
  <2>1. ~Setup
    BY <1>2 DEF Setup, SetupDB, DropDatabase, CreateTable, LoadTable
  <2>2. CASE UNCHANGED vars
    BY <1>2, <2>2 DEF vars, dbvars
  <2>3. ASSUME NEW g \in Bodies, Acquire(g) \/ Handler(g)
        PROVE  UNCHANGED step
    BY <1>2, <2>3, AskingGoesOn
       DEF Handler, Asks, Acquire, Lock, Reply, Release, dbvars
  <2> QED
    BY <1>2, <2>1, <2>2, <2>3 DEF Next
<1>3. ASSUME Typed, AllKeyed, Checked, AllExact, Quiet', [Next]_vars
      PROVE  [Promise!ServiceNext]_(Promise!servicevars)
  BY <1>3, StepServes
<1> HIDE DEF Quiet
<1> QED
  BY <1>1, <1>2, <1>3, InitExact, NextExact, InitTyped, NextTyped, InitKeyed, NextKeyed,
     InitChecked, NextChecked, PTL DEF Spec

(* The same up to the first command of setup_db.sh, whenever it comes, over *)
(* the contents as they are scanned and taken, for any contents and reloads. *)
THEOREM ServesUntilSetup ==
  ASSUME OneBodyEach
  PROVE  Spec => ServesBeforeSetup
<1>1. ASSUME Typed, AllKeyed, Checked, AllExact, [Next]_vars
      PROVE  step' = 0 => [Promise!ServiceNext]_(Promise!servicevars)
  BY <1>1, StepServes
<1> QED
  BY <1>1, InitExact, NextExact, InitTyped, NextTyped, InitKeyed, NextKeyed, InitChecked,
     NextChecked, PTL DEF Spec, ServesBeforeSetup
=============================================================================
