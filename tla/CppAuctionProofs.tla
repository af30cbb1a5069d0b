--------------------------- MODULE CppAuctionProofs ---------------------------
(***************************************************************************)
(* Proofs about CppAuction for any number of threads, any requests and any *)
(* contents of the database, before, during and after setup_db.sh.         *)
(***************************************************************************)
EXTENDS CppAuction, AuctionChecksProofs, TLAPS

(* What a thread holds when it holds no request is a request too.           *)
LEMMA NoRequestType == NoRequest \in Request
<1>1. NoRequest = [auction_id |-> NoAuctionId, category_ids |-> {}, zone_feature |-> 0,
                   zone_width |-> 0, zone_height |-> 0, block_domains |-> {}]
  BY DEF NoRequest, ParseRequest, Member
<1> QED
  BY <1>1, NoAuctionIdIsId DEF Request
-----------------------------------------------------------------------------
(* Type correctness.                                                        *)
LoopsTyped ==
  /\ pc \in [Threads -> Queries \cup {"idle", "reply"}]
  /\ todo \in [Threads -> SUBSET Ads]
  /\ kept \in [Threads -> SUBSET Ads]

LEMMA BeginTyped ==
  ASSUME LoopsTyped, NEW t \in Threads, NEW statement \in Queries,
         NEW rows \in SUBSET Ads, Begin(t, statement, rows)
  PROVE  LoopsTyped'
BY DEF LoopsTyped, Begin, Least

LEMMA VisitedTyped ==
  ASSUME LoopsTyped, NEW t \in Threads, NEW a \in Ads, NEW keep \in BOOLEAN,
         NEW statement \in Queries, NEW following \in Queries,
         Visited(t, a, keep, statement, following)
  PROVE  LoopsTyped'
<1> DEFINE rows == IF keep THEN kept[t] \cup {a} ELSE kept[t]
<1>1. rows \in SUBSET Ads
  BY DEF LoopsTyped
<1>2. CASE todo[t] \ {a} # {}
  BY <1>2, <1>1 DEF Visited, LoopsTyped
<1>3. CASE todo[t] \ {a} = {}
  <2>1. Begin(t, following, rows)
    BY <1>3 DEF Visited
  <2> QED
    BY <2>1, <1>1, BeginTyped
<1> QED
  BY <1>2, <1>3

(* The lock and the locals that no loop works on.                           *)
RestTyped ==
  /\ inbox \subseteq Bodies
  /\ request \in [Threads -> Request]
  /\ advertiser \in [Threads -> SUBSET Advertiser]
  /\ features \in [Threads -> SUBSET AdsFeature]
  /\ targetted \in [Threads -> SUBSET Ads]
  /\ mut \subseteq Threads
  /\ ended \in {"no", "parse", "query", "type", "assert"}
  /\ since \in [Threads -> 0..LastStep]
  /\ sent \subseteq [request : Request, since : 0..LastStep, until : 0..LastStep,
                     answer : SUBSET [ads : AdTexts, price : Nat]]

LEMMA TypeParts == TypeOK <=> DBTypeOK /\ LoopsTyped /\ RestTyped
BY DEF TypeOK, DBTypeOK, LoopsTyped, RestTyped

LEMMA TypeInit == Init => TypeOK
BY NoRequestType DEF Init, DBInit, TypeOK, LastStep

LEMMA SetupTyped ==
  ASSUME TypeOK, Setup
  PROVE  TypeOK'
BY DEF TypeOK, Setup, SetupDB, DropDatabase, CreateTable, LoadTable, LastStep,
       locals

LEMMA BidTyped ==
  ASSUME NEW rows \in SUBSET Ads
  PROVE  {Bid(a) : a \in Front(rows)} \in SUBSET [ads : AdTexts, price : Nat]
BY DEF Bid, Front, Least, Ads

LEMMA ThreadTyped ==
  ASSUME TypeOK, NEW t \in Threads, Thread(t)
  PROVE  TypeOK'
<1> USE QueryNames
<1>1. DBTypeOK /\ LoopsTyped /\ RestTyped
  BY TypeParts
<1>2. CASE UNCHANGED dbvars /\ LoopsTyped' /\ RestTyped'
  BY <1>1, <1>2 DEF TypeOK, DBTypeOK, LoopsTyped, RestTyped, dbvars
<1>3. CASE Dispatch(t)
  BY <1>1, <1>2, <1>3, BodiesParse DEF Dispatch, LoopsTyped, RestTyped, DBTypeOK
<1>4. CASE Lock(t)
  BY <1>1, <1>2, <1>4 DEF Lock, locals, LoopsTyped, RestTyped
<1>5. CASE QueryThrows(t)
  BY <1>1, <1>2, <1>5 DEF QueryThrows, locals, LoopsTyped, RestTyped
<1>6. CASE Reply(t)
  <2>1. LoopsTyped'
    BY <1>1, <1>6 DEF Reply, LoopsTyped
  <2>2. {Bid(a) : a \in Front(targetted[t])} \in SUBSET [ads : AdTexts, price : Nat]
    BY <1>1, BidTyped DEF RestTyped
  <2>3. RestTyped'
    BY <1>1, <1>6, <2>2, NoRequestType DEF Reply, RestTyped, DBTypeOK, LastStep
  <2> QED
    BY <1>2, <1>6, <2>1, <2>3 DEF Reply
<1>7. CASE FetchAdses(t)
  <2>1. SelectAdses(db) \in SUBSET Ads
    BY <1>1, <1>7, QueryTypes DEF FetchAdses, Query, TableOf, db, DBTypeOK
  <2>2. LoopsTyped'
    BY <1>1, <1>7, <2>1, BeginTyped DEF FetchAdses
  <2>3. RestTyped'
    BY <1>1, <1>7 DEF FetchAdses, Query, RestTyped
  <2> QED
    BY <1>2, <1>7, <2>2, <2>3 DEF FetchAdses, Query
<1>8. ASSUME NEW a \in Least(todo[t], "ads_id")
      PROVE  a \in Ads
  BY <1>1, <1>8 DEF Least, LoopsTyped
<1>9. CASE FetchAdSize(t)
  <2>1. LoopsTyped'
    BY <1>1, <1>8, <1>9, VisitedTyped DEF FetchAdSize, SizeMatches
  <2>2. RestTyped'
    BY <1>1, <1>9 DEF FetchAdSize, Query, RestTyped
  <2> QED
    BY <1>2, <1>9, <2>1, <2>2 DEF FetchAdSize, Query
<1>10. CASE FetchAdvertiser(t)
  <2>1. LoopsTyped'
    BY <1>1, <1>8, <1>10, VisitedTyped DEF FetchAdvertiser, DomainPasses
  <2>2. RestTyped'
    BY <1>1, <1>10 DEF FetchAdvertiser, Query, RestTyped
  <2> QED
    BY <1>2, <1>10, <2>1, <2>2 DEF FetchAdvertiser, Query
<1>11. CASE FetchAdvertiserAgain(t)
  <2>1. LoopsTyped'
    BY <1>1, <1>11 DEF FetchAdvertiserAgain, LoopsTyped
  <2>2. \A i : SelectAdvertiser(db, i) \subseteq Advertiser
    BY <1>1, <1>11, QueryTypes DEF FetchAdvertiserAgain, Query, TableOf, db, DBTypeOK
  <2>3. RestTyped'
    BY <1>1, <1>11, <2>2 DEF FetchAdvertiserAgain, Query, RestTyped
  <2> QED
    BY <1>2, <1>11, <2>1, <2>3 DEF FetchAdvertiserAgain, Query
<1>12. CASE FetchCategoryBlocking(t)
  <2>1. LoopsTyped'
    BY <1>1, <1>8, <1>12, VisitedTyped DEF FetchCategoryBlocking, CategoryPasses
  <2>2. RestTyped'
    BY <1>1, <1>12 DEF FetchCategoryBlocking, Query, RestTyped
  <2> QED
    BY <1>2, <1>12, <2>1, <2>2 DEF FetchCategoryBlocking, Query
<1>13. CASE FetchAdsFeature(t)
  <2>1. \A i : SelectAdsFeature(db, i) \subseteq AdsFeature
    BY <1>1, <1>13, QueryTypes DEF FetchAdsFeature, Query, TableOf, db, DBTypeOK
  <2>2. PICK a \in Least(todo[t], "ads_id") :
          LET rest == todo[t] \ {a}
              ads_features == features[t] \cup SelectAdsFeature(db, a.ads_id)
          IN  IF rest # {}
              THEN /\ todo' = [todo EXCEPT ![t] = rest]
                   /\ features' = [features EXCEPT ![t] = ads_features]
                   /\ UNCHANGED <<pc, kept, targetted, ended>>
              ELSE EndOfAdvertiser(t, ads_features)
    BY <1>13 DEF FetchAdsFeature
  <2> DEFINE ads_features == features[t] \cup SelectAdsFeature(db, a.ads_id)
  <2>3. ads_features \in SUBSET AdsFeature
    BY <1>1, <2>1 DEF RestTyped
  <2>4. CASE todo[t] \ {a} # {}
    <3>1. LoopsTyped'
      BY <1>1, <2>2, <2>4 DEF LoopsTyped
    <3>2. RestTyped'
      BY <1>1, <1>13, <2>2, <2>3, <2>4 DEF FetchAdsFeature, Query, RestTyped
    <3> QED
      BY <1>2, <1>13, <3>1, <3>2 DEF FetchAdsFeature, Query
  <2>5. CASE todo[t] \ {a} = {}
    <3>1. EndOfAdvertiser(t, ads_features)
      BY <2>2, <2>5
    <3>2. kept[t] \ Least(kept[t], "advertiser_id") \in SUBSET Ads
      BY <1>1 DEF LoopsTyped
    <3>3. LoopsTyped'
      BY <1>1, <3>1, <3>2, BeginTyped DEF EndOfAdvertiser
    <3>4. RestTyped'
      BY <1>1, <1>13, <3>1 DEF FetchAdsFeature, Query, RestTyped, EndOfAdvertiser,
         LoopsTyped, Least
    <3> QED
      BY <1>2, <1>13, <3>3, <3>4 DEF FetchAdsFeature, Query
  <2> QED
    BY <2>4, <2>5
<1> QED
  BY <1>3, <1>4, <1>5, <1>6, <1>7, <1>9, <1>10, <1>11, <1>12, <1>13 DEF Thread

(* Every reachable state is typed, for any threads, requests and contents.  *)
THEOREM TypeCorrect == Spec => []TypeOK
<1>1. ASSUME TypeOK, [Next]_vars
      PROVE  TypeOK'
  <2>1. CASE UNCHANGED vars
    BY <1>1, <2>1 DEF vars, locals, dbvars, TypeOK
  <2>2. CASE Setup
    BY <1>1, <2>2, SetupTyped
  <2>3. CASE \E t \in Threads : Thread(t)
    BY <1>1, <2>3, ThreadTyped
  <2> QED
    BY <1>1, <2>1, <2>2, <2>3 DEF Next
<1> QED
  BY <1>1, TypeInit, PTL DEF Spec
-----------------------------------------------------------------------------
(* What each row a thread holds has passed so far, at every statement: the  *)
(* inductive invariant behind WinnerWasChecked.                             *)
SizeLoop(t) ==
  pc[t] = "fetchAdSize" =>
    /\ \A a \in todo[t] : Read(a, since[t], step)
    /\ \A a \in kept[t] : ReadAndFits(a, request[t], since[t], step)

DomainLoop(t) ==
  pc[t] = "fetchAdvertiser" =>
    /\ \A a \in todo[t] : ReadAndFits(a, request[t], since[t], step)
    /\ \A a \in kept[t] : AlsoDomain(a, request[t], since[t], step)

CategoryLoop(t) ==
  pc[t] \in {"fetchAdvertiserAgain", "fetchCategoryBlocking"} =>
    /\ \A a \in todo[t] : AlsoDomain(a, request[t], since[t], step)
    /\ \A a \in kept[t] : AlsoCategory(a, request[t], since[t], step)

BetweenReads(t) ==
  pc[t] = "fetchCategoryBlocking" =>
    \A a \in Least(todo[t], "ads_id") :
      AdvertiserRead(a, request[t], advertiser[t], since[t], step)

FeatureLoop(t) ==
  pc[t] = "fetchAdsFeature" =>
    /\ \A a \in kept[t] : AlsoCategory(a, request[t], since[t], step)
    /\ \A f \in features[t] : \A a \in kept[t] :
         a.ads_id = f.ads_id => AlsoFeature(a, request[t], since[t], step)

Keyed(t) == Unique(todo[t] \cup kept[t], "ads_id")

Outcome(t) ==
  /\ pc[t] # "idle" => since[t] <= step
  /\ pc[t] # "fetchAdsFeature" => features[t] = {}
  /\ pc[t] \notin {"fetchAdsFeature", "reply"} => targetted[t] = {}
  /\ \A a \in targetted[t] : AlsoFeature(a, request[t], since[t], step)

Stage(t) ==
  /\ SizeLoop(t)
  /\ DomainLoop(t)
  /\ CategoryLoop(t)
  /\ BetweenReads(t)
  /\ FeatureLoop(t)
  /\ Keyed(t)
  /\ Outcome(t)

Checked == (\A t \in Threads : Stage(t)) /\ WinnerWasChecked

LEMMA Frame ==
  ASSUME TypeOK, UNCHANGED <<old, fresh>>, step' \in 0..LastStep, step <= step',
         NEW u \in Threads, Stage(u), pc'[u] = pc[u], request'[u] = request[u],
         todo'[u] = todo[u], kept'[u] = kept[u], advertiser'[u] = advertiser[u],
         features'[u] = features[u], targetted'[u] = targetted[u],
         since'[u] = since[u]
  PROVE  Stage(u)'
<1>1. since[u] \in 0..LastStep /\ step \in 0..LastStep
  BY DEF TypeOK
<1>2. SizeLoop(u)'
  BY <1>1, Persists DEF Stage, SizeLoop
<1>3. DomainLoop(u)'
  BY <1>1, Persists DEF Stage, DomainLoop
<1>4. CategoryLoop(u)'
  BY <1>1, Persists DEF Stage, CategoryLoop
<1>5. BetweenReads(u)'
  BY <1>1, Persists DEF Stage, BetweenReads, Least
<1>6. FeatureLoop(u)'
  BY <1>1, Persists DEF Stage, FeatureLoop
<1>7. Keyed(u)'
  BY DEF Stage, Keyed
<1>8. Outcome(u)'
  BY <1>1, Persists DEF Stage, Outcome, LastStep
<1> QED
  BY <1>2, <1>3, <1>4, <1>5, <1>6, <1>8, <1>7 DEF Stage

LEMMA AnswersPersist ==
  ASSUME TypeOK, UNCHANGED <<old, fresh>>, NEW m \in sent, NEW bid \in m.answer,
         WinnerWasChecked
  PROVE  \E a \in old'["adses"] \cup fresh'["adses"] :
           bid = Bid(a) /\ AlsoFeature(a, m.request, m.since, m.until)'
<1>1. m.since \in 0..LastStep /\ m.until \in 0..LastStep
  BY DEF TypeOK
<1>2. PICK a \in old["adses"] \cup fresh["adses"] :
        bid = Bid(a) /\ AlsoFeature(a, m.request, m.since, m.until)
  BY DEF WinnerWasChecked
<1> QED
  BY <1>1, <1>2, AlsoFeatureIsRigid

LEMMA BeginRows ==
  ASSUME LoopsTyped, NEW t \in Threads, NEW statement \in Queries,
         NEW rows \in SUBSET Ads, Begin(t, statement, rows)
  PROVE  /\ \A u \in Threads \ {t} :
              pc'[u] = pc[u] /\ todo'[u] = todo[u] /\ kept'[u] = kept[u]
         /\ pc'[t] \in {statement, "reply"}
         /\ todo'[t] \subseteq rows
         /\ statement # "fetchAdsFeature" => kept'[t] = {}
         /\ statement = "fetchAdsFeature" => kept'[t] = rows
BY DEF LoopsTyped, Begin, Least

(* The loop goes on with the rows that are left, or the next one begins     *)
(* with the rows that were kept.                                            *)
Advances(t, rows, statement, following) ==
  \/ /\ pc'[t] = statement
     /\ todo'[t] \subseteq todo[t]
     /\ kept'[t] = rows
  \/ /\ pc'[t] \in {following, "reply"}
     /\ todo'[t] \subseteq rows
     /\ kept'[t] \subseteq rows
     /\ following # "fetchAdsFeature" => kept'[t] = {}
     /\ following = "fetchAdsFeature" => kept'[t] = rows

LEMMA VisitedAdvances ==
  ASSUME LoopsTyped, NEW t \in Threads, NEW a \in todo[t], NEW keep \in BOOLEAN,
         NEW statement \in Queries, NEW following \in Queries,
         Visited(t, a, keep, statement, following)
  PROVE  Advances(t, IF keep THEN kept[t] \cup {a} ELSE kept[t], statement, following)
<1> DEFINE rows == IF keep THEN kept[t] \cup {a} ELSE kept[t]
<1>1. rows \in SUBSET Ads
  BY DEF LoopsTyped
<1>2. CASE todo[t] \ {a} # {}
  BY <1>1, <1>2 DEF Visited, LoopsTyped, Advances
<1>3. CASE todo[t] \ {a} = {}
  <2>1. Begin(t, following, rows)
    BY <1>3 DEF Visited
  <2> QED
    BY <1>1, <2>1, BeginRows DEF Advances
<1> QED
  BY <1>2, <1>3

LEMMA BeginOthers ==
  ASSUME LoopsTyped, NEW t \in Threads, NEW statement, NEW rows,
         Begin(t, statement, rows), NEW u \in Threads \ {t}
  PROVE  pc'[u] = pc[u] /\ todo'[u] = todo[u] /\ kept'[u] = kept[u]
BY DEF Begin, LoopsTyped

LEMMA VisitedOthers ==
  ASSUME LoopsTyped, NEW t \in Threads, NEW a, NEW keep, NEW statement, NEW following,
         Visited(t, a, keep, statement, following), NEW u \in Threads \ {t}
  PROVE  pc'[u] = pc[u] /\ todo'[u] = todo[u] /\ kept'[u] = kept[u]
<1>1. CASE todo[t] \ {a} # {}
  BY <1>1 DEF Visited, LoopsTyped
<1>2. CASE todo[t] \ {a} = {}
  BY <1>2, BeginOthers DEF Visited
<1> QED
  BY <1>1, <1>2

(* What a query action leaves alone.                                        *)
LEMMA QueryFrame ==
  ASSUME TypeOK, NEW t \in Threads, NEW statement \in Queries, Query(t, statement)
  PROVE  /\ UNCHANGED <<old, fresh, step, request, since, sent>>
         /\ step \in 0..LastStep /\ step' \in 0..LastStep /\ step <= step'
         /\ since[t] \in 0..LastStep
         /\ pc[t] = statement
         /\ Exists(TableOf[statement], step)
         /\ DBAt(step) = db
BY DEF Query, dbvars, TypeOK, Exists, db, LastStep

LEMMA FetchAdsesStage ==
  ASSUME TypeOK, NEW t \in Threads, Stage(t), FetchAdses(t)
  PROVE  Stage(t)'
<1> USE QueryNames
<1>1. /\ UNCHANGED <<old, fresh, step, request, since, sent>>
      /\ step \in 0..LastStep /\ step' \in 0..LastStep /\ step <= step' /\ since[t] \in 0..LastStep
      /\ pc[t] = "fetchAdses" /\ Exists("adses", step) /\ DBAt(step) = db
  BY QueryFrame DEF FetchAdses, TableOf
<1>2. step \in since[t]..step
  BY <1>1 DEF Stage, Outcome, LastStep
<1>3. SelectAdses(db) \in SUBSET Ads
  BY <1>1, QueryTypes DEF Exists, TypeOK, DBTypeOK
<1>4. /\ pc'[t] \in {"fetchAdSize", "reply"}
      /\ todo'[t] \subseteq SelectAdses(db)
      /\ kept'[t] = {}
  BY <1>3, BeginRows, TypeParts DEF FetchAdses
<1>5. \A a \in SelectAdses(db) : Read(a, since[t], step)
  BY <1>1, <1>2 DEF Read
<1>6. \A a \in SelectAdses(db) : Read(a, since[t], step)'
  BY <1>1, <1>5, Persists
<1>7. SizeLoop(t)'
  BY <1>1, <1>4, <1>6 DEF SizeLoop
<1>8. Outcome(t)'
  BY <1>1, <1>4 DEF FetchAdses, Stage, Outcome
<1>9. Keyed(t)'
  BY <1>1, <1>4, AdsesKeyed DEF Keyed, Unique, Exists, TypeOK, DBTypeOK
<1> QED
  BY <1>4, <1>7, <1>8, <1>9 DEF Stage, DomainLoop, CategoryLoop, BetweenReads, FeatureLoop

LEMMA FetchAdSizeStage ==
  ASSUME TypeOK, NEW t \in Threads, Stage(t), FetchAdSize(t)
  PROVE  Stage(t)'
<1> USE QueryNames
<1>1. /\ UNCHANGED <<old, fresh, step, request, since, sent>>
      /\ step \in 0..LastStep /\ step' \in 0..LastStep /\ step <= step' /\ since[t] \in 0..LastStep
      /\ pc[t] = "fetchAdSize" /\ Exists("ads_sizes", step) /\ DBAt(step) = db
  BY QueryFrame DEF FetchAdSize, TableOf
<1>2. step \in since[t]..step
  BY <1>1 DEF Stage, Outcome, LastStep
<1>3. PICK a \in Least(todo[t], "ads_id") :
        Visited(t, a, SizeMatches(SelectAdSize(db, a.size_id), request[t]),
                "fetchAdSize", "fetchAdvertiser")
  BY DEF FetchAdSize
<1>4. PICK keep \in BOOLEAN : keep = SizeMatches(SelectAdSize(db, a.size_id), request[t])
  BY DEF SizeMatches
<1> DEFINE rows == IF keep THEN kept[t] \cup {a} ELSE kept[t]
<1>5. a \in todo[t] /\ a \in Ads
  BY DEF Least, TypeOK
<1>6. Visited(t, a, keep, "fetchAdSize", "fetchAdvertiser")
  BY <1>3, <1>4
<1>7. LoopsTyped
  BY TypeParts
<1>8. "fetchAdSize" \in Queries /\ "fetchAdvertiser" \in Queries
  BY QueryNames
<1>9. \/ /\ pc'[t] = "fetchAdSize"
         /\ todo'[t] \subseteq todo[t]
         /\ kept'[t] = rows
      \/ /\ pc'[t] \in {"fetchAdvertiser", "reply"}
         /\ todo'[t] \subseteq rows
         /\ kept'[t] = {}
  <2>1. Advances(t, rows, "fetchAdSize", "fetchAdvertiser")
    BY <1>5, <1>6, <1>7, <1>8, VisitedAdvances
  <2> QED
    BY <2>1 DEF Advances
<1>10. keep => ReadAndFits(a, request[t], since[t], step)
  BY <1>1, <1>2, <1>5, <1>4 DEF ReadAndFits, Stage, SizeLoop
<1>11. \A b \in todo[t] : Read(b, since[t], step)'
  BY <1>1, Persists DEF Stage, SizeLoop
<1>12. \A b \in rows : ReadAndFits(b, request[t], since[t], step)'
  BY <1>1, <1>10, Persists DEF Stage, SizeLoop
<1>13. SizeLoop(t)' /\ DomainLoop(t)'
  BY <1>1, <1>9, <1>11, <1>12 DEF SizeLoop, DomainLoop
<1>14. Outcome(t)'
  BY <1>1, <1>9 DEF FetchAdSize, Stage, Outcome
<1>15. Keyed(t)'
  BY <1>5, <1>9 DEF Stage, Keyed, Unique
<1> QED
  BY <1>9, <1>13, <1>14, <1>15 DEF Stage, CategoryLoop, BetweenReads, FeatureLoop

LEMMA FetchAdvertiserStage ==
  ASSUME TypeOK, NEW t \in Threads, Stage(t), FetchAdvertiser(t)
  PROVE  Stage(t)'
<1> USE QueryNames
<1>1. /\ UNCHANGED <<old, fresh, step, request, since, sent>>
      /\ step \in 0..LastStep /\ step' \in 0..LastStep /\ step <= step' /\ since[t] \in 0..LastStep
      /\ pc[t] = "fetchAdvertiser" /\ Exists("advertisers", step) /\ DBAt(step) = db
  BY QueryFrame DEF FetchAdvertiser, TableOf
<1>2. step \in since[t]..step
  BY <1>1 DEF Stage, Outcome, LastStep
<1>3. PICK a \in Least(todo[t], "ads_id") :
        Visited(t, a, DomainPasses(SelectAdvertiser(db, a.advertiser_id), request[t]),
                "fetchAdvertiser", "fetchAdvertiserAgain")
  BY DEF FetchAdvertiser
<1>4. PICK keep \in BOOLEAN : keep = DomainPasses(SelectAdvertiser(db, a.advertiser_id), request[t])
  BY DEF DomainPasses
<1> DEFINE rows == IF keep THEN kept[t] \cup {a} ELSE kept[t]
<1>5. a \in todo[t] /\ a \in Ads
  BY DEF Least, TypeOK
<1>6. Visited(t, a, keep, "fetchAdvertiser", "fetchAdvertiserAgain")
  BY <1>3, <1>4
<1>7. LoopsTyped
  BY TypeParts
<1>8. "fetchAdvertiser" \in Queries /\ "fetchAdvertiserAgain" \in Queries
  BY QueryNames
<1>9. \/ /\ pc'[t] = "fetchAdvertiser"
         /\ todo'[t] \subseteq todo[t]
         /\ kept'[t] = rows
      \/ /\ pc'[t] \in {"fetchAdvertiserAgain", "reply"}
         /\ todo'[t] \subseteq rows
         /\ kept'[t] = {}
  <2>1. Advances(t, rows, "fetchAdvertiser", "fetchAdvertiserAgain")
    BY <1>5, <1>6, <1>7, <1>8, VisitedAdvances
  <2> QED
    BY <2>1 DEF Advances
<1>10. keep => AlsoDomain(a, request[t], since[t], step)
  BY <1>1, <1>2, <1>5, <1>4 DEF AlsoDomain, Stage, DomainLoop
<1>11. \A b \in todo[t] : ReadAndFits(b, request[t], since[t], step)'
  BY <1>1, Persists DEF Stage, DomainLoop
<1>12. \A b \in rows : AlsoDomain(b, request[t], since[t], step)'
  BY <1>1, <1>10, Persists DEF Stage, DomainLoop
<1>13. DomainLoop(t)' /\ CategoryLoop(t)'
  BY <1>1, <1>9, <1>11, <1>12 DEF DomainLoop, CategoryLoop
<1>14. Outcome(t)'
  BY <1>1, <1>9 DEF FetchAdvertiser, Stage, Outcome
<1>15. Keyed(t)'
  BY <1>5, <1>9 DEF Stage, Keyed, Unique
<1> QED
  BY <1>9, <1>13, <1>14, <1>15 DEF Stage, SizeLoop, BetweenReads, FeatureLoop

LEMMA FetchAdvertiserAgainStage ==
  ASSUME TypeOK, NEW t \in Threads, Stage(t), FetchAdvertiserAgain(t)
  PROVE  Stage(t)'
<1> USE QueryNames
<1>1. /\ UNCHANGED <<old, fresh, step, request, since, sent>>
      /\ step \in 0..LastStep /\ step' \in 0..LastStep /\ step <= step' /\ since[t] \in 0..LastStep
      /\ pc[t] = "fetchAdvertiserAgain" /\ Exists("advertisers", step)
      /\ DBAt(step) = db
  BY QueryFrame DEF FetchAdvertiserAgain, TableOf
<1>2. step \in since[t]..step
  BY <1>1 DEF Stage, Outcome, LastStep
<1>3. PICK a \in Least(todo[t], "ads_id") :
        advertiser' = [advertiser EXCEPT ![t] = SelectAdvertiser(db, a.advertiser_id)]
  BY DEF FetchAdvertiserAgain
<1>4. pc'[t] = "fetchCategoryBlocking" /\ todo' = todo /\ kept' = kept
  BY DEF FetchAdvertiserAgain, TypeOK
<1>5. CategoryLoop(t)'
  BY <1>1, <1>4, Persists DEF Stage, CategoryLoop
<1>6. BetweenReads(t)'
  <2>1. \A b \in Least(todo[t], "ads_id") : b = a
    BY <1>3 DEF Least, Stage, Keyed, Unique, TypeOK, Ads
  <2>2. PICK found : found = SelectAdvertiser(db, a.advertiser_id)
    OBVIOUS
  <2>3. AdvertiserRead(a, request[t], found, since[t], step)
    BY <1>1, <1>2, <1>3, <2>2 DEF AdvertiserRead, Stage, CategoryLoop, Least
  <2>4. AdvertiserRead(a, request[t], found, since[t], step)'
    BY <1>1, <2>3, Persists
  <2>5. advertiser'[t] = found
    BY <1>3, <2>2 DEF TypeOK
  <2>6. Least(todo[t], "ads_id")' = Least(todo[t], "ads_id")
    BY <1>4 DEF Least
  <2> QED
    BY <2>1, <2>4, <2>5, <2>6 DEF BetweenReads
<1>7. Outcome(t)' /\ Keyed(t)'
  BY <1>1, <1>4 DEF FetchAdvertiserAgain, Stage, Outcome, Keyed
<1> QED
  BY <1>4, <1>5, <1>6, <1>7 DEF Stage, SizeLoop, DomainLoop, FeatureLoop

LEMMA FetchCategoryBlockingStage ==
  ASSUME TypeOK, NEW t \in Threads, Stage(t), FetchCategoryBlocking(t)
  PROVE  Stage(t)'
<1> USE QueryNames
<1>1. /\ UNCHANGED <<old, fresh, step, request, since, sent>>
      /\ step \in 0..LastStep /\ step' \in 0..LastStep /\ step <= step'
      /\ since[t] \in 0..LastStep
      /\ pc[t] = "fetchCategoryBlocking" /\ Exists("category_blockings", step)
      /\ DBAt(step) = db
  BY QueryFrame DEF FetchCategoryBlocking, TableOf
<1>2. step \in since[t]..step
  BY <1>1 DEF Stage, Outcome, LastStep
<1>3. PICK a \in Least(todo[t], "ads_id") :
        Visited(t, a,
                CategoryPasses(advertiser[t], SelectCategories(db, a.advertiser_id),
                               request[t]),
                "fetchAdvertiserAgain", "fetchAdsFeature")
  BY DEF FetchCategoryBlocking
<1>4. PICK keep \in BOOLEAN :
        keep = CategoryPasses(advertiser[t], SelectCategories(db, a.advertiser_id),
                              request[t])
  BY DEF CategoryPasses
<1> DEFINE rows == IF keep THEN kept[t] \cup {a} ELSE kept[t]
<1>5. a \in todo[t] /\ a \in Ads
  BY DEF Least, TypeOK
<1>6. LoopsTyped /\ Visited(t, a, keep, "fetchAdvertiserAgain", "fetchAdsFeature")
  BY <1>3, <1>4, TypeParts
<1>7. \/ /\ pc'[t] = "fetchAdvertiserAgain"
         /\ todo'[t] \subseteq todo[t]
         /\ kept'[t] = rows
      \/ /\ pc'[t] \in {"fetchAdsFeature", "reply"}
         /\ todo'[t] \subseteq rows
         /\ kept'[t] = rows
  <2>1. Advances(t, rows, "fetchAdvertiserAgain", "fetchAdsFeature")
    BY <1>5, <1>6, VisitedAdvances
  <2> QED
    BY <2>1 DEF Advances
<1>8. keep => AlsoCategory(a, request[t], since[t], step)
  <2>1. PICK u \in since[t]..step :
          /\ AlsoDomain(a, request[t], since[t], u)
          /\ Exists("advertisers", u)
          /\ advertiser[t] = SelectAdvertiser(DBAt(u), a.advertiser_id)
    BY <1>1 DEF Stage, BetweenReads, AdvertiserRead
  <2>2. u <= step
    BY <1>1, <2>1 DEF LastStep
  <2> QED
    BY <1>1, <1>2, <1>4, <2>1, <2>2 DEF AlsoCategory
<1>9. \A b \in todo[t] : AlsoDomain(b, request[t], since[t], step)'
  BY <1>1, Persists DEF Stage, CategoryLoop
<1>10. \A b \in rows : AlsoCategory(b, request[t], since[t], step)'
  BY <1>1, <1>8, Persists DEF Stage, CategoryLoop
<1>11. features'[t] = {}
  BY <1>1 DEF FetchCategoryBlocking, Stage, Outcome
<1>12. CategoryLoop(t)' /\ FeatureLoop(t)'
  BY <1>1, <1>7, <1>9, <1>10, <1>11 DEF CategoryLoop, FeatureLoop
<1>13. Outcome(t)'
  BY <1>1, <1>7, <1>11 DEF FetchCategoryBlocking, Stage, Outcome
<1>14. Keyed(t)'
  BY <1>5, <1>7 DEF Stage, Keyed, Unique
<1> QED
  BY <1>7, <1>12, <1>13, <1>14 DEF Stage, SizeLoop, DomainLoop, BetweenReads

LEMMA FetchAdsFeatureStage ==
  ASSUME TypeOK, NEW t \in Threads, Stage(t), FetchAdsFeature(t)
  PROVE  Stage(t)'
<1> USE QueryNames
<1>1. /\ UNCHANGED <<old, fresh, step, request, since, sent>>
      /\ step \in 0..LastStep /\ step' \in 0..LastStep /\ step <= step'
      /\ since[t] \in 0..LastStep
      /\ pc[t] = "fetchAdsFeature" /\ Exists("ads_features", step)
      /\ DBAt(step) = db
  BY QueryFrame DEF FetchAdsFeature, TableOf
<1>2. step \in since[t]..step
  BY <1>1 DEF Stage, Outcome, LastStep
<1>3. PICK a \in Least(todo[t], "ads_id") :
        LET rest == todo[t] \ {a}
            ads_features == features[t] \cup SelectAdsFeature(db, a.ads_id)
        IN  IF rest # {}
            THEN /\ todo' = [todo EXCEPT ![t] = rest]
                 /\ features' = [features EXCEPT ![t] = ads_features]
                 /\ UNCHANGED <<pc, kept, targetted, ended>>
            ELSE EndOfAdvertiser(t, ads_features)
  BY DEF FetchAdsFeature
<1>4. PICK ads_features :
        ads_features = features[t] \cup SelectAdsFeature(db, a.ads_id)
  OBVIOUS
<1>5. \A b \in kept[t] : AlsoCategory(b, request[t], since[t], step)
  BY <1>1 DEF Stage, FeatureLoop
<1>6. \A f \in ads_features : \A b \in kept[t] :
        b.ads_id = f.ads_id => AlsoFeature(b, request[t], since[t], step)
  <2>1. ASSUME NEW f \in SelectAdsFeature(db, a.ads_id), NEW b \in kept[t],
               b.ads_id = f.ads_id
        PROVE  AlsoFeature(b, request[t], since[t], step)
    <3>1. SelectAdsFeature(DBAt(step), b.ads_id) # {}
      BY <1>1, <2>1 DEF SelectAdsFeature
    <3> QED
      BY <1>1, <1>2, <1>5, <3>1 DEF AlsoFeature
  <2> QED
    BY <1>1, <1>4, <2>1 DEF Stage, FeatureLoop
<1>7. /\ \A b \in kept[t] : AlsoCategory(b, request[t], since[t], step)'
      /\ \A f \in ads_features : \A b \in kept[t] :
           b.ads_id = f.ads_id => AlsoFeature(b, request[t], since[t], step)'
      /\ \A b \in targetted[t] : AlsoFeature(b, request[t], since[t], step)'
  BY <1>1, <1>5, <1>6, Persists DEF Stage, Outcome
<1>8. CASE todo[t] \ {a} # {}
  <2>1. /\ pc' = pc /\ kept' = kept /\ targetted' = targetted
        /\ features'[t] = ads_features
        /\ todo'[t] \subseteq todo[t]
    BY <1>3, <1>4, <1>8 DEF TypeOK
  <2>2. FeatureLoop(t)' /\ Outcome(t)' /\ Keyed(t)'
    BY <1>1, <1>7, <2>1 DEF FeatureLoop, Outcome, Stage, Keyed, Unique
  <2> QED
    BY <1>1, <2>1, <2>2 DEF Stage, SizeLoop, DomainLoop, CategoryLoop, BetweenReads
<1>9. CASE todo[t] \ {a} = {}
  <2>1. EndOfAdvertiser(t, ads_features)
    BY <1>3, <1>4, <1>9
  <2> DEFINE adv_adses == Least(kept[t], "advertiser_id")
             best == {b \in adv_adses :
                        \E f \in featureTargeting(ads_features,
                                                  request[t].zone_feature) :
                          b.ads_id = f.ads_id}
  <2>2. /\ targetted'[t] = targetted[t] \cup best
        /\ features'[t] = {}
        /\ Begin(t, "fetchAdsFeature", kept[t] \ adv_adses)
    BY <2>1 DEF EndOfAdvertiser, TypeOK
  <2>3. /\ pc'[t] \in {"fetchAdsFeature", "reply"}
        /\ todo'[t] \subseteq kept[t] \ adv_adses
        /\ kept'[t] = kept[t] \ adv_adses
    <3>1. LoopsTyped /\ kept[t] \ adv_adses \in SUBSET Ads
      BY TypeParts DEF LoopsTyped
    <3> QED
      BY <2>2, <3>1, BeginRows
  <2>4. \A b \in best : AlsoFeature(b, request[t], since[t], step)'
    BY <1>7 DEF featureTargeting, Least
  <2>5. FeatureLoop(t)' /\ Keyed(t)'
    BY <1>1, <1>7, <2>2, <2>3 DEF FeatureLoop, Stage, Keyed, Unique
  <2>6. Outcome(t)'
    BY <1>1, <1>7, <2>2, <2>3, <2>4 DEF Outcome, Stage
  <2> QED
    BY <2>3, <2>5, <2>6 DEF Stage, SizeLoop, DomainLoop, CategoryLoop, BetweenReads
<1> QED
  BY <1>8, <1>9

(* A step leaves the threads beside it alone.                               *)
LEMMA OthersLocals ==
  ASSUME TypeOK, NEW t \in Threads, Thread(t), NEW u \in Threads \ {t}
  PROVE  /\ pc'[u] = pc[u] /\ request'[u] = request[u] /\ todo'[u] = todo[u]
         /\ kept'[u] = kept[u] /\ advertiser'[u] = advertiser[u]
         /\ features'[u] = features[u] /\ targetted'[u] = targetted[u]
         /\ since'[u] = since[u]
<1>1. LoopsTyped /\ RestTyped
  BY TypeParts
<1>2. CASE Dispatch(t) \/ Lock(t) \/ QueryThrows(t) \/ Reply(t)
  BY <1>1, <1>2 DEF Dispatch, Lock, QueryThrows, Reply, locals, LoopsTyped, RestTyped
<1>3. ASSUME NEW statement, Query(t, statement)
      PROVE  request'[u] = request[u] /\ since'[u] = since[u]
  BY <1>3 DEF Query
<1>4. CASE FetchAdses(t)
  BY <1>1, <1>3, <1>4, BeginOthers DEF FetchAdses
<1>5. CASE FetchAdSize(t)
  BY <1>1, <1>3, <1>5, VisitedOthers DEF FetchAdSize
<1>6. CASE FetchAdvertiser(t)
  BY <1>1, <1>3, <1>6, VisitedOthers DEF FetchAdvertiser
<1>7. CASE FetchAdvertiserAgain(t)
  BY <1>1, <1>3, <1>7 DEF FetchAdvertiserAgain, LoopsTyped, RestTyped
<1>8. CASE FetchCategoryBlocking(t)
  <2>1. pc'[u] = pc[u] /\ todo'[u] = todo[u] /\ kept'[u] = kept[u]
    BY <1>1, <1>8, VisitedOthers DEF FetchCategoryBlocking
  <2> QED
    BY <1>1, <1>3, <1>8, <2>1 DEF FetchCategoryBlocking, RestTyped
<1>9. CASE FetchAdsFeature(t)
  <2>1. /\ pc'[u] = pc[u] /\ todo'[u] = todo[u] /\ kept'[u] = kept[u]
        /\ features'[u] = features[u] /\ targetted'[u] = targetted[u]
    BY <1>1, <1>9, BeginOthers DEF FetchAdsFeature, EndOfAdvertiser, LoopsTyped, RestTyped
  <2> QED
    BY <1>3, <1>9, <2>1 DEF FetchAdsFeature
<1> QED
  BY <1>2, <1>4, <1>5, <1>6, <1>7, <1>8, <1>9 DEF Thread

LEMMA OthersKeepStage ==
  ASSUME TypeOK, NEW t \in Threads, Thread(t), NEW u \in Threads \ {t}, Stage(u)
  PROVE  Stage(u)'
<1>1. UNCHANGED <<old, fresh, step>> /\ step' \in 0..LastStep /\ step <= step'
  BY DEF Thread, Dispatch, Lock, FetchAdses, FetchAdSize, FetchAdvertiser,
     FetchAdvertiserAgain, FetchCategoryBlocking, FetchAdsFeature, QueryThrows,
     Reply, Query, dbvars, TypeOK, LastStep
<1> QED
  BY <1>1, OthersLocals, Frame

LEMMA ReplyStage ==
  ASSUME TypeOK, NEW t \in Threads, Stage(t), WinnerWasChecked, Reply(t)
  PROVE  Stage(t)' /\ WinnerWasChecked'
<1>1. /\ pc[t] = "reply" /\ pc'[t] = "idle"
      /\ UNCHANGED <<old, fresh, step>>
      /\ targetted'[t] = {} /\ features'[t] = features[t]
      /\ todo' = todo /\ kept' = kept
  BY DEF Reply, TypeOK, dbvars
<1>2. Stage(t)'
  BY <1>1 DEF Stage, SizeLoop, DomainLoop, CategoryLoop, BetweenReads, FeatureLoop,
     Outcome, Keyed, Unique
<1>3. ASSUME NEW m \in sent', NEW bid \in m.answer
      PROVE  \E a \in old'["adses"] \cup fresh'["adses"] :
               bid = Bid(a) /\ AlsoFeature(a, m.request, m.since, m.until)'
  <2>1. CASE m \in sent
    BY <1>1, <1>3, <2>1, AnswersPersist
  <2>2. CASE m = [request |-> request[t], since |-> since[t], until |-> step,
                  answer |-> {Bid(a) : a \in Front(targetted[t])}]
    <3>1. PICK a \in targetted[t] : bid = Bid(a)
      BY <1>3, <2>2 DEF Front, Least
    <3>2. AlsoFeature(a, request[t], since[t], step)
      BY <3>1 DEF Stage, Outcome
    <3>3. m.request = request[t] /\ m.since = since[t] /\ m.until = step
      BY <2>2
    <3>4. since[t] \in 0..LastStep /\ step \in 0..LastStep /\ DBTypeOK
      BY DEF TypeOK, DBTypeOK
    <3>5. PICK v \in since[t]..step : Exists("adses", v) /\ a \in SelectAdses(DBAt(v))
      BY <3>2, <3>4 DEF AlsoFeature, AlsoCategory, AlsoDomain, ReadAndFits, Read,
         LastStep
    <3>6. v \in 0..LastStep
      BY <3>4, <3>5 DEF LastStep
    <3>7. a \in old["adses"] \cup fresh["adses"]
      BY <3>4, <3>5, <3>6, RowsOfTable, TableNames DEF Exists, SelectAdses
    <3>8. AlsoFeature(a, m.request, m.since, m.until)
      BY <3>2, <3>3
    <3>9. AlsoFeature(a, m.request, m.since, m.until)'
      BY <1>1, <3>3, <3>4, <3>8, AlsoFeatureIsRigid
    <3> QED
      BY <1>1, <3>1, <3>7, <3>9
  <2> QED
    BY <1>3, <2>1, <2>2 DEF Reply
<1> QED
  BY <1>2, <1>3 DEF WinnerWasChecked

LEMMA DispatchStage ==
  ASSUME TypeOK, NEW t \in Threads, Stage(t), Dispatch(t)
  PROVE  Stage(t)'
<1>1. /\ pc[t] = "idle" /\ pc'[t] = "fetchAdses" /\ since'[t] = step /\ step' = step
      /\ targetted' = targetted /\ features' = features
      /\ todo' = todo /\ kept' = kept
  BY DEF Dispatch, TypeOK, dbvars
<1>2. step \in 0..LastStep
  BY DEF TypeOK
<1> QED
  BY <1>1, <1>2 DEF Stage, SizeLoop, DomainLoop, CategoryLoop, BetweenReads,
     FeatureLoop, Outcome, Keyed, LastStep

(* Every row a thread holds has passed the checks before the thread's       *)
(* statement, in every reachable state.                                     *)
THEOREM RowsAreChecked == Spec => []Checked
<1>1. Init => Checked
  BY DEF Init, Checked, WinnerWasChecked, Stage, SizeLoop, DomainLoop, CategoryLoop,
     BetweenReads, FeatureLoop, Outcome, Keyed, Unique
<1>2. ASSUME TypeOK, TypeOK', Checked, [Next]_vars
      PROVE  Checked'
  <2>1. ASSUME UNCHANGED <<old, fresh, sent>>
        PROVE  WinnerWasChecked'
    BY <1>2, <2>1, AnswersPersist DEF Checked, WinnerWasChecked
  <2>2. CASE UNCHANGED vars \/ Setup
    <3>1. /\ UNCHANGED <<old, fresh, sent, locals, pc>>
          /\ step' \in 0..LastStep /\ step <= step'
      BY <1>2, <2>2 DEF vars, dbvars, Setup, SetupDB, DropDatabase, CreateTable,
         LoadTable, TypeOK, LastStep
    <3>2. \A t \in Threads : Stage(t)'
      BY <1>2, <3>1, Frame DEF locals, Checked
    <3> QED
      BY <2>1, <3>1, <3>2 DEF Checked
  <2>3. ASSUME NEW t \in Threads, Thread(t)
        PROVE  Checked'
    <3>1. \A u \in Threads \ {t} : Stage(u)'
      BY <1>2, <2>3, OthersKeepStage DEF Checked
    <3>2. Stage(t) /\ WinnerWasChecked
      BY <1>2 DEF Checked
    <3>3. CASE Reply(t)
      BY <1>2, <3>1, <3>2, <3>3, ReplyStage DEF Checked
    <3>4. CASE Lock(t) \/ QueryThrows(t)
      <4>1. UNCHANGED <<old, fresh, step, sent, locals, pc>>
        BY <3>4 DEF Lock, QueryThrows, dbvars
      <4>2. Stage(t)'
        BY <1>2, <3>2, <4>1, Frame DEF locals, TypeOK, LastStep
      <4> QED
        BY <2>1, <3>1, <4>1, <4>2 DEF Checked
    <3>5. CASE Dispatch(t)
      BY <1>2, <2>1, <3>1, <3>2, <3>5, DispatchStage DEF Checked, Dispatch, dbvars
    <3>6. CASE FetchAdses(t)
      BY <1>2, <2>1, <3>1, <3>2, <3>6, FetchAdsesStage
         DEF Checked, FetchAdses, Query, dbvars
    <3>7. CASE FetchAdSize(t)
      BY <1>2, <2>1, <3>1, <3>2, <3>7, FetchAdSizeStage
         DEF Checked, FetchAdSize, Query, dbvars
    <3>8. CASE FetchAdvertiser(t)
      BY <1>2, <2>1, <3>1, <3>2, <3>8, FetchAdvertiserStage
         DEF Checked, FetchAdvertiser, Query, dbvars
    <3>9. CASE FetchAdvertiserAgain(t)
      BY <1>2, <2>1, <3>1, <3>2, <3>9, FetchAdvertiserAgainStage
         DEF Checked, FetchAdvertiserAgain, Query, dbvars
    <3>10. CASE FetchCategoryBlocking(t)
      BY <1>2, <2>1, <3>1, <3>2, <3>10, FetchCategoryBlockingStage
         DEF Checked, FetchCategoryBlocking, Query, dbvars
    <3>11. CASE FetchAdsFeature(t)
      BY <1>2, <2>1, <3>1, <3>2, <3>11, FetchAdsFeatureStage
         DEF Checked, FetchAdsFeature, Query, dbvars
    <3> QED
      BY <2>3, <3>3, <3>4, <3>5, <3>6, <3>7, <3>8, <3>9, <3>10, <3>11 DEF Thread
  <2> QED
    BY <1>2, <2>2, <2>3 DEF Next
<1> QED
  BY <1>1, <1>2, TypeCorrect, PTL DEF Spec

(* Every ad that is served passed every check against a state the database  *)
(* was in while the request was served, in the order of the checks, also    *)
(* while setup_db.sh drops, creates and loads the tables.                   *)
THEOREM WinnersAreChecked == Spec => []WinnerWasChecked
<1>1. Checked => WinnerWasChecked
  BY DEF Checked
<1> QED
  BY <1>1, RowsAreChecked, PTL
=============================================================================
