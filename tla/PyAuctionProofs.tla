---------------------------- MODULE PyAuctionProofs ----------------------------
(***************************************************************************)
(* Proofs about PyAuction for any number of requests and threads and any   *)
(* contents of the database, before, during and after setup_db.sh: types,  *)
(* the count of the pool's threads, the checks that the ad of each bid     *)
(* passed, why a request fails, and the exact answer of a request during   *)
(* which the contents stood still; before the script, that the steps are   *)
(* those of AuctionService.                                                *)
(***************************************************************************)
EXTENDS PyAuction, AuctionChecksProofs, FiniteSetTheorems, TLAPS

LoopsTyped ==
  /\ pc \in [Bodies -> Queries \cup Settled \cup {"submitted", "reply"}]
  /\ todo \in [Bodies -> SUBSET Ads]
  /\ kept \in [Bodies -> SUBSET Ads]

RestTyped ==
  /\ advertiser \in [Bodies -> SUBSET Advertiser]
  /\ features \in [Bodies -> SUBSET AdsFeature]
  /\ targetted \in [Bodies -> SUBSET Ads]
  /\ answer \in [Bodies -> SUBSET [ads : AdTexts, price : Nat]]
  /\ since \in [Bodies -> 0..LastStep]
  /\ until \in [Bodies -> 0..LastStep]

Typed == DBTypeOK /\ LoopsTyped /\ RestTyped

(* The tasks that have a thread, which with the idle threads are n_thread.  *)
Running == {g \in Bodies : pc[g] \in Queries \cup {"reply"}}

Counted ==
  /\ IsFiniteSet(Running)
  /\ idle \in Nat
  /\ idle + Cardinality(Running) = n_thread
-----------------------------------------------------------------------------
(* Where a loop that begins, or goes on, leaves the task and its rows.      *)
LEMMA BeginRows ==
  ASSUME LoopsTyped, NEW g \in Bodies, NEW statement \in Queries,
         NEW rows \in SUBSET Ads, Begin(g, statement, rows)
  PROVE  /\ LoopsTyped'
         /\ pc'[g] \in {statement, "reply"}
         /\ todo'[g] \subseteq rows
         /\ kept'[g] \subseteq rows
         /\ statement # "fetchAdsFeature" => kept'[g] = {}
         /\ statement = "fetchAdsFeature" => kept'[g] = rows
BY DEF Begin, LoopsTyped

LEMMA VisitedRows ==
  ASSUME LoopsTyped, NEW g \in Bodies, NEW a \in todo[g], NEW keep \in BOOLEAN,
         NEW statement \in Queries \ {"fetchAdsFeature"}, NEW following \in Queries,
         Visited(g, a, keep, statement, following)
  PROVE  /\ LoopsTyped'
         /\ pc'[g] \in {statement, following, "reply"}
         /\ todo'[g] \cup kept'[g] \subseteq todo[g] \cup kept[g]
<1> DEFINE rows == IF keep THEN kept[g] \cup {a} ELSE kept[g]
<1>1. rows \in SUBSET Ads
  BY DEF LoopsTyped
<1>2. CASE todo[g] \ {a} # {}
  BY <1>1, <1>2 DEF Visited, LoopsTyped
<1>3. CASE todo[g] \ {a} = {}
  <2>1. Begin(g, following, rows)
    BY <1>3 DEF Visited
  <2> QED
    BY <1>1, <2>1, BeginRows
<1> QED
  BY <1>2, <1>3

(* The loop goes on with the rows that are left, or the next one begins     *)
(* with the rows that were kept.                                            *)
Advances(g, rows, statement, following) ==
  \/ /\ pc'[g] = statement
     /\ todo'[g] \subseteq todo[g]
     /\ kept'[g] = rows
  \/ /\ pc'[g] \in {following, "reply"}
     /\ todo'[g] \subseteq rows
     /\ kept'[g] \subseteq rows
     /\ following # "fetchAdsFeature" => kept'[g] = {}
     /\ following = "fetchAdsFeature" => kept'[g] = rows

LEMMA VisitedAdvances ==
  ASSUME LoopsTyped, NEW g \in Bodies, NEW a \in todo[g], NEW keep \in BOOLEAN,
         NEW statement \in Queries, NEW following \in Queries,
         Visited(g, a, keep, statement, following)
  PROVE  Advances(g, IF keep THEN kept[g] \cup {a} ELSE kept[g], statement, following)
<1> DEFINE rows == IF keep THEN kept[g] \cup {a} ELSE kept[g]
<1>1. rows \in SUBSET Ads
  BY DEF LoopsTyped
<1>2. CASE todo[g] \ {a} # {}
  BY <1>1, <1>2 DEF Visited, LoopsTyped, Advances
<1>3. CASE todo[g] \ {a} = {}
  <2>1. Begin(g, following, rows)
    BY <1>3 DEF Visited
  <2> QED
    BY <1>1, <2>1, BeginRows DEF Advances
<1> QED
  BY <1>2, <1>3

LEMMA BeginOthers ==
  ASSUME LoopsTyped, NEW g \in Bodies, NEW statement, NEW rows,
         Begin(g, statement, rows), NEW h \in Bodies \ {g}
  PROVE  pc'[h] = pc[h] /\ todo'[h] = todo[h] /\ kept'[h] = kept[h]
BY DEF Begin, LoopsTyped

LEMMA VisitedOthers ==
  ASSUME LoopsTyped, NEW g \in Bodies, NEW a, NEW keep, NEW statement, NEW following,
         Visited(g, a, keep, statement, following), NEW h \in Bodies \ {g}
  PROVE  pc'[h] = pc[h] /\ todo'[h] = todo[h] /\ kept'[h] = kept[h]
<1>1. CASE todo[g] \ {a} # {}
  BY <1>1 DEF Visited, LoopsTyped
<1>2. CASE todo[g] \ {a} = {}
  BY <1>2, BeginOthers DEF Visited
<1> QED
  BY <1>1, <1>2

(* A step leaves the tasks beside it alone.                                 *)
LEMMA OthersRows ==
  ASSUME Typed, NEW g \in Bodies, Task(g), NEW h \in Bodies \ {g}
  PROVE  /\ pc'[h] = pc[h] /\ todo'[h] = todo[h] /\ kept'[h] = kept[h]
         /\ advertiser'[h] = advertiser[h] /\ features'[h] = features[h]
         /\ targetted'[h] = targetted[h] /\ answer'[h] = answer[h]
         /\ since'[h] = since[h] /\ until'[h] = until[h]
<1>1. LoopsTyped /\ RestTyped
  BY DEF Typed
<1>2. CASE Start(g) \/ Refuse(g) \/ Fail(g) \/ Reply(g)
  BY <1>1, <1>2 DEF Start, Refuse, Fail, Reply, Settle, locals, LoopsTyped, RestTyped
<1>3. ASSUME NEW statement, Query(g, statement)
      PROVE  answer'[h] = answer[h] /\ since'[h] = since[h] /\ until'[h] = until[h]
  BY <1>3 DEF Query
<1>4. CASE FetchAdses(g)
  BY <1>1, <1>3, <1>4, BeginOthers DEF FetchAdses
<1>5. CASE FetchAdSize(g)
  BY <1>1, <1>3, <1>5, VisitedOthers DEF FetchAdSize
<1>6. CASE FetchAdvertiser(g)
  BY <1>1, <1>3, <1>6, VisitedOthers DEF FetchAdvertiser
<1>7. CASE FetchAdvertiserAgain(g)
  BY <1>1, <1>3, <1>7 DEF FetchAdvertiserAgain, LoopsTyped, RestTyped
<1>8. CASE FetchCategoryBlocking(g)
  <2>1. pc'[h] = pc[h] /\ todo'[h] = todo[h] /\ kept'[h] = kept[h]
    BY <1>1, <1>8, VisitedOthers DEF FetchCategoryBlocking
  <2> QED
    BY <1>1, <1>3, <1>8, <2>1 DEF FetchCategoryBlocking, RestTyped
<1>9. CASE FetchAdsFeature(g)
  <2>1. /\ pc'[h] = pc[h] /\ todo'[h] = todo[h] /\ kept'[h] = kept[h]
        /\ features'[h] = features[h] /\ targetted'[h] = targetted[h]
    BY <1>1, <1>9, BeginOthers DEF FetchAdsFeature, EndOfAdvertiser, LoopsTyped, RestTyped
  <2> QED
    BY <1>3, <1>9, <2>1 DEF FetchAdsFeature
<1> QED
  BY <1>2, <1>4, <1>5, <1>6, <1>7, <1>8, <1>9 DEF Task

LEMMA SetupFrame ==
  ASSUME Typed, Setup
  PROVE  /\ UNCHANGED <<old, fresh>>
         /\ step' \in 0..LastStep /\ step <= step'
         /\ UNCHANGED <<idle, pc, locals, answer, since, until>>
BY DEF Typed, DBTypeOK, Setup, SetupDB, DropDatabase, CreateTable, LoadTable, LastStep

(* A query that does not raise reads a table that exists.                   *)
LEMMA QueryReads ==
  ASSUME Typed, NEW g \in Bodies, NEW statement \in Queries, Query(g, statement)
  PROVE  /\ UNCHANGED <<idle, old, fresh, step, answer, since, until>>
         /\ step \in 0..LastStep /\ step' \in 0..LastStep /\ step <= step'
         /\ pc[g] = statement
         /\ Exists(TableOf[statement], step)
         /\ DBAt(step) = db
         /\ DBTypeOK'
BY DEF Query, Raises, dbvars, Typed, DBTypeOK, Exists, db, LastStep

LEMMA InitTyped == Init => Typed
BY DEF Init, DBInit, Typed, DBTypeOK, LoopsTyped, RestTyped, LastStep, Settled

LEMMA TaskTyped ==
  ASSUME Typed, NEW g \in Bodies, Task(g)
  PROVE  Typed'
<1> USE QueryNames
<1>1. DBTypeOK /\ LoopsTyped /\ RestTyped
  BY DEF Typed
<1>2. \A a \in Current(g) : a \in todo[g] /\ a \in Ads
  BY <1>1 DEF Current, Least, LoopsTyped
<1>3. CASE Start(g) \/ Refuse(g)
  BY <1>1, <1>3 DEF Start, Refuse, Settled, Typed, DBTypeOK, LoopsTyped, RestTyped,
     locals, dbvars
<1>4. CASE Fail(g)
  BY <1>1, <1>4 DEF Fail, Settle, Settled, Typed, DBTypeOK, LoopsTyped, RestTyped,
     dbvars
<1>5. CASE Reply(g)
  <2>1. {Bid(a) : a \in Winner(targetted[g])} \in SUBSET [ads : AdTexts, price : Nat]
    BY <1>1 DEF Bid, Winner, Least, Ads, RestTyped
  <2> QED
    BY <1>1, <1>5, <2>1 DEF Reply, Settle, Settled, Typed, DBTypeOK, LoopsTyped,
       RestTyped, dbvars
<1>6. CASE FetchAdses(g)
  <2>1. SelectAdses(db) \in SUBSET Ads
    BY <1>1, <1>6, QueryReads, QueryTypes DEF FetchAdses, TableOf, Exists
  <2>2. LoopsTyped'
    BY <1>1, <1>6, <2>1, BeginRows DEF FetchAdses
  <2>3. RestTyped' /\ DBTypeOK'
    BY <1>1, <1>6, QueryReads DEF FetchAdses, RestTyped
  <2> QED
    BY <2>2, <2>3 DEF Typed
<1>7. ASSUME NEW statement \in Queries, Query(g, statement),
             NEW a \in Current(g), NEW keep \in BOOLEAN,
             NEW again \in Queries \ {"fetchAdsFeature"}, NEW following \in Queries,
             Visited(g, a, keep, again, following),
             UNCHANGED <<features, targetted>>,
             advertiser' \in [Bodies -> SUBSET Advertiser]
      PROVE  Typed'
  <2>1. LoopsTyped'
    BY <1>1, <1>2, <1>7, VisitedRows
  <2>2. RestTyped' /\ DBTypeOK'
    BY <1>1, <1>7, QueryReads DEF RestTyped
  <2> QED
    BY <2>1, <2>2 DEF Typed
<1>8. CASE FetchAdSize(g)
  BY <1>1, <1>7, <1>8 DEF FetchAdSize, SizeMatches, RestTyped
<1>9. CASE FetchAdvertiser(g)
  BY <1>1, <1>7, <1>9 DEF FetchAdvertiser, DomainPasses, RestTyped
<1>10. CASE FetchAdvertiserAgain(g)
  <2>1. LoopsTyped'
    BY <1>1, <1>10 DEF FetchAdvertiserAgain, LoopsTyped
  <2>2. \A i : SelectAdvertiser(db, i) \subseteq Advertiser
    BY <1>1, <1>10, QueryReads, QueryTypes DEF FetchAdvertiserAgain, TableOf, Exists
  <2>3. RestTyped' /\ DBTypeOK'
    BY <1>1, <1>10, <2>2, QueryReads DEF FetchAdvertiserAgain, RestTyped
  <2> QED
    BY <2>1, <2>3 DEF Typed
<1>11. CASE FetchCategoryBlocking(g)
  <2>1. advertiser' \in [Bodies -> SUBSET Advertiser]
    BY <1>1, <1>11 DEF FetchCategoryBlocking, RestTyped
  <2> QED
    BY <1>7, <1>11, <2>1 DEF FetchCategoryBlocking, CategoryPasses
<1>12. CASE FetchAdsFeature(g)
  <2>1. PICK a \in Current(g) :
          IF todo[g] \ {a} # {}
          THEN /\ todo' = [todo EXCEPT ![g] = todo[g] \ {a}]
               /\ features' = [features EXCEPT ![g] =
                                 features[g] \cup FoundFeature(a.ads_id)]
               /\ UNCHANGED <<pc, kept, targetted>>
          ELSE EndOfAdvertiser(g, a, features[g] \cup FoundFeature(a.ads_id))
    BY <1>12 DEF FetchAdsFeature
  <2>2. features[g] \cup FoundFeature(a.ads_id) \in SUBSET AdsFeature
    BY <1>1, <1>12, QueryReads, QueryTypes
       DEF FetchAdsFeature, TableOf, Exists, FoundFeature, RestTyped
  <2>3. Query(g, "fetchAdsFeature") /\ UNCHANGED advertiser
    BY <1>12 DEF FetchAdsFeature
  <2>4. CASE todo[g] \ {a} # {}
    <3>1. LoopsTyped' /\ features' \in [Bodies -> SUBSET AdsFeature]
          /\ UNCHANGED targetted
      BY <1>1, <2>1, <2>2, <2>4 DEF LoopsTyped, RestTyped
    <3> QED
      BY <1>1, <2>3, <3>1, QueryReads DEF RestTyped, Typed
  <2>5. CASE todo[g] \ {a} = {}
    <3>1. EndOfAdvertiser(g, a, features[g] \cup FoundFeature(a.ads_id))
      BY <2>1, <2>5
    <3>2. PICK rows \in SUBSET kept[g] :
            /\ targetted' = [targetted EXCEPT ![g] = @ \cup rows]
            /\ features' = [features EXCEPT ![g] = {}]
      BY <3>1 DEF EndOfAdvertiser
    <3>3. PICK rest \in SUBSET kept[g] : Begin(g, "fetchAdsFeature", rest)
      BY <3>1 DEF EndOfAdvertiser
    <3>4. LoopsTyped'
      <4>1. rest \in SUBSET Ads
        BY <1>1, <3>3 DEF LoopsTyped
      <4> QED
        BY <1>1, <3>3, <4>1, BeginRows
    <3>5. /\ targetted' \in [Bodies -> SUBSET Ads]
          /\ features' \in [Bodies -> SUBSET AdsFeature]
      BY <1>1, <3>2 DEF RestTyped, LoopsTyped
    <3> QED
      BY <1>1, <2>3, <3>4, <3>5, QueryReads DEF RestTyped, Typed
  <2> QED
    BY <2>4, <2>5
<1> QED
  BY <1>3, <1>4, <1>5, <1>6, <1>8, <1>9, <1>10, <1>11, <1>12 DEF Task

LEMMA NextTyped == Typed /\ [Next]_vars => Typed'
<1> SUFFICES ASSUME Typed, [Next]_vars PROVE Typed'
  OBVIOUS
<1>1. CASE UNCHANGED vars
  BY <1>1 DEF vars, locals, dbvars, Typed, DBTypeOK, LoopsTyped, RestTyped
<1>2. CASE Setup
  BY <1>2, SetupFrame DEF locals, Typed, DBTypeOK, LoopsTyped, RestTyped
<1> QED
  BY <1>1, <1>2, TaskTyped DEF Next
-----------------------------------------------------------------------------
(* No thread of the pool is lost, and none runs two tasks.                  *)
LEMMA InitCounted == Init => Counted
<1> SUFFICES ASSUME Init PROVE Counted
  OBVIOUS
<1>1. Running = {}
  BY QueryNames DEF Init, Running
<1> QED
  BY <1>1, FS_EmptySet, ThreadsPositive DEF Init, Counted

(* A task that has asked the database goes on, or has an answer to send.     *)
Asks(g) ==
  \/ FetchAdses(g) \/ FetchAdSize(g) \/ FetchAdvertiser(g)
  \/ FetchAdvertiserAgain(g) \/ FetchCategoryBlocking(g) \/ FetchAdsFeature(g)

LEMMA AskingGoesOn ==
  ASSUME Typed, NEW g \in Bodies, Asks(g)
  PROVE  /\ UNCHANGED <<idle, old, fresh, step>>
         /\ pc[g] \in Queries /\ pc'[g] \in Queries \cup {"reply"}
<1> USE QueryNames
<1>1. CASE FetchAdses(g) \/ FetchAdSize(g) \/ FetchAdvertiser(g)
  <2>1. UNCHANGED <<idle, old, fresh, step>> /\ pc[g] \in Queries
    BY <1>1 DEF FetchAdses, FetchAdSize, FetchAdvertiser, Query, dbvars
  <2>2. pc'[g] \in Queries \cup {"reply"}
    BY <1>1 DEF FetchAdses, FetchAdSize, FetchAdvertiser, Visited, Begin, Typed,
       LoopsTyped
  <2> QED
    BY <2>1, <2>2
<1>2. CASE FetchAdvertiserAgain(g) \/ FetchCategoryBlocking(g) \/ FetchAdsFeature(g)
  <2>1. UNCHANGED <<idle, old, fresh, step>> /\ pc[g] \in Queries
    BY <1>2 DEF FetchAdvertiserAgain, FetchCategoryBlocking, FetchAdsFeature, Query, dbvars
  <2>2. pc'[g] \in Queries \cup {"reply"}
    BY <1>2, <2>1 DEF FetchAdvertiserAgain, FetchCategoryBlocking, FetchAdsFeature,
       EndOfAdvertiser, Visited, Begin, Typed, LoopsTyped
  <2> QED
    BY <2>1, <2>2
<1> QED
  BY <1>1, <1>2 DEF Asks

LEMMA StaysRunning ==
  ASSUME Typed, Typed', Counted, NEW g \in Running,
         UNCHANGED idle, pc'[g] \in Queries \cup {"reply"},
         \A b \in Bodies \ {g} : pc'[b] = pc[b]
  PROVE  Counted'
<1>1. Running' = Running
  BY DEF Running
<1> QED
  BY <1>1 DEF Counted

LEMMA TaskCounted ==
  ASSUME Typed, Typed', Counted, NEW g \in Bodies, Task(g)
  PROVE  Counted'
<1> USE QueryNames
<1>1. \A b \in Bodies \ {g} : pc'[b] = pc[b]
  BY OthersRows
<1>2. Cardinality(Running) \in Nat
  BY FS_CardinalityType DEF Counted
<1>3. CASE Start(g)
  <2>1. Running' = Running \cup {g} /\ g \notin Running
    BY <1>3 DEF Start, Running, Typed, LoopsTyped
  <2>2. IsFiniteSet(Running') /\ Cardinality(Running') = Cardinality(Running) + 1
    BY <2>1, FS_AddElement DEF Counted
  <2> QED
    BY <1>2, <1>3, <2>2, ThreadsPositive DEF Start, Counted
<1>4. CASE Fail(g) \/ Reply(g)
  <2>1. idle' = idle + 1 /\ g \in Running /\ pc'[g] \in Settled
    BY <1>4 DEF Fail, Reply, Settle, Settled, Running, Typed, LoopsTyped
  <2>2. Running' = Running \ {g}
    BY <1>1, <2>1 DEF Running, Settled
  <2>3. IsFiniteSet(Running') /\ Cardinality(Running') = Cardinality(Running) - 1
    BY <2>1, <2>2, FS_RemoveElement DEF Counted
  <2> QED
    BY <1>2, <2>1, <2>3, ThreadsPositive DEF Counted
<1>5. ASSUME UNCHANGED idle, pc[g] \in Queries, pc'[g] \in Queries \cup {"reply"}
      PROVE  Counted'
  <2>1. g \in Running
    BY <1>5 DEF Running
  <2> QED
    BY <1>1, <1>5, <2>1, StaysRunning
<1>6. CASE Asks(g)
  BY <1>5, <1>6, AskingGoesOn
<1>7. CASE Refuse(g)
  <2>1. UNCHANGED idle /\ pc[g] = "submitted" /\ pc'[g] = "failed"
    BY <1>7 DEF Refuse, Typed, LoopsTyped
  <2>2. Running' = Running
    BY <1>1, <2>1 DEF Running
  <2> QED
    BY <2>1, <2>2 DEF Counted
<1> QED
  BY <1>3, <1>4, <1>6, <1>7 DEF Task, Asks

LEMMA NextCounted == Typed /\ Typed' /\ Counted /\ [Next]_vars => Counted'
<1> SUFFICES ASSUME Typed, Typed', Counted, [Next]_vars PROVE Counted'
  OBVIOUS
<1>1. CASE UNCHANGED vars \/ Setup
  BY <1>1 DEF vars, Setup, Counted, Running
<1> QED
  BY <1>1, TaskCounted DEF Next

(* Every reachable state is typed: however tasks end, by an answer or by an *)
(* exception, the pool has between none and n_thread idle threads.          *)
THEOREM TypeCorrect == Spec => []TypeOK
<1>1. Typed /\ Counted => TypeOK
  <2> SUFFICES ASSUME Typed, Counted PROVE TypeOK
    OBVIOUS
  <2>1. idle \in 0..n_thread
    BY FS_CardinalityType, ThreadsPositive DEF Counted
  <2> QED
    BY <2>1 DEF Typed, DBTypeOK, LoopsTyped, RestTyped, TypeOK
<1> QED
  BY <1>1, InitTyped, NextTyped, InitCounted, NextCounted, PTL DEF Spec

(* The pool loses no thread: the idle ones and the tasks that run are       *)
(* n_thread together, also after exceptions.                                *)
THEOREM NoThreadIsLost == Spec => []Counted
BY InitTyped, NextTyped, InitCounted, NextCounted, PTL DEF Spec
-----------------------------------------------------------------------------
(* What the rows of a task have passed so far: the inductive invariant      *)
(* behind WinnerWasChecked.                                                 *)
SizeLoop(g) ==
  pc[g] = "fetchAdSize" =>
    /\ \A a \in todo[g] : Read(a, since[g], step)
    /\ \A a \in kept[g] : ReadAndFits(a, ParseRequest(g), since[g], step)

DomainLoop(g) ==
  pc[g] = "fetchAdvertiser" =>
    /\ \A a \in todo[g] : ReadAndFits(a, ParseRequest(g), since[g], step)
    /\ \A a \in kept[g] : AlsoDomain(a, ParseRequest(g), since[g], step)

CategoryLoop(g) ==
  pc[g] \in {"fetchAdvertiserAgain", "fetchCategoryBlocking"} =>
    /\ \A a \in todo[g] : AlsoDomain(a, ParseRequest(g), since[g], step)
    /\ \A a \in kept[g] : AlsoCategory(a, ParseRequest(g), since[g], step)

BetweenReads(g) ==
  pc[g] = "fetchCategoryBlocking" =>
    \A a \in Current(g) :
      AdvertiserRead(a, ParseRequest(g), advertiser[g], since[g], step)

FeatureLoop(g) ==
  pc[g] = "fetchAdsFeature" =>
    /\ \A a \in kept[g] : AlsoCategory(a, ParseRequest(g), since[g], step)
    /\ \A f \in features[g] : \A a \in kept[g] :
         a.ads_id = f.ads_id => AlsoFeature(a, ParseRequest(g), since[g], step)

Keyed(g) == Unique(todo[g] \cup kept[g], "ads_id")

Outcome(g) ==
  /\ since[g] <= step
  /\ pc[g] # "fetchAdsFeature" => features[g] = {}
  /\ pc[g] \notin {"fetchAdsFeature", "reply"} => targetted[g] = {}
  /\ \A a \in targetted[g] : AlsoFeature(a, ParseRequest(g), since[g], step)

Served(g) ==
  pc[g] = "answered" =>
    \A bid \in answer[g] : \E a \in old["adses"] \cup fresh["adses"] :
      bid = Bid(a) /\ AlsoFeature(a, ParseRequest(g), since[g], until[g])

Stage(g) ==
  /\ SizeLoop(g)
  /\ DomainLoop(g)
  /\ CategoryLoop(g)
  /\ BetweenReads(g)
  /\ FeatureLoop(g)
  /\ Keyed(g)
  /\ Outcome(g)
  /\ Served(g)

Checked == \A g \in Bodies : Stage(g)

LEMMA ServedLasts ==
  ASSUME Typed, NEW g \in Bodies, Served(g), UNCHANGED <<old, fresh>>,
         pc'[g] = pc[g], answer'[g] = answer[g], since'[g] = since[g],
         until'[g] = until[g]
  PROVE  Served(g)'
<1>1. since[g] \in 0..LastStep /\ until[g] \in 0..LastStep
  BY DEF Typed, RestTyped
<1> QED
  BY <1>1, AlsoFeatureIsRigid DEF Served

LEMMA Frame ==
  ASSUME Typed, UNCHANGED <<old, fresh>>, step' \in 0..LastStep, step <= step',
         NEW g \in Bodies, Stage(g), pc'[g] = pc[g], todo'[g] = todo[g],
         kept'[g] = kept[g], advertiser'[g] = advertiser[g],
         features'[g] = features[g], targetted'[g] = targetted[g],
         answer'[g] = answer[g], since'[g] = since[g], until'[g] = until[g]
  PROVE  Stage(g)'
<1>1. since[g] \in 0..LastStep /\ step \in 0..LastStep
  BY DEF Typed, DBTypeOK, RestTyped
<1>2. SizeLoop(g)'
  BY <1>1, Persists DEF Stage, SizeLoop
<1>3. DomainLoop(g)'
  BY <1>1, Persists DEF Stage, DomainLoop
<1>4. CategoryLoop(g)'
  BY <1>1, Persists DEF Stage, CategoryLoop
<1>5. BetweenReads(g)'
  BY <1>1, Persists DEF Stage, BetweenReads, Current, Least
<1>6. FeatureLoop(g)'
  BY <1>1, Persists DEF Stage, FeatureLoop
<1>7. Keyed(g)'
  BY DEF Stage, Keyed
<1>8. Outcome(g)'
  BY <1>1, Persists DEF Stage, Outcome, LastStep
<1>9. Served(g)'
  BY ServedLasts DEF Stage
<1> QED
  BY <1>2, <1>3, <1>4, <1>5, <1>6, <1>7, <1>8, <1>9 DEF Stage

(* One lemma for each query: the stage of the task after it.               *)
LEMMA FetchAdsesStage ==
  ASSUME Typed, NEW g \in Bodies, Stage(g), FetchAdses(g)
  PROVE  Stage(g)'
<1> USE QueryNames
<1>1. LoopsTyped /\ DBTypeOK
  BY DEF Typed
<1>2. /\ UNCHANGED <<idle, old, fresh, step, answer, since, until>>
      /\ step \in 0..LastStep /\ step' \in 0..LastStep /\ step <= step'
      /\ pc[g] = "fetchAdses" /\ Exists("adses", step) /\ DBAt(step) = db
  BY QueryReads DEF FetchAdses, TableOf
<1>3. since[g] \in 0..LastStep /\ step \in since[g]..step
  BY <1>2 DEF Stage, Outcome, Typed, RestTyped, LastStep
<1>4. SelectAdses(db) \in SUBSET Ads /\ Unique(SelectAdses(db), "ads_id")
  BY <1>1, <1>2, AdsesKeyed, QueryTypes DEF Exists
<1>5. /\ pc'[g] \in {"fetchAdSize", "reply"}
      /\ todo'[g] \subseteq SelectAdses(db)
      /\ kept'[g] = {}
  BY <1>1, <1>4, BeginRows DEF FetchAdses
<1>6. \A a \in SelectAdses(db) : Read(a, since[g], step)
  BY <1>2, <1>3 DEF Read
<1>7. \A a \in todo'[g] : Read(a, since[g], step)'
  BY <1>2, <1>3, <1>5, <1>6, Persists
<1>8. SizeLoop(g)' /\ Keyed(g)'
  BY <1>2, <1>4, <1>5, <1>7 DEF SizeLoop, Keyed, Unique
<1>9. Outcome(g)'
  BY <1>2, <1>5 DEF FetchAdses, Stage, Outcome
<1> QED
  BY <1>5, <1>8, <1>9 DEF Stage, DomainLoop, CategoryLoop, BetweenReads, FeatureLoop,
     Served

LEMMA FetchAdSizeStage ==
  ASSUME Typed, NEW g \in Bodies, Stage(g), FetchAdSize(g)
  PROVE  Stage(g)'
<1> USE QueryNames
<1> DEFINE rq == ParseRequest(g)
<1>1. LoopsTyped
  BY DEF Typed
<1>2. /\ UNCHANGED <<idle, old, fresh, step, answer, since, until>>
      /\ step \in 0..LastStep /\ step' \in 0..LastStep /\ step <= step'
      /\ pc[g] = "fetchAdSize" /\ Exists("ads_sizes", step) /\ DBAt(step) = db
  BY QueryReads DEF FetchAdSize, TableOf
<1>3. since[g] \in 0..LastStep /\ step \in since[g]..step
  BY <1>2 DEF Stage, Outcome, Typed, RestTyped, LastStep
<1>4. PICK a \in Current(g), keep \in BOOLEAN :
        /\ keep = SizeMatches(SelectAdSize(db, a.size_id), rq)
        /\ Visited(g, a, keep, "fetchAdSize", "fetchAdvertiser")
  BY DEF FetchAdSize, SizeMatches
<1> DEFINE rows == IF keep THEN kept[g] \cup {a} ELSE kept[g]
<1>5. a \in todo[g]
  BY DEF Current, Least
<1>6. \/ /\ pc'[g] = "fetchAdSize"
         /\ todo'[g] \subseteq todo[g]
         /\ kept'[g] = rows
      \/ /\ pc'[g] \in {"fetchAdvertiser", "reply"}
         /\ todo'[g] \subseteq rows
         /\ kept'[g] = {}
  <2>1. Advances(g, rows, "fetchAdSize", "fetchAdvertiser")
    BY <1>1, <1>4, <1>5, VisitedAdvances
  <2> QED
    BY <2>1 DEF Advances
<1>7. keep => ReadAndFits(a, rq, since[g], step)
  BY <1>2, <1>3, <1>4, <1>5 DEF ReadAndFits, Stage, SizeLoop
<1>8. \A b \in todo[g] : Read(b, since[g], step)'
  BY <1>2, <1>3, Persists DEF Stage, SizeLoop
<1>9. \A b \in rows : ReadAndFits(b, rq, since[g], step)'
  BY <1>2, <1>3, <1>7, Persists DEF Stage, SizeLoop
<1>10. SizeLoop(g)' /\ DomainLoop(g)'
  BY <1>2, <1>6, <1>8, <1>9 DEF SizeLoop, DomainLoop
<1>11. Outcome(g)' /\ Keyed(g)'
  BY <1>2, <1>5, <1>6 DEF FetchAdSize, Stage, Outcome, Keyed, Unique
<1> QED
  BY <1>6, <1>10, <1>11 DEF Stage, CategoryLoop, BetweenReads, FeatureLoop, Served

LEMMA FetchAdvertiserStage ==
  ASSUME Typed, NEW g \in Bodies, Stage(g), FetchAdvertiser(g)
  PROVE  Stage(g)'
<1> USE QueryNames
<1> DEFINE rq == ParseRequest(g)
<1>1. LoopsTyped
  BY DEF Typed
<1>2. /\ UNCHANGED <<idle, old, fresh, step, answer, since, until>>
      /\ step \in 0..LastStep /\ step' \in 0..LastStep /\ step <= step'
      /\ pc[g] = "fetchAdvertiser" /\ Exists("advertisers", step) /\ DBAt(step) = db
  BY QueryReads DEF FetchAdvertiser, TableOf
<1>3. since[g] \in 0..LastStep /\ step \in since[g]..step
  BY <1>2 DEF Stage, Outcome, Typed, RestTyped, LastStep
<1>4. PICK a \in Current(g), keep \in BOOLEAN :
        /\ keep = DomainPasses(SelectAdvertiser(db, a.advertiser_id), rq)
        /\ Visited(g, a, keep, "fetchAdvertiser", "fetchAdvertiserAgain")
  BY DEF FetchAdvertiser, DomainPasses
<1> DEFINE rows == IF keep THEN kept[g] \cup {a} ELSE kept[g]
<1>5. a \in todo[g]
  BY DEF Current, Least
<1>6. \/ /\ pc'[g] = "fetchAdvertiser"
         /\ todo'[g] \subseteq todo[g]
         /\ kept'[g] = rows
      \/ /\ pc'[g] \in {"fetchAdvertiserAgain", "reply"}
         /\ todo'[g] \subseteq rows
         /\ kept'[g] = {}
  <2>1. Advances(g, rows, "fetchAdvertiser", "fetchAdvertiserAgain")
    BY <1>1, <1>4, <1>5, VisitedAdvances
  <2> QED
    BY <2>1 DEF Advances
<1>7. keep => AlsoDomain(a, rq, since[g], step)
  BY <1>2, <1>3, <1>4, <1>5 DEF AlsoDomain, Stage, DomainLoop
<1>8. \A b \in todo[g] : ReadAndFits(b, rq, since[g], step)'
  BY <1>2, <1>3, Persists DEF Stage, DomainLoop
<1>9. \A b \in rows : AlsoDomain(b, rq, since[g], step)'
  BY <1>2, <1>3, <1>7, Persists DEF Stage, DomainLoop
<1>10. DomainLoop(g)' /\ CategoryLoop(g)'
  BY <1>2, <1>6, <1>8, <1>9 DEF DomainLoop, CategoryLoop
<1>11. Outcome(g)' /\ Keyed(g)'
  BY <1>2, <1>5, <1>6 DEF FetchAdvertiser, Stage, Outcome, Keyed, Unique
<1> QED
  BY <1>6, <1>10, <1>11 DEF Stage, SizeLoop, BetweenReads, FeatureLoop, Served

LEMMA FetchAdvertiserAgainStage ==
  ASSUME Typed, NEW g \in Bodies, Stage(g), FetchAdvertiserAgain(g)
  PROVE  Stage(g)'
<1> USE QueryNames
<1> DEFINE rq == ParseRequest(g)
<1>1. LoopsTyped /\ RestTyped
  BY DEF Typed
<1>2. /\ UNCHANGED <<idle, old, fresh, step, answer, since, until>>
      /\ step \in 0..LastStep /\ step' \in 0..LastStep /\ step <= step'
      /\ pc[g] = "fetchAdvertiserAgain" /\ Exists("advertisers", step) /\ DBAt(step) = db
  BY QueryReads DEF FetchAdvertiserAgain, TableOf
<1>3. since[g] \in 0..LastStep /\ step \in since[g]..step
  BY <1>2 DEF Stage, Outcome, Typed, RestTyped, LastStep
<1>4. PICK a \in Current(g) :
        advertiser' = [advertiser EXCEPT ![g] = SelectAdvertiser(db, a.advertiser_id)]
  BY DEF FetchAdvertiserAgain
<1>5. PICK seen : seen = SelectAdvertiser(db, a.advertiser_id)
  OBVIOUS
<1>6. advertiser'[g] = seen /\ pc'[g] = "fetchCategoryBlocking"
  BY <1>1, <1>4, <1>5 DEF FetchAdvertiserAgain, LoopsTyped, RestTyped
<1>7. ASSUME NEW b \in Current(g)
      PROVE  AdvertiserRead(b, rq, seen, since[g], step)'
  <2>1. a = b
    <3>1. /\ a.ads_id <= b.ads_id /\ b.ads_id <= a.ads_id
          /\ a \in todo[g] /\ b \in todo[g] /\ a \in Ads /\ b \in Ads
      BY <1>1 DEF Current, Least, LoopsTyped
    <3> QED
      BY <3>1 DEF Stage, Keyed, Unique, Ads
  <2>2. b \in todo[g]
    BY DEF Current, Least
  <2>3. AdvertiserRead(b, rq, seen, since[g], step)
    BY <1>2, <1>3, <1>5, <2>1, <2>2 DEF AdvertiserRead, Stage, CategoryLoop
  <2> QED
    BY <1>2, <1>3, <2>3, Persists
<1>8. BetweenReads(g)'
  BY <1>2, <1>6, <1>7 DEF FetchAdvertiserAgain, BetweenReads, Current, Least
<1>9. CategoryLoop(g)'
  BY <1>2, <1>3, <1>6, Persists DEF FetchAdvertiserAgain, Stage, CategoryLoop
<1>10. Outcome(g)' /\ Keyed(g)'
  BY <1>2, <1>6 DEF FetchAdvertiserAgain, Stage, Outcome, Keyed
<1> QED
  BY <1>6, <1>8, <1>9, <1>10 DEF Stage, SizeLoop, DomainLoop, FeatureLoop, Served

LEMMA FetchCategoryBlockingStage ==
  ASSUME Typed, NEW g \in Bodies, Stage(g), FetchCategoryBlocking(g)
  PROVE  Stage(g)'
<1> USE QueryNames
<1> DEFINE rq == ParseRequest(g)
<1>1. LoopsTyped
  BY DEF Typed
<1>2. /\ UNCHANGED <<idle, old, fresh, step, answer, since, until>>
      /\ step \in 0..LastStep /\ step' \in 0..LastStep /\ step <= step'
      /\ pc[g] = "fetchCategoryBlocking" /\ Exists("category_blockings", step) /\ DBAt(step) = db
  BY QueryReads DEF FetchCategoryBlocking, TableOf
<1>3. since[g] \in 0..LastStep /\ step \in since[g]..step
  BY <1>2 DEF Stage, Outcome, Typed, RestTyped, LastStep
<1>4. PICK a \in Current(g), keep \in BOOLEAN :
        /\ keep = CategoryPasses(advertiser[g], SelectCategories(db, a.advertiser_id), rq)
        /\ Visited(g, a, keep, "fetchAdvertiserAgain", "fetchAdsFeature")
  BY DEF FetchCategoryBlocking, CategoryPasses
<1> DEFINE rows == IF keep THEN kept[g] \cup {a} ELSE kept[g]
<1>5. a \in todo[g]
  BY DEF Current, Least
<1>6. \/ /\ pc'[g] = "fetchAdvertiserAgain"
         /\ todo'[g] \subseteq todo[g]
         /\ kept'[g] = rows
      \/ /\ pc'[g] \in {"fetchAdsFeature", "reply"}
         /\ todo'[g] \subseteq rows
         /\ kept'[g] \subseteq rows
  <2>1. CASE todo[g] \ {a} # {}
    BY <1>1, <1>4, <2>1 DEF Visited, LoopsTyped
  <2>2. CASE todo[g] \ {a} = {}
    <3>1. Begin(g, "fetchAdsFeature", rows) /\ rows \in SUBSET Ads
      BY <1>1, <1>4, <1>5, <2>2 DEF Visited, LoopsTyped
    <3> QED
      BY <1>1, <3>1, BeginRows
  <2> QED
    BY <2>1, <2>2
<1>7. keep => AlsoCategory(a, rq, since[g], step)
  <2>1. PICK u \in since[g]..step :
          /\ AlsoDomain(a, rq, since[g], u)
          /\ Exists("advertisers", u)
          /\ advertiser[g] = SelectAdvertiser(DBAt(u), a.advertiser_id)
    BY <1>2 DEF Stage, BetweenReads, AdvertiserRead
  <2>2. u <= step
    BY <1>2, <1>3, <2>1 DEF LastStep
  <2> QED
    BY <1>2, <1>3, <1>4, <2>1, <2>2 DEF AlsoCategory
<1>8. \A b \in todo[g] : AlsoDomain(b, rq, since[g], step)'
  BY <1>2, <1>3, Persists DEF Stage, CategoryLoop
<1>9. \A b \in rows : AlsoCategory(b, rq, since[g], step)'
  BY <1>2, <1>3, <1>7, Persists DEF Stage, CategoryLoop
<1>10. features'[g] = {}
  BY <1>2 DEF FetchCategoryBlocking, Stage, Outcome
<1>11. CategoryLoop(g)' /\ FeatureLoop(g)'
  BY <1>2, <1>6, <1>8, <1>9, <1>10 DEF CategoryLoop, FeatureLoop
<1>12. Outcome(g)' /\ Keyed(g)'
  BY <1>2, <1>5, <1>6, <1>10 DEF FetchCategoryBlocking, Stage, Outcome, Keyed, Unique
<1> QED
  BY <1>6, <1>11, <1>12 DEF Stage, SizeLoop, DomainLoop, BetweenReads, Served

LEMMA FetchAdsFeatureStage ==
  ASSUME Typed, NEW g \in Bodies, Stage(g), FetchAdsFeature(g)
  PROVE  Stage(g)'
<1> USE QueryNames
<1> DEFINE rq == ParseRequest(g)
<1>1. LoopsTyped /\ RestTyped
  BY DEF Typed
<1>2. /\ UNCHANGED <<idle, old, fresh, step, answer, since, until>>
      /\ step \in 0..LastStep /\ step' \in 0..LastStep /\ step <= step'
      /\ pc[g] = "fetchAdsFeature" /\ Exists("ads_features", step) /\ DBAt(step) = db
  BY QueryReads DEF FetchAdsFeature, TableOf
<1>3. since[g] \in 0..LastStep /\ step \in since[g]..step
  BY <1>2 DEF Stage, Outcome, Typed, RestTyped, LastStep
<1>4. PICK a \in Current(g) :
        LET ads_features == features[g] \cup FoundFeature(a.ads_id)
        IN  IF todo[g] \ {a} # {}
            THEN /\ todo' = [todo EXCEPT ![g] = todo[g] \ {a}]
                 /\ features' = [features EXCEPT ![g] = ads_features]
                 /\ UNCHANGED <<pc, kept, targetted>>
            ELSE EndOfAdvertiser(g, a, ads_features)
  BY DEF FetchAdsFeature
<1>5. PICK ads_features : ads_features = features[g] \cup FoundFeature(a.ads_id)
  OBVIOUS
<1>6. \A b \in kept[g] : AlsoCategory(b, rq, since[g], step)
  BY <1>2 DEF Stage, FeatureLoop
<1>7. ASSUME NEW f \in ads_features, NEW b \in kept[g], b.ads_id = f.ads_id
      PROVE  AlsoFeature(b, rq, since[g], step)
  <2>1. CASE f \in FoundFeature(a.ads_id)
    <3>1. SelectAdsFeature(DBAt(step), b.ads_id) # {}
      BY <1>2, <1>7, <2>1 DEF FoundFeature, SelectAdsFeature
    <3> QED
      BY <1>2, <1>3, <1>6, <3>1 DEF AlsoFeature
  <2>2. CASE f \in features[g]
    BY <1>2, <1>7, <2>2 DEF Stage, FeatureLoop
  <2> QED
    BY <1>5, <2>1, <2>2
<1>8. /\ \A b \in kept[g] : AlsoCategory(b, rq, since[g], step)'
      /\ \A f \in ads_features : \A b \in kept[g] :
           b.ads_id = f.ads_id => AlsoFeature(b, rq, since[g], step)'
      /\ \A b \in targetted[g] : AlsoFeature(b, rq, since[g], step)'
  BY <1>2, <1>3, <1>6, <1>7, Persists DEF Stage, Outcome
<1>9. CASE todo[g] \ {a} # {}
  <2>1. /\ pc'[g] = "fetchAdsFeature" /\ kept' = kept /\ targetted' = targetted
        /\ features'[g] = ads_features /\ todo'[g] \subseteq todo[g]
    BY <1>1, <1>2, <1>4, <1>5, <1>9 DEF LoopsTyped, RestTyped
  <2>2. FeatureLoop(g)' /\ Outcome(g)' /\ Keyed(g)'
    BY <1>2, <1>8, <2>1 DEF FeatureLoop, Stage, Outcome, Keyed, Unique
  <2> QED
    BY <2>1, <2>2 DEF Stage, SizeLoop, DomainLoop, CategoryLoop, BetweenReads, Served
<1>10. CASE todo[g] \ {a} = {}
  <2> DEFINE adv_adses == {b \in kept[g] : b.advertiser_id = a.advertiser_id}
             best == {b \in adv_adses :
                        \E f \in featureTargeting(ads_features, rq.zone_feature) :
                          b.ads_id = f.ads_id}
  <2>1. EndOfAdvertiser(g, a, ads_features)
    BY <1>4, <1>5, <1>10
  <2>2. /\ targetted'[g] = targetted[g] \cup best
        /\ features'[g] = {}
        /\ Begin(g, "fetchAdsFeature", kept[g] \ adv_adses)
    BY <1>1, <2>1 DEF EndOfAdvertiser, RestTyped
  <2>3. /\ pc'[g] \in {"fetchAdsFeature", "reply"}
        /\ todo'[g] \subseteq kept[g] /\ kept'[g] \subseteq kept[g]
    <3>1. kept[g] \ adv_adses \in SUBSET Ads
      BY <1>1 DEF LoopsTyped
    <3> QED
      BY <1>1, <2>2, <3>1, BeginRows
  <2>4. \A b \in best : AlsoFeature(b, rq, since[g], step)'
    BY <1>8 DEF featureTargeting, Least
  <2>5. FeatureLoop(g)' /\ Keyed(g)'
    BY <1>2, <1>8, <2>2, <2>3 DEF FeatureLoop, Stage, Keyed, Unique
  <2>6. Outcome(g)'
    BY <1>2, <1>8, <2>2, <2>3, <2>4 DEF Stage, Outcome
  <2> QED
    BY <2>3, <2>5, <2>6 DEF Stage, SizeLoop, DomainLoop, CategoryLoop, BetweenReads,
       Served
<1> QED
  BY <1>9, <1>10

(* The bid that is sent is of an ad that passed.                            *)
LEMMA ReplyStage ==
  ASSUME Typed, NEW g \in Bodies, Stage(g), Reply(g)
  PROVE  Stage(g)'
<1>1. LoopsTyped /\ RestTyped /\ DBTypeOK
  BY DEF Typed
<1>2. /\ pc[g] = "reply" /\ pc'[g] = "answered"
      /\ UNCHANGED <<old, fresh, step, since, todo, kept, features>>
      /\ targetted'[g] = {} /\ until'[g] = step
      /\ answer'[g] = {Bid(a) : a \in Winner(targetted[g])}
  BY <1>1 DEF Reply, Settle, dbvars, LoopsTyped, RestTyped
<1>3. since[g] \in 0..LastStep /\ step \in 0..LastStep
  BY <1>1 DEF RestTyped, DBTypeOK
<1>4. ASSUME NEW bid \in answer'[g]
      PROVE  \E a \in old'["adses"] \cup fresh'["adses"] :
               bid = Bid(a) /\ AlsoFeature(a, ParseRequest(g), since[g], step)'
  <2>1. PICK a \in targetted[g] : bid = Bid(a)
    BY <1>2, <1>4 DEF Winner, Least
  <2>2. AlsoFeature(a, ParseRequest(g), since[g], step)
    BY <2>1 DEF Stage, Outcome
  <2>3. PICK v \in since[g]..step : Exists("adses", v) /\ a \in SelectAdses(DBAt(v))
    BY <1>3, <2>2 DEF AlsoFeature, AlsoCategory, AlsoDomain, ReadAndFits, Read, LastStep
  <2>4. v \in 0..LastStep
    BY <1>3, <2>3 DEF LastStep
  <2>5. a \in old["adses"] \cup fresh["adses"]
    BY <1>1, <2>3, <2>4, RowsOfTable, TableNames DEF Exists, SelectAdses
  <2>6. AlsoFeature(a, ParseRequest(g), since[g], step)'
    BY <1>2, <1>3, <2>2, Persists DEF LastStep
  <2> QED
    BY <1>2, <2>1, <2>5, <2>6
<1>5. Served(g)'
  BY <1>2, <1>4 DEF Served
<1>6. Outcome(g)' /\ Keyed(g)'
  BY <1>2 DEF Stage, Outcome, Keyed
<1> QED
  BY <1>2, <1>5, <1>6 DEF Stage, SizeLoop, DomainLoop, CategoryLoop, BetweenReads,
     FeatureLoop

(* A task that begins holds nothing, and so does one that fails.            *)
LEMMA StartOrFailStage ==
  ASSUME Typed, NEW g \in Bodies, Stage(g), Start(g) \/ Refuse(g) \/ Fail(g)
  PROVE  Stage(g)'
<1>1. step \in 0..LastStep /\ step' = step
  BY DEF Typed, DBTypeOK, Start, Refuse, Fail, Settle, dbvars
<1>2. CASE Start(g)
  <2>1. /\ pc[g] = "submitted" /\ pc'[g] = "fetchAdses" /\ since'[g] = step
        /\ UNCHANGED <<todo, kept, features, targetted>>
    BY <1>2 DEF Start, locals, Typed, LoopsTyped, RestTyped
  <2>2. Outcome(g)' /\ Keyed(g)'
    BY <1>1, <2>1, QueryNames DEF Stage, Outcome, Keyed, LastStep
  <2> QED
    BY <2>1, <2>2 DEF Stage, SizeLoop, DomainLoop, CategoryLoop, BetweenReads,
       FeatureLoop, Served
<1>3. CASE Fail(g)
  <2>1. /\ pc'[g] = "failed" /\ since' = since
        /\ todo'[g] = {} /\ kept'[g] = {} /\ features'[g] = {} /\ targetted'[g] = {}
    BY <1>3 DEF Fail, Settle, Typed, LoopsTyped, RestTyped
  <2>2. Outcome(g)' /\ Keyed(g)'
    BY <1>1, <2>1 DEF Stage, Outcome, Keyed, Unique
  <2> QED
    BY <2>1, <2>2 DEF Stage, SizeLoop, DomainLoop, CategoryLoop, BetweenReads,
       FeatureLoop, Served
<1>4. CASE Refuse(g)
  <2>1. /\ pc[g] = "submitted" /\ pc'[g] = "failed"
        /\ UNCHANGED <<todo, kept, features, targetted, since>>
    BY <1>4 DEF Refuse, locals, Typed, LoopsTyped, RestTyped
  <2>2. Outcome(g)' /\ Keyed(g)'
    BY <1>1, <2>1, QueryNames DEF Stage, Outcome, Keyed
  <2> QED
    BY <2>1, <2>2 DEF Stage, SizeLoop, DomainLoop, CategoryLoop, BetweenReads,
       FeatureLoop, Served
<1> QED
  BY <1>2, <1>3, <1>4

LEMMA InitChecked == Init => Checked
BY DEF Init, DBInit, Checked, Stage, SizeLoop, DomainLoop, CategoryLoop, BetweenReads,
   FeatureLoop, Keyed, Outcome, Served, Unique

LEMMA NextChecked == Typed /\ Checked /\ [Next]_vars => Checked'
<1> SUFFICES ASSUME Typed, Checked, [Next]_vars PROVE Checked'
  OBVIOUS
<1>1. CASE UNCHANGED vars \/ Setup
  <2>1. /\ UNCHANGED <<old, fresh, pc, locals, answer, since, until>>
        /\ step' \in 0..LastStep /\ step <= step'
    BY <1>1, SetupFrame DEF vars, dbvars, Typed, DBTypeOK, LastStep
  <2> QED
    BY <2>1, Frame DEF locals, Checked
<1>2. ASSUME NEW g \in Bodies, Task(g)
      PROVE  Checked'
  <2>1. Stage(g)
    BY DEF Checked
  <2>2. Stage(g)'
    BY <1>2, <2>1, StartOrFailStage, ReplyStage, FetchAdsesStage, FetchAdSizeStage,
       FetchAdvertiserStage, FetchAdvertiserAgainStage, FetchCategoryBlockingStage,
       FetchAdsFeatureStage DEF Task
  <2>3. UNCHANGED <<old, fresh, step>> /\ step \in 0..LastStep /\ step <= step'
    BY <1>2 DEF Task, Start, Refuse, FetchAdses, FetchAdSize, FetchAdvertiser,
       FetchAdvertiserAgain, FetchCategoryBlocking, FetchAdsFeature, Fail, Reply,
       Settle, Query, dbvars, Typed, DBTypeOK, LastStep
  <2>4. ASSUME NEW h \in Bodies \ {g}
        PROVE  Stage(h)'
    <3>1. Stage(h)
      BY DEF Checked
    <3> QED
      BY <1>2, <2>3, <3>1, OthersRows, Frame
  <2> QED
    BY <2>2, <2>4 DEF Checked
<1> QED
  BY <1>1, <1>2 DEF Next

(* The ad of every bid passed every check in the order of the code, each    *)
(* against the database as it was at some moment of the request, also while *)
(* setup_db.sh drops, creates and loads the tables.                         *)
THEOREM WinnersAreChecked == Spec => []WinnerWasChecked
<1>1. Checked => WinnerWasChecked
  BY DEF Checked, Stage, Served, WinnerWasChecked, Bids
<1> QED
  BY <1>1, InitTyped, NextTyped, InitChecked, NextChecked, PTL DEF Spec
-----------------------------------------------------------------------------
(* Why a request ended without an answer, once its body was parsed and no   *)
(* table is missing.                                                        *)
HasCause(g) ==
  \E a \in old["adses"] \cup fresh["adses"] :
    \/ UnknownType(a, ParseRequest(g), since[g], until[g])
    \/ NoFeature(a, ParseRequest(g), since[g], until[g])

Excused(g) == g \in Malformed \/ ~Whole(until[g]) \/ HasCause(g)

(* The last loop asks only for ads that passed the filters.                 *)
AsksForKept(g) == pc[g] = "fetchAdsFeature" => todo[g] \subseteq kept[g]

Blamed(g) ==
  /\ AsksForKept(g)
  /\ pc[g] = "failed" => Excused(g)

AllBlamed == \A g \in Bodies : Blamed(g)

LEMMA AlsoCategoryIsRigid ==
  ASSUME UNCHANGED <<old, fresh>>, NEW a, NEW rq, NEW from \in 0..LastStep,
         NEW to \in 0..LastStep
  PROVE  AlsoCategory(a, rq, from, to)' = AlsoCategory(a, rq, from, to)
<1> USE DEF LastStep
<1>1. \A v \in 0..LastStep :
        DBAt(v)' = DBAt(v) /\ \A t : Exists(t, v)' = Exists(t, v)
  BY HistoryIsRigid DEF Exists
<1>2. \A v \in 0..LastStep : AlsoDomain(a, rq, from, v)' = AlsoDomain(a, rq, from, v)
  BY AlsoDomainIsRigid
<1> QED
  BY <1>1, <1>2 DEF AlsoCategory

(* What an ad has passed it has passed for ever.                            *)
LEMMA CauseIsRigid ==
  ASSUME Typed, UNCHANGED <<old, fresh>>, NEW g \in Bodies, Excused(g),
         since'[g] = since[g], until'[g] = until[g]
  PROVE  Excused(g)'
<1> DEFINE rq == ParseRequest(g)
<1>1. since[g] \in 0..LastStep /\ until[g] \in 0..LastStep
  BY DEF Typed, RestTyped
<1>2. DBAt(until[g])' = DBAt(until[g])
  BY <1>1, HistoryIsRigid
<1>3. ASSUME HasCause(g)
      PROVE  HasCause(g)'
  <2>1. PICK a \in old["adses"] \cup fresh["adses"] :
          \/ UnknownType(a, rq, since[g], until[g])
          \/ NoFeature(a, rq, since[g], until[g])
    BY <1>3 DEF HasCause
  <2>2. UnknownType(a, rq, since[g], until[g])' = UnknownType(a, rq, since[g], until[g])
    BY <1>1, <1>2, AlsoDomainIsRigid DEF UnknownType
  <2>3. NoFeature(a, rq, since[g], until[g])' = NoFeature(a, rq, since[g], until[g])
    BY <1>1, <1>2, AlsoCategoryIsRigid DEF NoFeature
  <2> QED
    BY <2>1, <2>2, <2>3 DEF HasCause
<1>4. ~Whole(until[g]) => ~Whole(until[g])'
  BY <1>2 DEF Whole
<1> QED
  BY <1>3, <1>4 DEF Excused

LEMMA FrameBlamed ==
  ASSUME Typed, UNCHANGED <<old, fresh>>, NEW g \in Bodies, Blamed(g),
         pc'[g] = pc[g], todo'[g] = todo[g], kept'[g] = kept[g],
         since'[g] = since[g], until'[g] = until[g]
  PROVE  Blamed(g)'
BY CauseIsRigid DEF Blamed, AsksForKept

LEMMA AskingBlamed ==
  ASSUME Typed, NEW g \in Bodies, Asks(g), Blamed(g)
  PROVE  Blamed(g)'
<1> USE QueryNames
<1>1. LoopsTyped
  BY DEF Typed
<1>2. pc'[g] # "failed"
  BY AskingGoesOn
<1>3. CASE FetchAdses(g)
  BY <1>1, <1>2, <1>3 DEF FetchAdses, Begin, LoopsTyped, Blamed, AsksForKept
<1>4. CASE FetchAdSize(g) \/ FetchAdvertiser(g)
  BY <1>1, <1>2, <1>4
     DEF FetchAdSize, FetchAdvertiser, Visited, Begin, LoopsTyped, Blamed, AsksForKept
<1>5. CASE FetchAdvertiserAgain(g)
  BY <1>1, <1>2, <1>5 DEF FetchAdvertiserAgain, LoopsTyped, Blamed, AsksForKept
<1>6. CASE FetchCategoryBlocking(g)
  BY <1>1, <1>2, <1>6 DEF FetchCategoryBlocking, Visited, Begin, LoopsTyped, Blamed, AsksForKept
<1>7. CASE FetchAdsFeature(g)
  BY <1>1, <1>7
     DEF FetchAdsFeature, EndOfAdvertiser, Query, Begin, LoopsTyped, Blamed, AsksForKept
<1> QED
  BY <1>2, <1>3, <1>4, <1>5, <1>6, <1>7 DEF Asks, Blamed

(* A row that fitted is one of the two files'.                              *)
LEMMA FittingRowIsKnown ==
  ASSUME Typed, NEW a, NEW rq, NEW from \in 0..LastStep, NEW to \in 0..LastStep,
         ReadAndFits(a, rq, from, to)
  PROVE  a \in old["adses"] \cup fresh["adses"]
<1> USE DEF LastStep
<1>1. PICK v \in from..to : Read(a, from, v)
  BY DEF ReadAndFits
<1>2. PICK w \in from..v : "adses" \in DOMAIN DBAt(w) /\ a \in DBAt(w)["adses"]
  BY <1>1 DEF Read, Exists, SelectAdses
<1>3. w \in 0..LastStep
  BY <1>1, <1>2
<1> QED
  BY <1>2, <1>3, RowsOfTable, TableNames DEF Typed

LEMMA DomainFits ==
  ASSUME NEW a, NEW rq, NEW from \in 0..LastStep, NEW to \in 0..LastStep,
         AlsoDomain(a, rq, from, to)
  PROVE  ReadAndFits(a, rq, from, to)
<1> USE DEF LastStep
<1>1. PICK v \in from..to : ReadAndFits(a, rq, from, v)
  BY DEF AlsoDomain
<1>2. \A w \in from..v : w \in from..to
  BY <1>1
<1> QED
  BY <1>1, <1>2 DEF ReadAndFits

LEMMA CategoryFits ==
  ASSUME NEW a, NEW rq, NEW from \in 0..LastStep, NEW to \in 0..LastStep,
         AlsoCategory(a, rq, from, to)
  PROVE  ReadAndFits(a, rq, from, to)
<1> USE DEF LastStep
<1>1. PICK u \in from..to : AlsoDomain(a, rq, from, u)
  BY DEF AlsoCategory
<1>2. u \in 0..LastStep
  BY <1>1
<1>3. PICK v \in from..u : ReadAndFits(a, rq, from, v)
  BY <1>1 DEF AlsoDomain
<1>4. v \in from..to /\ \A w \in from..v : w \in from..to
  BY <1>1, <1>3
<1> QED
  BY <1>3, <1>4 DEF ReadAndFits

(* Where the tables are there, what raises is the type of an advertiser that *)
(* a loop asks for, or None for an ad that the last loop asks for.          *)
LEMMA FailHasCause ==
  ASSUME Typed, NEW g \in Bodies, Stage(g), AsksForKept(g), Fail(g), Whole(step)
  PROVE  \E a \in old["adses"] \cup fresh["adses"] :
           \/ UnknownType(a, ParseRequest(g), since[g], step)
           \/ NoFeature(a, ParseRequest(g), since[g], step)
<1> USE QueryNames
<1> DEFINE rq == ParseRequest(g)
<1>1. /\ DBAt(step) = db /\ step \in 0..LastStep /\ since[g] \in 0..LastStep
      /\ pc[g] \in Queries /\ Raises(g)
  BY DEF Fail, db, Typed, DBTypeOK, RestTyped
<1>2. TableOf[pc[g]] \in DOMAIN db
  BY <1>1, TableNames DEF Whole, TableOf
<1>3. PICK a \in todo[g] :
        \/ TableOf[pc[g]] = "advertisers" /\ TypeRaises(a)
        \/ pc[g] = "fetchAdsFeature" /\ SelectAdsFeature(db, a.ads_id) = {}
  BY <1>1, <1>2 DEF Raises, Current, Least
<1>4. CASE TableOf[pc[g]] = "advertisers" /\ TypeRaises(a)
  <2>1. pc[g] \in {"fetchAdvertiser", "fetchAdvertiserAgain"}
    BY <1>1, <1>4 DEF TableOf
  <2>2. ReadAndFits(a, rq, since[g], step)
    BY <1>1, <2>1, DomainFits DEF Stage, DomainLoop, CategoryLoop
  <2>3. UnknownType(a, rq, since[g], step)
    BY <1>1, <1>4, <2>2 DEF UnknownType, TypeRaises
  <2> QED
    BY <1>1, <2>2, <2>3, FittingRowIsKnown
<1>5. CASE pc[g] = "fetchAdsFeature" /\ SelectAdsFeature(db, a.ads_id) = {}
  <2>1. AlsoCategory(a, rq, since[g], step)
    BY <1>5 DEF Stage, FeatureLoop, AsksForKept
  <2>2. NoFeature(a, rq, since[g], step)
    BY <1>1, <1>5, <2>1 DEF NoFeature
  <2> QED
    BY <1>1, <2>1, <2>2, CategoryFits, FittingRowIsKnown
<1> QED
  BY <1>3, <1>4, <1>5

LEMMA FailBlamed ==
  ASSUME Typed, NEW g \in Bodies, Stage(g), Blamed(g), Fail(g)
  PROVE  Blamed(g)'
<1> DEFINE rq == ParseRequest(g)
<1>1. /\ pc'[g] = "failed" /\ until'[g] = step /\ since' = since
      /\ UNCHANGED <<old, fresh, step>>
      /\ step \in 0..LastStep /\ since[g] \in 0..LastStep
  BY DEF Fail, Settle, dbvars, Typed, DBTypeOK, LoopsTyped, RestTyped
<1>2. DBAt(step)' = DBAt(step)
  BY <1>1, HistoryIsRigid
<1>3. CASE ~Whole(step)
  <2>1. ~Whole(until[g])'
    BY <1>1, <1>2, <1>3 DEF Whole
  <2> QED
    BY <1>1, <2>1 DEF Blamed, AsksForKept, Excused
<1>4. CASE Whole(step)
  <2>1. PICK a \in old["adses"] \cup fresh["adses"] :
          \/ UnknownType(a, rq, since[g], step)
          \/ NoFeature(a, rq, since[g], step)
    BY <1>4, FailHasCause DEF Blamed
  <2>2. UnknownType(a, rq, since[g], step)' = UnknownType(a, rq, since[g], step)
    BY <1>1, <1>2, AlsoDomainIsRigid DEF UnknownType
  <2>3. NoFeature(a, rq, since[g], step)' = NoFeature(a, rq, since[g], step)
    BY <1>1, <1>2, AlsoCategoryIsRigid DEF NoFeature
  <2>4. HasCause(g)'
    BY <1>1, <2>1, <2>2, <2>3 DEF HasCause
  <2> QED
    BY <1>1, <2>4 DEF Blamed, AsksForKept, Excused
<1> QED
  BY <1>3, <1>4

LEMMA NextBlamed == Typed /\ Checked /\ AllBlamed /\ [Next]_vars => AllBlamed'
<1> SUFFICES ASSUME Typed, Checked, AllBlamed, [Next]_vars PROVE AllBlamed'
  OBVIOUS
<1>1. CASE UNCHANGED vars \/ Setup
  <2>1. UNCHANGED <<old, fresh, pc, locals, since, until>>
    BY <1>1, SetupFrame DEF vars, dbvars
  <2> QED
    BY <2>1, FrameBlamed DEF locals, AllBlamed
<1>2. ASSUME NEW g \in Bodies, Task(g)
      PROVE  AllBlamed'
  <2>1. UNCHANGED <<old, fresh>>
    BY <1>2 DEF Task, Start, Refuse, FetchAdses, FetchAdSize, FetchAdvertiser,
       FetchAdvertiserAgain, FetchCategoryBlocking, FetchAdsFeature, Fail, Reply,
       Settle, Query, dbvars
  <2>2. Blamed(g)'
    <3>1. CASE Start(g) \/ Reply(g)
      <4>1. pc'[g] \in {"fetchAdses", "answered"}
        BY <3>1 DEF Start, Reply, Settle, Typed, LoopsTyped
      <4> QED
        BY <4>1 DEF Blamed, AsksForKept
    <3>2. CASE Refuse(g)
      <4>1. pc'[g] = "failed" /\ g \in Malformed
        BY <3>2 DEF Refuse, Typed, LoopsTyped
      <4> QED
        BY <4>1 DEF Blamed, AsksForKept, Excused
    <3> QED
      BY <1>2, <3>1, <3>2, AskingBlamed, FailBlamed DEF Task, Asks, Checked, AllBlamed
  <2>3. ASSUME NEW h \in Bodies \ {g}
        PROVE  Blamed(h)'
    BY <1>2, <2>1, OthersRows, FrameBlamed DEF AllBlamed
  <2> QED
    BY <2>2, <2>3 DEF AllBlamed
<1> QED
  BY <1>1, <1>2 DEF Next

(* Over any contents, whatever the other tasks and the script do: a request *)
(* ends without an answer only because of its own body, because a table is  *)
(* missing, or because of an ad that had passed the checks before, whose    *)
(* advertiser has none of the two types or which has no feature.            *)
THEOREM FailuresAreBlamed == Spec => []FailsForCause
<1>1. Init => AllBlamed
  BY DEF Init, AllBlamed, Blamed, AsksForKept
<1>2. AllBlamed => FailsForCause
  BY DEF AllBlamed, Blamed, Excused, HasCause, FailsForCause
<1> QED
  BY <1>1, <1>2, InitTyped, NextTyped, InitChecked, NextChecked, NextBlamed, PTL
     DEF Spec
-----------------------------------------------------------------------------
(* While the contents stand still under a request, its task's rows are those *)
(* that the documents ask for over the contents as they are taken.          *)
Still(g) == since[g] = step /\ Whole(step)

SizesExact(g) ==
  pc[g] = "fetchAdSize" =>
    /\ todo[g] \subseteq SelectAdses(db)
    /\ kept[g] = Fitting(db, ParseRequest(g)) \ todo[g]

DomainsExact(g) ==
  pc[g] = "fetchAdvertiser" =>
    /\ todo[g] \subseteq Fitting(db, ParseRequest(g))
    /\ kept[g] = Unblocked(db, ParseRequest(g)) \ todo[g]

CategoriesExact(g) ==
  pc[g] \in {"fetchAdvertiserAgain", "fetchCategoryBlocking"} =>
    /\ todo[g] \subseteq Unblocked(db, ParseRequest(g))
    /\ kept[g] = Wanted(db, ParseRequest(g)) \ todo[g]

AdvertiserExact(g) ==
  pc[g] = "fetchCategoryBlocking" =>
    \A a \in Current(g) : advertiser[g] = SelectAdvertiser(db, a.advertiser_id)

(* The last loop: kept has the advertisers that are not finished, whole.    *)
FeaturesExact(g) ==
  pc[g] = "fetchAdsFeature" =>
    /\ kept[g] \subseteq Wanted(db, ParseRequest(g))
    /\ \A a \in kept[g] : Group(Wanted(db, ParseRequest(g)), a) \subseteq kept[g]
    /\ targetted[g] = Representatives(Taken(Truthy(db)), ParseRequest(g)) \ kept[g]
    /\ \A a \in todo[g] :
         /\ a \in kept[g] /\ todo[g] \subseteq Group(kept[g], a)
         /\ features[g] = FeaturesOf(Truthy(db), Group(kept[g], a) \ todo[g])

TargetsExact(g) ==
  pc[g] = "reply" => targetted[g] = Representatives(Taken(Truthy(db)), ParseRequest(g))

Exact(g) ==
  /\ SizesExact(g)
  /\ DomainsExact(g)
  /\ CategoriesExact(g)
  /\ AdvertiserExact(g)
  /\ FeaturesExact(g)
  /\ TargetsExact(g)

(* A filter loop that keeps, of the rows from, those that are in to: it goes *)
(* on over those that it has not handled, or has kept the rows that pass    *)
(* and is followed by the next loop.                                        *)
GoesOn(g, from, to, statement, following) ==
  \/ /\ pc'[g] = statement
     /\ todo'[g] \subseteq from
     /\ kept'[g] = to \ todo'[g]
  \/ Begin(g, following, to)

LEMMA FilterGoesOn ==
  ASSUME LoopsTyped, NEW g \in Bodies, NEW a \in todo[g], NEW keep \in BOOLEAN,
         NEW statement \in Queries, NEW following \in Queries,
         Visited(g, a, keep, statement, following),
         NEW from, NEW to \in SUBSET from, todo[g] \subseteq from,
         kept[g] = to \ todo[g], keep <=> a \in to
  PROVE  GoesOn(g, from, to, statement, following)
<1> USE DEF GoesOn
<1> DEFINE rows == IF keep THEN kept[g] \cup {a} ELSE kept[g]
<1>1. CASE todo[g] \ {a} # {}
  <2>1. /\ pc'[g] = statement /\ todo'[g] = todo[g] \ {a} /\ kept'[g] = rows
    BY <1>1 DEF Visited, LoopsTyped
  <2> QED
    BY <2>1
<1>2. CASE todo[g] \ {a} = {}
  <2>1. rows = to
    BY <1>2
  <2> QED
    BY <1>2, <2>1 DEF Visited
<1> QED
  BY <1>1, <1>2

LEMMA FilterBegins ==
  ASSUME LoopsTyped, NEW g \in Bodies, NEW rows,
         NEW statement \in Queries \ {"fetchAdsFeature"}, Begin(g, statement, rows)
  PROVE  /\ todo'[g] = rows /\ kept'[g] = {}
         /\ pc'[g] = IF rows = {} THEN "reply" ELSE statement
BY DEF Begin, LoopsTyped

(* The last loop takes the ads of one advertiser.                           *)
LEMMA LastLoopBegins ==
  ASSUME LoopsTyped, NEW g \in Bodies, NEW rows \in SUBSET Ads, Unique(rows, "ads_id"),
         Begin(g, "fetchAdsFeature", rows)
  PROVE  /\ kept'[g] = rows
         /\ pc'[g] = IF rows = {} THEN "reply" ELSE "fetchAdsFeature"
         /\ \A a \in todo'[g] : a \in rows /\ todo'[g] = Group(rows, a)
<1>1. \A b, c \in Least(rows, "ads_id") : b = c
  BY DEF Least, Unique, Ads
<1>2. todo'[g] = {a \in rows : a.advertiser_id \in {b.advertiser_id : b \in Least(rows, "ads_id")}}
  BY DEF Begin, LoopsTyped
<1>3. \A a \in todo'[g] : a \in rows /\ todo'[g] = Group(rows, a)
  BY <1>1, <1>2 DEF Group
<1> QED
  BY <1>3 DEF Begin, LoopsTyped

(* Only the last loop sees that a feature is 0.                             *)
LEMMA TruthyColumns ==
  ASSUME NEW d, Tabular(d)
  PROVE  /\ \A t \in Tables : t # "ads_features" => Truthy(d)[t] = d[t]
         /\ Truthy(d) = [t \in Tables |-> Truthy(d)[t]]
         /\ Truthy(d)["ads_features"] = {f \in d["ads_features"] : f.feature # 0}
BY TableNames DEF Truthy, Tabular

LEMMA TruthyIsTabular ==
  ASSUME NEW d, Tabular(d)
  PROVE  Tabular(Truthy(d))
<1> DEFINE F == Truthy(d)["ads_features"]
<1>1. F \subseteq d["ads_features"] /\ IsFiniteSet(d["ads_features"])
  BY TruthyColumns, TableNames DEF Tabular
<1>2. F \subseteq AdsFeature /\ IsFiniteSet(F) /\ Unique(F, "ads_id")
  BY <1>1, FS_Subset DEF Tabular, Unique
<1>3. \A t \in Tables : IsFiniteSet(Truthy(d)[t])
  BY <1>2, TruthyColumns DEF Tabular
<1> QED
  BY <1>2, <1>3, TruthyColumns, TableNames DEF Tabular

LEMMA TruthyWanted ==
  ASSUME NEW d, Tabular(d), NEW rq
  PROVE  Wanted(Truthy(d), rq) = Wanted(d, rq)
<1>1. /\ SelectAdses(Truthy(d)) = SelectAdses(d)
      /\ \A i : /\ SelectAdSize(Truthy(d), i) = SelectAdSize(d, i)
                /\ SelectAdvertiser(Truthy(d), i) = SelectAdvertiser(d, i)
                /\ SelectCategories(Truthy(d), i) = SelectCategories(d, i)
  BY TruthyColumns, TableNames
     DEF SelectAdses, SelectAdSize, SelectAdvertiser, SelectCategories
<1> QED
  BY <1>1 DEF Wanted, Unblocked, Fitting

(* What holds of the contents makes the lemmas about the rules apply.       *)
LEMMA RulesApply ==
  ASSUME Typed, NEW g \in Bodies, Still(g)
  PROVE  LET rq == ParseRequest(g)
             W == Wanted(db, rq)
         IN  /\ rq \in Request
             /\ Unblocked(db, rq) \subseteq Fitting(db, rq) /\ W \subseteq Unblocked(db, rq)
             /\ Fitting(db, rq) \subseteq SelectAdses(db)
             /\ W \subseteq Ads /\ Unique(W, "ads_id")
             /\ Representatives(Taken(Truthy(db)), rq) \subseteq W
<1>1. Tabular(db) /\ ParseRequest(g) \in Request
  BY WholeIsTabular, BodiesParse DEF Typed, DBTypeOK, Still, db
<1>2. Representatives(Taken(Truthy(db)), ParseRequest(g)) \subseteq
        Wanted(db, ParseRequest(g))
  BY <1>1, RepresentativesAreWanted, TruthyIsTabular, TruthyWanted
<1> QED
  BY <1>1, <1>2 DEF Fitting, Unblocked, Wanted, SelectAdses, Tabular, Unique

(* The two queries around which no row is decided.                          *)
LEMMA FetchAdsesExact ==
  ASSUME Typed, NEW g \in Bodies, Still(g), Stage(g), FetchAdses(g)
  PROVE  Exact(g)'
<1> USE QueryNames
<1> DEFINE rq == ParseRequest(g)
<1>1. /\ LoopsTyped /\ UNCHANGED targetted /\ db' = db
      /\ pc[g] = "fetchAdses" /\ targetted[g] = {}
  BY DEF FetchAdses, Query, dbvars, Typed, Stage, Outcome, db, DBAt
<1>2. /\ todo'[g] = SelectAdses(db) /\ kept'[g] = {}
      /\ pc'[g] = IF SelectAdses(db) = {} THEN "reply" ELSE "fetchAdSize"
  BY <1>1, FilterBegins DEF FetchAdses
<1>3. SizesExact(g)'
  BY <1>1, <1>2, RulesApply DEF SizesExact
<1>4. TargetsExact(g)'
  <2>1. SelectAdses(db) = {} => Representatives(Taken(Truthy(db)), rq) = {}
    BY RulesApply
  <2> QED
    BY <1>1, <1>2, <2>1 DEF TargetsExact
<1> QED
  BY <1>2, <1>3, <1>4 DEF Exact, DomainsExact, CategoriesExact, AdvertiserExact,
     FeaturesExact

LEMMA FetchAdvertiserAgainExact ==
  ASSUME Typed, NEW g \in Bodies, Still(g), Stage(g), Exact(g),
         FetchAdvertiserAgain(g)
  PROVE  Exact(g)'
<1> USE QueryNames
<1>1. /\ LoopsTyped /\ RestTyped /\ UNCHANGED <<todo, kept>> /\ db' = db
      /\ pc[g] = "fetchAdvertiserAgain" /\ pc'[g] = "fetchCategoryBlocking"
  BY DEF FetchAdvertiserAgain, Query, dbvars, Typed, LoopsTyped, db, DBAt
<1>2. CategoriesExact(g)'
  BY <1>1 DEF Exact, CategoriesExact
<1>3. PICK a \in Current(g) :
        advertiser' = [advertiser EXCEPT ![g] = SelectAdvertiser(db, a.advertiser_id)]
  BY <1>1 DEF FetchAdvertiserAgain
<1>4. \A b \in Current(g) : b = a
  BY <1>1 DEF Current, Least, LoopsTyped, Stage, Keyed, Unique, Ads
<1>5. AdvertiserExact(g)'
  BY <1>1, <1>3, <1>4 DEF AdvertiserExact, Current, RestTyped
<1> QED
  BY <1>1, <1>2, <1>5 DEF Exact, SizesExact, DomainsExact, FeaturesExact, TargetsExact

(* The three filter loops.                                                  *)
LEMMA FetchAdSizeExact ==
  ASSUME Typed, NEW g \in Bodies, Still(g), Stage(g), Exact(g), FetchAdSize(g)
  PROVE  Exact(g)'
<1> USE QueryNames
<1> DEFINE rq == ParseRequest(g)
<1>1. /\ LoopsTyped /\ UNCHANGED targetted /\ db' = db
      /\ pc[g] = "fetchAdSize" /\ targetted[g] = {}
  BY DEF FetchAdSize, Query, dbvars, Typed, Stage, Outcome, db, DBAt
<1>2. PICK a \in todo[g], keep \in BOOLEAN :
        /\ keep = SizeMatches(SelectAdSize(db, a.size_id), rq)
        /\ Visited(g, a, keep, "fetchAdSize", "fetchAdvertiser")
  BY <1>1 DEF FetchAdSize, SizeMatches, Current, Least
<1>3. /\ todo[g] \subseteq SelectAdses(db)
      /\ kept[g] = Fitting(db, rq) \ todo[g]
      /\ keep <=> a \in Fitting(db, rq)
      /\ Fitting(db, rq) \in SUBSET SelectAdses(db)
  BY <1>1, <1>2, RulesApply DEF Exact, SizesExact, Fitting
<1>4. \/ /\ pc'[g] = "fetchAdSize"
         /\ todo'[g] \subseteq SelectAdses(db)
         /\ kept'[g] = Fitting(db, rq) \ todo'[g]
      \/ Begin(g, "fetchAdvertiser", Fitting(db, rq))
  <2>1. GoesOn(g, SelectAdses(db), Fitting(db, rq), "fetchAdSize", "fetchAdvertiser")
    BY <1>1, <1>2, <1>3, FilterGoesOn
  <2> QED
    BY <2>1 DEF GoesOn
<1>5. CASE pc'[g] = "fetchAdSize"
  <2>1. SizesExact(g)'
    BY <1>1, <1>4, <1>5, FilterBegins DEF SizesExact
  <2> QED
    BY <1>5, <2>1 DEF Exact, DomainsExact, CategoriesExact, AdvertiserExact,
       FeaturesExact, TargetsExact
<1>6. CASE Begin(g, "fetchAdvertiser", Fitting(db, rq))
  <2>1. /\ todo'[g] = Fitting(db, rq) /\ kept'[g] = {}
        /\ pc'[g] = IF Fitting(db, rq) = {} THEN "reply" ELSE "fetchAdvertiser"
    BY <1>1, <1>6, FilterBegins
  <2>2. DomainsExact(g)'
    BY <1>1, <2>1, RulesApply DEF DomainsExact
  <2>3. TargetsExact(g)'
    <3>1. Fitting(db, rq) = {} => Representatives(Taken(Truthy(db)), rq) = {}
      BY RulesApply
    <3> QED
      BY <1>1, <2>1, <3>1 DEF TargetsExact
  <2> QED
    BY <2>1, <2>2, <2>3 DEF Exact, SizesExact, CategoriesExact, AdvertiserExact,
       FeaturesExact
<1> QED
  BY <1>4, <1>5, <1>6

LEMMA FetchAdvertiserExact ==
  ASSUME Typed, NEW g \in Bodies, Still(g), Stage(g), Exact(g),
         FetchAdvertiser(g)
  PROVE  Exact(g)'
<1> USE QueryNames
<1> DEFINE rq == ParseRequest(g)
<1>1. /\ LoopsTyped /\ UNCHANGED targetted /\ db' = db
      /\ pc[g] = "fetchAdvertiser" /\ targetted[g] = {}
  BY DEF FetchAdvertiser, Query, dbvars, Typed, Stage, Outcome, db, DBAt
<1>2. PICK a \in todo[g], keep \in BOOLEAN :
        /\ keep = DomainPasses(SelectAdvertiser(db, a.advertiser_id), rq)
        /\ Visited(g, a, keep, "fetchAdvertiser", "fetchAdvertiserAgain")
  BY <1>1 DEF FetchAdvertiser, DomainPasses, Current, Least
<1>3. /\ todo[g] \subseteq Fitting(db, rq)
      /\ kept[g] = Unblocked(db, rq) \ todo[g]
      /\ keep <=> a \in Unblocked(db, rq)
      /\ Unblocked(db, rq) \in SUBSET Fitting(db, rq)
  BY <1>1, <1>2, RulesApply DEF Exact, DomainsExact, Unblocked
<1>4. \/ /\ pc'[g] = "fetchAdvertiser"
         /\ todo'[g] \subseteq Fitting(db, rq)
         /\ kept'[g] = Unblocked(db, rq) \ todo'[g]
      \/ Begin(g, "fetchAdvertiserAgain", Unblocked(db, rq))
  <2>1. GoesOn(g, Fitting(db, rq), Unblocked(db, rq), "fetchAdvertiser", "fetchAdvertiserAgain")
    BY <1>1, <1>2, <1>3, FilterGoesOn
  <2> QED
    BY <2>1 DEF GoesOn
<1>5. CASE pc'[g] = "fetchAdvertiser"
  <2>1. DomainsExact(g)'
    BY <1>1, <1>4, <1>5, FilterBegins DEF DomainsExact
  <2> QED
    BY <1>5, <2>1 DEF Exact, SizesExact, CategoriesExact, AdvertiserExact,
       FeaturesExact, TargetsExact
<1>6. CASE Begin(g, "fetchAdvertiserAgain", Unblocked(db, rq))
  <2>1. /\ todo'[g] = Unblocked(db, rq) /\ kept'[g] = {}
        /\ pc'[g] = IF Unblocked(db, rq) = {} THEN "reply" ELSE "fetchAdvertiserAgain"
    BY <1>1, <1>6, FilterBegins
  <2>2. CategoriesExact(g)'
    BY <1>1, <2>1, RulesApply DEF CategoriesExact
  <2>3. TargetsExact(g)'
    <3>1. Unblocked(db, rq) = {} => Representatives(Taken(Truthy(db)), rq) = {}
      BY RulesApply
    <3> QED
      BY <1>1, <2>1, <3>1 DEF TargetsExact
  <2> QED
    BY <2>1, <2>2, <2>3 DEF Exact, SizesExact, DomainsExact, AdvertiserExact,
       FeaturesExact
<1> QED
  BY <1>4, <1>5, <1>6

LEMMA FetchCategoryBlockingExact ==
  ASSUME Typed, NEW g \in Bodies, Still(g), Stage(g), Exact(g),
         FetchCategoryBlocking(g)
  PROVE  Exact(g)'
<1> USE QueryNames
<1> DEFINE rq == ParseRequest(g)
           W == Wanted(db, rq)
<1>1. /\ LoopsTyped /\ UNCHANGED <<targetted, features>> /\ db' = db
      /\ pc[g] = "fetchCategoryBlocking" /\ targetted[g] = {} /\ features[g] = {}
  BY DEF FetchCategoryBlocking, Query, dbvars, Typed, Stage, Outcome, db, DBAt
<1>2. PICK a \in Current(g), keep \in BOOLEAN :
        /\ keep = CategoryPasses(advertiser[g], SelectCategories(db, a.advertiser_id), rq)
        /\ Visited(g, a, keep, "fetchAdvertiserAgain", "fetchAdsFeature")
  BY <1>1 DEF FetchCategoryBlocking, CategoryPasses
<1>3. /\ a \in todo[g]
      /\ advertiser[g] = SelectAdvertiser(db, a.advertiser_id)
  BY <1>1 DEF Exact, AdvertiserExact, Current, Least
<1>4. /\ todo[g] \subseteq Unblocked(db, rq)
      /\ kept[g] = W \ todo[g]
      /\ keep <=> a \in W
      /\ W \in SUBSET Unblocked(db, rq)
  BY <1>1, <1>2, <1>3, RulesApply DEF Exact, CategoriesExact, Wanted
<1>5. \/ /\ pc'[g] = "fetchAdvertiserAgain"
         /\ todo'[g] \subseteq Unblocked(db, rq)
         /\ kept'[g] = W \ todo'[g]
      \/ Begin(g, "fetchAdsFeature", W)
  <2>1. GoesOn(g, Unblocked(db, rq), W, "fetchAdvertiserAgain", "fetchAdsFeature")
    BY <1>1, <1>2, <1>3, <1>4, FilterGoesOn
  <2> QED
    BY <2>1 DEF GoesOn
<1>6. CASE Begin(g, "fetchAdsFeature", W)
  <2>1. W \in SUBSET Ads /\ Unique(W, "ads_id") /\ Representatives(Taken(Truthy(db)), rq) \subseteq W
    BY RulesApply
  <2>2. /\ kept'[g] = W
        /\ pc'[g] = IF W = {} THEN "reply" ELSE "fetchAdsFeature"
        /\ \A b \in todo'[g] : b \in W /\ todo'[g] = Group(W, b)
    BY <1>1, <1>6, <2>1, LastLoopBegins
  <2>3. FeaturesOf(Truthy(db), {}) = {}
    BY DEF FeaturesOf
  <2>4. FeaturesExact(g)'
    BY <1>1, <2>1, <2>2, <2>3 DEF FeaturesExact, Group, FeaturesOf
  <2>5. TargetsExact(g)'
    BY <1>1, <2>1, <2>2 DEF TargetsExact
  <2> QED
    BY <2>2, <2>4, <2>5 DEF Exact, SizesExact, DomainsExact, CategoriesExact,
       AdvertiserExact
<1>7. CASE /\ pc'[g] = "fetchAdvertiserAgain"
           /\ todo'[g] \subseteq Unblocked(db, rq)
           /\ kept'[g] = W \ todo'[g]
  <2>1. CategoriesExact(g)'
    BY <1>1, <1>7 DEF CategoriesExact
  <2> QED
    BY <1>7, <2>1 DEF Exact, SizesExact, DomainsExact, AdvertiserExact,
       FeaturesExact, TargetsExact
<1> QED
  BY <1>5, <1>6, <1>7

(* The last loop: where no feature is 0, the features read are those of the *)
(* advertiser's ads, and the nearest is that of its representative.         *)
LEMMA FetchAdsFeatureExact ==
  ASSUME Typed, NEW g \in Bodies, Still(g), Stage(g), Exact(g),
         FetchAdsFeature(g)
  PROVE  Exact(g)'
<1> USE QueryNames
<1> DEFINE rq == ParseRequest(g)
           W == Wanted(db, rq)
<1>1. /\ LoopsTyped /\ RestTyped /\ db' = db
      /\ pc[g] = "fetchAdsFeature"
  BY DEF FetchAdsFeature, Query, dbvars, Typed, db, DBAt
<1>2. PICK a \in todo[g] :
        LET ads_features == features[g] \cup FoundFeature(a.ads_id)
        IN  IF todo[g] \ {a} # {}
            THEN /\ todo' = [todo EXCEPT ![g] = todo[g] \ {a}]
                 /\ features' = [features EXCEPT ![g] = ads_features]
                 /\ UNCHANGED <<pc, kept, targetted>>
            ELSE EndOfAdvertiser(g, a, ads_features)
  BY DEF FetchAdsFeature, Current, Least
<1> DEFINE G == Group(kept[g], a)
           T == FeaturesOf(Truthy(db), G \ (todo[g] \ {a}))
<1>3. /\ kept[g] \subseteq W
      /\ \A b \in kept[g] : Group(W, b) \subseteq kept[g]
      /\ targetted[g] = Representatives(Taken(Truthy(db)), rq) \ kept[g]
      /\ a \in kept[g] /\ todo[g] \subseteq G /\ a \in W
      /\ features[g] = FeaturesOf(Truthy(db), G \ todo[g])
  BY <1>1 DEF Exact, FeaturesExact
<1>4. /\ rq \in Request /\ W \subseteq Ads /\ Unique(W, "ads_id")
      /\ Representatives(Taken(Truthy(db)), rq) \subseteq W
      /\ Tabular(Truthy(db)) /\ Wanted(Truthy(db), rq) = W
  <2>1. Tabular(db)
    BY WholeIsTabular DEF Typed, DBTypeOK, Still, db
  <2> QED
    BY <2>1, RulesApply, TruthyIsTabular, TruthyWanted
<1>5. FoundFeature(a.ads_id) = {f \in Truthy(db)["ads_features"] : f.ads_id = a.ads_id}
  <2>1. Tabular(db)
    BY WholeIsTabular DEF Typed, DBTypeOK, Still, db
  <2> QED
    BY <2>1, TruthyColumns DEF FoundFeature, SelectAdsFeature
<1>6. features[g] \cup FoundFeature(a.ads_id) = T
  BY <1>3, <1>5 DEF FeaturesOf, Group
<1>7. CASE todo[g] \ {a} # {}
  <2>1. /\ todo'[g] = todo[g] \ {a} /\ features'[g] = T
        /\ pc' = pc /\ kept' = kept /\ targetted' = targetted
    BY <1>1, <1>2, <1>6, <1>7 DEF LoopsTyped, RestTyped
  <2>2. \A b \in todo'[g] : b \in kept[g] /\ Group(kept[g], b) = G
    BY <1>3, <2>1 DEF Group
  <2>3. FeaturesExact(g)'
    BY <1>1, <1>3, <2>1, <2>2 DEF FeaturesExact
  <2> QED
    BY <1>1, <2>1, <2>3 DEF Exact, SizesExact, DomainsExact, CategoriesExact,
       AdvertiserExact, TargetsExact
<1>8. CASE todo[g] \ {a} = {}
  <2>1. G = Group(W, a)
    BY <1>3 DEF Group
  <2> DEFINE best == {b \in G : \E f \in Nearest(FeaturesOf(Truthy(db), G), rq.zone_feature) :
                        b.ads_id = f.ads_id}
             rest == kept[g] \ G
  <2>2. T = FeaturesOf(Truthy(db), G)
    BY <1>8
  <2>3. best = {b \in G : b \in Representatives(Taken(Truthy(db)), rq)}
    BY <1>4, <1>3, <2>1, NearestIsRepresentative
  <2>4. EndOfAdvertiser(g, a, FeaturesOf(Truthy(db), G))
    BY <1>2, <1>6, <1>8, <2>2
  <2>5. /\ targetted'[g] = targetted[g] \cup best
        /\ features'[g] = {}
        /\ Begin(g, "fetchAdsFeature", rest)
    BY <1>1, <2>4 DEF EndOfAdvertiser, RestTyped, featureTargeting, Nearest, Group
  <2>6. targetted'[g] = Representatives(Taken(Truthy(db)), rq) \ rest
    BY <1>3, <2>3, <2>5
  <2>7. rest \in SUBSET Ads /\ Unique(rest, "ads_id") /\ rest \subseteq W
    BY <1>3, <1>4 DEF Unique
  <2>8. /\ kept'[g] = rest
        /\ pc'[g] = IF rest = {} THEN "reply" ELSE "fetchAdsFeature"
        /\ \A b \in todo'[g] : b \in rest /\ todo'[g] = Group(rest, b)
    BY <1>1, <2>5, <2>7, LastLoopBegins
  <2>9. \A b \in rest : Group(W, b) \subseteq rest
    BY <1>3 DEF Group
  <2>10. FeaturesExact(g)'
    BY <1>1, <2>5, <2>6, <2>7, <2>8, <2>9 DEF FeaturesExact, Group, FeaturesOf
  <2>11. TargetsExact(g)'
    BY <1>1, <2>6, <2>8 DEF TargetsExact
  <2> QED
    BY <2>8, <2>10, <2>11 DEF Exact, SizesExact, DomainsExact, CategoriesExact,
       AdvertiserExact
<1> QED
  BY <1>7, <1>8

(* The sort's first ad is the winner of the documents.                      *)
LEMMA WinnerIsDocumented ==
  ASSUME NEW d, NEW rq, Representatives(d, rq) \subseteq Ads
  PROVE  {Bid(a) : a \in Winner(Representatives(d, rq))} = DocumentedAnswer(d, rq)
<1> DEFINE R == Representatives(d, rq)
<1>1. \A a \in R : a.price \in Nat /\ a.ads_id \in Nat
  BY DEF Ads
<1>2. \A a \in R : a \in Winner(R) <=> a \in Winners(d, rq)
  BY <1>1 DEF Winner, Winners, Least
<1>3. Winner(R) = Winners(d, rq)
  BY <1>2 DEF Winner, Winners, Least
<1> QED
  BY <1>3 DEF DocumentedAnswer

AllExact == \A g \in Bodies : Still(g) => Exact(g)

LEMMA InitExact == Init => AllExact
BY QueryNames DEF Init, AllExact, Exact, SizesExact, DomainsExact, CategoriesExact,
   AdvertiserExact, FeaturesExact, TargetsExact

(* A task that does not move stays exact: nothing that another task does is *)
(* seen by it.                                                              *)
LEMMA SameLocals ==
  ASSUME NEW g \in Bodies, Exact(g), UNCHANGED db,
         pc'[g] = pc[g], todo'[g] = todo[g], kept'[g] = kept[g],
         advertiser'[g] = advertiser[g], features'[g] = features[g],
         targetted'[g] = targetted[g]
  PROVE  Exact(g)'
BY DEF Exact, SizesExact, DomainsExact, CategoriesExact, AdvertiserExact,
   FeaturesExact, TargetsExact, Current

LEMMA TaskFrame ==
  ASSUME Typed, NEW g \in Bodies, Task(g)
  PROVE  /\ UNCHANGED <<old, fresh, step, db>>
         /\ Whole(step) <=> Whole(step)'
         /\ ~Start(g) => since' = since
<1>1. UNCHANGED <<old, fresh, step>>
  BY DEF Task, Start, Refuse, FetchAdses, FetchAdSize, FetchAdvertiser,
     FetchAdvertiserAgain, FetchCategoryBlocking, FetchAdsFeature, Fail, Reply,
     Settle, Query, dbvars
<1>2. ~Start(g) => since' = since
  BY DEF Task, Refuse, FetchAdses, FetchAdSize, FetchAdvertiser,
     FetchAdvertiserAgain, FetchCategoryBlocking, FetchAdsFeature, Fail, Reply,
     Settle, Query
<1> QED
  BY <1>1, <1>2 DEF db, DBAt, Whole

LEMMA TaskExact ==
  ASSUME Typed, Checked, AllExact, NEW g \in Bodies, Task(g)
  PROVE  AllExact'
<1> USE QueryNames
<1>1. UNCHANGED <<db, step>> /\ (Whole(step) <=> Whole(step)')
      /\ (~Start(g) => since' = since)
  BY TaskFrame
<1>2. ASSUME NEW h \in Bodies \ {g}, Still(h)'
      PROVE  Exact(h)'
  <2>1. since'[h] = since[h]
    BY OthersRows
  <2>2. Exact(h)
    BY <1>1, <1>2, <2>1 DEF AllExact, Still
  <2> QED
    BY <1>1, <2>2, OthersRows, SameLocals
<1>3. ASSUME Still(g)'
      PROVE  Exact(g)'
  <2>1. CASE Start(g) \/ Refuse(g) \/ Fail(g) \/ Reply(g)
    <3>1. pc'[g] \in {"fetchAdses", "failed", "answered"}
      BY <2>1 DEF Start, Refuse, Fail, Reply, Settle, Typed, LoopsTyped
    <3> QED
      BY <3>1 DEF Exact, SizesExact, DomainsExact, CategoriesExact, AdvertiserExact,
         FeaturesExact, TargetsExact
  <2>2. CASE Asks(g)
    <3>1. ~Start(g)
      BY <2>2, AskingGoesOn DEF Start
    <3>2. Still(g) /\ Exact(g) /\ Stage(g)
      BY <1>1, <1>3, <3>1 DEF AllExact, Still, Checked
    <3> QED
      BY <2>2, <3>2, FetchAdsesExact, FetchAdSizeExact, FetchAdvertiserExact,
         FetchAdvertiserAgainExact, FetchCategoryBlockingExact, FetchAdsFeatureExact
         DEF Asks
  <2> QED
    BY <2>1, <2>2 DEF Task, Asks
<1> QED
  BY <1>2, <1>3 DEF AllExact

(* A step of the script unsettles every request that is being served.       *)
LEMMA SetupExact ==
  ASSUME Typed, Checked, Setup
  PROVE  AllExact'
<1>1. since' = since /\ step' = step + 1 /\ step \in 0..LastStep
  BY DEF Setup, SetupDB, DropDatabase, CreateTable, LoadTable, Typed, DBTypeOK
<1>2. \A g \in Bodies : since[g] \in 0..LastStep /\ since[g] <= step
  BY DEF Checked, Stage, Outcome, Typed, RestTyped
<1>3. \A g \in Bodies : since'[g] # step'
  BY <1>1, <1>2 DEF LastStep
<1> QED
  BY <1>3 DEF AllExact, Still

LEMMA NextExact == Typed /\ Checked /\ AllExact /\ [Next]_vars => AllExact'
<1> SUFFICES ASSUME Typed, Checked, AllExact, [Next]_vars
             PROVE  AllExact'
  OBVIOUS
<1>1. CASE UNCHANGED vars
  <2>1. UNCHANGED <<old, fresh, step, pc, locals, since>>
    BY <1>1 DEF vars, dbvars
  <2>2. UNCHANGED db /\ (Whole(step) <=> Whole(step)')
    BY <2>1 DEF db, DBAt, Whole
  <2> QED
    BY <2>1, <2>2, SameLocals DEF AllExact, Still, locals
<1> QED
  BY <1>1, TaskExact, SetupExact DEF Next

(* Before the script the contents stand still under every request.          *)
LEMMA StillBeforeSetup ==
  ASSUME Typed, NEW g \in Bodies, Stage(g), step = 0
  PROVE  Still(g) /\ db = old
<1>1. since[g] = 0
  BY DEF Typed, RestTyped, LastStep, Stage, Outcome
<1>2. DBAt(0) = old
  BY DEF DBAt
<1>3. DOMAIN old = Tables
  BY RowTypes DEF Typed, IsDatabase, Tabular
<1> QED
  BY <1>1, <1>2, <1>3 DEF Still, Whole, db
-----------------------------------------------------------------------------
(* What AnsweredFromOneState asks of an answer is what the sort returns.    *)
Due(v, rq) == DocumentedAnswer(Taken(Truthy(DBAt(v))), rq)

IsDue(g) ==
  since[g] = until[g] /\ Whole(since[g]) =>
    answer[g] = Due(since[g], ParseRequest(g))

AllDue == \A g \in Bodies : pc[g] = "answered" => IsDue(g)

LEMMA DueIsRigid ==
  ASSUME UNCHANGED <<old, fresh>>, NEW v \in 0..LastStep
  PROVE  (Whole(v) <=> Whole(v)') /\ \A rq : Due(v, rq)' = Due(v, rq)
BY HistoryIsRigid DEF Due, Whole

LEMMA IsDueLasts ==
  ASSUME Typed, UNCHANGED <<old, fresh>>, NEW g \in Bodies, IsDue(g),
         since'[g] = since[g], until'[g] = until[g], answer'[g] = answer[g]
  PROVE  IsDue(g)'
<1>1. since[g] \in 0..LastStep
  BY DEF Typed, RestTyped
<1> QED
  BY <1>1, DueIsRigid DEF IsDue

LEMMA ReplyIsDue ==
  ASSUME Typed, NEW g \in Bodies, Still(g), Exact(g), Reply(g)
  PROVE  answer'[g] = Due(step, ParseRequest(g))
<1>1. targetted[g] = Representatives(Taken(Truthy(db)), ParseRequest(g))
  BY DEF Reply, Exact, TargetsExact
<1>2. Representatives(Taken(Truthy(db)), ParseRequest(g)) \subseteq Ads
  BY RulesApply
<1>3. answer'[g] = {Bid(a) : a \in Winner(targetted[g])}
  BY DEF Reply, Typed, RestTyped
<1> QED
  BY <1>1, <1>2, <1>3, WinnerIsDocumented DEF Due, db

LEMMA TaskDue ==
  ASSUME Typed, AllExact, AllDue, NEW g \in Bodies, Task(g)
  PROVE  AllDue'
<1> USE QueryNames
<1>1. UNCHANGED <<old, fresh, step>>
  BY TaskFrame
<1>2. ASSUME NEW h \in Bodies \ {g}, pc'[h] = "answered"
      PROVE  IsDue(h)'
  BY <1>1, <1>2, OthersRows, IsDueLasts DEF AllDue
<1>3. ASSUME pc'[g] = "answered"
      PROVE  IsDue(g)'
  <2>1. CASE Reply(g)
    <3>1. since'[g] = since[g] /\ until'[g] = step /\ since[g] \in 0..LastStep
      BY <2>1 DEF Reply, Settle, Typed, RestTyped
    <3>2. ASSUME since[g] = step, Whole(since[g])
          PROVE  answer'[g] = Due(since[g], ParseRequest(g))
      BY <2>1, <3>2, ReplyIsDue DEF AllExact, Still
    <3> QED
      BY <1>1, <3>1, <3>2, DueIsRigid DEF IsDue
  <2>2. CASE Start(g) \/ Refuse(g) \/ Fail(g)
    <3>1. pc'[g] \in {"fetchAdses", "failed"}
      BY <2>2 DEF Start, Refuse, Fail, Settle, Typed, LoopsTyped
    <3> QED
      BY <1>3, <3>1
  <2>3. ~Asks(g)
    BY <1>3, AskingGoesOn
  <2> QED
    BY <2>1, <2>2, <2>3 DEF Task, Asks
<1> QED
  BY <1>2, <1>3 DEF AllDue

(* Over any contents, whatever the other tasks and the script do: a request *)
(* that is answered, and during which no table was missing and the contents *)
(* stood still, has exactly the answer of the documents over the contents   *)
(* as they are taken.                                                       *)
THEOREM AnswersFromOneState == Spec => []AnsweredFromOneState
<1>1. Init => AllDue
  BY DEF Init, AllDue
<1>2. Typed /\ AllExact /\ AllDue /\ [Next]_vars => AllDue'
  <2> SUFFICES ASSUME Typed, AllExact, AllDue, [Next]_vars PROVE AllDue'
    OBVIOUS
  <2>1. CASE UNCHANGED vars \/ Setup
    <3>1. UNCHANGED <<old, fresh, pc, answer, since, until>>
      BY <2>1, SetupFrame DEF vars, dbvars
    <3> QED
      BY <3>1, IsDueLasts DEF AllDue
  <2> QED
    BY <2>1, TaskDue DEF Next
<1>3. AllDue => AnsweredFromOneState
  BY DEF AllDue, IsDue, Due, AnsweredFromOneState
<1> QED
  BY <1>1, <1>2, <1>3, InitExact, NextExact, InitTyped, NextTyped, InitChecked,
     NextChecked, PTL DEF Spec
-----------------------------------------------------------------------------
(* A task that begins takes a request of the service and a reply answers    *)
(* it; an exception in a query and the other statements are not seen by the *)
(* service.                                                                 *)
OneBodyEach == \A b, c \in Bodies : ParseRequest(b) = ParseRequest(c) => b = c

Waiting == {ParseRequest(g) : g \in {h \in Bodies : pc[h] = "submitted"}}
Handling == [g \in Bodies |-> IF pc[g] \in {"submitted", "answered"}
                              THEN {} ELSE {ParseRequest(g)}]
Answered == {h \in Bodies : pc[h] = "answered"}
Sent == {[request |-> ParseRequest(g), answer |-> answer[g]] : g \in Answered}

LEMMA StartTakes ==
  ASSUME Typed, OneBodyEach, NEW g \in Bodies, Start(g) \/ Refuse(g)
  PROVE  Promise!Take(g)
<1> USE QueryNames DEF Settled
<1>0. PICK place \in {"fetchAdses", "failed"} : pc' = [pc EXCEPT ![g] = place]
  BY DEF Start, Refuse
<1>1. /\ pc \in [Bodies -> Queries \cup Settled \cup {"submitted", "reply"}]
      /\ pc[g] = "submitted" /\ pc' = [pc EXCEPT ![g] = place]
      /\ place \notin {"submitted", "answered"}
      /\ UNCHANGED <<answer, dbvars>>
  BY <1>0 DEF Start, Refuse, Typed, LoopsTyped
<1>2. Waiting' = Waiting \ {ParseRequest(g)} /\ ParseRequest(g) \in Waiting
  BY <1>1 DEF OneBodyEach, Waiting
<1>3. Handling' = [Handling EXCEPT ![g] = {ParseRequest(g)}] /\ Handling[g] = {}
  BY <1>1 DEF Handling
<1>4. Sent' = Sent
  <2>1. Answered' = Answered
    BY <1>1 DEF Answered
  <2> QED
    BY <1>1, <2>1 DEF Sent
<1> QED
  BY <1>1, <1>2, <1>3, <1>4
     DEF Promise!Take, Promise!dbvars, dbvars, Waiting, Handling, Sent, Answered

(* The rules of the service are those of the server's module.               *)
LEMMA SameRules ==
  /\ step = 0 => Promise!db = Taken(Truthy(old))
  /\ \A d, rq : Promise!DocumentedAnswer(d, rq) = DocumentedAnswer(d, rq)
<1>1. step = 0 => Promise!db = Taken(Truthy(old))
  BY DEF Promise!db, Promise!DBAt
<1>2. \A d, i : /\ Promise!SelectAdses(d) = SelectAdses(d)
               /\ Promise!SelectAdSize(d, i) = SelectAdSize(d, i)
               /\ Promise!SelectAdvertiser(d, i) = SelectAdvertiser(d, i)
               /\ Promise!SelectCategories(d, i) = SelectCategories(d, i)
               /\ Promise!SelectAdsFeature(d, i) = SelectAdsFeature(d, i)
  BY DEF Promise!SelectAdses, Promise!SelectAdSize, Promise!SelectAdvertiser,
     Promise!SelectCategories, Promise!SelectAdsFeature, SelectAdses, SelectAdSize,
     SelectAdvertiser, SelectCategories, SelectAdsFeature
<1>3. \A d, rq, a : Promise!Candidate(d, rq, a) <=> Candidate(d, rq, a)
  BY <1>2 DEF Promise!Candidate, Promise!SizeFits, Promise!DomainBlocked,
     Promise!Deliverable, Promise!ALLOW, Candidate, SizeFits, DomainBlocked, Deliverable,
     ALLOW
<1>4. \A d, rq, a : Promise!Distances(d, rq, a) = Distances(d, rq, a)
  BY <1>2 DEF Promise!Distances, Promise!Abs, Distances, Abs
<1>5. \A d, rq : Promise!Candidates(d, rq) = Candidates(d, rq)
  BY <1>2, <1>3, <1>4 DEF Promise!Candidates, Candidates
<1>6. \A d, rq, a, b : Promise!Nearer(d, rq, a, b) <=> Nearer(d, rq, a, b)
  BY <1>4 DEF Promise!Nearer, Nearer
<1>7. \A d, rq : Promise!Representatives(d, rq) = Representatives(d, rq)
  BY <1>5, <1>6 DEF Promise!Representatives, Representatives
<1>8. \A d, rq : Promise!Winners(d, rq) = Winners(d, rq)
  BY <1>7 DEF Promise!Winners, Winners
<1> QED
  BY <1>1, <1>8 DEF Promise!DocumentedAnswer, DocumentedAnswer, Promise!Bid, Bid

LEMMA ReplyAnswers ==
  ASSUME Typed, AllExact, NEW g \in Bodies, Stage(g), step = 0, Reply(g)
  PROVE  Promise!Answer(g)
<1> USE QueryNames DEF Settled
<1>1. /\ pc \in [Bodies -> Queries \cup Settled \cup {"submitted", "reply"}]
      /\ answer \in [Bodies -> SUBSET [ads : AdTexts, price : Nat]]
      /\ pc[g] = "reply" /\ pc' = [pc EXCEPT ![g] = "answered"]
      /\ answer' = [answer EXCEPT ![g] = {Bid(a) : a \in Winner(targetted[g])}]
      /\ until' = [until EXCEPT ![g] = step] /\ until \in [Bodies -> 0..LastStep]
      /\ UNCHANGED dbvars
  BY DEF Reply, Settle, Typed, LoopsTyped, RestTyped
<1>2. answer'[g] = DocumentedAnswer(Taken(Truthy(old)), ParseRequest(g))
  <2>1. Still(g) /\ DBAt(0) = old
    BY StillBeforeSetup DEF DBAt
  <2> QED
    BY <2>1, ReplyIsDue DEF AllExact, Due
<1>3. Answered' = Answered \cup {g} /\ g \notin Answered
  BY <1>1 DEF Answered
<1>4. Sent' = Sent \cup
        {[request |-> ParseRequest(g), answer |-> DocumentedAnswer(Taken(Truthy(old)), ParseRequest(g))]}
  <2>1. \A h \in Answered : answer'[h] = answer[h]
    BY <1>1, <1>3 DEF Answered
  <2>2. Sent' = {[request |-> ParseRequest(h), answer |-> answer'[h]] : h \in Answered \cup {g}}
    BY <1>3 DEF Sent
  <2>3. Sent = {[request |-> ParseRequest(h), answer |-> answer'[h]] : h \in Answered}
    BY <2>1 DEF Sent
  <2>4. Sent' = Sent \cup {[request |-> ParseRequest(g), answer |-> answer'[g]]}
    BY <2>2, <2>3
  <2> QED
    BY <1>2, <2>4
<1>5. Waiting' = Waiting
  <2>1. {b \in Bodies : pc'[b] = "submitted"} = {b \in Bodies : pc[b] = "submitted"}
    BY <1>1
  <2> QED
    BY <2>1 DEF Waiting
<1>6. Handling' = [Handling EXCEPT ![g] = {}] /\ Handling[g] = {ParseRequest(g)}
  BY <1>1 DEF Handling
<1> QED
  BY <1>1, <1>4, <1>5, <1>6, SameRules
     DEF Promise!Answer, Promise!dbvars, dbvars, Waiting, Handling, Sent, Answered

(* Nothing that a client of the service sees happens.                       *)
LEMMA StutterUnseen ==
  ASSUME UNCHANGED <<answer, dbvars>>,
         \A h \in Bodies : /\ pc'[h] = "submitted" <=> pc[h] = "submitted"
                           /\ pc'[h] = "answered" <=> pc[h] = "answered"
  PROVE  UNCHANGED Promise!servicevars
<1>1. {b \in Bodies : pc'[b] = "submitted"} = {b \in Bodies : pc[b] = "submitted"}
  OBVIOUS
<1>2. Waiting' = Waiting
  BY <1>1 DEF Waiting
<1>3. Handling' = Handling
  BY DEF Handling
<1>4. Answered' = Answered
  BY DEF Answered
<1>5. Sent' = Sent
  BY <1>4 DEF Sent
<1> QED
  BY <1>2, <1>3, <1>5
     DEF Promise!servicevars, Promise!dbvars, dbvars, Waiting, Handling, Sent, Answered

LEMMA TaskServes ==
  ASSUME Typed, AllExact, step = 0, OneBodyEach, NEW g \in Bodies, Stage(g), Task(g)
  PROVE  [Promise!ServiceNext]_(Promise!servicevars)
<1> USE QueryNames
<1>1. CASE Start(g) \/ Refuse(g)
  BY <1>1, StartTakes DEF Promise!ServiceNext
<1>2. CASE Reply(g)
  BY <1>2, ReplyAnswers DEF Promise!ServiceNext
<1>3. \A h \in Bodies \ {g} : pc'[h] = pc[h]
  BY OthersRows
<1>4. CASE Fail(g)
  <2>1. /\ UNCHANGED <<answer, dbvars>> /\ pc[g] \in Queries /\ pc'[g] = "failed"
    BY <1>4 DEF Fail, Settle, Typed, LoopsTyped
  <2> QED
    BY <1>3, <2>1, StutterUnseen
<1>5. CASE Asks(g)
  <2>1. pc[g] \in Queries /\ pc'[g] \in Queries \cup {"reply"}
    BY <1>5, AskingGoesOn
  <2>2. UNCHANGED <<answer, dbvars>>
    BY <1>5 DEF Asks, FetchAdses, FetchAdSize, FetchAdvertiser, FetchAdvertiserAgain,
       FetchCategoryBlocking, FetchAdsFeature, Query
  <2> QED
    BY <1>3, <2>1, <2>2, StutterUnseen
<1> QED
  BY <1>1, <1>2, <1>4, <1>5 DEF Task, Asks

(* For any requests of which no two parse to one, any number of threads and *)
(* any contents: every step before the first command of setup_db.sh is a    *)
(* step of the service over the contents as they are taken, or is not seen; *)
(* a request that ends by an exception disturbs none of the others.         *)
THEOREM ServesUntilSetup ==
  ASSUME OneBodyEach
  PROVE  Spec => ServesBeforeSetup
<1>1. ASSUME Typed, Checked, AllExact, [Next]_vars, step' = 0
      PROVE  [Promise!ServiceNext]_(Promise!servicevars)
  <2>1. \A g \in Bodies : Stage(g)
    BY <1>1 DEF Checked
  <2>2. ~Setup
    <3> SUFFICES ASSUME Setup PROVE FALSE
      OBVIOUS
    <3>1. step \in Nat /\ step' = step + 1
      BY <1>1
         DEF Typed, DBTypeOK, Setup, SetupDB, DropDatabase, CreateTable, LoadTable
    <3> QED
      BY <1>1, <3>1
  <2>3. CASE UNCHANGED vars
    BY <2>3, StutterUnseen DEF vars
  <2>4. ASSUME NEW g \in Bodies, Task(g)
        PROVE  [Promise!ServiceNext]_(Promise!servicevars)
    <3>1. UNCHANGED step
      BY <1>1, <2>4, TaskFrame
    <3> QED
      BY <1>1, <2>1, <2>4, <3>1, TaskServes
  <2> QED
    BY <1>1, <2>2, <2>3, <2>4 DEF Next
<1>2. ASSUME Typed, Checked, AllExact, [Next]_vars
      PROVE  step' = 0 => [Promise!ServiceNext]_(Promise!servicevars)
  BY <1>1, <1>2
<1> QED
  BY <1>2, InitTyped, NextTyped, InitChecked, NextChecked, InitExact, NextExact, PTL
     DEF Spec, ServesBeforeSetup
=============================================================================
