---------------------------- MODULE CppPromiseProofs ----------------------------
(***************************************************************************)
(* What ends the process of the C++ server, for any threads, any requests  *)
(* and any contents of the database: the assert() of auction.cpp is never  *)
(* it, and a query only once setup_db.sh has begun.  A request during which *)
(* the contents stood still has exactly the answer of the rules over them. *)
(* While there is no script, the server's steps are those of               *)
(* AuctionService: each request gets the documented answer, once.          *)
(***************************************************************************)
EXTENDS CppAuctionProofs, WellFoundedInduction

(* A set of natural numbers that is not empty has a least one.              *)
LEMMA LeastNatural ==
  ASSUME NEW S \in SUBSET Nat, S # {}
  PROVE  \E n \in S : \A m \in S : n <= m
<1>1. PICK n \in S : \A m \in S : ~ (<<m, n>> \in OpToRel(<, Nat))
  BY NatLessThanWellFounded, WFMin
<1>2. \A m \in S : ~ (m < n)
  BY <1>1 DEF OpToRel
<1> QED
  BY <1>2

(* So has a set of rows, by a column of natural numbers.                    *)
LEMMA LeastExists ==
  ASSUME NEW rows, NEW column, rows # {}, \A r \in rows : r[column] \in Nat
  PROVE  Least(rows, column) # {}
<1> DEFINE S == {r[column] : r \in rows}
<1>1. PICK n \in S : \A m \in S : n <= m
  BY LeastNatural
<1>2. PICK r \in rows : r[column] = n
  BY <1>1
<1>3. r \in Least(rows, column)
  BY <1>1, <1>2 DEF Least
<1> QED
  BY <1>3

LEMMA AbsNatural ==
  ASSUME NEW n \in Int
  PROVE  Abs(n) \in Nat
BY DEF Abs

(* Of the features that were read, one is the nearest.                      *)
LEMMA NearestExists ==
  ASSUME NEW ads_features \in SUBSET AdsFeature, ads_features # {}, NEW n \in Int
  PROVE  /\ featureTargeting(ads_features, n) # {}
         /\ featureTargeting(ads_features, n) \subseteq ads_features
<1> DEFINE Away(f) == Abs(n - f.feature)
           S == {Away(f) : f \in ads_features}
           nearest == {f \in ads_features : \A g \in ads_features : Away(f) <= Away(g)}
<1>1. \A f \in ads_features : Away(f) \in Nat /\ f.ads_id \in Nat
  BY AbsNatural DEF AdsFeature
<1>2. PICK d \in S : \A e \in S : d <= e
  <2>1. S \in SUBSET Nat /\ S # {}
    BY <1>1
  <2> QED
    BY <2>1, LeastNatural
<1>3. PICK f \in ads_features : Away(f) = d
  BY <1>2
<1>4. f \in nearest
  BY <1>2, <1>3
<1>5. Least(nearest, "ads_id") # {}
  BY <1>1, <1>4, LeastExists
<1>6. featureTargeting(ads_features, n) = Least(nearest, "ads_id")
  BY DEF featureTargeting
<1> QED
  BY <1>5, <1>6 DEF Least
-----------------------------------------------------------------------------
(* In the last loop every feature that was read is one of an ad of the      *)
(* advertiser at hand: that is what the assert() relies on.                 *)
FeaturesOfAdvertiser(t) ==
  pc[t] = "fetchAdsFeature" =>
    /\ todo[t] \subseteq Least(kept[t], "advertiser_id")
    /\ \A f \in features[t] : \E a \in Least(kept[t], "advertiser_id") :
         a.ads_id = f.ads_id

(* Whoever holds the lock is at a query.                                    *)
HoldersAtQueries == \A t \in mut : pc[t] \in Queries

NoAssert ==
  /\ \A t \in Threads : FeaturesOfAdvertiser(t)
  /\ HoldersAtQueries
  /\ EndsForCause

(* A loop that begins over advertisers begins with the ads of the first.    *)
LEMMA BeginAround ==
  ASSUME LoopsTyped, NEW t \in Threads, NEW statement \in Queries,
         NEW rows \in SUBSET Ads, Begin(t, statement, rows), features'[t] = {}
  PROVE  FeaturesOfAdvertiser(t)'
BY DEF LoopsTyped, Begin, FeaturesOfAdvertiser, Least

LEMMA VisitedAround ==
  ASSUME LoopsTyped, NEW t \in Threads, NEW a \in Ads, NEW keep \in BOOLEAN,
         NEW statement \in Queries \ {"fetchAdsFeature"}, NEW following \in Queries,
         Visited(t, a, keep, statement, following), features'[t] = {}
  PROVE  FeaturesOfAdvertiser(t)'
<1> DEFINE rows == IF keep THEN kept[t] \cup {a} ELSE kept[t]
<1>1. rows \in SUBSET Ads
  BY DEF LoopsTyped
<1>2. CASE todo[t] \ {a} # {}
  <2>1. pc'[t] = statement
    BY <1>2 DEF Visited, LoopsTyped
  <2> QED
    BY <2>1 DEF FeaturesOfAdvertiser
<1>3. CASE todo[t] \ {a} = {}
  <2>1. Begin(t, following, rows)
    BY <1>3 DEF Visited
  <2> QED
    BY <2>1, <1>1, BeginAround
<1> QED
  BY <1>2, <1>3

(* The nearest of the features that were read belongs to an ad of the       *)
(* advertiser: the process goes on.                                         *)
LEMMA AssertHolds ==
  ASSUME TypeOK, NEW t \in Threads, NEW ads_features \in SUBSET AdsFeature,
         \A f \in ads_features : \E a \in Least(kept[t], "advertiser_id") :
           a.ads_id = f.ads_id,
         EndOfAdvertiser(t, ads_features)
  PROVE  ended' = ended
<1> DEFINE n == request[t].zone_feature
           best == {a \in Least(kept[t], "advertiser_id") :
                      \E f \in featureTargeting(ads_features, n) : a.ads_id = f.ads_id}
<1>1. ended' = IF ads_features = {} \/ best # {} THEN ended ELSE "assert"
  BY DEF EndOfAdvertiser
<1>2. CASE ads_features = {}
  BY <1>1, <1>2
<1>3. CASE ads_features # {}
  <2>1. n \in Int
    BY DEF TypeOK, Request
  <2>2. PICK f \in featureTargeting(ads_features, n) : f \in ads_features
    BY <1>3, <2>1, NearestExists
  <2>3. PICK a \in Least(kept[t], "advertiser_id") : a.ads_id = f.ads_id
    BY <2>2
  <2>4. a \in best
    BY <2>2, <2>3
  <2> QED
    BY <1>1, <2>4
<1> QED
  BY <1>2, <1>3

(* The query of the last loop keeps the features those of the advertiser.   *)
LEMMA FetchAdsFeatureAround ==
  ASSUME TypeOK, NEW t \in Threads, FeaturesOfAdvertiser(t), FetchAdsFeature(t)
  PROVE  FeaturesOfAdvertiser(t)' /\ ended' = ended
<1> USE QueryNames
<1>1. LoopsTyped /\ DBTypeOK /\ RestTyped
  BY TypeParts
<1>2. pc[t] = "fetchAdsFeature"
  BY DEF FetchAdsFeature, Query
<1>3. PICK a \in Least(todo[t], "ads_id") :
        LET rest == todo[t] \ {a}
            ads_features == features[t] \cup SelectAdsFeature(db, a.ads_id)
        IN  IF rest # {}
            THEN /\ todo' = [todo EXCEPT ![t] = rest]
                 /\ features' = [features EXCEPT ![t] = ads_features]
                 /\ UNCHANGED <<pc, kept, targetted, ended>>
            ELSE EndOfAdvertiser(t, ads_features)
  BY DEF FetchAdsFeature
<1> DEFINE ads_features == features[t] \cup SelectAdsFeature(db, a.ads_id)
<1>4. ads_features \in SUBSET AdsFeature
  <2>1. SelectAdsFeature(db, a.ads_id) \subseteq AdsFeature
    BY <1>1, QueryTypes DEF FetchAdsFeature, Query, TableOf, db, DBTypeOK
  <2> QED
    BY <1>1, <2>1 DEF RestTyped
<1>5. a \in Least(kept[t], "advertiser_id")
  BY <1>2, <1>3 DEF FeaturesOfAdvertiser, Least
<1>6. \A f \in ads_features : \E b \in Least(kept[t], "advertiser_id") :
        b.ads_id = f.ads_id
  BY <1>2, <1>5 DEF FeaturesOfAdvertiser, SelectAdsFeature
<1>7. CASE todo[t] \ {a} # {}
  <2>1. /\ todo'[t] = todo[t] \ {a} /\ features'[t] = ads_features
        /\ kept'[t] = kept[t] /\ pc'[t] = pc[t] /\ ended' = ended
    BY <1>1, <1>3, <1>7 DEF LoopsTyped, RestTyped
  <2>2. todo'[t] \subseteq Least(kept'[t], "advertiser_id")
    BY <1>2, <2>1 DEF FeaturesOfAdvertiser
  <2>3. \A f \in features'[t] : \E b \in Least(kept'[t], "advertiser_id") :
          b.ads_id = f.ads_id
    BY <1>6, <2>1
  <2> QED
    BY <1>2, <2>1, <2>2, <2>3 DEF FeaturesOfAdvertiser, Least
<1>8. CASE todo[t] \ {a} = {}
  <2>1. EndOfAdvertiser(t, ads_features)
    BY <1>3, <1>8
  <2>2. /\ features'[t] = {}
        /\ Begin(t, "fetchAdsFeature", kept[t] \ Least(kept[t], "advertiser_id"))
    BY <1>1, <2>1 DEF EndOfAdvertiser, RestTyped
  <2>3. kept[t] \ Least(kept[t], "advertiser_id") \in SUBSET Ads
    BY <1>1 DEF LoopsTyped
  <2> QED
    BY <1>1, <1>4, <1>6, <2>1, <2>2, <2>3, AssertHolds, BeginAround
<1> QED
  BY <1>7, <1>8

(* Every other statement of a thread.                                       *)
LEMMA OthersAround ==
  ASSUME TypeOK, NEW t \in Threads, Stage(t), FeaturesOfAdvertiser(t), Thread(t),
         ~FetchAdsFeature(t)
  PROVE  FeaturesOfAdvertiser(t)'
<1> USE QueryNames
<1>1. LoopsTyped /\ DBTypeOK /\ RestTyped
  BY TypeParts
<1>2. pc[t] # "fetchAdsFeature" => features[t] = {}
  BY DEF Stage, Outcome
<1>3. ASSUME NEW a \in Least(todo[t], "ads_id")
      PROVE  a \in Ads
  BY <1>1, <1>3 DEF Least, LoopsTyped
<1>4. CASE Lock(t) \/ QueryThrows(t)
  BY <1>4 DEF Lock, QueryThrows, locals, FeaturesOfAdvertiser
<1>5. CASE Dispatch(t) \/ Reply(t) \/ FetchAdvertiserAgain(t)
  <2>1. pc'[t] # "fetchAdsFeature"
    BY <1>1, <1>5 DEF Dispatch, Reply, FetchAdvertiserAgain, LoopsTyped
  <2> QED
    BY <2>1 DEF FeaturesOfAdvertiser
<1>6. CASE FetchAdses(t)
  <2>1. SelectAdses(db) \in SUBSET Ads
    BY <1>1, <1>6, QueryTypes DEF FetchAdses, Query, TableOf, db, DBTypeOK
  <2>2. features'[t] = {}
    BY <1>2, <1>6 DEF FetchAdses, Query
  <2> QED
    BY <1>1, <1>6, <2>1, <2>2, BeginAround DEF FetchAdses
<1>7. CASE FetchAdSize(t)
  <2>1. features'[t] = {}
    BY <1>2, <1>7 DEF FetchAdSize, Query
  <2> QED
    BY <1>1, <1>3, <1>7, <2>1, VisitedAround DEF FetchAdSize, SizeMatches
<1>8. CASE FetchAdvertiser(t)
  <2>1. features'[t] = {}
    BY <1>2, <1>8 DEF FetchAdvertiser, Query
  <2> QED
    BY <1>1, <1>3, <1>8, <2>1, VisitedAround DEF FetchAdvertiser, DomainPasses
<1>9. CASE FetchCategoryBlocking(t)
  <2>1. features'[t] = {}
    BY <1>2, <1>9 DEF FetchCategoryBlocking, Query
  <2> QED
    BY <1>1, <1>3, <1>9, <2>1, VisitedAround DEF FetchCategoryBlocking, CategoryPasses
<1> QED
  BY <1>4, <1>5, <1>6, <1>7, <1>8, <1>9 DEF Thread

(* Before the script no query throws: the five tables are there, and a      *)
(* thread in the driver is at a query of one of them.                       *)
LEMMA NothingThrows ==
  ASSUME TypeOK, HoldersAtQueries, step = 0, NEW t \in Threads
  PROVE  ~QueryThrows(t)
<1>1. DOMAIN db = Tables
  BY RowTypes, TypeParts DEF db, DBAt, IsDatabase, Tabular
<1>2. t \in mut => TableOf[pc[t]] \in Tables
  BY QueryNames, TableNames DEF HoldersAtQueries, TableOf
<1> QED
  BY <1>1, <1>2 DEF QueryThrows

LEMMA ThreadKeepsHolders ==
  ASSUME TypeOK, HoldersAtQueries, NEW t \in Threads, Thread(t)
  PROVE  HoldersAtQueries'
<1> USE QueryNames
<1>1. \A u \in Threads \ {t} : pc'[u] = pc[u]
  BY OthersLocals
<1>2. mut \subseteq Threads /\ mut' \subseteq mut \cup {t}
  BY DEF TypeOK, Thread, Dispatch, Lock, QueryThrows, Reply, FetchAdses, FetchAdSize,
     FetchAdvertiser, FetchAdvertiserAgain, FetchCategoryBlocking, FetchAdsFeature, Query
<1>3. t \in mut' => pc'[t] = pc[t] /\ pc[t] \in Queries
  BY <1>2 DEF HoldersAtQueries, Thread, Dispatch, Lock, QueryThrows, Reply, FetchAdses,
     FetchAdSize, FetchAdvertiser, FetchAdvertiserAgain, FetchCategoryBlocking,
     FetchAdsFeature, Query, locals
<1> QED
  BY <1>1, <1>2, <1>3 DEF HoldersAtQueries

(* A type that was read stays read.                                         *)
LEMMA TypeEndsPersists ==
  ASSUME TypeOK, UNCHANGED <<old, fresh>>, step' \in 0..LastStep, step <= step',
         NEW t \in Threads, request'[t] = request[t], since'[t] = since[t],
         NEW a, TypeEnds(t, a)
  PROVE  TypeEnds(t, a)'
<1> USE DEF LastStep
<1>1. since[t] \in 0..LastStep /\ step \in 0..LastStep
  BY DEF TypeOK
<1>2. PICK u, w \in since[t]..step :
        /\ u <= w
        /\ Exists("advertisers", u)
        /\ \E v \in SelectAdvertiser(DBAt(u), a.advertiser_id) : ~Known(v)
        /\ Exists("category_blockings", w)
        /\ SelectCategories(DBAt(w), a.advertiser_id) # {}
        /\ AlsoDomain(a, request[t], since[t], u)
  BY DEF TypeEnds
<1>3. /\ u \in 0..LastStep /\ w \in 0..LastStep
      /\ u \in since'[t]..step' /\ w \in since'[t]..step'
  BY <1>1, <1>2
<1>4. DBAt(u)' = DBAt(u) /\ DBAt(w)' = DBAt(w)
  BY <1>3, HistoryIsRigid
<1>5. AlsoDomain(a, request[t], since[t], u)' = AlsoDomain(a, request[t], since[t], u)
  BY <1>1, <1>3, AlsoDomainIsRigid
<1>6. /\ Exists("advertisers", u)'
      /\ \E v \in SelectAdvertiser(DBAt(u)', a.advertiser_id) : ~Known(v)
      /\ Exists("category_blockings", w)'
      /\ SelectCategories(DBAt(w)', a.advertiser_id) # {}
  BY <1>2, <1>4 DEF Exists
<1> QED
  BY <1>2, <1>3, <1>5, <1>6 DEF TypeEnds

(* A row that has passed the domain is one of the two files'.               *)
LEMMA CheckedRowIsKnown ==
  ASSUME TypeOK, NEW a, NEW rq, NEW from \in 0..LastStep, NEW to \in 0..LastStep,
         AlsoDomain(a, rq, from, to)
  PROVE  a \in old["adses"] \cup fresh["adses"]
<1> USE DEF LastStep
<1>1. PICK v \in from..to : ReadAndFits(a, rq, from, v)
  BY DEF AlsoDomain
<1>2. PICK w \in from..v : Read(a, from, w)
  BY <1>1 DEF ReadAndFits
<1>3. PICK x \in from..w : "adses" \in DOMAIN DBAt(x) /\ a \in DBAt(x)["adses"]
  BY <1>2 DEF Read, Exists, SelectAdses
<1>4. x \in 0..LastStep
  BY <1>1, <1>2, <1>3
<1> QED
  BY <1>3, <1>4, RowsOfTable, TableNames, TypeParts

(* Where the process ends at the type of an advertiser, that advertiser was *)
(* read, of that type, for a row that had passed the domain.                *)
LEMMA TypeHasCause ==
  ASSUME TypeOK, NEW t \in Threads, Stage(t), FetchCategoryBlocking(t),
         ended' # ended
  PROVE  /\ ended' = "type"
         /\ \E a \in old["adses"] \cup fresh["adses"] : TypeEnds(t, a)'
<1> USE QueryNames
<1>1. /\ UNCHANGED <<old, fresh, step, request, since>>
      /\ step \in 0..LastStep /\ since[t] \in 0..LastStep
      /\ pc[t] = "fetchCategoryBlocking" /\ Exists("category_blockings", step)
      /\ DBAt(step) = db
  BY QueryFrame DEF FetchCategoryBlocking, TableOf
<1>2. PICK a \in Least(todo[t], "ads_id") :
        ended' = IF /\ SelectCategories(db, a.advertiser_id) # {}
                    /\ \E v \in advertiser[t] : ~Known(v)
                 THEN "type" ELSE ended
  BY DEF FetchCategoryBlocking
<1>3. /\ SelectCategories(DBAt(step), a.advertiser_id) # {}
      /\ \E v \in advertiser[t] : ~Known(v)
      /\ ended' = "type"
  BY <1>1, <1>2
<1>4. AdvertiserRead(a, request[t], advertiser[t], since[t], step)
  BY <1>1 DEF Stage, BetweenReads
<1>5. PICK u \in since[t]..step :
        /\ Exists("advertisers", u)
        /\ advertiser[t] = SelectAdvertiser(DBAt(u), a.advertiser_id)
        /\ AlsoDomain(a, request[t], since[t], u)
  BY <1>4 DEF AdvertiserRead
<1>6. u \in 0..LastStep /\ u <= step /\ step \in since[t]..step
  BY <1>1, <1>5 DEF LastStep
<1>7. TypeEnds(t, a)
  BY <1>1, <1>3, <1>5, <1>6 DEF TypeEnds
<1>8. TypeEnds(t, a)'
  BY <1>1, <1>6, <1>7, TypeEndsPersists DEF LastStep
<1>9. a \in old["adses"] \cup fresh["adses"]
  BY <1>1, <1>5, <1>6, CheckedRowIsKnown
<1> QED
  BY <1>3, <1>8, <1>9

(* One statement of one thread: what it ends has its cause.                 *)
LEMMA ThreadEndsForCause ==
  ASSUME TypeOK, NoAssert, NEW t \in Threads, Stage(t), Thread(t)
  PROVE  EndsForCause'
<1>1. ended = "no"
  BY DEF Thread, Dispatch, Lock, QueryThrows, Reply, FetchAdses, FetchAdSize,
     FetchAdvertiser, FetchAdvertiserAgain, FetchCategoryBlocking, FetchAdsFeature,
     Query, alive
<1>2. CASE ended' = ended
  BY <1>1, <1>2 DEF EndsForCause
<1>3. CASE Dispatch(t) /\ ended' # ended
  <2>1. PICK body \in inbox : /\ inbox' = inbox \ {body} /\ body \in Malformed
                              /\ ended' = "parse"
    BY <1>3 DEF Dispatch
  <2>2. body \in (Malformed \cap Bodies) \ inbox'
    BY <2>1 DEF TypeOK
  <2> QED
    BY <2>1, <2>2 DEF EndsForCause
<1>4. CASE QueryThrows(t)
  <2>1. ended' = "query" /\ step' = step
    BY <1>4 DEF QueryThrows, dbvars
  <2>2. step > 0
    BY <1>4, NothingThrows DEF TypeOK, LastStep, NoAssert
  <2> QED
    BY <2>1, <2>2 DEF EndsForCause
<1>5. CASE FetchCategoryBlocking(t) /\ ended' # ended
  <2>1. PICK a \in old["adses"] \cup fresh["adses"] : TypeEnds(t, a)'
    BY <1>5, TypeHasCause
  <2>2. ended' = "type" /\ UNCHANGED <<old, fresh>>
    BY <1>5, TypeHasCause DEF FetchCategoryBlocking, Query, dbvars
  <2> QED
    BY <2>1, <2>2 DEF EndsForCause
<1>6. CASE FetchAdsFeature(t)
  BY <1>2, <1>6, FetchAdsFeatureAround DEF NoAssert
<1> QED
  BY <1>2, <1>3, <1>4, <1>5, <1>6 DEF Thread, Lock, Reply, FetchAdses, FetchAdSize,
     FetchAdvertiser, FetchAdvertiserAgain, Query

LEMMA ThreadNoAssert ==
  ASSUME TypeOK, NoAssert, NEW t \in Threads, Stage(t), Thread(t)
  PROVE  NoAssert'
<1>1. FeaturesOfAdvertiser(t)'
  BY FetchAdsFeatureAround, OthersAround DEF NoAssert
<1>2. ASSUME NEW u \in Threads \ {t}
      PROVE  FeaturesOfAdvertiser(u)'
  <2>1. /\ pc'[u] = pc[u] /\ todo'[u] = todo[u] /\ kept'[u] = kept[u]
        /\ features'[u] = features[u]
    BY OthersLocals
  <2>2. FeaturesOfAdvertiser(u)
    BY DEF NoAssert
  <2> QED
    BY <2>1, <2>2 DEF FeaturesOfAdvertiser, Least
<1>3. HoldersAtQueries'
  BY ThreadKeepsHolders DEF NoAssert
<1>4. EndsForCause'
  BY ThreadEndsForCause
<1> QED
  BY <1>1, <1>2, <1>3, <1>4 DEF NoAssert

(* While no thread moves, a cause stays one.                                *)
LEMMA CauseStays ==
  ASSUME TypeOK, EndsForCause, UNCHANGED <<old, fresh, request, since, inbox, ended>>,
         step' \in 0..LastStep, step <= step'
  PROVE  EndsForCause'
<1>1. ended' = "parse" => (Malformed \cap Bodies) \ inbox' # {}
  BY DEF EndsForCause
<1>2. ended' = "query" => step' > 0
  BY DEF EndsForCause, TypeOK, LastStep
<1>3. ASSUME ended' = "type"
      PROVE  \E t \in Threads, a \in old'["adses"] \cup fresh'["adses"] : TypeEnds(t, a)'
  <2>1. PICK t \in Threads, a \in old["adses"] \cup fresh["adses"] : TypeEnds(t, a)
    BY <1>3 DEF EndsForCause
  <2> QED
    BY <2>1, TypeEndsPersists
<1> QED
  BY <1>1, <1>2, <1>3 DEF EndsForCause

(* What ends the process has its cause in what the process was given, for   *)
(* any threads, requests and contents: a body that is no object, a query of *)
(* the script's doing, or a type that is neither 0, 1 nor NULL, read for an *)
(* ad which had passed the size and the domain, of an advertiser with       *)
(* categories.  The ad of the nearest feature is always found: the assert() *)
(* of auction.cpp never fails.                                              *)
THEOREM ProcessLives == Spec => []EndsForCause
<1>1. Init => NoAssert
  BY DEF Init, NoAssert, FeaturesOfAdvertiser, HoldersAtQueries, EndsForCause
<1>2. ASSUME TypeOK, TypeOK', Checked, NoAssert, [Next]_vars
      PROVE  NoAssert'
  <2>1. CASE UNCHANGED vars
    <3>1. UNCHANGED <<pc, locals, mut, ended, inbox, old, fresh, step>>
      BY <2>1 DEF vars, dbvars
    <3>2. EndsForCause'
      BY <1>2, <3>1, CauseStays DEF locals, NoAssert, TypeOK, LastStep
    <3> QED
      BY <1>2, <3>1, <3>2 DEF locals, NoAssert, FeaturesOfAdvertiser, HoldersAtQueries
  <2>2. CASE Setup
    <3>1. /\ UNCHANGED <<pc, locals, mut, ended, inbox, old, fresh>>
          /\ step' \in 0..LastStep /\ step <= step'
      BY <1>2, <2>2 DEF Setup, SetupDB, DropDatabase, CreateTable, LoadTable, TypeOK,
         LastStep
    <3>2. EndsForCause'
      BY <1>2, <3>1, CauseStays DEF locals, NoAssert
    <3> QED
      BY <1>2, <3>1, <3>2 DEF locals, NoAssert, FeaturesOfAdvertiser, HoldersAtQueries
  <2>3. CASE \E t \in Threads : Thread(t)
    BY <1>2, <2>3, ThreadNoAssert DEF Checked
  <2> QED
    BY <1>2, <2>1, <2>2, <2>3 DEF Next
<1>3. NoAssert => EndsForCause
  BY DEF NoAssert
<1> QED
  BY <1>1, <1>2, <1>3, TypeCorrect, RowsAreChecked, PTL DEF Spec
-----------------------------------------------------------------------------
(* While the contents stand still under a request, each loop's rows are     *)
(* those of the rules over the contents as they are taken.  This inductive  *)
(* invariant is what makes the server, before the script, the service of    *)
(* AuctionService, but for its liveness, where ads of one price have the    *)
(* order of their advertisers.                                              *)
Settled(t) == since[t] = step /\ Whole(step)

SizesExact(t) ==
  pc[t] = "fetchAdSize" =>
    /\ todo[t] \subseteq SelectAdses(db)
    /\ kept[t] = Fitting(db, request[t]) \ todo[t]

DomainsExact(t) ==
  pc[t] = "fetchAdvertiser" =>
    /\ todo[t] \subseteq Fitting(db, request[t])
    /\ kept[t] = Unblocked(db, request[t]) \ todo[t]

CategoriesExact(t) ==
  pc[t] \in {"fetchAdvertiserAgain", "fetchCategoryBlocking"} =>
    /\ todo[t] \subseteq Unblocked(db, request[t])
    /\ kept[t] = Wanted(db, request[t]) \ todo[t]

AdvertiserExact(t) ==
  pc[t] = "fetchCategoryBlocking" =>
    \A a \in Least(todo[t], "ads_id") : advertiser[t] = SelectAdvertiser(db, a.advertiser_id)

(* The last loop: kept has the advertisers that are not finished, whole.    *)
FeaturesExact(t) ==
  pc[t] = "fetchAdsFeature" =>
    /\ kept[t] \subseteq Wanted(db, request[t])
    /\ \A a \in kept[t] : Group(Wanted(db, request[t]), a) \subseteq kept[t]
    /\ targetted[t] = Representatives(Taken(db), request[t]) \ kept[t]
    /\ \A a \in todo[t] :
         /\ a \in kept[t] /\ todo[t] \subseteq Group(kept[t], a)
         /\ Group(kept[t], a) = Least(kept[t], "advertiser_id")
         /\ features[t] = FeaturesOf(db, Group(kept[t], a) \ todo[t])

TargetsExact(t) ==
  pc[t] = "reply" => targetted[t] = Representatives(Taken(db), request[t])

Exact(t) ==
  /\ SizesExact(t)
  /\ DomainsExact(t)
  /\ CategoriesExact(t)
  /\ AdvertiserExact(t)
  /\ FeaturesExact(t)
  /\ TargetsExact(t)

(* A filter loop that keeps, of the rows from, those that are in to: it goes *)
(* on over those that it has not handled, or has kept the rows that pass    *)
(* and is followed by the next loop.                                        *)
GoesOn(t, from, to, statement, following) ==
  \/ /\ pc'[t] = statement
     /\ todo'[t] \subseteq from
     /\ kept'[t] = to \ todo'[t]
  \/ Begin(t, following, to)

LEMMA FilterGoesOn ==
  ASSUME LoopsTyped, NEW t \in Threads, NEW a \in todo[t], NEW keep \in BOOLEAN,
         NEW statement \in Queries, NEW following \in Queries,
         Visited(t, a, keep, statement, following),
         NEW from, NEW to \in SUBSET from, todo[t] \subseteq from,
         kept[t] = to \ todo[t], keep <=> a \in to
  PROVE  GoesOn(t, from, to, statement, following)
<1> USE DEF GoesOn
<1> DEFINE rows == IF keep THEN kept[t] \cup {a} ELSE kept[t]
<1>1. CASE todo[t] \ {a} # {}
  <2>1. /\ pc'[t] = statement /\ todo'[t] = todo[t] \ {a} /\ kept'[t] = rows
    BY <1>1 DEF Visited, LoopsTyped
  <2> QED
    BY <2>1
<1>2. CASE todo[t] \ {a} = {}
  <2>1. rows = to
    BY <1>2
  <2> QED
    BY <1>2, <2>1 DEF Visited
<1> QED
  BY <1>1, <1>2

LEMMA FilterBegins ==
  ASSUME LoopsTyped, NEW t \in Threads, NEW rows,
         NEW statement \in Queries \ {"fetchAdsFeature"}, Begin(t, statement, rows)
  PROVE  /\ todo'[t] = rows /\ kept'[t] = {}
         /\ pc'[t] = IF rows = {} THEN "reply" ELSE statement
BY DEF Begin, LoopsTyped

(* The last loop takes the ads of one advertiser.                           *)
LEMMA LastLoopBegins ==
  ASSUME LoopsTyped, NEW t \in Threads, NEW rows \in SUBSET Ads,
         Begin(t, "fetchAdsFeature", rows)
  PROVE  /\ kept'[t] = rows
         /\ pc'[t] = IF rows = {} THEN "reply" ELSE "fetchAdsFeature"
         /\ \A a \in todo'[t] :
              /\ a \in rows /\ todo'[t] = Group(rows, a)
              /\ Group(rows, a) = Least(rows, "advertiser_id")
<1>1. todo'[t] = Least(rows, "advertiser_id")
  BY DEF Begin, LoopsTyped
<1>2. \A a \in Least(rows, "advertiser_id") :
        a \in rows /\ Least(rows, "advertiser_id") = Group(rows, a)
  BY DEF Least, Group, Ads
<1> QED
  BY <1>1, <1>2 DEF Begin, LoopsTyped

(* What holds of the contents makes the lemmas about the rules apply.       *)
LEMMA QuietRows ==
  ASSUME TypeOK, NEW t \in Threads, Settled(t)
  PROVE  LET rq == request[t]
             W == Wanted(db, rq)
         IN  /\ rq \in Request
             /\ Unblocked(db, rq) \subseteq Fitting(db, rq) /\ W \subseteq Unblocked(db, rq)
             /\ Fitting(db, rq) \subseteq SelectAdses(db)
             /\ W \subseteq Ads /\ Unique(W, "ads_id")
             /\ Representatives(Taken(db), rq) \subseteq W
<1>1. Tabular(db) /\ request[t] \in Request
  BY WholeIsTabular, TypeParts DEF RestTyped, Settled, db, DBTypeOK
<1> QED
  BY <1>1, RepresentativesAreWanted
     DEF Fitting, Unblocked, Wanted, SelectAdses, Tabular, Unique

(* The two queries around which no row is decided.                          *)
LEMMA FetchAdsesExact ==
  ASSUME TypeOK, NEW t \in Threads, Settled(t), Stage(t), FetchAdses(t)
  PROVE  Exact(t)'
<1> USE QueryNames
<1> DEFINE rq == request[t]
<1>1. /\ LoopsTyped /\ UNCHANGED <<targetted, request>> /\ db' = db
      /\ pc[t] = "fetchAdses" /\ targetted[t] = {}
  BY TypeParts DEF FetchAdses, Query, dbvars, Stage, Outcome, db, DBAt
<1>2. /\ todo'[t] = SelectAdses(db) /\ kept'[t] = {}
      /\ pc'[t] = IF SelectAdses(db) = {} THEN "reply" ELSE "fetchAdSize"
  BY <1>1, FilterBegins DEF FetchAdses
<1>3. SizesExact(t)'
  BY <1>1, <1>2, QuietRows DEF SizesExact
<1>4. TargetsExact(t)'
  <2>1. SelectAdses(db) = {} => Representatives(Taken(db), rq) = {}
    BY QuietRows
  <2> QED
    BY <1>1, <1>2, <2>1 DEF TargetsExact
<1> QED
  BY <1>2, <1>3, <1>4 DEF Exact, DomainsExact, CategoriesExact, AdvertiserExact,
     FeaturesExact

LEMMA FetchAdvertiserAgainExact ==
  ASSUME TypeOK, NEW t \in Threads, Settled(t), Stage(t), Exact(t),
         FetchAdvertiserAgain(t)
  PROVE  Exact(t)'
<1> USE QueryNames
<1>1. /\ LoopsTyped /\ RestTyped /\ UNCHANGED <<todo, kept, request>> /\ db' = db
      /\ pc[t] = "fetchAdvertiserAgain" /\ pc'[t] = "fetchCategoryBlocking"
  BY TypeParts DEF FetchAdvertiserAgain, Query, dbvars, LoopsTyped, db, DBAt
<1>2. CategoriesExact(t)'
  BY <1>1 DEF Exact, CategoriesExact
<1>3. PICK a \in Least(todo[t], "ads_id") :
        advertiser' = [advertiser EXCEPT ![t] = SelectAdvertiser(db, a.advertiser_id)]
  BY <1>1 DEF FetchAdvertiserAgain
<1>4. \A b \in Least(todo[t], "ads_id") : b = a
  BY <1>1 DEF Least, LoopsTyped, Stage, Keyed, Unique, Ads
<1>5. AdvertiserExact(t)'
  BY <1>1, <1>3, <1>4 DEF AdvertiserExact, Least, RestTyped
<1> QED
  BY <1>1, <1>2, <1>5 DEF Exact, SizesExact, DomainsExact, FeaturesExact, TargetsExact

(* The three filter loops.                                                  *)
LEMMA FetchAdSizeExact ==
  ASSUME TypeOK, NEW t \in Threads, Settled(t), Stage(t), Exact(t), FetchAdSize(t)
  PROVE  Exact(t)'
<1> USE QueryNames
<1> DEFINE rq == request[t]
           F == Fitting(db, rq)
<1>1. /\ LoopsTyped /\ UNCHANGED <<targetted, request>> /\ db' = db
      /\ pc[t] = "fetchAdSize" /\ targetted[t] = {}
  BY TypeParts DEF FetchAdSize, Query, dbvars, Stage, Outcome, db, DBAt
<1>2. PICK a \in todo[t], keep \in BOOLEAN :
        /\ keep = SizeMatches(SelectAdSize(db, a.size_id), rq)
        /\ Visited(t, a, keep, "fetchAdSize", "fetchAdvertiser")
  BY <1>1 DEF FetchAdSize, SizeMatches, Least
<1>3. /\ todo[t] \subseteq SelectAdses(db)
      /\ kept[t] = F \ todo[t]
      /\ keep <=> a \in F
      /\ F \in SUBSET SelectAdses(db)
  BY <1>1, <1>2, QuietRows DEF Exact, SizesExact, Fitting
<1>4. \/ /\ pc'[t] = "fetchAdSize"
         /\ todo'[t] \subseteq SelectAdses(db)
         /\ kept'[t] = F \ todo'[t]
      \/ Begin(t, "fetchAdvertiser", F)
  <2>1. LoopsTyped /\ Visited(t, a, keep, "fetchAdSize", "fetchAdvertiser")
    BY <1>1, <1>2
  <2>2. GoesOn(t, SelectAdses(db), F, "fetchAdSize", "fetchAdvertiser")
    BY <1>3, <2>1, FilterGoesOn
  <2> QED
    BY <2>2 DEF GoesOn
<1>5. CASE pc'[t] = "fetchAdSize"
  <2>1. SizesExact(t)'
    BY <1>1, <1>4, <1>5, FilterBegins DEF SizesExact
  <2> QED
    BY <1>5, <2>1 DEF Exact, DomainsExact, CategoriesExact, AdvertiserExact,
       FeaturesExact, TargetsExact
<1>6. CASE Begin(t, "fetchAdvertiser", F)
  <2>1. /\ todo'[t] = F /\ kept'[t] = {}
        /\ pc'[t] = IF F = {} THEN "reply" ELSE "fetchAdvertiser"
    BY <1>1, <1>6, FilterBegins
  <2>2. DomainsExact(t)'
    BY <1>1, <2>1, QuietRows DEF DomainsExact
  <2>3. TargetsExact(t)'
    <3>1. F = {} => Representatives(Taken(db), rq) = {}
      BY QuietRows
    <3> QED
      BY <1>1, <2>1, <3>1 DEF TargetsExact
  <2> QED
    BY <2>1, <2>2, <2>3 DEF Exact, SizesExact, CategoriesExact, AdvertiserExact,
       FeaturesExact
<1> QED
  BY <1>4, <1>5, <1>6

LEMMA FetchAdvertiserExact ==
  ASSUME TypeOK, NEW t \in Threads, Settled(t), Stage(t), Exact(t),
         FetchAdvertiser(t)
  PROVE  Exact(t)'
<1> USE QueryNames
<1> DEFINE rq == request[t]
           U == Unblocked(db, rq)
<1>1. /\ LoopsTyped /\ UNCHANGED <<targetted, request>> /\ db' = db
      /\ pc[t] = "fetchAdvertiser" /\ targetted[t] = {}
  BY TypeParts DEF FetchAdvertiser, Query, dbvars, Stage, Outcome, db, DBAt
<1>2. PICK a \in todo[t], keep \in BOOLEAN :
        /\ keep = DomainPasses(SelectAdvertiser(db, a.advertiser_id), rq)
        /\ Visited(t, a, keep, "fetchAdvertiser", "fetchAdvertiserAgain")
  BY <1>1 DEF FetchAdvertiser, DomainPasses, Least
<1>3. /\ todo[t] \subseteq Fitting(db, rq)
      /\ kept[t] = U \ todo[t]
      /\ keep <=> a \in U
      /\ U \in SUBSET Fitting(db, rq)
  BY <1>1, <1>2, QuietRows DEF Exact, DomainsExact, Unblocked
<1>4. \/ /\ pc'[t] = "fetchAdvertiser"
         /\ todo'[t] \subseteq Fitting(db, rq)
         /\ kept'[t] = U \ todo'[t]
      \/ Begin(t, "fetchAdvertiserAgain", U)
  <2>1. LoopsTyped /\ Visited(t, a, keep, "fetchAdvertiser", "fetchAdvertiserAgain")
    BY <1>1, <1>2
  <2>2. GoesOn(t, Fitting(db, rq), U, "fetchAdvertiser", "fetchAdvertiserAgain")
    BY <1>3, <2>1, FilterGoesOn
  <2> QED
    BY <2>2 DEF GoesOn
<1>5. CASE pc'[t] = "fetchAdvertiser"
  <2>1. DomainsExact(t)'
    BY <1>1, <1>4, <1>5, FilterBegins DEF DomainsExact
  <2> QED
    BY <1>5, <2>1 DEF Exact, SizesExact, CategoriesExact, AdvertiserExact,
       FeaturesExact, TargetsExact
<1>6. CASE Begin(t, "fetchAdvertiserAgain", U)
  <2>1. /\ todo'[t] = U /\ kept'[t] = {}
        /\ pc'[t] = IF U = {} THEN "reply" ELSE "fetchAdvertiserAgain"
    BY <1>1, <1>6, FilterBegins
  <2>2. CategoriesExact(t)'
    BY <1>1, <2>1, QuietRows DEF CategoriesExact
  <2>3. TargetsExact(t)'
    <3>1. U = {} => Representatives(Taken(db), rq) = {}
      BY QuietRows
    <3> QED
      BY <1>1, <2>1, <3>1 DEF TargetsExact
  <2> QED
    BY <2>1, <2>2, <2>3 DEF Exact, SizesExact, DomainsExact, AdvertiserExact,
       FeaturesExact
<1> QED
  BY <1>4, <1>5, <1>6

LEMMA FetchCategoryBlockingExact ==
  ASSUME TypeOK, NEW t \in Threads, Settled(t), Stage(t), Exact(t),
         FetchCategoryBlocking(t)
  PROVE  Exact(t)'
<1> USE QueryNames
<1> DEFINE rq == request[t]
           W == Wanted(db, rq)
<1>1. /\ LoopsTyped /\ UNCHANGED <<targetted, features, request>> /\ db' = db
      /\ pc[t] = "fetchCategoryBlocking" /\ targetted[t] = {} /\ features[t] = {}
  BY TypeParts DEF FetchCategoryBlocking, Query, dbvars, Stage, Outcome, db, DBAt
<1>2. PICK a \in Least(todo[t], "ads_id"), keep \in BOOLEAN :
        /\ keep = CategoryPasses(advertiser[t], SelectCategories(db, a.advertiser_id), rq)
        /\ Visited(t, a, keep, "fetchAdvertiserAgain", "fetchAdsFeature")
  BY <1>1 DEF FetchCategoryBlocking, CategoryPasses
<1>3. /\ a \in todo[t]
      /\ advertiser[t] = SelectAdvertiser(db, a.advertiser_id)
  BY <1>1 DEF Exact, AdvertiserExact, Least
<1>4. /\ todo[t] \subseteq Unblocked(db, rq)
      /\ kept[t] = W \ todo[t]
      /\ keep <=> a \in W
      /\ W \in SUBSET Unblocked(db, rq)
  BY <1>1, <1>2, <1>3, QuietRows DEF Exact, CategoriesExact, Wanted
<1>5. \/ /\ pc'[t] = "fetchAdvertiserAgain"
         /\ todo'[t] \subseteq Unblocked(db, rq)
         /\ kept'[t] = W \ todo'[t]
      \/ Begin(t, "fetchAdsFeature", W)
  <2>1. GoesOn(t, Unblocked(db, rq), W, "fetchAdvertiserAgain", "fetchAdsFeature")
    BY <1>1, <1>2, <1>3, <1>4, FilterGoesOn
  <2> QED
    BY <2>1 DEF GoesOn
<1>6. CASE Begin(t, "fetchAdsFeature", W)
  <2>1. W \in SUBSET Ads /\ Unique(W, "ads_id") /\ Representatives(Taken(db), rq) \subseteq W
    BY QuietRows
  <2>2. /\ kept'[t] = W
        /\ pc'[t] = IF W = {} THEN "reply" ELSE "fetchAdsFeature"
        /\ \A b \in todo'[t] :
             /\ b \in W /\ todo'[t] = Group(W, b)
             /\ Group(W, b) = Least(W, "advertiser_id")
    BY <1>1, <1>6, <2>1, LastLoopBegins
  <2>3. FeaturesOf(db, {}) = {}
    BY DEF FeaturesOf
  <2>4. FeaturesExact(t)'
    BY <1>1, <2>1, <2>2, <2>3 DEF FeaturesExact, Group, FeaturesOf
  <2>5. TargetsExact(t)'
    BY <1>1, <2>1, <2>2 DEF TargetsExact
  <2> QED
    BY <2>2, <2>4, <2>5 DEF Exact, SizesExact, DomainsExact, CategoriesExact,
       AdvertiserExact
<1>7. CASE /\ pc'[t] = "fetchAdvertiserAgain"
           /\ todo'[t] \subseteq Unblocked(db, rq)
           /\ kept'[t] = W \ todo'[t]
  <2>1. CategoriesExact(t)'
    BY <1>1, <1>7 DEF CategoriesExact
  <2> QED
    BY <1>7, <2>1 DEF Exact, SizesExact, DomainsExact, AdvertiserExact,
       FeaturesExact, TargetsExact
<1> QED
  BY <1>5, <1>6, <1>7

(* The last loop: the features read are those of the *)
(* advertiser's ads, and the nearest is that of its representative.         *)
LEMMA FetchAdsFeatureExact ==
  ASSUME TypeOK, NEW t \in Threads, Settled(t), Stage(t), Exact(t),
         FetchAdsFeature(t)
  PROVE  Exact(t)'
<1> USE QueryNames
<1> DEFINE rq == request[t]
           W == Wanted(db, rq)
<1>1. /\ LoopsTyped /\ RestTyped /\ UNCHANGED request /\ db' = db
      /\ pc[t] = "fetchAdsFeature"
  BY TypeParts DEF FetchAdsFeature, Query, dbvars, db, DBAt
<1>2. PICK a \in todo[t] :
        LET ads_features == features[t] \cup SelectAdsFeature(db, a.ads_id)
        IN  IF todo[t] \ {a} # {}
            THEN /\ todo' = [todo EXCEPT ![t] = todo[t] \ {a}]
                 /\ features' = [features EXCEPT ![t] = ads_features]
                 /\ UNCHANGED <<pc, kept, targetted, ended>>
            ELSE EndOfAdvertiser(t, ads_features)
  BY <1>1 DEF FetchAdsFeature, Least
<1> DEFINE G == Group(kept[t], a)
           T == FeaturesOf(db, G \ (todo[t] \ {a}))
<1>3. /\ kept[t] \subseteq W
      /\ \A b \in kept[t] : Group(W, b) \subseteq kept[t]
      /\ targetted[t] = Representatives(Taken(db), rq) \ kept[t]
      /\ a \in kept[t] /\ todo[t] \subseteq G /\ a \in W
      /\ G = Least(kept[t], "advertiser_id")
      /\ features[t] = FeaturesOf(db, G \ todo[t])
  BY <1>1 DEF Exact, FeaturesExact
<1>4. /\ rq \in Request /\ W \subseteq Ads /\ Unique(W, "ads_id")
      /\ Representatives(Taken(db), rq) \subseteq W /\ Tabular(db)
  BY QuietRows, WholeIsTabular, TypeParts DEF Settled, db, DBTypeOK
<1>5. SelectAdsFeature(db, a.ads_id) = {f \in db["ads_features"] : f.ads_id = a.ads_id}
  BY DEF SelectAdsFeature
<1>6. features[t] \cup SelectAdsFeature(db, a.ads_id) = T
  BY <1>3, <1>5 DEF FeaturesOf, Group
<1>7. CASE todo[t] \ {a} # {}
  <2>1. /\ todo'[t] = todo[t] \ {a} /\ features'[t] = T
        /\ pc' = pc /\ kept' = kept /\ targetted' = targetted
    BY <1>1, <1>2, <1>6, <1>7 DEF LoopsTyped, RestTyped
  <2>2. \A b \in todo'[t] : b \in kept[t] /\ Group(kept[t], b) = G
    BY <1>3, <2>1 DEF Group
  <2>3. FeaturesExact(t)'
    BY <1>1, <1>3, <2>1, <2>2 DEF FeaturesExact
  <2> QED
    BY <1>1, <2>1, <2>3 DEF Exact, SizesExact, DomainsExact, CategoriesExact,
       AdvertiserExact, TargetsExact
<1>8. CASE todo[t] \ {a} = {}
  <2>1. G = Group(W, a)
    BY <1>3 DEF Group
  <2> DEFINE best == {b \in G : \E f \in Nearest(FeaturesOf(db, G), rq.zone_feature) :
                        b.ads_id = f.ads_id}
             rest == kept[t] \ G
  <2>2. T = FeaturesOf(db, G)
    BY <1>8
  <2>3. best = {b \in G : b \in Representatives(Taken(db), rq)}
    BY <1>4, <1>3, <2>1, NearestIsRepresentative
  <2>4. EndOfAdvertiser(t, FeaturesOf(db, G))
    BY <1>2, <1>6, <1>8, <2>2
  <2>5. /\ targetted'[t] = targetted[t] \cup best
        /\ features'[t] = {}
        /\ Begin(t, "fetchAdsFeature", rest)
    BY <1>1, <1>3, <2>4 DEF EndOfAdvertiser, RestTyped, featureTargeting, Nearest
  <2>6. targetted'[t] = Representatives(Taken(db), rq) \ rest
    BY <1>3, <2>3, <2>5
  <2>7. rest \in SUBSET Ads /\ Unique(rest, "ads_id") /\ rest \subseteq W
    BY <1>3, <1>4 DEF Unique
  <2>8. /\ kept'[t] = rest
        /\ pc'[t] = IF rest = {} THEN "reply" ELSE "fetchAdsFeature"
        /\ \A b \in todo'[t] :
             /\ b \in rest /\ todo'[t] = Group(rest, b)
             /\ Group(rest, b) = Least(rest, "advertiser_id")
    BY <1>1, <2>5, <2>7, LastLoopBegins
  <2>9. \A b \in rest : Group(W, b) \subseteq rest
    BY <1>3 DEF Group
  <2>10. FeaturesExact(t)'
    BY <1>1, <2>5, <2>6, <2>7, <2>8, <2>9 DEF FeaturesExact, Group, FeaturesOf
  <2>11. TargetsExact(t)'
    BY <1>1, <2>6, <2>8 DEF TargetsExact
  <2> QED
    BY <2>8, <2>10, <2>11 DEF Exact, SizesExact, DomainsExact, CategoriesExact,
       AdvertiserExact
<1> QED
  BY <1>7, <1>8

(* Where ties agree, the sort's first ad is the winner of the documents.     *)
LEMMA FrontIsDocumented ==
  ASSUME NEW d, Tabular(d), TiesAgree(d), NEW rq \in Request
  PROVE  {Bid(a) : a \in Front(Representatives(d, rq))} = DocumentedAnswer(d, rq)
<1> DEFINE R == Representatives(d, rq)
<1>1. /\ \A a \in R : /\ a \in d["adses"] /\ a.price \in Nat
                      /\ a.ads_id \in Nat /\ a.advertiser_id \in Nat
      /\ \A a, b \in R : a.advertiser_id = b.advertiser_id => a = b
  BY RepresentativeIsOne
     DEF Representatives, Candidates, SelectAdses, Tabular, Ads
<1>2. \A a, b \in R :
        a.price = b.price =>
          (a.advertiser_id <= b.advertiser_id <=> a.ads_id <= b.ads_id)
  BY <1>1 DEF TiesAgree
<1>3. \A a : a \in Front(R) <=>
        /\ a \in R
        /\ \A b \in R : b.price <= a.price
        /\ \A b \in R : b.price = a.price => a.advertiser_id <= b.advertiser_id
  BY <1>1 DEF Front, Least
<1>4. \A a : a \in Winners(d, rq) <=>
        /\ a \in R
        /\ \A b \in R : b.price <= a.price
        /\ \A b \in R : b.price = a.price => a.ads_id <= b.ads_id
  BY <1>1 DEF Winners
<1>5. Front(R) = Winners(d, rq)
  <2>1. \A a : a \in Front(R) <=> a \in Winners(d, rq)
    BY <1>2, <1>3, <1>4
  <2> QED
    BY <2>1 DEF Front, Least, Winners
<1> QED
  BY <1>5 DEF DocumentedAnswer

(* A thread that has asked the database goes on, or has an answer to send.  *)
Asks(t) ==
  \/ FetchAdses(t) \/ FetchAdSize(t) \/ FetchAdvertiser(t)
  \/ FetchAdvertiserAgain(t) \/ FetchCategoryBlocking(t) \/ FetchAdsFeature(t)

LEMMA AskingGoesOn ==
  ASSUME TypeOK, NEW t \in Threads, Asks(t)
  PROVE  /\ UNCHANGED <<inbox, request, sent, dbvars>>
         /\ pc[t] \in Queries /\ pc'[t] \in Queries \cup {"reply"}
<1> USE QueryNames
<1>1. pc \in [Threads -> Queries \cup {"idle", "reply"}]
  BY DEF TypeOK
<1>2. CASE FetchAdses(t) \/ FetchAdSize(t) \/ FetchAdvertiser(t)
  <2>1. UNCHANGED <<inbox, request, sent, dbvars>> /\ pc[t] \in Queries
    BY <1>2 DEF FetchAdses, FetchAdSize, FetchAdvertiser, Query
  <2>2. pc'[t] \in Queries \cup {"reply"}
    BY <1>1, <1>2 DEF FetchAdses, FetchAdSize, FetchAdvertiser, Visited, Begin
  <2> QED
    BY <2>1, <2>2
<1>3. CASE FetchAdvertiserAgain(t) \/ FetchCategoryBlocking(t) \/ FetchAdsFeature(t)
  <2>1. UNCHANGED <<inbox, request, sent, dbvars>> /\ pc[t] \in Queries
    BY <1>3 DEF FetchAdvertiserAgain, FetchCategoryBlocking, FetchAdsFeature, Query
  <2>2. pc'[t] \in Queries \cup {"reply"}
    BY <1>1, <1>3, <2>1 DEF FetchAdvertiserAgain, FetchCategoryBlocking,
       FetchAdsFeature, EndOfAdvertiser, Visited, Begin
  <2> QED
    BY <2>1, <2>2
<1> QED
  BY <1>2, <1>3 DEF Asks

AllExact == \A t \in Threads : Settled(t) => Exact(t)

LEMMA InitExact == Init => AllExact
BY QueryNames DEF Init, AllExact, Exact, SizesExact, DomainsExact, CategoriesExact,
   AdvertiserExact, FeaturesExact, TargetsExact

(* A thread whose locals do not change stays exact.                         *)
LEMMA SameLocals ==
  ASSUME NEW t \in Threads, Exact(t), UNCHANGED db,
         pc'[t] = pc[t], request'[t] = request[t], todo'[t] = todo[t],
         kept'[t] = kept[t], advertiser'[t] = advertiser[t],
         features'[t] = features[t], targetted'[t] = targetted[t]
  PROVE  Exact(t)'
BY DEF Exact, SizesExact, DomainsExact, CategoriesExact, AdvertiserExact,
   FeaturesExact, TargetsExact, Least

LEMMA ThreadExact ==
  ASSUME TypeOK, NEW t \in Threads, Stage(t), AllExact, Thread(t)
  PROVE  AllExact'
<1> USE QueryNames
<1>1. UNCHANGED <<old, fresh, step>>
  BY AskingGoesOn DEF Thread, Asks, Dispatch, Lock, QueryThrows, Reply, dbvars
<1>2. UNCHANGED db /\ (Whole(step) <=> Whole(step)')
  BY <1>1 DEF db, DBAt, Whole
<1>3. ASSUME NEW u \in Threads \ {t}, Settled(u)'
      PROVE  Exact(u)'
  <2>1. /\ pc'[u] = pc[u] /\ request'[u] = request[u] /\ todo'[u] = todo[u]
        /\ kept'[u] = kept[u] /\ advertiser'[u] = advertiser[u]
        /\ features'[u] = features[u] /\ targetted'[u] = targetted[u]
        /\ since'[u] = since[u]
    BY OthersLocals
  <2>2. Settled(u)
    BY <1>1, <1>2, <1>3, <2>1 DEF Settled
  <2> QED
    BY <1>2, <2>1, <2>2, SameLocals DEF AllExact
<1>4. ASSUME Settled(t)'
      PROVE  Exact(t)'
  <2>1. CASE Dispatch(t) \/ Reply(t)
    <3>1. pc'[t] \in {"fetchAdses", "idle"}
      BY <2>1 DEF Dispatch, Reply, TypeOK
    <3> QED
      BY <3>1 DEF Exact, SizesExact, DomainsExact, CategoriesExact, AdvertiserExact,
         FeaturesExact, TargetsExact
  <2>2. CASE Asks(t)
    <3>1. since' = since
      BY <2>2 DEF Asks, FetchAdses, FetchAdSize, FetchAdvertiser, FetchAdvertiserAgain,
         FetchCategoryBlocking, FetchAdsFeature, Query
    <3>2. Settled(t)
      BY <1>1, <1>2, <1>4, <3>1 DEF Settled
    <3> QED
      BY <2>2, <3>2, FetchAdsesExact, FetchAdSizeExact, FetchAdvertiserExact,
         FetchAdvertiserAgainExact, FetchCategoryBlockingExact, FetchAdsFeatureExact
         DEF AllExact, Asks
  <2>3. CASE Lock(t) \/ QueryThrows(t)
    <3>1. UNCHANGED locals /\ pc' = pc
      BY <2>3 DEF Lock, QueryThrows
    <3>2. Settled(t)
      BY <1>1, <1>2, <1>4, <3>1 DEF Settled, locals
    <3> QED
      BY <1>2, <3>1, <3>2, SameLocals DEF locals, AllExact
  <2> QED
    BY <2>1, <2>2, <2>3 DEF Thread, Asks
<1> QED
  BY <1>3, <1>4 DEF AllExact

(* A step of the script unsettles every request that is being served.       *)
LEMMA SetupExact ==
  ASSUME TypeOK, Checked, Setup
  PROVE  AllExact'
<1>1. UNCHANGED <<pc, since>> /\ step' = step + 1 /\ step \in Nat
  BY DEF Setup, SetupDB, DropDatabase, CreateTable, LoadTable, locals, TypeOK, LastStep
<1>2. ASSUME NEW t \in Threads, since'[t] = step'
      PROVE  pc'[t] = "idle"
  BY <1>1, <1>2 DEF Checked, Stage, Outcome
<1>3. ASSUME NEW t \in Threads, pc'[t] = "idle"
      PROVE  Exact(t)'
  BY <1>3 DEF Exact, SizesExact, DomainsExact, CategoriesExact, AdvertiserExact,
     FeaturesExact, TargetsExact
<1> QED
  BY <1>2, <1>3 DEF AllExact, Settled

LEMMA NextExact ==
  TypeOK /\ Checked /\ AllExact /\ [Next]_vars => AllExact'
<1> SUFFICES ASSUME TypeOK, Checked, AllExact, [Next]_vars
             PROVE  AllExact'
  OBVIOUS
<1>1. CASE UNCHANGED vars
  <2>1. UNCHANGED <<db, step, since>> /\ (Whole(step) <=> Whole(step)')
    BY <1>1 DEF vars, dbvars, locals, db, DBAt, Whole
  <2> QED
    BY <1>1, <2>1, SameLocals DEF AllExact, Settled, vars, locals
<1>2. ASSUME NEW t \in Threads, Thread(t)
      PROVE  AllExact'
  BY <1>2, ThreadExact DEF Checked
<1> QED
  BY <1>1, <1>2, SetupExact DEF Next

(* Before the script the contents stand still under every request.          *)
LEMMA SettledBeforeSetup ==
  ASSUME TypeOK, Checked, step = 0, NEW t \in Threads, pc[t] # "idle"
  PROVE  Settled(t) /\ db = old
<1>1. since[t] = 0
  BY DEF TypeOK, LastStep, Checked, Stage, Outcome
<1>2. DBAt(0) = old
  BY DEF DBAt
<1>3. DOMAIN old = Tables
  BY RowTypes, TypeParts DEF IsDatabase, Tabular
<1> QED
  BY <1>1, <1>2, <1>3 DEF Settled, Whole, db

(* A step after which the script has not begun is none of the script.       *)
LEMMA StepBeforeSetup ==
  ASSUME TypeOK, [Next]_vars, step' = 0
  PROVE  ~Setup /\ UNCHANGED <<old, step>>
<1>1. ~Setup
  <2> SUFFICES ASSUME Setup PROVE FALSE
    OBVIOUS
  <2>1. step \in Nat /\ step' = step + 1
    BY DEF TypeOK, Setup, SetupDB, DropDatabase, CreateTable, LoadTable
  <2> QED
    BY <2>1
<1>2. CASE UNCHANGED vars
  BY <1>1, <1>2 DEF vars, dbvars
<1>3. ASSUME NEW t \in Threads, Thread(t)
      PROVE  UNCHANGED <<old, step>>
  BY <1>3, AskingGoesOn DEF Thread, Asks, Dispatch, Lock, QueryThrows, Reply, dbvars
<1> QED
  BY <1>1, <1>2, <1>3 DEF Next
-----------------------------------------------------------------------------
(* What AnsweredFromOneState asks of an answer is what the sort returns.    *)
Dearest(rivals) ==
  {r \in rivals :
     \A s \in rivals :
       \/ s.price < r.price
       \/ s.price = r.price /\ r.advertiser_id <= s.advertiser_id}

LEMMA FrontIsDearest ==
  ASSUME NEW rivals \in SUBSET Ads
  PROVE  Front(rivals) = Dearest(rivals)
<1>1. \A a : a \in Front(rivals) <=>
        /\ a \in rivals
        /\ \A b \in rivals : b.price <= a.price
        /\ \A b \in rivals :
             (\A c \in rivals : c.price <= b.price) => a.advertiser_id <= b.advertiser_id
  BY DEF Front, Least
<1>2. \A a \in rivals : a.price \in Nat /\ a.advertiser_id \in Nat
  BY DEF Ads
<1>3. \A a : a \in Front(rivals) <=> a \in Dearest(rivals)
  BY <1>1, <1>2 DEF Dearest
<1> QED
  BY <1>3 DEF Front, Least, Dearest

Due(v, rq) == {Bid(a) : a \in Dearest(Representatives(Taken(DBAt(v)), rq))}

LEMMA DueIsRigid ==
  ASSUME UNCHANGED <<old, fresh>>, NEW v \in 0..LastStep
  PROVE  (Whole(v) <=> Whole(v)') /\ \A rq : Due(v, rq)' = Due(v, rq)
BY HistoryIsRigid DEF Due, Whole

LEMMA ReplyIsDue ==
  ASSUME TypeOK, NEW t \in Threads, Settled(t), Exact(t), Reply(t)
  PROVE  {Bid(a) : a \in Front(targetted[t])} = Due(step, request[t])
<1>1. targetted[t] = Representatives(Taken(DBAt(step)), request[t])
  BY DEF Reply, Exact, TargetsExact, db
<1>2. targetted[t] \in SUBSET Ads
  BY TypeParts DEF RestTyped
<1> QED
  BY <1>1, <1>2, FrontIsDearest DEF Due

(* Over any contents, whatever the other threads and the script do: a       *)
(* request during which no table was missing and the contents stood still   *)
(* has exactly the answer of the rules over the contents as they are taken, *)
(* with a tie going to the smallest advertiser_id.                          *)
THEOREM AnswersFromOneState == Spec => []AnsweredFromOneState
<1> DEFINE IsDue(m) == m.since = m.until /\ Whole(m.since) =>
                         m.answer = Due(m.since, m.request)
           AllDue == \A m \in sent : IsDue(m)
<1>1. Init => AllDue /\ AllExact
  BY InitExact DEF Init
<1>2. ASSUME TypeOK, AllExact, AllDue, [Next]_vars
      PROVE  AllDue'
  <2>1. UNCHANGED <<old, fresh>>
    BY <1>2, AskingGoesOn
       DEF Next, Thread, Asks, Dispatch, Lock, QueryThrows, Reply, Setup, SetupDB,
           DropDatabase, CreateTable, LoadTable, vars, dbvars
  <2>2. ASSUME NEW m, m.since \in 0..LastStep, IsDue(m)
        PROVE  IsDue(m)'
    BY <2>1, <2>2, DueIsRigid
  <2>3. \A m \in sent : m.since \in 0..LastStep
    BY <1>2 DEF TypeOK
  <2>4. CASE UNCHANGED sent
    BY <1>2, <2>2, <2>3, <2>4
  <2>5. ASSUME NEW t \in Threads, Reply(t)
        PROVE  AllDue'
    <3>1. ASSUME since[t] = step, Whole(since[t])
          PROVE  {Bid(a) : a \in Front(targetted[t])} = Due(since[t], request[t])
      BY <1>2, <2>5, <3>1, ReplyIsDue DEF AllExact, Settled
    <3>2. since[t] \in 0..LastStep
      BY <1>2 DEF TypeOK
    <3> DEFINE n == [request |-> request[t], since |-> since[t], until |-> step,
                     answer |-> {Bid(a) : a \in Front(targetted[t])}]
    <3>3. n.since \in 0..LastStep /\ IsDue(n)
      BY <3>1, <3>2
    <3>4. sent' = sent \cup {n}
      BY <2>5 DEF Reply
    <3> HIDE DEF n
    <3>5. PICK m : m = n
      OBVIOUS
    <3> QED
      BY <1>2, <2>2, <2>3, <3>3, <3>4, <3>5
  <2> QED
    BY <1>2, <2>4, <2>5, AskingGoesOn
       DEF Next, Thread, Asks, Dispatch, Lock, QueryThrows, Setup, vars
<1>3. AllDue => AnsweredFromOneState
  BY DEF AnsweredFromOneState, Due, Dearest
<1> HIDE DEF AllDue
<1> QED
  BY <1>1, <1>2, <1>3, NextExact, TypeCorrect, RowsAreChecked, PTL DEF Spec
-----------------------------------------------------------------------------
(* A dispatch takes a request of the service, a reply answers it, and every *)
(* other statement of a thread is not seen by the clients.                  *)
OneBodyEach == \A b, c \in Bodies : ParseRequest(b) = ParseRequest(c) => b = c

LEMMA DispatchTakes ==
  ASSUME TypeOK, OneBodyEach, NEW t \in Threads, Dispatch(t)
  PROVE  Promise!Take(t)
<1> DEFINE Waiting(bodies) == {ParseRequest(body) : body \in bodies}
<1>1. PICK body \in inbox : /\ inbox' = inbox \ {body}
                            /\ request' = [request EXCEPT ![t] = ParseRequest(body)]
  BY DEF Dispatch
<1>2. /\ inbox \subseteq Bodies /\ request \in [Threads -> Request]
      /\ pc \in [Threads -> Queries \cup {"idle", "reply"}]
  BY DEF TypeOK
<1>3. /\ pc[t] = "idle" /\ pc' = [pc EXCEPT ![t] = "fetchAdses"]
      /\ UNCHANGED <<sent, dbvars>>
  BY DEF Dispatch
<1>4. Waiting(inbox') = Waiting(inbox) \ {ParseRequest(body)}
  BY <1>1, <1>2 DEF OneBodyEach
<1>5. [u \in Threads |-> IF pc'[u] = "idle" THEN {} ELSE {request'[u]}] =
        [[u \in Threads |-> IF pc[u] = "idle" THEN {} ELSE {request[u]}]
           EXCEPT ![t] = {ParseRequest(body)}]
  BY <1>1, <1>2, <1>3
<1> QED
  BY <1>1, <1>3, <1>4, <1>5 DEF Promise!Take, Promise!dbvars, dbvars

(* The rules of the service are those of the server's module.               *)
LEMMA SameRules ==
  /\ step = 0 => Promise!db = Taken(old)
  /\ \A d, rq : Promise!DocumentedAnswer(d, rq) = DocumentedAnswer(d, rq)
<1>1. step = 0 => Promise!db = Taken(old)
  BY DEF Promise!db, Promise!DBAt
<1>2. \A d, i : /\ Promise!SelectAdses(d) = SelectAdses(d)
               /\ Promise!SelectAdSize(d, i) = SelectAdSize(d, i)
               /\ Promise!SelectAdvertiser(d, i) = SelectAdvertiser(d, i)
               /\ Promise!SelectCategories(d, i) = SelectCategories(d, i)
               /\ Promise!SelectAdsFeature(d, i) = SelectAdsFeature(d, i)
  BY DEF Promise!SelectAdses, Promise!SelectAdSize, Promise!SelectAdvertiser,
     Promise!SelectCategories, Promise!SelectAdsFeature, SelectAdses, SelectAdSize,
     SelectAdvertiser, SelectCategories, SelectAdsFeature
<1>3. \A d, rq, a : Promise!Candidate(d, rq, a) <=> Candidate(d, rq, a)
  BY <1>2 DEF Promise!Candidate, Promise!SizeFits, Promise!DomainBlocked,
     Promise!Deliverable, Promise!ALLOW, Candidate, SizeFits, DomainBlocked, Deliverable,
     ALLOW
<1>4. \A d, rq, a : Promise!Distances(d, rq, a) = Distances(d, rq, a)
  BY <1>2 DEF Promise!Distances, Promise!Abs, Distances, Abs
<1>5. \A d, rq : Promise!Candidates(d, rq) = Candidates(d, rq)
  BY <1>2, <1>3, <1>4 DEF Promise!Candidates, Candidates
<1>6. \A d, rq, a, b : Promise!Nearer(d, rq, a, b) <=> Nearer(d, rq, a, b)
  BY <1>4 DEF Promise!Nearer, Nearer
<1>7. \A d, rq : Promise!Representatives(d, rq) = Representatives(d, rq)
  BY <1>5, <1>6 DEF Promise!Representatives, Representatives
<1>8. \A d, rq : Promise!Winners(d, rq) = Winners(d, rq)
  BY <1>7 DEF Promise!Winners, Winners
<1> QED
  BY <1>1, <1>8 DEF Promise!DocumentedAnswer, DocumentedAnswer, Promise!Bid, Bid

LEMMA ReplyAnswers ==
  ASSUME TypeOK, Checked, AllExact, step = 0, TiesAgree(old), NEW t \in Threads,
         Reply(t)
  PROVE  Promise!Answer(t)
<1> DEFINE m == [request |-> request[t], since |-> since[t], until |-> step,
                 answer |-> {Bid(a) : a \in Front(targetted[t])}]
           Seen(messages) == {[request |-> n.request, answer |-> n.answer] : n \in messages}
<1>1. /\ request \in [Threads -> Request]
      /\ pc \in [Threads -> Queries \cup {"idle", "reply"}]
  BY DEF TypeOK
<1>2. /\ pc[t] = "reply" /\ pc' = [pc EXCEPT ![t] = "idle"]
      /\ request' = [request EXCEPT ![t] = NoRequest]
      /\ sent' = sent \cup {m} /\ UNCHANGED <<inbox, dbvars>>
  BY DEF Reply
<1>3. m.answer = DocumentedAnswer(Taken(old), request[t])
  <2>1. targetted[t] = Representatives(Taken(old), request[t])
    BY <1>2, SettledBeforeSetup DEF AllExact, Exact, TargetsExact
  <2>2. Tabular(old) /\ Tabular(Taken(old)) /\ request[t] \in Request
    BY <1>1, RowTypes, TypeParts, TakenIsTabular DEF IsDatabase
  <2>3. TiesAgree(Taken(old))
    BY <2>2, TakenColumns, TableNames DEF TiesAgree
  <2> QED
    BY <2>1, <2>2, <2>3, FrontIsDocumented
<1>4. Seen(sent') =
        Seen(sent) \cup {[request |-> request[t], answer |-> DocumentedAnswer(Taken(old), request[t])]}
  <2>1. Seen(sent') = Seen(sent) \cup {[request |-> m.request, answer |-> m.answer]}
    <3> HIDE DEF m
    <3> QED
      BY <1>2
  <2>2. m.request = request[t]
    OBVIOUS
  <2> QED
    BY <1>3, <2>1, <2>2
<1>5. [u \in Threads |-> IF pc'[u] = "idle" THEN {} ELSE {request'[u]}] =
        [[u \in Threads |-> IF pc[u] = "idle" THEN {} ELSE {request[u]}]
           EXCEPT ![t] = {}]
  BY <1>1, <1>2
<1>6. [u \in Threads |-> IF pc[u] = "idle" THEN {} ELSE {request[u]}][t] = {request[t]}
  BY <1>2
<1> QED
  BY <1>2, <1>4, <1>5, <1>6, SameRules DEF Promise!Answer, Promise!dbvars, dbvars

(* Nothing that a client sees happens.                                      *)
LEMMA StutterUnseen ==
  ASSUME UNCHANGED <<inbox, sent, dbvars>>,
         \A u \in Threads :
           /\ pc'[u] = "idle" <=> pc[u] = "idle"
           /\ pc[u] # "idle" => request'[u] = request[u]
  PROVE  UNCHANGED Promise!servicevars
<1>1. [u \in Threads |-> IF pc'[u] = "idle" THEN {} ELSE {request'[u]}] =
        [u \in Threads |-> IF pc[u] = "idle" THEN {} ELSE {request[u]}]
  OBVIOUS
<1> QED
  BY <1>1 DEF Promise!servicevars, Promise!dbvars, dbvars

LEMMA ThreadServes ==
  ASSUME TypeOK, Checked, AllExact, step = 0, TiesAgree(old), OneBodyEach,
         NEW t \in Threads, Thread(t)
  PROVE  [Promise!ServiceNext]_(Promise!servicevars)
<1> USE QueryNames
<1>1. CASE Dispatch(t)
  BY <1>1, DispatchTakes DEF Promise!ServiceNext
<1>2. CASE Reply(t)
  BY <1>2, ReplyAnswers DEF Promise!ServiceNext
<1>3. CASE Lock(t) \/ QueryThrows(t)
  BY <1>3, StutterUnseen DEF Lock, QueryThrows, locals
<1>4. CASE Asks(t)
  <2>1. /\ UNCHANGED <<inbox, request, sent, dbvars>>
        /\ pc[t] # "idle" /\ pc'[t] # "idle"
    BY <1>4, AskingGoesOn
  <2>2. \A u \in Threads \ {t} : pc'[u] = pc[u]
    BY OthersLocals
  <2> QED
    BY <2>1, <2>2, StutterUnseen
<1> QED
  BY <1>1, <1>2, <1>3, <1>4 DEF Thread, Asks

(* A step before the script's first command is one of the service or is not *)
(* seen.                                                                    *)
LEMMA StepServes ==
  ASSUME OneBodyEach, TypeOK, Checked, AllExact, step' = 0, TiesAgree(old), [Next]_vars
  PROVE  [Promise!ServiceNext]_(Promise!servicevars)
<1>1. ~Setup /\ step = 0
  BY StepBeforeSetup
<1>2. CASE UNCHANGED vars
  BY <1>2, StutterUnseen DEF vars, locals
<1>3. ASSUME NEW t \in Threads, Thread(t)
      PROVE  [Promise!ServiceNext]_(Promise!servicevars)
  BY <1>1, <1>3, ThreadServes
<1> QED
  BY <1>1, <1>2, <1>3 DEF Next

(* For any threads, any requests of which no two parse to one, and any      *)
(* contents in which every advertiser has a category and one of the two     *)
(* types and ties agree: while nobody changes the database, the server      *)
(* starts as the service over these contents does, and each of its steps is *)
(* a step of the service or is not seen: a request is answered once, by the *)
(* thread that took it, with the documented answer.                         *)
THEOREM StepsKeepPromise ==
  ASSUME Reloading = FALSE,
         \A r \in Reloads : Conforms(r.old) /\ TiesAgree(r.old),
         OneBodyEach
  PROVE  Spec => Promise!ServiceInit /\ [][Promise!ServiceNext]_(Promise!servicevars)
<1> DEFINE Quiet == step = 0
<1>1. ASSUME Init
      PROVE  AllExact /\ Promise!ServiceInit /\ Quiet
  <2>1. PICK r \in Reloads : old = r.old /\ fresh = r.fresh /\ step = 0
    BY <1>1 DEF Init, DBInit
  <2>2. Taken(old) = r.old
    BY <2>1, ReloadsAreDatabases, TakenAsTheyAre
  <2>3. Promise!DBInit
    BY <2>1, <2>2 DEF Promise!DBInit
  <2>4. {ParseRequest(body) : body \in inbox} \in SUBSET Promise!Request
    BY <1>1, BodiesParse DEF Init, Promise!Request, Request
  <2>5. [t \in Threads |-> IF pc[t] = "idle" THEN {} ELSE {request[t]}] =
          [t \in Threads |-> {}]
    BY <1>1 DEF Init
  <2>6. {[request |-> m.request, answer |-> m.answer] : m \in sent} = {}
    BY <1>1 DEF Init
  <2> QED
    BY <1>1, <2>1, <2>3, <2>4, <2>5, <2>6, InitExact
       DEF Promise!ServiceInit
<1>2. ASSUME TypeOK, Quiet, [Next]_vars
      PROVE  Quiet'
  <2>1. ~Setup
    BY <1>2 DEF Setup, SetupDB, DropDatabase, CreateTable, LoadTable
  <2>2. CASE UNCHANGED vars
    BY <1>2, <2>2 DEF vars, dbvars
  <2>3. ASSUME NEW t \in Threads, Thread(t)
        PROVE  UNCHANGED step
    BY <1>2, <2>3, AskingGoesOn
       DEF Thread, Asks, Dispatch, Lock, QueryThrows, Reply, dbvars
  <2> QED
    BY <1>2, <2>1, <2>2, <2>3 DEF Next
<1>3. ASSUME TypeOK, Checked, AllExact, Quiet', [Next]_vars
      PROVE  [Promise!ServiceNext]_(Promise!servicevars)
  BY <1>3, StepServes DEF TypeOK
<1> HIDE DEF Quiet
<1> QED
  BY <1>1, <1>2, <1>3, NextExact, TypeCorrect, RowsAreChecked, PTL DEF Spec

(* The same up to the first command of setup_db.sh, whenever it comes, over *)
(* the contents as they are taken, for any contents in which ties agree,    *)
(* any reloads and any threads.                                             *)
THEOREM ServesUntilSetup ==
  ASSUME OneBodyEach
  PROVE  Spec => ServesBeforeSetup
<1>1. Init => AllExact
  BY InitExact
<1>2. ASSUME TypeOK, Checked, AllExact, [Next]_vars
      PROVE  step' = 0 /\ TiesAgree(old) => [Promise!ServiceNext]_(Promise!servicevars)
  BY <1>2, StepServes
<1> QED
  BY <1>1, <1>2, NextExact, TypeCorrect, RowsAreChecked, PTL DEF Spec, ServesBeforeSetup
=============================================================================
