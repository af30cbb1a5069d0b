------------------------------- MODULE PyAuction -------------------------------
(***************************************************************************)
(* The Python auction server: python/server/auction.py and server.py, and  *)
(* python/connector, over a database that test/setup_db.sh may replace at  *)
(* the same time.                                                          *)
(*                                                                         *)
(* serve_forever submits each accepted request to a ThreadPoolExecutor of  *)
(* n_thread threads; a task is named here by the request's body.  There is *)
(* no mutex: each query opens a connection of its own, and one action is a *)
(* query with the statements up to the next one.  Lists are sets of rows,  *)
(* as in GoAuction; the dict of advertisers keeps the order in which they  *)
(* came, which is the order of their first row.                            *)
(*                                                                         *)
(* An error is an exception, which nothing in the program catches:         *)
(* socketserver closes the connection without an answer, and the thread    *)
(* takes the next task.                                                    *)
(***************************************************************************)
EXTENDS AuctionChecks

CONSTANTS
  Bodies,    \* the bodies that the clients send, one task each
  Malformed, \* the bodies on which parsing raises: no JSON, a number, null
  n_thread   \* config.n_thread

ASSUME BodiesParse == \A body \in Bodies : ParseRequest(body) \in Request
ASSUME ThreadsPositive == n_thread \in Nat \ {0}

VARIABLES
  idle,       \* how many threads of the pool have no task
  pc,         \* where each task is
  todo,       \* rows the current loop has not finished
  kept,       \* rows it has kept; in the last loop, those of the
              \* advertisers that are not finished
  advertiser, \* the advertiser read in the category loop, or None
  features,   \* ads_features
  targetted,  \* ads_targetted
  answer,     \* what each task has sent: one bid, or none for 204
  since,      \* history: the script's step when the request was parsed
  until       \* history: the script's step when its connection was closed

locals == <<todo, kept, advertiser, features, targetted>>
vars == <<idle, pc, locals, answer, since, until, dbvars>>

Settled == {"answered", "failed"}
-----------------------------------------------------------------------------
\* Mutant of featureTargeting: sub <= best.
LastNearest(ads_features, request_feature) ==
  LET nearest == {f \in ads_features :
                    \A g \in ads_features :
                      Abs(request_feature - f.feature) <= Abs(request_feature - g.feature)}
  IN  {f \in nearest : \A g \in nearest : g.ads_id <= f.ads_id}

(* sub < best keeps the first of the nearest.                               *)
featureTargeting(ads_features, request_feature) ==
  Least({f \in ads_features :
           \A g \in ads_features :
             Abs(request_feature - f.feature) <= Abs(request_feature - g.feature)},
        "ads_id")

\* Mutant of Winner: the sort by (price, ads_id), downwards.
LastOfPrice(rows) ==
  LET dearest == {a \in rows : \A b \in rows : b.price <= a.price}
  IN  {a \in dearest : \A b \in dearest : b.ads_id <= a.ads_id}

(* The sort by (price, -ads_id), downwards.                                 *)
Winner(rows) == Least({a \in rows : \A b \in rows : b.price <= a.price}, "ads_id")

(* The row that a loop's query is for; the first query is for none.         *)
Current(g) == Least(todo[g], "ads_id")

(* CategoryBlockingType() raises for a NULL and for another number.         *)
TypeRaises(a) ==
  \E v \in SelectAdvertiser(db, a.advertiser_id) :
    v.category_blocking_type \notin {ALLOW, DENY}

\* Mutant of Raises: the first category is unpacked, as the feature is.
RaisesWithoutCategory(g) ==
  TableOf[pc[g]] \in DOMAIN db =>
    \E a \in Current(g) :
      \/ TableOf[pc[g]] = "advertisers" /\ TypeRaises(a)
      \/ pc[g] = "fetchCategoryBlocking" /\ SelectCategories(db, a.advertiser_id) = {}
      \/ pc[g] = "fetchAdsFeature" /\ SelectAdsFeature(db, a.ads_id) = {}

(* A query raises if its table does not exist.  If it exists, the type of    *)
(* the advertiser that was found may raise, and "data, = None" raises when   *)
(* the ad has no row in ads_features.                                        *)
Raises(g) ==
  TableOf[pc[g]] \in DOMAIN db =>
    \E a \in Current(g) :
      \/ TableOf[pc[g]] = "advertisers" /\ TypeRaises(a)
      \/ pc[g] = "fetchAdsFeature" /\ SelectAdsFeature(db, a.ads_id) = {}

(* fetchAdsFeature returns None for a feature that is falsy.                *)
FoundFeature(ads_id) == {f \in SelectAdsFeature(db, ads_id) : f.feature # 0}
-----------------------------------------------------------------------------
(* A thread of the pool takes a task and reads its request.                 *)
Start(g) ==
  /\ pc[g] = "submitted"
  /\ g \notin Malformed
  /\ idle > 0
  /\ idle' = idle - 1
  /\ pc' = [pc EXCEPT ![g] = "fetchAdses"]
  /\ since' = [since EXCEPT ![g] = step]
  /\ UNCHANGED <<locals, answer, until, dbvars>>

(* A thread takes a task whose body cannot be parsed: the exception leaves   *)
(* auction_handler before the first query, and the thread is free again.    *)
Refuse(g) ==
  /\ pc[g] = "submitted"
  /\ g \in Malformed
  /\ idle > 0
  /\ pc' = [pc EXCEPT ![g] = "failed"]
  /\ UNCHANGED <<idle, locals, answer, since, until, dbvars>>

Query(g, statement) ==
  /\ pc[g] = statement
  /\ ~Raises(g)
  /\ UNCHANGED <<idle, answer, since, until, dbvars>>

(* A loop over rows begins; over nothing it is skipped, and so are the      *)
(* loops after it.  The last loop is over advertisers, and takes first the  *)
(* one whose row came first.                                                *)
Begin(g, statement, rows) ==
  LET firsts == {a.advertiser_id : a \in Least(rows, "ads_id")}
  IN  /\ pc' = [pc EXCEPT ![g] = IF rows = {} THEN "reply" ELSE statement]
      /\ todo' = [todo EXCEPT ![g] =
                    IF statement = "fetchAdsFeature"
                    THEN {a \in rows : a.advertiser_id \in firsts} ELSE rows]
      /\ kept' = [kept EXCEPT ![g] =
                    IF statement = "fetchAdsFeature" THEN rows ELSE {}]

Visited(g, a, keep, statement, following) ==
  LET rest == todo[g] \ {a}
      rows == IF keep THEN kept[g] \cup {a} ELSE kept[g]
  IN  IF rest # {}
      THEN /\ pc' = [pc EXCEPT ![g] = statement]
           /\ todo' = [todo EXCEPT ![g] = rest]
           /\ kept' = [kept EXCEPT ![g] = rows]
      ELSE Begin(g, following, rows)

FetchAdses(g) ==
  /\ Query(g, "fetchAdses")
  /\ Begin(g, "fetchAdSize", SelectAdses(db))
  /\ UNCHANGED <<advertiser, features, targetted>>

FetchAdSize(g) ==
  /\ Query(g, "fetchAdSize")
  /\ \E a \in Current(g) :
       Visited(g, a, SizeMatches(SelectAdSize(db, a.size_id), ParseRequest(g)),
               "fetchAdSize", "fetchAdvertiser")
  /\ UNCHANGED <<advertiser, features, targetted>>

FetchAdvertiser(g) ==
  /\ Query(g, "fetchAdvertiser")
  /\ \E a \in Current(g) :
       Visited(g, a, DomainPasses(SelectAdvertiser(db, a.advertiser_id),
                                  ParseRequest(g)),
               "fetchAdvertiser", "fetchAdvertiserAgain")
  /\ UNCHANGED <<advertiser, features, targetted>>

FetchAdvertiserAgain(g) ==
  /\ Query(g, "fetchAdvertiserAgain")
  /\ \E a \in Current(g) :
       advertiser' = [advertiser EXCEPT ![g] = SelectAdvertiser(db, a.advertiser_id)]
  /\ pc' = [pc EXCEPT ![g] = "fetchCategoryBlocking"]
  /\ UNCHANGED <<todo, kept, features, targetted>>

\* Mutant of FetchCategoryBlocking: the categories come from a cache, filled
\* when the server started.
CategoriesCached(g) ==
  /\ Query(g, "fetchCategoryBlocking")
  /\ \E a \in Current(g) :
       Visited(g, a,
               CategoryPasses(advertiser[g], SelectCategories(old, a.advertiser_id),
                              ParseRequest(g)),
               "fetchAdvertiserAgain", "fetchAdsFeature")
  /\ advertiser' = [advertiser EXCEPT ![g] = {}]
  /\ UNCHANGED <<features, targetted>>

FetchCategoryBlocking(g) ==
  /\ Query(g, "fetchCategoryBlocking")
  /\ \E a \in Current(g) :
       Visited(g, a,
               CategoryPasses(advertiser[g], SelectCategories(db, a.advertiser_id),
                              ParseRequest(g)),
               "fetchAdvertiserAgain", "fetchAdsFeature")
  /\ advertiser' = [advertiser EXCEPT ![g] = {}]
  /\ UNCHANGED <<features, targetted>>

(* The loop over one advertiser's ads is over: the ad of the nearest        *)
(* feature, if there is any, stands for the advertiser.                     *)
EndOfAdvertiser(g, a, ads_features) ==
  LET adv_adses == {b \in kept[g] : b.advertiser_id = a.advertiser_id}
      best == {b \in adv_adses :
                 \E f \in featureTargeting(ads_features, ParseRequest(g).zone_feature) :
                   b.ads_id = f.ads_id}
  IN  /\ targetted' = [targetted EXCEPT ![g] = @ \cup best]
      /\ features' = [features EXCEPT ![g] = {}]
      /\ Begin(g, "fetchAdsFeature", kept[g] \ adv_adses)

FetchAdsFeature(g) ==
  /\ Query(g, "fetchAdsFeature")
  /\ \E a \in Current(g) :
       LET rest == todo[g] \ {a}
           ads_features == features[g] \cup FoundFeature(a.ads_id)
       IN  IF rest # {}
           THEN /\ todo' = [todo EXCEPT ![g] = rest]
                /\ features' = [features EXCEPT ![g] = ads_features]
                /\ UNCHANGED <<pc, kept, targetted>>
           ELSE EndOfAdvertiser(g, a, ads_features)
  /\ UNCHANGED advertiser

(* The task is over and its thread is free.                                 *)
Settle(g, how) ==
  /\ idle' = idle + 1
  /\ pc' = [pc EXCEPT ![g] = how]
  /\ until' = [until EXCEPT ![g] = step]
  /\ UNCHANGED <<since, dbvars>>

\* Mutant of Fail: the exception ends the thread.
ThreadDies(g) ==
  /\ pc[g] \in Queries
  /\ Raises(g)
  /\ pc' = [pc EXCEPT ![g] = "failed"]
  /\ until' = [until EXCEPT ![g] = step]
  /\ todo' = [todo EXCEPT ![g] = {}]
  /\ kept' = [kept EXCEPT ![g] = {}]
  /\ advertiser' = [advertiser EXCEPT ![g] = {}]
  /\ features' = [features EXCEPT ![g] = {}]
  /\ targetted' = [targetted EXCEPT ![g] = {}]
  /\ UNCHANGED <<idle, answer, since, dbvars>>

(* An exception leaves auction_handler.                                     *)
Fail(g) ==
  /\ pc[g] \in Queries
  /\ Raises(g)
  /\ Settle(g, "failed")
  /\ todo' = [todo EXCEPT ![g] = {}]
  /\ kept' = [kept EXCEPT ![g] = {}]
  /\ advertiser' = [advertiser EXCEPT ![g] = {}]
  /\ features' = [features EXCEPT ![g] = {}]
  /\ targetted' = [targetted EXCEPT ![g] = {}]
  /\ UNCHANGED answer

(* The sort and the answer: 200 with the winner, or 204.                    *)
Reply(g) ==
  /\ pc[g] = "reply"
  /\ answer' = [answer EXCEPT ![g] = {Bid(a) : a \in Winner(targetted[g])}]
  /\ targetted' = [targetted EXCEPT ![g] = {}]
  /\ Settle(g, "answered")
  /\ UNCHANGED <<todo, kept, advertiser, features>>
-----------------------------------------------------------------------------
Init ==
  /\ DBInit
  /\ idle = n_thread
  /\ pc = [g \in Bodies |-> "submitted"]
  /\ todo = [g \in Bodies |-> {}]
  /\ kept = [g \in Bodies |-> {}]
  /\ advertiser = [g \in Bodies |-> {}]
  /\ features = [g \in Bodies |-> {}]
  /\ targetted = [g \in Bodies |-> {}]
  /\ answer = [g \in Bodies |-> {}]
  /\ since = [g \in Bodies |-> 0]
  /\ until = [g \in Bodies |-> 0]

Task(g) ==
  \/ Start(g)
  \/ Refuse(g)
  \/ FetchAdses(g)
  \/ FetchAdSize(g)
  \/ FetchAdvertiser(g)
  \/ FetchAdvertiserAgain(g)
  \/ FetchCategoryBlocking(g)
  \/ FetchAdsFeature(g)
  \/ Fail(g)
  \/ Reply(g)

Setup ==
  /\ SetupDB
  /\ UNCHANGED <<idle, pc, locals, answer, since, until>>

Next == Setup \/ \E g \in Bodies : Task(g)

(* The interpreter runs every thread, and the executor's queue is served in *)
(* order.                                                                   *)
Spec == Init /\ [][Next]_vars /\ \A g \in Bodies : WF_vars(Task(g))
-----------------------------------------------------------------------------
(* Every variable has its type; no more threads are idle than there are.    *)
TypeOK ==
  /\ \E r \in Reloads : old = r.old /\ fresh = r.fresh
  /\ step \in 0..LastStep
  /\ idle \in 0..n_thread
  /\ pc \in [Bodies -> Queries \cup Settled \cup {"submitted", "reply"}]
  /\ todo \in [Bodies -> SUBSET Ads]
  /\ kept \in [Bodies -> SUBSET Ads]
  /\ advertiser \in [Bodies -> SUBSET Advertiser]
  /\ features \in [Bodies -> SUBSET AdsFeature]
  /\ targetted \in [Bodies -> SUBSET Ads]
  /\ answer \in [Bodies -> SUBSET [ads : AdTexts, price : Nat]]
  /\ since \in [Bodies -> 0..LastStep]
  /\ until \in [Bodies -> 0..LastStep]

Bids(g) == IF pc[g] = "answered" THEN answer[g] ELSE {}

(* fetchAdsFeature takes no feature that is 0.                              *)
Truthy(d) == [d EXCEPT !["ads_features"] = {f \in @ : f.feature # 0}]

(* A request during which the database stood still has the answer of the    *)
(* documents over the contents as they are taken, whatever the tasks beside *)
(* it did: a feature of 0 and an advertiser without categories are the only *)
(* departures of an answer.                                                 *)
AnsweredFromOneState ==
  \A g \in Bodies :
    pc[g] = "answered" /\ since[g] = until[g] /\ Whole(since[g]) =>
      answer[g] = DocumentedAnswer(Taken(Truthy(DBAt(since[g]))), ParseRequest(g))

(* A request ends without an answer only because of its own body, because a *)
(* table is missing, or because of an ad that had passed the checks before: *)
(* it fitted and its advertiser's type is not one of the two of             *)
(* doc/db.md:54, or it passed the three filters and has no feature.  An ad  *)
(* that a filter drops does no harm, nor does a missing category.           *)
UnknownType(a, rq, from, to) ==
  /\ \E v \in SelectAdvertiser(DBAt(to), a.advertiser_id) :
       v.category_blocking_type \notin {ALLOW, DENY}
  /\ ReadAndFits(a, rq, from, to)

NoFeature(a, rq, from, to) ==
  SelectAdsFeature(DBAt(to), a.ads_id) = {} /\ AlsoCategory(a, rq, from, to)

FailsForCause ==
  \A g \in Bodies :
    pc[g] = "failed" =>
      \/ g \in Malformed
      \/ ~Whole(until[g])
      \/ \E a \in old["adses"] \cup fresh["adses"] :
           \/ UnknownType(a, ParseRequest(g), since[g], until[g])
           \/ NoFeature(a, ParseRequest(g), since[g], until[g])

(* There is no gap while the database is replaced: where a table is missing *)
(* the request fails, so each ad that is served passed every check in the   *)
(* order of the code, each against the database at some moment of the       *)
(* request.                                                                 *)
WinnerWasChecked ==
  \A g \in Bodies : \A bid \in Bids(g) :
    \E a \in old["adses"] \cup fresh["adses"] :
      bid = Bid(a) /\ AlsoFeature(a, ParseRequest(g), since[g], until[g])

(* Every request is answered or its connection is closed: an exception does *)
(* not cost the pool a thread.                                              *)
EveryRequestSettled == \A g \in Bodies : <>(pc[g] \in Settled)

(* Up to the script's first command the server is the service over the      *)
(* contents as they are taken; a request that ends by an exception is one   *)
(* that the service has taken and does not answer, and the requests beside  *)
(* it are answered all the same.                                            *)
Promise == INSTANCE AuctionService WITH
  old      <- Taken(Truthy(old)),
  Handlers <- Bodies,
  waiting  <- {ParseRequest(g) : g \in {h \in Bodies : pc[h] = "submitted"}},
  handling <- [g \in Bodies |-> IF pc[g] \in {"submitted", "answered"}
                                THEN {} ELSE {ParseRequest(g)}],
  answers  <- {[request |-> ParseRequest(g), answer |-> answer[g]] :
                 g \in {h \in Bodies : pc[h] = "answered"}}

ServesBeforeSetup ==
  [][step' = 0 => [Promise!ServiceNext]_(Promise!servicevars)]_vars

(* python/connector/fetch_model_from_db.py:93 says of fetchAdsFeature that  *)
(* it returns the feature if there is one and None if there is none.  Then, *)
(* before the script, an ad with the feature 0 is targeted like the others, *)
(* and an ad without a feature ends no request.                             *)
ZeroIsAFeature ==
  \A g \in Bodies :
    pc[g] = "answered" /\ until[g] = 0 =>
      answer[g] = DocumentedAnswer(Taken(old), ParseRequest(g))

MissingIsNone ==
  \A g \in Bodies \ Malformed :
    pc[g] = "failed" /\ until[g] = 0 =>
      ~ \E a \in SelectAdses(old) : NoFeature(a, ParseRequest(g), 0, 0)

(* A state in which neither holds refutes both halves of the docstring.     *)
FeatureOrNone == ZeroIsAFeature \/ MissingIsNone
=============================================================================
