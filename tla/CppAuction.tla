------------------------------ MODULE CppAuction ------------------------------
(***************************************************************************)
(* The C++ auction server: cpp/src/server/auction.cpp, run by the threads  *)
(* of cpp/src/server/server.cpp on requests that arrive over HTTP, over a   *)
(* database that test/setup_db.sh may replace at the same time.            *)
(*                                                                         *)
(* Each thread handles one request at a time.  auction() reads the         *)
(* database once per row it looks at; each read is a connection and a      *)
(* query of its own under the mutex of MySQLConnector, and the statements  *)
(* between two reads touch only the thread's locals.  One read and the     *)
(* statements up to the next read are one action.                          *)
(*                                                                         *)
(* The vectors of the code hold rows in the order of ads_id, and the       *)
(* std::map groups them in the order of advertiser_id: both orders are     *)
(* functions of the rows, so a vector is the set of its rows and its next  *)
(* element the least of them.                                              *)
(***************************************************************************)
EXTENDS AuctionChecks

CONSTANTS
  Threads,   \* the HttpThreads
  Bodies,    \* the bodies that the clients send, each once
  Malformed  \* the bodies that are not a JSON object

VARIABLES
  inbox,      \* bodies no thread has read from its socket yet
  pc,         \* where each thread is: the next statement that leaves it
  request,    \* auction()'s argument
  todo,       \* rows the current loop has not finished
  kept,       \* rows it has kept; in the last loop, the entries of
              \* advertiser_adses the loop over advertisers has not finished
  advertiser, \* the optional read in the category loop
  features,   \* ads_features of the advertiser at hand
  targetted,  \* ads_targetted
  mut,        \* the threads that hold MySQLConnector::mut
  ended,      \* what has ended the process, if anything has
  since,      \* history: the script's step when the request was read
  sent        \* history: the answers sent, with the steps they span

locals == <<request, todo, kept, advertiser, features, targetted, since>>
vars == <<inbox, pc, locals, mut, ended, sent, dbvars>>

ASSUME BodiesParse == \A body \in Bodies : ParseRequest(body) \in Request

(* The process runs.                                                        *)
alive == ended = "no"

(* The value of the thread's locals between two requests.                   *)
NoRequest == ParseRequest([name \in {} |-> name])

\* Mutant of featureTargeting: the rightmost of the nearest.
RightmostNearest(ads_features, request_feature) ==
  LET nearest == {f \in ads_features :
                    \A g \in ads_features :
                      Abs(request_feature - f.feature) <= Abs(request_feature - g.feature)}
  IN  {f \in nearest : \A g \in nearest : g.ads_id <= f.ads_id}

(* std::ranges::min returns the leftmost of the nearest.                    *)
featureTargeting(ads_features, request_feature) ==
  Least({f \in ads_features :
           \A g \in ads_features :
             Abs(request_feature - f.feature) <= Abs(request_feature - g.feature)},
        "ads_id")

\* Mutant of Front: among ads of one price, the order of ads_id.
FirstOfPrice(rows) ==
  Least({a \in rows : \A b \in rows : b.price <= a.price}, "ads_id")

(* stable_sort by price, downwards, of rows in the order of advertiser_id.  *)
Front(rows) ==
  Least({a \in rows : \A b \in rows : b.price <= a.price}, "advertiser_id")
-----------------------------------------------------------------------------
(* A thread's event loop has read a request: auction_handler is called.  Of *)
(* a body that is not an object the parser asks for members all the same:   *)
(* the assertion in HasMember() aborts the process.                         *)
Dispatch(t) ==
  /\ alive
  /\ pc[t] = "idle"
  /\ \E body \in inbox :
       /\ inbox' = inbox \ {body}
       /\ request' = [request EXCEPT ![t] = ParseRequest(body)]
       /\ ended' = IF body \in Malformed THEN "parse" ELSE ended
  /\ pc' = [pc EXCEPT ![t] = "fetchAdses"]
  /\ since' = [since EXCEPT ![t] = step]
  /\ UNCHANGED <<todo, kept, advertiser, features, targetted, mut, sent, dbvars>>

(* std::lock_guard<std::mutex> lock(mut)                                    *)
Lock(t) ==
  /\ alive
  /\ pc[t] \in Queries
  /\ mut = {}
  /\ mut' = {t}
  /\ UNCHANGED <<inbox, pc, locals, ended, sent, dbvars>>

(* The thread is in the driver, its query succeeds, and the lock is released.*)
Query(t, statement) ==
  /\ alive
  /\ pc[t] = statement
  /\ t \in mut
  /\ TableOf[statement] \in DOMAIN db
  /\ mut' = mut \ {t}
  /\ UNCHANGED <<inbox, request, since, sent, dbvars>>

(* A loop over rows begins; a loop over nothing is skipped, and so are the  *)
(* loops after it.  The last loop is over the advertisers of rows.          *)
Begin(t, statement, rows) ==
  LET group == IF statement = "fetchAdsFeature"
               THEN Least(rows, "advertiser_id") ELSE rows
  IN  /\ pc' = [pc EXCEPT ![t] = IF rows = {} THEN "reply" ELSE statement]
      /\ todo' = [todo EXCEPT ![t] = group]
      /\ kept' = [kept EXCEPT ![t] =
                    IF statement = "fetchAdsFeature" THEN rows ELSE {}]

(* The loop that starts with statement has handled a; another loop, which   *)
(* starts with following, comes after it.                                   *)
Visited(t, a, keep, statement, following) ==
  LET rest == todo[t] \ {a}
      rows == IF keep THEN kept[t] \cup {a} ELSE kept[t]
  IN  IF rest # {}
      THEN /\ pc' = [pc EXCEPT ![t] = statement]
           /\ todo' = [todo EXCEPT ![t] = rest]
           /\ kept' = [kept EXCEPT ![t] = rows]
      ELSE Begin(t, following, rows)

FetchAdses(t) ==
  /\ Query(t, "fetchAdses")
  /\ Begin(t, "fetchAdSize", SelectAdses(db))
  /\ UNCHANGED <<advertiser, features, targetted, ended>>

FetchAdSize(t) ==
  /\ Query(t, "fetchAdSize")
  /\ \E a \in Least(todo[t], "ads_id") :
       Visited(t, a, SizeMatches(SelectAdSize(db, a.size_id), request[t]),
               "fetchAdSize", "fetchAdvertiser")
  /\ UNCHANGED <<advertiser, features, targetted, ended>>

FetchAdvertiser(t) ==
  /\ Query(t, "fetchAdvertiser")
  /\ \E a \in Least(todo[t], "ads_id") :
       Visited(t, a, DomainPasses(SelectAdvertiser(db, a.advertiser_id), request[t]),
               "fetchAdvertiser", "fetchAdvertiserAgain")
  /\ UNCHANGED <<advertiser, features, targetted, ended>>

(* The category loop reads the advertiser a second time, and keeps it while *)
(* it reads the categories.                                                 *)
FetchAdvertiserAgain(t) ==
  /\ Query(t, "fetchAdvertiserAgain")
  /\ \E a \in Least(todo[t], "ads_id") :
       advertiser' = [advertiser EXCEPT ![t] = SelectAdvertiser(db, a.advertiser_id)]
  /\ pc' = [pc EXCEPT ![t] = "fetchCategoryBlocking"]
  /\ UNCHANGED <<todo, kept, features, targetted, ended>>

\* Mutant of FetchCategoryBlocking: the advertiser is read once, before the
\* loop, and not once per row.
AdvertiserReadOnce(t) ==
  /\ Query(t, "fetchCategoryBlocking")
  /\ \E a \in Least(todo[t], "ads_id") :
       Visited(t, a,
               CategoryPasses(advertiser[t], SelectCategories(db, a.advertiser_id),
                              request[t]),
               "fetchCategoryBlocking", "fetchAdsFeature")
  /\ UNCHANGED <<advertiser, features, targetted, ended>>

(* std::terminate() ends the process where a type that is neither ALLOW nor *)
(* DENY is checked against categories.                                      *)
FetchCategoryBlocking(t) ==
  /\ Query(t, "fetchCategoryBlocking")
  /\ \E a \in Least(todo[t], "ads_id") :
       LET categories == SelectCategories(db, a.advertiser_id)
       IN  /\ Visited(t, a, CategoryPasses(advertiser[t], categories, request[t]),
                      "fetchAdvertiserAgain", "fetchAdsFeature")
           /\ ended' = IF categories # {} /\ \E v \in advertiser[t] : ~Known(v)
                       THEN "type" ELSE ended
  /\ advertiser' = [advertiser EXCEPT ![t] = {}]
  /\ UNCHANGED <<features, targetted>>

\* Mutant of EndOfAdvertiser: ads_features outlives the advertiser.
FeaturesKept(t, ads_features) ==
  LET adv_adses == Least(kept[t], "advertiser_id")
      rest == kept[t] \ adv_adses
      best == {a \in adv_adses :
                 \E f \in featureTargeting(ads_features, request[t].zone_feature) :
                   a.ads_id = f.ads_id}
  IN  /\ ended' = IF ads_features = {} \/ best # {} THEN ended ELSE "assert"
      /\ targetted' = [targetted EXCEPT ![t] = @ \cup best]
      /\ features' = [features EXCEPT ![t] = ads_features]
      /\ Begin(t, "fetchAdsFeature", rest)

(* The loop over one advertiser's ads is over: the nearest ad is looked up  *)
(* in adv_adses, and assert() ends the process if it is not there.          *)
EndOfAdvertiser(t, ads_features) ==
  LET adv_adses == Least(kept[t], "advertiser_id")
      rest == kept[t] \ adv_adses
      best == {a \in adv_adses :
                 \E f \in featureTargeting(ads_features, request[t].zone_feature) :
                   a.ads_id = f.ads_id}
  IN  /\ ended' = IF ads_features = {} \/ best # {} THEN ended ELSE "assert"
      /\ targetted' = [targetted EXCEPT ![t] = @ \cup best]
      /\ features' = [features EXCEPT ![t] = {}]
      /\ Begin(t, "fetchAdsFeature", rest)

FetchAdsFeature(t) ==
  /\ Query(t, "fetchAdsFeature")
  /\ \E a \in Least(todo[t], "ads_id") :
       LET rest == todo[t] \ {a}
           ads_features == features[t] \cup SelectAdsFeature(db, a.ads_id)
       IN  IF rest # {}
           THEN /\ todo' = [todo EXCEPT ![t] = rest]
                /\ features' = [features EXCEPT ![t] = ads_features]
                /\ UNCHANGED <<pc, kept, targetted, ended>>
           ELSE EndOfAdvertiser(t, ads_features)
  /\ UNCHANGED advertiser

(* A query that fails throws sql::SQLException; nothing catches it and       *)
(* std::terminate ends the process, with every request in it.               *)
QueryThrows(t) ==
  /\ alive
  /\ t \in mut
  /\ TableOf[pc[t]] \notin DOMAIN db
  /\ ended' = "query"
  /\ UNCHANGED <<inbox, pc, locals, mut, sent, dbvars>>

\* Mutant of Reply: ads_targetted outlives the request.
TargetsKept(t) ==
  /\ alive
  /\ pc[t] = "reply"
  /\ sent' = sent \cup {[request |-> request[t], since |-> since[t],
                         until |-> step,
                         answer |-> {Bid(a) : a \in Front(targetted[t])}]}
  /\ pc' = [pc EXCEPT ![t] = "idle"]
  /\ request' = [request EXCEPT ![t] = NoRequest]
  /\ since' = [since EXCEPT ![t] = 0]
  /\ UNCHANGED <<inbox, todo, kept, advertiser, features, targetted, mut, ended,
                 dbvars>>

(* The sort, the answer, and back to the event loop.                        *)
Reply(t) ==
  /\ alive
  /\ pc[t] = "reply"
  /\ sent' = sent \cup {[request |-> request[t], since |-> since[t],
                         until |-> step,
                         answer |-> {Bid(a) : a \in Front(targetted[t])}]}
  /\ pc' = [pc EXCEPT ![t] = "idle"]
  /\ request' = [request EXCEPT ![t] = NoRequest]
  /\ targetted' = [targetted EXCEPT ![t] = {}]
  /\ since' = [since EXCEPT ![t] = 0]
  /\ UNCHANGED <<inbox, todo, kept, advertiser, features, mut, ended, dbvars>>
-----------------------------------------------------------------------------
Init ==
  /\ DBInit
  /\ inbox = Bodies
  /\ pc = [t \in Threads |-> "idle"]
  /\ request = [t \in Threads |-> NoRequest]
  /\ todo = [t \in Threads |-> {}]
  /\ kept = [t \in Threads |-> {}]
  /\ advertiser = [t \in Threads |-> {}]
  /\ features = [t \in Threads |-> {}]
  /\ targetted = [t \in Threads |-> {}]
  /\ since = [t \in Threads |-> 0]
  /\ mut = {}
  /\ ended = "no"
  /\ sent = {}

Thread(t) ==
  \/ Dispatch(t)
  \/ Lock(t)
  \/ FetchAdses(t)
  \/ FetchAdSize(t)
  \/ FetchAdvertiser(t)
  \/ FetchAdvertiserAgain(t)
  \/ FetchCategoryBlocking(t)
  \/ FetchAdsFeature(t)
  \/ QueryThrows(t)
  \/ Reply(t)

Setup ==
  /\ SetupDB
  /\ UNCHANGED <<inbox, pc, locals, mut, ended, sent>>

Next == Setup \/ \E t \in Threads : Thread(t)

Spec == Init /\ [][Next]_vars /\ \A t \in Threads : WF_vars(Thread(t))
-----------------------------------------------------------------------------
(* Every variable has its type.                                             *)
TypeOK ==
  /\ \E r \in Reloads : old = r.old /\ fresh = r.fresh
  /\ step \in 0..LastStep
  /\ inbox \subseteq Bodies
  /\ pc \in [Threads -> Queries \cup {"idle", "reply"}]
  /\ request \in [Threads -> Request]
  /\ todo \in [Threads -> SUBSET Ads]
  /\ kept \in [Threads -> SUBSET Ads]
  /\ advertiser \in [Threads -> SUBSET Advertiser]
  /\ features \in [Threads -> SUBSET AdsFeature]
  /\ targetted \in [Threads -> SUBSET Ads]
  /\ mut \subseteq Threads
  /\ ended \in {"no", "parse", "query", "type", "assert"}
  /\ since \in [Threads -> 0..LastStep]
  /\ sent \subseteq [request : Request, since : 0..LastStep, until : 0..LastStep,
                     answer : SUBSET [ads : AdTexts, price : Nat]]

(* What ends the process, and with it every request, has its cause in what  *)
(* the process was given: a body that is no object, a query of the script's *)
(* doing, or a type outside doc/db.md:54 that was read for an ad which had   *)
(* passed the size and the domain, of an advertiser with categories.  The   *)
(* assert() of auction.cpp never fails, whatever the reads of the loop saw. *)
TypeEnds(t, a) ==
  \E u, w \in since[t]..step :
    /\ u <= w
    /\ Exists("advertisers", u)
    /\ \E v \in SelectAdvertiser(DBAt(u), a.advertiser_id) : ~Known(v)
    /\ Exists("category_blockings", w)
    /\ SelectCategories(DBAt(w), a.advertiser_id) # {}
    /\ AlsoDomain(a, request[t], since[t], u)

EndsForCause ==
  /\ ended # "assert"
  /\ ended = "parse" => (Malformed \cap Bodies) \ inbox # {}
  /\ ended = "query" => step > 0
  /\ ended = "type" =>
       \E t \in Threads, a \in old["adses"] \cup fresh["adses"] : TypeEnds(t, a)

(* Every bid that auction() returns is for an ad that was in adses, fitted  *)
(* the zone, belonged to an advertiser whose domain was not blocked, was    *)
(* not blocked by category and had a feature, read in this order while the  *)
(* request was being served.                                                *)
WinnerWasChecked ==
  \A m \in sent : \A bid \in m.answer :
    \E a \in old["adses"] \cup fresh["adses"] :
      bid = Bid(a) /\ AlsoFeature(a, m.request, m.since, m.until)

(* A request during which the database stood still, before the script, after *)
(* it or between two of its loads, is answered with the dearest of the      *)
(* representatives in the contents as they are taken, of several the one    *)
(* with the smallest advertiser_id: ties and advertisers without categories *)
(* are the only departures from the documents, whatever the threads beside  *)
(* it did.                                                                  *)
AnsweredFromOneState ==
  \A m \in sent :
    m.since = m.until /\ Whole(m.since) =>
      LET rivals == Representatives(Taken(DBAt(m.since)), m.request)
      IN  m.answer = {Bid(a) : a \in {r \in rivals :
                        \A s \in rivals :
                          \/ s.price < r.price
                          \/ s.price = r.price /\ r.advertiser_id <= s.advertiser_id}}

(* doc/final-auction.md:4 gives the price, among ads of one price, to the   *)
(* smallest ads_id.                                                         *)
TieGoesToSmallestAdsId ==
  \A m \in sent : \A bid \in m.answer, due \in DocumentedAnswer(db, m.request) :
    bid.price = due.price => bid = due

(* doc/category-blocking.md:7-8: an allowing advertiser without a category  *)
(* in common with the request is not deliverable.                           *)
AllowListEnforced ==
  \A m \in sent : \A bid \in m.answer :
    \E a \in SelectAdses(db) :
      /\ bid = Bid(a)
      /\ \A v \in SelectAdvertiser(db, a.advertiser_id) :
           v.category_blocking_type = ALLOW =>
             SelectCategories(db, a.advertiser_id) \cap m.request.category_ids # {}
-----------------------------------------------------------------------------
(* Over a database that does not change, the server is the service over the *)
(* contents as they are taken: over the contents themselves, where they     *)
(* conform.                                                                 *)
Promise == INSTANCE AuctionService WITH
  old      <- Taken(old),
  Handlers <- Threads,
  waiting  <- {ParseRequest(body) : body \in inbox},
  handling <- [t \in Threads |-> IF pc[t] = "idle" THEN {} ELSE {request[t]}],
  answers  <- {[request |-> m.request, answer |-> m.answer] : m \in sent}

KeepsPromise == Promise!Service

(* Of two ads of one price the one with the smaller advertiser_id has the   *)
(* smaller ads_id, as in the files of test/create_data.py.                  *)
TiesAgree(d) ==
  \A a, b \in d["adses"] :
    a.price = b.price /\ a.advertiser_id < b.advertiser_id => a.ads_id < b.ads_id

(* Also when setup_db.sh comes later, every step up to its first command is *)
(* one of the service or is not seen.                                       *)
ServesBeforeSetup ==
  [][step' = 0 /\ TiesAgree(old) =>
       [Promise!ServiceNext]_(Promise!servicevars)]_vars
=============================================================================
