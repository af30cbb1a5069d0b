------------------------------- MODULE GoAuction -------------------------------
(***************************************************************************)
(* The Go auction server: golang/server/auction.go and server.go, and      *)
(* golang/connector, over a database that test/setup_db.sh may replace at  *)
(* the same time and that may refuse a connection.                         *)
(*                                                                         *)
(* net/http runs each request in a goroutine of its own, named here by the *)
(* request's body.  The closure of SetupCb lets N_Thread of them at a time *)
(* into AuctionHandler, with a channel.  As in CppAuction, one action is a *)
(* query, under the mutex of MySQLConnector, with the statements up to the *)
(* next one, and slices are sets of rows: the loops keep the order of      *)
(* ads_id.  A map of Go has no order: the loop over advertisers takes them *)
(* in any.                                                                 *)
(***************************************************************************)
EXTENDS AuctionChecks

CONSTANTS
  Bodies,    \* the bodies that the clients send, one goroutine each; one
             \* that cannot be decoded is one without members
  N_Thread,  \* config.N_Thread
  Outages,   \* whether MySQL may refuse a connection
  NoDomain   \* the empty string, a Go string's zero value

ASSUME BodiesParse == \A body \in Bodies : ParseRequest(body) \in Request
ASSUME ThreadsPositive == N_Thread \in Nat \ {0}
ASSUME OutagesIsBoolean == Outages \in BOOLEAN
ASSUME NoDomainIsDomain == NoDomain \in Domains

VARIABLES
  pc,         \* where each goroutine is
  threads,    \* how many elements the channel holds
  todo,       \* rows the current loop has not finished
  kept,       \* rows it has kept; in the last loop, the advertisers to come
  advertiser, \* the advertiser read in the category loop, if err1 is nil
  features,   \* ads_features
  targetted,  \* ads_targetted
  mut,        \* the goroutines that hold MySQLConnector.mut
  answer,     \* what each goroutine has sent
  since,      \* history: the script's step when the handler was called
  until,      \* history: the script's step when it answered
  refused     \* history: the goroutines that MySQL refused a connection

locals == <<todo, kept, advertiser, features, targetted>>
history == <<since, until, refused>>
vars == <<pc, threads, locals, mut, answer, history, dbvars>>

Outside == {"arrived", "release", "done"}
-----------------------------------------------------------------------------
(* The results of a query are sets of at most one value: none is an error. *)
(* When Ping fails the error is nil and the result is the zero value of its *)
(* type; while the database is dropped, or when MySQL refuses.  A query on  *)
(* a table that does not exist, or that finds nothing, is an error.         *)
ZeroSize == [size_id |-> 0, ads_width |-> 0, ads_height |-> 0]
ZeroAdvertiser ==
  [advertiser_id |-> 0, category_blocking_type |-> ALLOW, domain |-> NoDomain]
ZeroFeature(ads_id) == [ads_id |-> ads_id, feature |-> 0]

PingFails == Outages \/ step = 1

(* A NULL in category_blocking_type cannot be scanned, which is an error.   *)
Readable(rows) == {v \in rows : v.category_blocking_type # NULL}

Found(statement, rows) ==
  IF TableOf[statement] \in DOMAIN db THEN rows ELSE {}

(* slices.Contains over the categories.                                     *)
Blocks(found, categories, rq) ==
  \E v \in found, ids \in categories : categoryBlocking(v, ids, rq.category_ids)

\* Mutant of FeatureTargeting: sub <= best.
LastNearest(ads_features, request_feature) ==
  LET nearest == {f \in ads_features :
                    \A g \in ads_features :
                      Abs(f.feature - request_feature) <= Abs(g.feature - request_feature)}
  IN  {f \in nearest : \A g \in nearest : g.ads_id <= f.ads_id}

(* The first of the nearest.                                                *)
FeatureTargeting(ads_features, request_feature) ==
  Least({f \in ads_features :
           \A g \in ads_features :
             Abs(f.feature - request_feature) <= Abs(g.feature - request_feature)},
        "ads_id")

(* sort.Slice by price, downwards, then by ads_id.                          *)
Winner(rows) == Least({a \in rows : \A b \in rows : b.price <= a.price}, "ads_id")
-----------------------------------------------------------------------------
\* Mutant of Acquire: nothing limits the handlers.
AcquireAlways(g) ==
  /\ pc[g] = "arrived"
  /\ threads' = threads + 1
  /\ pc' = [pc EXCEPT ![g] = "fetchAdses"]
  /\ since' = [since EXCEPT ![g] = step]
  /\ UNCHANGED <<locals, mut, answer, until, refused, dbvars>>

(* threads <- struct{}{}, which blocks while the channel is full.           *)
Acquire(g) ==
  /\ pc[g] = "arrived"
  /\ threads < N_Thread
  /\ threads' = threads + 1
  /\ pc' = [pc EXCEPT ![g] = "fetchAdses"]
  /\ since' = [since EXCEPT ![g] = step]
  /\ UNCHANGED <<locals, mut, answer, until, refused, dbvars>>

(* mut.Lock()                                                               *)
Lock(g) ==
  /\ pc[g] \in Queries
  /\ mut = {}
  /\ mut' = {g}
  /\ UNCHANGED <<pc, threads, locals, answer, history, dbvars>>

\* Mutant of Query: the mutex is unlocked at the end and not by defer.
UnlockAtEnd(g, statement, failed) ==
  /\ pc[g] = statement
  /\ g \in mut
  /\ mut' = IF failed THEN mut ELSE {}
  /\ refused' = IF failed THEN refused \cup {g} ELSE refused
  /\ UNCHANGED <<threads, answer, since, until, dbvars>>

(* The query is done, with defer mut.Unlock(); failed says that Ping was.   *)
Query(g, statement, failed) ==
  /\ pc[g] = statement
  /\ g \in mut
  /\ mut' = {}
  /\ refused' = IF failed THEN refused \cup {g} ELSE refused
  /\ UNCHANGED <<threads, answer, since, until, dbvars>>

(* A loop over rows begins; over nothing it is skipped, and so are the      *)
(* loops after it.  The last loop takes any advertiser of the map.          *)
Begin(g, statement, rows) ==
  IF rows = {} \/ statement # "fetchAdsFeature"
  THEN /\ pc' = [pc EXCEPT ![g] = IF rows = {} THEN "reply" ELSE statement]
       /\ todo' = [todo EXCEPT ![g] = rows]
       /\ kept' = [kept EXCEPT ![g] = {}]
  ELSE \E a \in rows :
         LET adv_adses == {b \in rows : b.advertiser_id = a.advertiser_id}
         IN  /\ pc' = [pc EXCEPT ![g] = statement]
             /\ todo' = [todo EXCEPT ![g] = adv_adses]
             /\ kept' = [kept EXCEPT ![g] = rows]

Visited(g, a, keep, statement, following) ==
  LET rest == todo[g] \ {a}
      rows == IF keep THEN kept[g] \cup {a} ELSE kept[g]
  IN  IF rest # {}
      THEN /\ pc' = [pc EXCEPT ![g] = statement]
           /\ todo' = [todo EXCEPT ![g] = rest]
           /\ kept' = [kept EXCEPT ![g] = rows]
      ELSE Begin(g, following, rows)

FetchAdses(g) ==
  \E failed \in {FALSE, PingFails} :
    /\ Query(g, "fetchAdses", failed)
    /\ Begin(g, "fetchAdSize",
             IF failed THEN {} ELSE Found("fetchAdses", SelectAdses(db)))
    /\ UNCHANGED <<advertiser, features, targetted>>

FetchAdSize(g) ==
  \E failed \in {FALSE, PingFails}, a \in Least(todo[g], "ads_id") :
    LET found == IF failed THEN {ZeroSize}
                 ELSE Found("fetchAdSize", SelectAdSize(db, a.size_id))
    IN  /\ Query(g, "fetchAdSize", failed)
        /\ Visited(g, a, SizeMatches(found, ParseRequest(g)),
                   "fetchAdSize", "fetchAdvertiser")
        /\ UNCHANGED <<advertiser, features, targetted>>

FoundAdvertiser(statement, failed, a) ==
  IF failed THEN {ZeroAdvertiser}
  ELSE Found(statement, Readable(SelectAdvertiser(db, a.advertiser_id)))

FetchAdvertiser(g) ==
  \E failed \in {FALSE, PingFails}, a \in Least(todo[g], "ads_id") :
    /\ Query(g, "fetchAdvertiser", failed)
    /\ Visited(g, a,
               DomainPasses(FoundAdvertiser("fetchAdvertiser", failed, a),
                            ParseRequest(g)),
               "fetchAdvertiser", "fetchAdvertiserAgain")
    /\ UNCHANGED <<advertiser, features, targetted>>

FetchAdvertiserAgain(g) ==
  \E failed \in {FALSE, PingFails}, a \in Least(todo[g], "ads_id") :
    /\ Query(g, "fetchAdvertiserAgain", failed)
    /\ advertiser' = [advertiser EXCEPT ![g] =
                        FoundAdvertiser("fetchAdvertiserAgain", failed, a)]
    /\ pc' = [pc EXCEPT ![g] = "fetchCategoryBlocking"]
    /\ UNCHANGED <<todo, kept, features, targetted>>

\* Mutant of FetchCategoryBlocking: the advertiser is read once, before the
\* loop, and not once per row.
AdvertiserReadOnce(g) ==
  \E failed \in {FALSE, PingFails}, a \in Least(todo[g], "ads_id") :
    LET ids == Found("fetchCategoryBlocking", SelectCategories(db, a.advertiser_id))
        categories == IF failed THEN {{}} ELSE {ids} \ {{}}
    IN  /\ Query(g, "fetchCategoryBlocking", failed)
        /\ Visited(g, a, ~Blocks(advertiser[g], categories, ParseRequest(g)),
                   "fetchCategoryBlocking", "fetchAdsFeature")
        /\ UNCHANGED <<advertiser, features, targetted>>

(* No category is an error, and then the ad stays, but a failed Ping is not: *)
(* then the advertiser has no category.                                     *)
FetchCategoryBlocking(g) ==
  \E failed \in {FALSE, PingFails}, a \in Least(todo[g], "ads_id") :
    LET ids == Found("fetchCategoryBlocking", SelectCategories(db, a.advertiser_id))
        categories == IF failed THEN {{}} ELSE {ids} \ {{}}
    IN  /\ Query(g, "fetchCategoryBlocking", failed)
        /\ Visited(g, a, ~Blocks(advertiser[g], categories, ParseRequest(g)),
                   "fetchAdvertiserAgain", "fetchAdsFeature")
        /\ advertiser' = [advertiser EXCEPT ![g] = {}]
        /\ UNCHANGED <<features, targetted>>

(* The loop over one advertiser's ads is over: the ad of the nearest        *)
(* feature, if there is any, stands for the advertiser.                     *)
EndOfAdvertiser(g, a, ads_features) ==
  LET adv_adses == {b \in kept[g] : b.advertiser_id = a.advertiser_id}
      best == {b \in adv_adses :
                 \E f \in FeatureTargeting(ads_features, ParseRequest(g).zone_feature) :
                   b.ads_id = f.ads_id}
  IN  /\ targetted' = [targetted EXCEPT ![g] = @ \cup best]
      /\ features' = [features EXCEPT ![g] = {}]
      /\ Begin(g, "fetchAdsFeature", kept[g] \ adv_adses)

FetchAdsFeature(g) ==
  \E failed \in {FALSE, PingFails}, a \in Least(todo[g], "ads_id") :
    LET rest == todo[g] \ {a}
        found == IF failed THEN {ZeroFeature(a.ads_id)}
                 ELSE Found("fetchAdsFeature", SelectAdsFeature(db, a.ads_id))
        ads_features == features[g] \cup found
    IN  /\ Query(g, "fetchAdsFeature", failed)
        /\ IF rest # {}
           THEN /\ todo' = [todo EXCEPT ![g] = rest]
                /\ features' = [features EXCEPT ![g] = ads_features]
                /\ UNCHANGED <<pc, kept, targetted>>
           ELSE EndOfAdvertiser(g, a, ads_features)
        /\ UNCHANGED advertiser

(* The sort and the answer: 200 with the winner, or 204.                    *)
Reply(g) ==
  /\ pc[g] = "reply"
  /\ answer' = [answer EXCEPT ![g] = {Bid(a) : a \in Winner(targetted[g])}]
  /\ targetted' = [targetted EXCEPT ![g] = {}]
  /\ until' = [until EXCEPT ![g] = step]
  /\ pc' = [pc EXCEPT ![g] = "release"]
  /\ UNCHANGED <<threads, todo, kept, advertiser, features, mut, since, refused,
                 dbvars>>

\* Mutant of Release: the closure returns with its element in the channel.
ReturnOnly(g) ==
  /\ pc[g] = "release"
  /\ pc' = [pc EXCEPT ![g] = "done"]
  /\ UNCHANGED <<threads, locals, mut, answer, history, dbvars>>

(* <-threads                                                                *)
Release(g) ==
  /\ pc[g] = "release"
  /\ threads' = threads - 1
  /\ pc' = [pc EXCEPT ![g] = "done"]
  /\ UNCHANGED <<locals, mut, answer, history, dbvars>>
-----------------------------------------------------------------------------
Init ==
  /\ DBInit
  /\ pc = [g \in Bodies |-> "arrived"]
  /\ threads = 0
  /\ todo = [g \in Bodies |-> {}]
  /\ kept = [g \in Bodies |-> {}]
  /\ advertiser = [g \in Bodies |-> {}]
  /\ features = [g \in Bodies |-> {}]
  /\ targetted = [g \in Bodies |-> {}]
  /\ mut = {}
  /\ answer = [g \in Bodies |-> {}]
  /\ since = [g \in Bodies |-> 0]
  /\ until = [g \in Bodies |-> 0]
  /\ refused = {}

Handler(g) ==
  \/ Lock(g)
  \/ FetchAdses(g)
  \/ FetchAdSize(g)
  \/ FetchAdvertiser(g)
  \/ FetchAdvertiserAgain(g)
  \/ FetchCategoryBlocking(g)
  \/ FetchAdsFeature(g)
  \/ Reply(g)
  \/ Release(g)

Setup ==
  /\ SetupDB
  /\ UNCHANGED <<pc, threads, locals, mut, answer, history>>

Next == Setup \/ \E g \in Bodies : Acquire(g) \/ Handler(g)

(* Goroutines are scheduled, and a full channel serves its senders in the   *)
(* order in which they came.                                                *)
Spec ==
  /\ Init
  /\ [][Next]_vars
  /\ \A g \in Bodies : WF_vars(Acquire(g)) /\ WF_vars(Handler(g))
-----------------------------------------------------------------------------
(* Every variable has its type.                                             *)
TypeOK ==
  /\ step \in 0..LastStep
  /\ pc \in [Bodies -> Queries \cup Outside \cup {"reply"}]
  /\ threads \in 0..N_Thread
  /\ todo \in [Bodies -> SUBSET Ads]
  /\ kept \in [Bodies -> SUBSET Ads]
  /\ advertiser \in [Bodies -> SUBSET Advertiser]
  /\ features \in [Bodies -> SUBSET AdsFeature]
  /\ targetted \in [Bodies -> SUBSET Ads]
  /\ mut \subseteq Bodies
  /\ answer \in [Bodies -> SUBSET [ads : AdTexts, price : Nat]]
  /\ since \in [Bodies -> 0..LastStep]
  /\ until \in [Bodies -> 0..LastStep]
  /\ refused \subseteq Bodies

(* The channel's count is the number of goroutines between its two          *)
(* statements, so at most N_Thread are in AuctionHandler.                   *)
ThreadsAreCounted ==
  /\ threads = Cardinality({g \in Bodies : pc[g] \notin {"arrived", "done"}})
  /\ threads <= N_Thread

(* Unlike the C++ server's process, a goroutine survives what happens to the *)
(* database: every request is answered, and its slot is free again.         *)
EveryRequestAnswered == \A g \in Bodies : <>(pc[g] = "done")

(* The ad that is served passed every check, each against the database as it *)
(* was at some moment of the request, if MySQL refused no connection.  The  *)
(* category check also passes when one of its two tables does not exist, or *)
(* when the advertiser that it reads again has no type.                     *)
CategoryNotBlocked(a, rq, from, to) ==
  \E v \in from..to, u \in from..to :
    /\ u <= v
    /\ Exists("advertisers", u) /\ Exists("category_blockings", v) =>
         CategoryPasses(Readable(SelectAdvertiser(DBAt(u), a.advertiser_id)),
                        SelectCategories(DBAt(v), a.advertiser_id), rq)
    /\ AlsoDomain(a, rq, from, u)

ServedAsChecked ==
  \A g \in Bodies \ refused : \A bid \in answer[g] :
    \E a \in old["adses"] \cup fresh["adses"] :
      /\ bid = Bid(a)
      /\ \E v \in since[g]..until[g] :
           /\ Exists("ads_features", v)
           /\ SelectAdsFeature(DBAt(v), a.ads_id) # {}
           /\ CategoryNotBlocked(a, ParseRequest(g), since[g], v)

(* golang/connector/mysql_connector.go:17 and :48 say that an error is       *)
(* returned when there is no connection: then an ad is served only if its    *)
(* size and its advertiser's domain were read.                              *)
ServedOnlyIfRead ==
  \A g \in Bodies : \A bid \in answer[g] :
    \E a \in old["adses"] \cup fresh["adses"] :
      bid = Bid(a) /\ AlsoDomain(a, ParseRequest(g), since[g], until[g])
-----------------------------------------------------------------------------
(* The contents without the advertisers that no server in Go can scan.      *)
Scanned(d) == [d EXCEPT !["advertisers"] = Readable(@)]

Served == {g \in Bodies \ refused : pc[g] \in {"release", "done"}}

(* A request during which the database stood still and MySQL refused no     *)
(* connection has the answer of the documents over the contents as they are *)
(* scanned and taken, in whatever order the map gave the advertisers and    *)
(* whatever the goroutines beside it did.                                   *)
AnsweredFromOneState ==
  \A g \in Served :
    since[g] = until[g] /\ Whole(since[g]) =>
      answer[g] = DocumentedAnswer(Taken(Scanned(DBAt(since[g]))), ParseRequest(g))
-----------------------------------------------------------------------------
(* Over a database that does not change, the server is the service over the *)
(* contents as they are scanned and taken: over the contents themselves,    *)
(* where they conform.  What it sends when MySQL has refused it a           *)
(* connection does not count as an answer.                                  *)
Promise == INSTANCE AuctionService WITH
  old      <- Taken(Scanned(old)),
  Handlers <- Bodies,
  waiting  <- {ParseRequest(g) : g \in {h \in Bodies : pc[h] = "arrived"}},
  handling <- [g \in Bodies |-> IF pc[g] = "arrived" \/ g \in Served
                                THEN {} ELSE {ParseRequest(g)}],
  answers  <- {[request |-> ParseRequest(g), answer |-> answer[g]] : g \in Served}

KeepsPromise == Promise!Service

(* Also when setup_db.sh comes later, every step up to its first command is *)
(* one of the service or is not seen, and the connections that MySQL        *)
(* refuses one request do not change what the others get.                   *)
ServesBeforeSetup ==
  [][step' = 0 => [Promise!ServiceNext]_(Promise!servicevars)]_vars
=============================================================================
