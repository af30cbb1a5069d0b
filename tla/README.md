# A TLA+ model of the geniee auction server

The repository holds one ad-auction HTTP endpoint, `/auction`, written three
times (C++, Go, Python) over one MySQL database, with documents that state the
rules of the auction, a script that replaces the database, and a client that
measures the server and checks its answers.  This directory models the three
servers, the process of the C++ one, the database with its script, the rules,
and the client, alone and beside the C++ process.

    tlc -workers 2 -config MCCppQuiet.cfg MCCppAuction.tla
    tlapm CppAuctionProofs.tla

## 1. Inventory

| part | state | operations | interacts with |
|---|---|---|---|
| Database and `test/setup_db.sh` (`sql/schema.sql`) | five tables with primary and foreign keys | drop, create, load table by table; the SELECTs | read by every server; the script may run under a live server |
| Rules (`doc/size-scan.md`, `domain-blocking`, `category-blocking`, `feature-targeting`, `final-auction`) | none | the answer a request deserves | the servers' specification |
| C++ auction (`cpp/src/server/auction.cpp`, `connector/`, `blocking/`, `targeting/`, `server/request_parser.cpp`, `response_sender.cpp`) | per request: the argument, the vectors of rows, the `std::map` of advertisers; shared: the mutex of `MySQLConnector` | `auction_handler`, `auction`, the five `fetch…` functions | libevent calls it on the worker threads; one MySQL connection per query, under the mutex |
| C++ HTTP server (`server/server.cpp`, `main.cpp`, `config/config.cpp`) | a vector of `HttpThread`: event base, evhttp, socket, jthread | construct, `setup_cb`, `run`, destroy | owns the threads; the handlers point at `main`'s connector |
| Go auction (`golang/`) | as C++, and a channel of `N_Thread` slots | `SetupCb`, `AuctionHandler`, `fetchModels`, `fetchModelByID` | net/http goroutines, `sync.Mutex` |
| Python auction (`python/`) | per request, and a `ThreadPoolExecutor` of `n_thread` threads | `process_request`, `auction_handler`, the five `fetch…` functions, with exceptions for errors | socketserver; a MySQL connection per query, no mutex |
| Load client (`test/calculate_performance.py`) | queue of requests, list of answers, `done_threads`, `server_alive` | `send_request` in ten threads, `progress_bar` in another, compare with the expected answers | HTTP |
| Data generator (`test/create_data.py`, `sample_data.py`) | CSV files | random rows | gives the database its usual shape |
| Performance check (`test/check_performance_all.sh`) | server process | set up, start, wait, measure, kill | everything above |
| Load script, expected answers, deployment, vendored headers | none of the program's | — | — |

### What is hard, and what makes each part correct

* **Database.** The script replaces the tables one command at a time while a
  server may read them: a request may see ads without sizes, ads of one
  contents with advertisers of another, or no table at all.
* **C++ auction.** One request is a long sequence of separate queries.  Correct
  means: over a database nobody changes, exactly the documented answer, once,
  and eventually (`KeepsPromise`); over one that changes, an answer whose ad
  really passed every check (`WinnerWasChecked`).  Three things end the process
  and with it every thread's request: a body that is no JSON object, a query of
  a table that the script has not created yet, and a category type that
  `schema.sql` allows and `doc/db.md:54` does not.  There must be no fourth, and
  the `assert` must hold whatever changes between two reads (`EndsForCause`).
  The script may come at any time, and up to its first command the server is
  the documented one (`ServesBeforeSetup`, stated of all three servers).  The
  code departs from the documents in two places, ties on the price and
  advertisers without categories, and in no other, over any contents, also
  between and after the script's loads (`AnsweredFromOneState`, likewise stated
  of all three).  That each query holds the mutex of `MySQLConnector` is read
  from the code (`fetchModels` and `fetchModelByID` lock first, and nothing else
  queries); the model's actions have it by construction.
* **C++ HTTP server.** `run()` returns at once, so `main` returns and destroys
  the objects the workers are using.  What the code then depends on is the
  order of members and of locals, and the join in `~jthread`: `OthersServe`,
  `ConnectorOutlivesHandlers`, `EveryConnectionSettled`.  In between, a client
  that waits is with something that can still answer or reset it
  (`WaitersAreHeld`).
* **Go auction.** A channel of `N_Thread` elements limits the handlers
  (`ThreadsAreCounted`), and every request gets its turn and an answer, whatever
  the database does (`EveryRequestAnswered`): each of the early returns of a
  query must release the mutex.  A `Ping` that fails returns a nil error, so
  zero values are taken for rows; what an answer is then still worth is
  `ServedAsChecked`.  The order of a Go map is random and must not show
  (`KeepsPromise`, `AnsweredFromOneState`).
* **Python auction.** An exception ends a request in the middle and must not
  cost the pool a thread (`EveryRequestSettled`).  Its causes are the request's
  own body, a missing table, the type of an advertiser whose ad fits the zone,
  or an ad that passed the three filters and has no feature: what a filter has
  dropped ends no request (`FailsForCause`).  There is no mutex and no zero
  value, so an ad that is served passed every check, without Go's gap
  (`WinnerWasChecked`).  A feature of 0 is falsy and taken for none; that and the
  advertisers without categories are the only departures of an answer from the
  documents (`AnsweredFromOneState`).
* **Load client.** It retries for ever; its threads share a queue and a list.
  Correct means: through every failure each request is in one place once
  (`RequestsConserved`), a worker that finds the queue empty leaves nothing
  behind although others may still put their requests back (`AllAnswered`),
  and the measurement ends if the server goes on listening
  (`MeasurementEnds`), also when the C++ process ends its elements, loses
  workers, is killed or started again; and the process that is started again is
  as sound as the first (`RestartsKeepServer`).

`PROJECT.json` lists the hazards line by line with the properties that cover
each.

## 2. Modules

    AdDatabase ── AuctionRules ──┬── AuctionService               (abstract)
                                 └── AuctionChecks ──┬── CppAuction ── MCCppAuction
                                                     ├── GoAuction  ── MCGoAuction
                                                     ├── PyAuction  ── MCPyAuction
                                                     └── MCDatabases  (in the three MC modules)
    HttpServer ┐
    LoadClient ┴── Measurement                                    (composition)

    AuctionChecksProofs ──┬── CppAuctionProofs ── CppPromiseProofs
                          ├── GoAuctionProofs  ── GoServedProofs
                          └── PyAuctionProofs
    HttpServerProofs ── MeasurementProofs  (by INSTANCE)

The three servers also INSTANCE `AuctionService`, which they implement;
`Measurement` implements `LoadClient`.

**AdDatabase.**  A database is a function from the tables that exist to sets of
rows.  Nobody but the script writes, so its history is a function of the
script's step: `DBAt(0)` is the contents `old`, then the database is dropped
(step 1), the tables are created (2–6) and loaded from the files `fresh`
(7–11).  `SetupDB` is one command.  `Select…` are the queries.  The contents are
those of `schema.sql` as it types them (`Tabular`, `IsDatabase` with the foreign
keys): `category_blocking_type` is 0 to 255 or NULL.  That it is 0 or 1 is a
promise of `doc/db.md:54` that nothing enforces, and no module assumes it.  The
pairs of contents are the constant `Reloads`, assumed to be such databases
(`ReloadsAreDatabases`).  `advertiser_name`, which nothing tells apart, is left
out; a price is an integer number of ten-thousandths.

**AuctionRules.**  What the documents say, as a definition of the answer and not
of an algorithm: candidates, the nearest candidate of each advertiser, the
dearest of those, the smallest `ads_id` on a tie.

**AuctionService.**  The abstract server over a database nobody changes: `Take`
a request, `Answer` it in one step with the documented answer.  The mapping
(`Promise`) takes what is sent for the answers, and for the service's database
the contents as that server takes them.  `Taken` makes an advertiser without
categories a denying one, since all three servers then skip the category check,
and likewise one of an unknown type, whose ads pass in Go; in Go `Scanned` drops
the advertisers whose type is NULL, which `Scan` cannot read; in Python `Truthy`
drops the features of 0.  What is left of the difference between code and
documents is thereby said in the mapping; where every advertiser has a category
and one of the two types (`Conforms`) `Taken` and `Scanned` change nothing.  What
Go sends to a request that MySQL refused a connection is no answer of the
service, nor is the end of a request by an exception in Python: the service has taken such a request and not
answered it.

**AuctionChecks.**  What the three servers do in the same way: reading a
request from a body, the checks on one row, and the contents as they are taken
(`Taken`).  `TypeOf` is what C++'s `getInt` makes of the column: a NULL is 0, which
is ALLOW.  Also the chain `Read` … `AlsoFeature` that says what it means for an ad
to have passed every check at some moment of a window of the script.

**CppAuction.**  The threads.  Between two queries a thread touches only its
own locals, so one query and the statements up to the next query are one
action; taking the mutex is an action of its own.

| code | model |
|---|---|
| `auction_handler` called by the loop, `parseRequest` | `Dispatch(t)`; the assertion of `HasMember` on a body that is no object (`Malformed`) ends the process: `parse` |
| `std::lock_guard` in `fetchModels`, `fetchModelByID` | `Lock(t)`, released by the query's action |
| `fetchAdses` | `FetchAdses` |
| the loop over sizes, over domains | `FetchAdSize`, `FetchAdvertiser` |
| the loop over categories (two queries per row) | `FetchAdvertiserAgain`, `FetchCategoryBlocking`; `std::terminate` in `categoryBlocking` ends the process: `type` |
| the loop over the map of advertisers, with the targeting | `FetchAdsFeature`, `EndOfAdvertiser`; the `assert` ends the process: `assert` |
| sort, answer, return | `Reply` |
| `sql::SQLException`, which nothing catches | `QueryThrows` ends the process: `query` |

The vectors hold rows in the order of `ads_id` (the query's `ORDER BY`, kept by
every loop) and the `std::map` is ordered by `advertiser_id`.  Both orders are
functions of the rows, so a vector is the set `todo`/`kept` of its rows and its
next element is `Least`.  `ended` says what has ended the process, if anything;
the Makefile does not define `NDEBUG`, so the assertions are in the program.
`since` and `sent` are history variables.

**GoAuction.**  The same flow with Go's differences.  net/http starts a goroutine
per request, so a goroutine is named by its body.  `Acquire` and `Release` are
the two statements of the closure in `SetupCb`; `Lock` and the query's action
are `mut.Lock()` and the deferred unlock.  A result is a set of at most one
value, empty for an error; when `Ping` fails (`PingFails`: MySQL refuses, the
constant `Outages`, or the script has just dropped the database) the result is
the zero value.  A body that cannot be decoded is one without members
(`parseRequest` ignores the error), and a row whose type is NULL cannot be
scanned (`Readable`), which is an error of the query.  No error ends the process.  The last loop takes the
advertisers of the map in any order, and the final sort breaks ties by `ads_id`.

**PyAuction.**  The flow of the other two as tasks of a pool: `Start` takes one of
the `idle` threads, `Reply` and `Fail` give it back (`Settle`).  There is no
mutex, so a query is one action and queries of different tasks interleave
freely.  `Refuse` is a body on which `json.loads`, or the first `in`, raises.
`Raises` is where an exception leaves a later statement: the table does not
exist, `CategoryBlockingType(…)` is given a NULL or another number
(`TypeRaises`), or `data, = …` finds no feature; nothing catches it, socketserver closes
the connection and the thread goes on.  The sort is by `(price, -ads_id)`; the
`dict` of advertisers keeps the order of insertion, which is the order of each
advertiser's first row.

**HttpServer.**  `main` statement by statement, with the index `at` of the
element of `threads` that a loop or a destructor is at, and what each element
still owns (`live`).  Destructors run in C++'s order: the body of
`~HttpThread`, then `http`, `ev_base`, `worker`; then the next element; then
the connector.  A worker that uses what has been freed is undefined behaviour:
it is lost in a wait that nothing ends, or its loop returns, or the process
aborts (`Undefined`).  The socket's descriptor is closed twice, by `close(sock)`
and by `evhttp_free`; in between its number may be given to a worker
(`ReuseNumber`), whose connection the second close then cuts.  libevent and the
kernel are modelled from how the code uses them and from libevent's headers.

**LoadClient.**  A worker of `send_request` is at `get`, `post`, `mark` (the
request is back in the queue, `server_alive` is not yet cleared) or `record`.
The server is an environment: `Respond` or `Raise` ends a post.  `queue.Queue`
and `list.append` are atomic, and the timeout of `get` may come whenever the
queue is empty.

**Measurement.**  `LoadClient` with `HttpServer` (INSTANCE, one connection per
worker) in the place of the environment: a post connects, is answered, is reset,
or is refused while no socket listens.  `Kill` and `Start` are the script's
`kill` and `make inner-run`, at any moment and any number of times.

`MCDatabases` builds small databases for the three servers; `HttpServer` and
`Measurement` are checked directly.

## 3. Runs

| run | what it asks | size |
|---|---|---|
| `cpp_quiet` | Does the server implement `AuctionService` over databases of the generator's shape? Two threads, two requests, 144 databases. Safety and liveness. | 156,060 states |
| `cpp_reload` | What holds, and what ends the process, while `setup_db.sh` replaces the database under two threads with two requests and a body that is none; and what exactly is answered while it stands still? Two pairs of contents. | 1,516,241 states |
| `http_server` | What do the destructors at the end of `main` leave of the server? Three threads (`config::n_thread`), two connections. | 7,762 states |
| `go_quiet` | Does the Go server implement `AuctionService`, over databases with `ads_id` in any order? Three requests, two places. | 28,956 states |
| `go_reload` | What holds while the database is replaced and MySQL refuses connections at any time? Two requests, one place. | 1,018,875 states |
| `py_server` | What does the Python server keep, and what ends a request, before and while the database is replaced? Two requests and a body that is none, one thread, seven pairs of contents. Safety and liveness. | 470,108 states |
| `measurement` | Does the client keep its requests, and end, against the C++ process that tears elements down, is killed and started? Two workers, three requests, two elements. Safety and liveness. | 920,624 states |
| `cpp_tie` | Is a tie on the price won by the smallest `ads_id`? No. | violation |
| `cpp_allow` | Is an allowing advertiser without categories undeliverable? No. | violation |
| `http_waits` | Does `run()` wait for requests? No. | violation |
| `go_outage` | Is an ad served only if its size and domain were read, when MySQL refuses connections? No. | violation |
| `py_zero` | Is an ad with the feature 0 targeted like the others, or does at least an ad without a feature end no request? Neither. | violation |

All configurations allow deadlock: the requests are a finite set, and the
process may end.

**Bounds.**  *Threads:* two for the auction, because a thread interacts with the
others only through the mutex and through the process's death, both pairwise;
three for the process, its real value, so that there is an element before, at
and after `main`'s.  In `go_quiet` three requests for two
places make one wait; `go_reload` has one place, because what two handlers see
of the database depends only on the script, and their meeting at the mutex is in
`go_quiet`; the second request starts where the first has left the script.
In `py_server` tasks share nothing but the pool, so one thread suffices for what
they read, and makes the loss of a thread felt by the next request; tasks do not
interleave in that run, and that they do not disturb each other is shown by the
proofs, for any `n_thread`.
`measurement` has two workers, so that one can time out while another puts its
request back, three requests, so that the queue is refilled while both are
busy, and two elements, so that one outlives the other.  Its statuses are the
two that the servers send.
*Requests:* one with every member and one that leaves
members at their defaults (`zone_feature` 0, nothing blocked); in `cpp_reload` and
`py_server` also one that cannot be parsed, at any moment.  *Databases:* two
advertisers, two or three ads.  Two ads of one advertiser are needed for the
targeting, two advertisers for the final auction; features lie on both sides
of the request's at equal distances, prices tie, categories meet and miss the
request's, sizes fit and do not.  *Reloads:* between the two contents every
column changes that a check reads, so that mixing them gives another answer.
Of the four contents (`OldDB`, `FreshDB`, `NearDB`, `NullDB`) one has two ads of one
advertiser equally near to the request's feature, that advertiser has no
category, one has a type that is 2, and one a type that is NULL with equal
prices whose `ads_id` does not grow with `advertiser_id`; exact
answers are asked before, between and after the script's loads.
`cpp_quiet` uses databases like those of `test/create_data.py`: every advertiser
has a category, every ad a feature, and `ads_id` grows with `advertiser_id`.
`cpp_tie` and `cpp_allow` are exactly what happens without these regularities,
which the schema does not ask for; `cpp_reload` and `go_reload` start from
databases with and without them.  So does `py_server`, with seven pairs: it has databases with
features around 0 and with features moved away from it, one whose nearest
feature is equally far on both sides, and two with ads that have no feature,
where one such ad passes the filters and another does not.

**Fairness.**  `WF_vars(Thread(t))` in `CppAuction` and `WF_vars(WorkerStep(i))`,
`WF_vars(MainStep)` in `HttpServer`: an operating-system thread that can run
does run.  The mutex needs more care: `std::mutex` is not fair, and weak
fairness of `Lock` alone would not exclude that the others pass for ever.
Here it suffices because each request is a finite number of queries and the
requests are finite in number, so the others eventually stop asking.
Nothing ends the process in `cpp_quiet`, whose bodies are objects, whose tables
exist and whose types are 0 and 1.  In `GoAuction` the channel has its own `WF_vars(Acquire(g))`: Go serves
the senders that wait for a full channel in their order, and there too the
requests are finite.  In `PyAuction` weak fairness of a task is enough: the
executor's queue is served in order, and each task gives its thread back.  In
`Measurement` the threads of the client and of the process are weakly fair, and
`Kill` and `Start` are not: `MeasurementEnds` asks instead that from some time
on a socket of the server listens.  No fairness is assumed of the script, and
none of clients elsewhere.

## 4. Proofs

All proofs are for any number of threads, any requests and any contents that
`schema.sql` allows, NULL and unknown types included, with one difference: the
distance of two features is a mathematical integer.  In C++ it is an
`int`, in which the subtraction stays exact for the values that
`doc/request.md:23` and `doc/db.md:58` promise (±100000).

**What is shared.**  `AuctionChecksProofs` has the types of rows and queries, and
two facts about the script: the history `DBAt` is rigid, and since the script
only moves forward a row that passed a check in the window `since..v` passed it
in every longer window (`Persists`, `AlsoFeatureIsRigid`).  It also has the
lemmas about the rules that the servers' exact answers rest on: over any contents
the loops keep the candidates that the documents ask for in the contents as they
are taken (`LoopsKeepCandidates`), an advertiser's representative is the ad of
its nearest feature, and there is one of them (`RepresentativesAreWanted`,
`NearestIsRepresentative`, `RepresentativeIsOne`).  They hold of the contents at
every step of the script at which no table is missing (`WholeIsTabular`), foreign
keys or not.  `Taken` gives contents of the same types and keys
(`TakenIsTabular`) with the same ads, sizes and features (`TakenColumns`), and the
same contents where they conform (`TakenAsTheyAre`).

It assumes `ReloadsAreDatabases`: the contents before and after the script are
those of `schema.sql`.  TLC evaluates this assumption, and those named below, in
the runs.

**CppAuctionProofs** assumes also `NoAuctionIdIsId` and `BodiesParse`.

* `TypeCorrect` — `Spec => []TypeOK`.
* `WinnersAreChecked` — `Spec => []WinnerWasChecked`.  The property speaks only
  of answers already sent, so it is not inductive.  The invariant `Checked`
  (theorem `RowsAreChecked`) adds, for each thread, what its locals mean at its
  statement (`Stage`): in the size loop each row of `todo` was read from
  `adses`, each row of `kept` also fits the zone; in the domain loop the rows
  have passed the size check, and so on to `targetted`, whose rows have passed
  all of them.  Each loop's part has a window `since..step`.

**CppPromiseProofs**, with the same assumptions.

* `ProcessLives` — `Spec => []EndsForCause`, for any bodies, malformed ones
  included, and also while the script runs.  The `assert` holds because every
  feature in `ads_features` is that of an ad of the advertiser at hand
  (`FeaturesOfAdvertiser`), whichever contents it was read from, and the nearest
  of a non-empty set of features exists.  The latter needs that a set of natural
  numbers has a least one (`LeastNatural`), which follows from the library's
  `NatLessThanWellFounded` and `WFMin`, without an induction of its own.  That
  an unknown type was read for an ad past size and domain is the stage of its
  thread in `Checked`; that no query throws before the script: the five tables
  are there.
* `StepsKeepPromise` — `Spec => Promise!ServiceInit /\
  [][Promise!ServiceNext]_(Promise!servicevars)`, the safety part of the
  refinement `KeepsPromise`.  The invariant `AllExact` says what the locals of a
  thread *are* at its statement, not only what they passed: in the size loop
  `kept` is the fitting ads less those still in `todo`, and so on through the
  unblocked and the wanted ads; in the last loop `targetted` is the
  representatives of the advertisers whose turn is over.  From it a reply sends
  the documented answer, and every other statement is not seen.  The theorem
  assumes `Reloading = FALSE`, that no two bodies parse to one request
  (`OneBodyEach`: the service has a set of requests), and of the contents
  `Conforms`, so that the service's contents are those of the database and not
  those it takes them for (`cpp_allow` shows the difference), and `TiesAgree` (of
  two ads of one price the smaller `advertiser_id` has the smaller `ads_id`),
  without which `cpp_tie` is a counterexample.  The databases of `cpp_quiet`
  satisfy all of it.
* `ServesUntilSetup` — `Spec => ServesBeforeSetup`, from the same invariant, which
  holds until the script's first command.  Here the script may come, and
  `TiesAgree` is part of the property: only `OneBodyEach` is assumed.
* `AnswersFromOneState` — `Spec => []AnsweredFromOneState`, with neither
  `OneBodyEach` nor a condition on the contents: what a request gets is the
  dearest of its representatives in the contents as they are taken, and of
  several that of the smallest `advertiser_id`.  It is asked of every request
  during which no command of the script completed and no table is missing, so
  `AllExact` is about a thread whose `since` is the script's step, over the
  contents of that step; when the script goes on, it asks nothing more of the
  threads that are in a request.  When the last loop has ended `targetted` is all
  the representatives, no two of which have one `advertiser_id`, and of them the
  sort puts that one in front (`FrontIsDearest`).

**HttpServerProofs** assumes only `NPositive`.

* `TeardownIsOrdered` — the inductive invariant: `main`'s statement and index
  say what each element owns and which workers have ended.
* `TypeCorrect`, `LaterElementsAreWhole` (`OthersServe`),
  `HandlersHaveConnector` (`ConnectorOutlivesHandlers`) — from it.
* `WaitersAlwaysHeld` — `Spec => []WaitersAreHeld`.  With the order of teardown
  it is inductive: each destructor and each loss of a worker settles the
  connections whose holder it takes away.

**GoAuctionProofs** uses `ThreadsPositive`.

* `PlacesAreCounted` — `Spec => []ThreadsAreCounted`, for any set of requests,
  infinite ones included: the invariant `Counted` adds that the goroutines
  inside are finitely many, and the steps count with `FS_AddElement` and
  `FS_RemoveElement`.

**GoServedProofs** uses `ThreadsPositive` and `OutagesIsBoolean`.

* `TypeCorrect` — `Spec => []TypeOK`; the zero values of a refused connection
  are typed too.
* `AnswersFromOneState` — `Spec => []AnsweredFromOneState`, as for C++ over the
  contents as they are scanned and taken, for the goroutines that no connection
  was refused.  The order in which the map gives its advertisers does not
  matter: `targetted` is in the end all the representatives, and the sort's last
  criterion is `ads_id`, which tells them apart.
* `ServedIsChecked` — `Spec => []ServedAsChecked`, along the stages of the C++
  proof, for the goroutines that no connection was refused (`refused` only
  grows, so such a goroutine's reads so far were of the real database).
* `StepsKeepPromise`, `ServesUntilSetup` — as for C++.  `TiesAgree` is not needed,
  because `sort.Slice` compares `ads_id` itself; the invariant lets the
  advertisers of the map come in any order.  MySQL may refuse connections: the
  invariant speaks of the goroutines that were refused none, and the mapping
  counts only their answers, so a refusal never shows in another request.
  `ServesUntilSetup` assumes `OneBodyEach` only and holds over any contents;
  `StepsKeepPromise` assumes also `Reloading = FALSE` and, as for C++,
  `Conforms`, which `go_quiet` satisfies.

**PyAuctionProofs** uses `ThreadsPositive`.

* `TypeCorrect` — `Spec => []TypeOK`, which needs `Counted`.
* `NoThreadIsLost` — `Spec => []Counted`: idle threads and running tasks are
  `n_thread` together, also after exceptions.
* `WinnersAreChecked` — `Spec => []WinnerWasChecked`, along the same stages; a
  query that does not raise has read a table that exists, so there is no gap.
* `AnswersFromOneState` — `Spec => []AnsweredFromOneState`, under `BodiesParse`.
  It holds for any contents and any number of tasks at a time: what is
  documented is asked of the contents as they are taken, `Truthy` and `Taken`, for
  answers given while the contents stood still; the invariant is that of the
  other servers.
* `ServesUntilSetup` — `Spec => ServesBeforeSetup`, under `OneBodyEach` and for any
  contents, from the same invariant: every step before the script is one of the service or is not
  seen, an exception included.
* `FailuresAreBlamed` — `Spec => []FailsForCause`, for any contents, NULL types
  included, and at any moment of the script.  The invariant `Blamed` adds that
  each loop asks only for ads that passed the checks before it, so a query that
  raises over tables that are all there does so for such an ad.

**MeasurementProofs** assumes `WorkersFinite`, `RequestsCounted` and
`ThreadsPositive`; nothing is assumed of `Statuses`.

* `RequestsAreConserved`, `FinishedMeansAnswered`, `ClientTyped` — from
  `ClientInvariant`, whose `ClientInv` adds that a worker holds a request
  exactly while it posts it or has its answer, that `done_threads` counts the
  ended workers, and that if all have ended the queue is empty: the last to end
  found it so, and nobody was left to put a request back.
* `MeasurementIsClient` — `Spec => Client`: each step of `Measurement` is a step
  of `LoadClient` or leaves the client alone; so `MeasurementIsComplete`,
  whatever the process does and however often it is killed.
* `RestartsAreSafe` — `Spec => []RestartsKeepServer`.  The lemmas of
  `HttpServerProofs` are used through INSTANCE, with the client's workers as the
  connections: the steps of the process keep the order of teardown and the
  holding of waiters by those lemmas, and what is left are the client's own
  steps, `Kill` and `Start`, in which connections of the old process are still
  there when the new one begins.

**Only model-checked.**  `EveryRequestAnswered`, `EveryConnectionSettled`,
`EveryRequestSettled` and `MeasurementEnds` are liveness under fairness, which
the prover does not reach; so is the last conjunct of `KeepsPromise`, that a
request taken is answered, whose other conjuncts are the two theorems
`StepsKeepPromise`.

## 5. What the violations show

* `cpp_tie` — `doc/final-auction.md:4` gives a tie to the smallest `ads_id`.  The
  code sorts, stably, a vector in the order of `advertiser_id`
  (`auction.cpp:106`), so the smallest advertiser wins.  `AnsweredFromOneState` is
  the rule that the code follows instead.
* `cpp_allow` — by `doc/category-blocking.md:7-8` an allowing advertiser with no
  category in common is not deliverable; the code keeps the ads of an
  advertiser with no category at all (`auction.cpp:74`).  The Go and Python servers
  do the same (`auction.go:66`, `auction.py:63`), which is why all three implement
  the service over contents as they are taken; that nothing but this and the ties
  differs is `AnsweredFromOneState`.
* `http_waits` — `server.cpp:86` says `run()` waits for requests.  It returns,
  and the first element is destroyed while its worker dispatches.  That the
  server still serves, with one thread less, is what `OthersServe` says: the
  join of the first worker holds `main` up, for as long as that worker is lost.

* `go_outage` — `mysql_connector.go:17,48` say that no connection is an error;
  lines 34 and 65 return nil.  An ad is served whose advertiser's domain the
  request blocks, because the zero advertiser has an empty domain.
  `ServedAsChecked` shows what remains: a request that MySQL refused nothing
  gets an ad that passed every check — with one gap, which the property states:
  a category table that does not exist yet is an error, and the loop then keeps
  the ad.
* `py_zero` — `fetch_model_from_db.py:93` says that the feature is returned if it
  exists and None if not.  Neither half holds, and `FeatureOrNone` is violated by a
  state that shows both.  Line 97 tests the feature's truth, so a feature of 0 is
  dropped, and an ad of the same advertiser that is further away is served, or
  none (`ZeroIsAFeature`); `create_data.py:97` draws features around 0.  Line 96
  unpacks the result of `fetchone`, which raises where there is no row, and the
  request ends without an answer (`MissingIsNone`).  `AnsweredFromOneState` and
  `FailsForCause` say that the zeros are all that goes wrong with answers, and
  under which conditions a missing feature ends a request.

## 6. Not modelled

* Members of a wrong type in a body that is an object: in C++ and Go they keep
  their default, the same as a missing member (in an array C++ leaves out the
  elements of a wrong type); Python uses them as they are.  Bodies that are no
  object are modelled: they abort the C++ process, have no members in Go, and
  raise in Python, except an array or a string that contains no member's name,
  which Python reads as a body without members.
* `evbuffer_new` failing.
* The width of integers: features and sizes are mathematical integers, as
  above for the distance of two features.
* Failures of the database other than a missing table: a lost connection ends
  the C++ process in the same way as `QueryThrows`.
* The listening sockets' backlog of 1000, and the interleavings inside libevent:
  `evhttp_free` against a worker inside the loop is one step against another,
  with undefined behaviour when a request is in progress.
* Panics in Go: they stand for wrong types that no call of the program has.
  net/http's own connection handling.
* Floating point: a price is compared as the integer it stands for.
* The client's preparation and evaluation (random requests, comparison with the
  expected answers, dashboard), which run before and after in one thread, and
  the waiting times of its loops.  A status other than 200 or 204 never comes
  from these servers: that branch of `Record` is covered by the proofs only.
* That the progress bar's message is right: between the two statements of the
  exception handler another worker may set `server_alive` back, so the bar may
  report a server that is up.  Nothing in the repository claims otherwise, and
  the flag only lengthens the bar's sleep.
* The performance script's fixed waits and its loop over data sizes, and
  Python's `ProcessHTTPServer`, which nothing uses.
* The data generator's random choices: only the shape of its tables is used.
* The k6 script, data files and deployment files: no state of the program.
* The vendored headers of libevent and MySQL Connector/C++, 43 files and the
  greater part of the repository's C and C++ lines: they declare interfaces and
  hold no behaviour of this program.  What the program relies on in them is
  modelled as external definitions, from how the code calls it.

## 7. Plan

1. *Done:* the three servers over one database, the C++ process, the client and
   its composition with that process; the proofs of every safety invariant that
   the runs check; that the three servers take only steps of `AuctionService`
   until the database changes, with the script and the refused connections in
   the theorem; what exactly they answer while it stands still over any
   contents, which says precisely what the findings about ties, categories and
   zeros cost; what ends the C++ process and what ends a request in Python; and
   that the C++ process is as sound after a restart as before.
2. *Left for the proofs:* action properties of a request's progress, from which
   the liveness properties would follow; those themselves need another prover.
   Left for the runs: the client against the Go and Python servers.
