# APIGuard: a TLA+ model of the API gateway of the Czech National Corpus

APIGuard is a Go HTTP service which stands in front of the data APIs of the
Word at a Glance application: it authorizes and delays requests, proxies them
to backends, caches the answers, streams the data of many page tiles through
one EventSource connection, and counts requests to raise alarms when a client
is above its limits.  This project models its core in TLA+, checks the models
with TLC on small instances and proves their main properties with TLAPS.

Source lines are those of the repository next to this directory (`src/`);
`PROJECT.json` maps every definition to the lines it stands for.

## 1. Inventory

| Component | State it keeps | Operations | What is hard | What makes it correct |
|---|---|---|---|---|
| Data stream (`wagstream/handler.go`, `apiwriter.go`, `eswriter.go`) | one response channel, one channel per EventSource backend, a WaitGroup, a ticker | `StartStream` and the goroutines it starts: workers, forwarders, ping, closer, the consumer loop | five kinds of goroutines on shared bounded channels; closing under senders; a client that leaves | nobody sends after the close; every part arrives once and in order; the stream ends |
| Grouping of tiles (`wagstream/conf.go`, `dupreq.go`) | groups of requests | `register`, `valIter` | requests in any order, dependencies between tiles | equals its declarative definition; a group is performed through an independent request |
| Stream registry (`wagstream/streams.go`) | map of prepared streams | `Add`, `Get`, `cleanup` | clean-up rebuilds the map beside new additions | a stream just created can be started; streams do not pile up |
| Tile configuration (`wagstream/tileconf/loader.go`) | map of JSON files | watch and reload, `TileConf` | written by watchers while it is read | - |
| Usage alarm (`monitoring/`) | per service and client: circular list of requests, circular lists of measurements; reports; allow lists; a bounded channel; a state file | `Register`, `Run`, `checkServiceUsage`, removal of silent clients, `HandleCleanAction`, `SaveState`, `LoadState` | requests posted late and out of order; goroutines without a lock; kill during the save | no false alarm, no burst missed, saved reports come back, handlers never hang |
| Start and exit (`server/service.go`) | the process, its signals | construction of services, routes, shutdown with a timeout | order of load, registration, listening; work in flight during the exit | what was saved is what the next start works with |
| Response cache (`proxy/cache/**`, `proxy/response.go`, `proxy/cache.go`) | entries in files or Redis, a queue of writes | `Get`, `Set`, `Flush`, through-cache responses | keys and options on both sides; delayed writes; entries written in place | an answer comes from the cache only to a request it was made for |
| CNC and public proxies (`services/cnc`, `proxy/public`, `proxy/basic.go`) | session mapping, header rewriting | `AnyPath`, `Preflight`, login | several sources of identity, cookies rewritten both ways | a backend gets the session the guard authorised; each request is reported once; failures are told |
| Guards (`guard/**`) | rate limiters per IP, IP bans, users by session or token | `EvaluateRequest`, `CalcDelay`, `DetermineTrueUserID`, `RestrictResponseTime` | limiters shared by requests, several sources of identity | no more requests get through than the limits allow |
| Sessions (`session/`) | parsed session cookies | selection of the cookie's form and comparison with the stored hash | - | - |
| treq (`services/backend/treq`) | a shared fallback cookie, incremental answers | `Subsets`, `WithExamples`, re-authentication | concurrent re-login; partial answers written by several goroutines | one login at a time; the fallback cookie is there when it is read; the complete answer is written |
| mquery, kontext, wss, frodo, scollex, kwords, gunstick, hex (`services/backend/**`) | merge buffers | merge of several backend streams | parallel requests and their errors | a merged answer is cached only whole |
| Telemetry (`telemetry/**`, `tstorage/`) | counters of page interactions, model data | feature extraction, storing | numeric | - |
| Reporting (`reporting/`) | a queue to a time-series database | `Write` | drop or block on a full queue | - |
| Configuration (`config/`, `globctx/`, `common/`) | values | load, defaults, validation | - | - |

Interactions: a route handler asks a guard, calls a proxy which asks the cache
and then the backend, and in a deferred call posts the request to the channel
of the usage alarm.  `StartStream` calls the very same route handlers through
gin's engine with its own writers instead of a connection, so every handler is
also a producer of a stream.  `server/service.go` builds all of them, loads the
alarm's state before the services register and saves it when a signal comes.
treq's `WithExamples` calls mquery's route in the same process, again through
the engine.

The hazards of the code are listed, each at its line, in `PROJECT.json`
("hazards"); the ones without a property say why none is claimed.

## 2. Modules

| Module | Models | Correspondence |
|---|---|---|
| `TileRequests` | `request`, `groupingKey`, `groupedRequests.register`, the registering loop of `StartStream`, `valIter` | pure operators; a URL is reduced to the kind of service behind it |
| `SelectedItems` | nothing of the code: `SelectSeq` with the test given as a set | what the properties about sequences are stated and proved with; `MCStreamRegistry` checks it against `SelectSeq` |
| `TileGroups` | the groups of the stream being read | the declarative definition the loop is compared with |
| `StreamRegistry` | `CreateStream`, `streams.go`, the lookup in `StartStream`, the ticker of `NewActions` | extends `TileGroups`: what was created is what is grouped when it is read |
| `MCStreamRegistry` | lists of up to `MaxRequests` requests | |
| `StreamContract` | nothing of the code: what a stream promises | parts produced, ended, delivered; close only when nothing is outstanding |
| `WagStream` | `StartStream` with the API and EventSource writers | one action per channel operation, WaitGroup operation and goroutine step |
| `MCWagStream` | concrete lists of requests | groups, kinds and channel size of `WagStream` are computed from the list by `TileRequests`, as the code does |
| `AlarmTicker` | `monitoring/` and the life of the process in `server/service.go` | one action per goroutine step; time in seconds |
| `MCAlarmTicker` | limits small enough to be exceeded | |
| `ResponseCache` | `proxy/cache/**`, `proxy/cache.go`, `proxy/reread.go`, the cache's use in `proxy/response.go` and by the handlers | one action per call on the store, per step of a file's writing and per operation of the Redis writer |
| `MCResponseCache` | choices of requests and configurations | |
| `Guards` | `guard/**`, `session/`, `guard/user.go` | `EvaluateRequest` and `DetermineTrueUserID` of each guard as operators from a request, the fallback cookie, the living sessions and the limiter to the set of what may be answered |
| `Services` | `srvfactory`, `services/backend/*/factory.go` | a record per service: guards it may have, its handlers, whether it counts |
| `BackendCalls` | `proxy/basic.go`, the calls in `services/cnc/common.go` | the set of outcomes of each kind of call, with its status and error |
| `Gateway` | the handlers of `services/cnc`, mquery, kontext, wss and `proxy/public` | composes the three above; one action per step between which other handlers may come |
| `MCGateway` | thirteen configurations of the eight services, seven requests | |
| `Treq` | `services/backend/treq` | `Guards` and `BackendCalls` with the shared cookie, the login and the goroutines of an answer |
| `MCTreq` | four configurations, four requests | |
| `SelectedItemsProofs` | lemmas about sequences | |
| `StreamRegistryProofs`, `WagStreamProofs`, `WagStreamRefines`, `AlarmTickerProofs`, `ResponseCacheProofs`, `GatewayProofs`, `TreqProofs` | theorems | |

### Tile requests

A request has a tile, a query index and optionally another tile, and a query of
it, whose data it reads.  `register` puts requests with the same key (the tile
whose data are read, and the request's own query index) together, an independent
one at the head.  The request performed and the label of the answer are the
head's.  The reference of `TileGroups` is made from the documentation of the
fields instead: a request is in the group of the data it addresses, by
`otherTileQueryIdx` too (`AddressedKey`).

### Registry of streams

A stream has an age, counted to `MaxAge + 1`, and is never the same id twice.
`cleanup` is two steps, the copy and the assignment, and whatever is added in
between goes to the map which is thrown away; `raced` remembers these streams.
Reading one leaves it where it is.

### Data stream

`WagStream` keeps for each group the place of its worker and of its forwarder,
the chunk in the forwarder's hand, the writer's channel, how many parts the
backend produced and how many were written to the response.  The response
channel is a bounded sequence; a send on a full channel is not enabled, a send
on the closed one is a panic, which nobody recovers and which ends the process
(`crashed`).  A nil dereference in a worker after a failed `http.NewRequest`
has the same end.  The consumer is the `select` loop: it writes an event, fails
to write it, finds the channel closed and drained, or sees the context done;
the last only when gin's `ContextWithFallback` is on, a constant here, since
`ctx.Done()` never delivers without it.  The ticker ticks as often as it likes
while it is not stopped, and a write to a client which has gone may succeed a
few times but not forever.  A route handler of a group in `NoFlush` may return
without `Flush` at any time: by an error, a recovered panic or because nobody
wrote the call.  A chunk is its number within its
group's answer; texts, headers and encodings are left out.

### Usage alarm

`AlarmTicker` has one service and any number of clients ("user@IP" keys).
A handler posts its request in a deferred call: `Created` is the time the
request came, the post happens at any later time.  `Run` receives it, appends
it to the client's circular list and checks the limits one by one in any order;
the model separates these steps because removal goroutines and the clean action
work on the same maps and slices without a lock.  A removal goroutine takes the
time and the clients when it gets to run (`CleanerBegins`), which may be long
after `Run` started it, and there may be as many as `Cleaners` has.  A data race is an
interleaving of those steps; torn reads of a map, which Go's runtime answers by
ending the process, are covered by `Killed`.  The weighted average of
`relativeExceeding` is kept in integers: the weight `1/(1 + 9d^2/iv)` scaled by
1000 and both divisions moved to the other side of the comparison; `Total` adds
the items of a list one after another, as `ForEach` does.
The file is as it was (`os.Create` failed), absent, empty (after `os.Create`), partial (gob has written the
type description only), or complete; a partial one makes the next start fail,
after which the operator removes it.

### Response cache

A request has a kind (which handler it is for), a method, a resource (service,
path and query), a session, a body and whether it says `no-cache`.  An answer
is the request it was made for.  A key is the service's key and the text which
is hashed: the texts of the resource, the cookies and the body one after another
without separators, so that different requests may have one text; that the hash
itself has no collisions is assumed.  In the instance the page with the query
`sid=1` and the page for the session `sid=1` are such a pair.  The options are
those of the code: the handlers read with cookies and Cache-Control, the
`ThroughCacheResponse` writes with none, and only the merging handlers write
with what they read with.  A body is consumed when a key is made of it, unless
it is a `ReReader`, which the requests for parts may leave in its middle.

A file exists from its opening, decodes only once it is whole, and is touched,
deleted and overwritten by handlers which do not know of each other; deleting
an open file leaves its writer writing to nowhere.  gob writes the type
description, equal in all the files, and the value by one write each; reading a
file is one step.  Redis is written by one goroutine from a bounded queue.
`Killed` ends the process between any two steps and keeps the store.  The two
parts of mquery's and kontext's two-step actions are requests of their own.

### Guards and gateway

A cookie is a session, a value without one (`Blank`) or not there (`None`).
A guard's answer is a set because the database may fail; the session of a
request is looked for once by `EvaluateRequest` and again by
`DetermineTrueUserID`, and sessions expire in between.  A simple session which
is empty or `Short`, of less than twelve characters, panics in `SrchSelector`;
gin recovers and the deferred functions run.  The bucket of an address is `Fresh` until a guard meets it.  No guard
delays anybody and no storage bans an address, as in the code.

`Gateway` has one service at a time under one of the configurations.  A handler
goes from `evaluate` through `identify` to its calls, `log` and `done`; every
early return leads to `log` or, before anything was deferred, to `done`.
What a backend is given (`sent`) is the session in `X-Api-Key`, the one in its
cookie, which with `X-Api-Key` is forwarded unmapped, and the two users in the
headers.  A status once written stays; the status 0 of a cached answer is written as 200.
`budget` and `charged` are history: what the limiter may still let through and
whom the alarm was told of.  The order of checks within a handler is that of
the code; what the handlers compute from URLs and JSON is a choice among the
outcomes which have different consequences.

### Treq

The singleflight group is the set of handlers which are logging in: one calls
the portal, those which come meanwhile wait and share its result.  The portal
gives the sessions of `Issued` one after another, each different from what
clients have; a token it refuses may come with a cookie all the same, which then
is a session of nobody.  The goroutines of the parts are started one by one with
`wg.Add(1)`, their deferred `wg.Done()` is the last thing they do (`Returned`),
and `Flush` waits for the counter alone.  `snap[p]` is the answer a goroutine has
serialized under the lock and is going to write without it, `out` the set of the
events written, each with the parts it holds; a goroutine whose call failed
writes an error text to the same writer instead.  Two unlocked writes to a
connection may spoil each other, which the model has as a lost event; in the
streaming mode a write is a channel send and is not lost.  `http.Error` also
sets headers in a map the goroutines share: two of them there at once, or one
beside the first write to a connection, is a fatal error of the Go runtime, after
which the process starts anew without cookie and requests (`Races`, `Restart`).

## 3. Runs

| Run | Checks | Instance and why it is enough | Result |
|---|---|---|---|
| `streams` | `GroupsMatchReference`, `IndependentFirst`, `FreshStreamIsFound`, `StreamsAreForgotten` | a stream of any list of up to 3 requests over 2 tiles, or of 2 over 2 queries (every order of independent and dependent ones in one and two groups, with an `otherTileQueryIdx` that agrees with the query and one that does not), beside another stream; streams age to 2 against a limit of 1, a cleanup may come every second and be overtaken | pass |
| `stream_safety` | `TypeOK`, `StreamInv`, `SendersDone`, `NothingLost`, `ImplementsContract` | one plain and one EventSource backend, writer's channel of 1, 4 chunks against a channel of 4 places, so that all channels fill; ticks at any time; a leaving client, malformed requests, unflushed writers | pass |
| `stream_finishes` | `StreamFinishes` | an empty tile, a shared EventSource backend, 2 chunks through a channel of 1 | pass |
| `stream_ping_race` | `ProcessSurvives` | one backend, ticks at any time | violated: the ping goroutine sends on the closed channel |
| `stream_no_flush` | `StreamFinishes` | one backend whose handler may return without `Flush`, a client which may stay, a fair ticker | violated: the client gets pings and never the end |
| `alarm` | `TypeOK`, `NoFalseAlarm`, `BurstReported`, `ReportsSurviveRestart`, `HandlersUnblock` | one client, allow-listed when the database answers, 2 handlers (so that requests overtake each other), 3 requests over 3 seconds against a limit of 2 per second, lists of 3 requests and of 2 measurements (so that a burst is diluted), a channel of 1 (so that a handler waits), a removal goroutine at a time, 2 starts; longer lists, which wrap, and more goroutines are left to the proofs | pass |
| `cache` | `TypeOK`, `HitAnswersTheRequest`, `RequestsEnd` | a page, the same page with a query that reads like a cookie, merges with and without a session for different bodies, a public request past the cache; 2 handlers, a TTL of 1 s within 2 s, a queue of 1: expiry, refresh, flush and overwriting all meet; all the stores, and a Redis writer which may never run | pass |
| `cache_post_body` | `BodyReachesBackend` | one cacheable POST | violated: the body is consumed by the making of the key |
| `cache_per_session` | `SessionsKeptApart` | a page asked for with and without a session, sessions kept apart | violated: the answer of the session is found by the request without one |
| `gateway` | `TypeOK`, `SessionSentIsAuthorised`, `ChargedOnceToPresented`, `LimiterHolds`, `CachedMergeIsWhole`, `FailureIsTold`, `RequestsEnd` | all the handlers of the eight services in thirteen configurations; two handlers at a time from one address, a burst of 1 so that both can hit the limit, an alarm channel of 1 so that both can wait, merges of up to 2 parts so that one can fail after another was written, two users and a token | pass |
| `treq` | `TypeOK`, `FallbackIsThere`, `FallbackIffRequired`, `NamedUserOwnsSession`, `NoWriteAfterFlush`, `CompleteAnswerWritten`, `CookieNeverOlder`, `RequestsEnd` | two handlers, so that one waits for the other's login; two sessions from the portal, so that the cookie is replaced while it is in use; two parts, so that writes and failures meet; cookies with the same and with different names, `X-Api-Key`, no database | pass |
| `treq_human` | `HumanIsNamed` | the same requests in one configuration with different names of the cookies | violated: the fallback user is named |

Deadlock is checked in `gateway`, `treq` and `streams`.  It is not in the others:
a stream ends, a list of requests is bounded, and time, requests and starts are
bounded counters, so these behaviours may legitimately stop.  Liveness properties say what must not stop.
No run uses symmetry, which liveness does not allow.

What the violations show is written down with the quoted comments under
"findings" in `PROJECT.json`:

1. A tick received just before `ticker.Stop()` is sent on the channel closed
   right after it (`wagstream/handler.go:114-119, 205-209`).
2. `treq`'s early returns do not flush, which keeps the whole stream open
   (`services/backend/treq/subsets.go:77-153`, `wagstream/handler.go:159-164`).
   The client in the run is connected and gets pings forever; in operation the
   server's `WriteTimeout`, 30 seconds by default and not in the model, breaks
   the connection.
3. `MakeCacheablePOSTRequest` makes the key of the body it is going to send:
   on a miss kontext's query goes to the backend empty (`proxy/cache.go:57`,
   `services/cnc/common.go:214-223, 237-251`).
4. `CachingPerSession` is respected by the reading side of the cache only: answers
   are stored without the session and found by requests which have none
   (`services/cnc/common.go:154-164`, `proxy/response.go:231`,
   `services/cnc/conf.go:85`).
5. treq looks for "the actual human user" in the request into which it has put
   the fallback cookie, and names the fallback user
   (`services/backend/treq/handler.go:186-214`, `withexamples.go:234-262`).

Where a property excepts a case, the code does not meet the plain statement
there, and the case is named with the property:

* `GroupsMatchReference`: the groups concerned by a request whose
  `otherTileQueryIdx` differs from its `queryIdx`.  `wagstream/conf.go:47-50` has
  the field "to address a concrete query in the other tile", `groupingKey`
  (`conf.go:85-94`) does not read it, so that the request joins the group of
  another query, or none that has the data.
* `FreshStreamIsFound`: a stream added during a cleanup is lost.
* `HitAnswersTheRequest`: requests which only separators between the hashed texts
  would tell apart (`Ambiguous`, `proxy/cache.go:35-66`), and requests without a
  session, which get answers of any (`SessionsKeptApart`).
* `SessionSentIsAuthorised`: a frontend cookie without a session is mapped over
  a backend one with a session; and with `X-Api-Key` the property is about the
  key, as the backend cookie is forwarded unmapped beside it
  (`services/cnc/common.go:100-111`, `proxy/basic.go:106`), although
  `services/cnc/conf.go:48-51` says that the cookie is remapped.
* `ChargedOnceToPresented`: `Preflight`, `Login` and the public proxies, which have
  no deferred `LogRequest`, and the merging handlers' returns before it
  (`mergefreq.go:50-53`).
* `LimiterHolds`: cncauth without a database never asks its limiter.
* `CachedMergeIsWhole` and `FailureIsTold`: a part answered by an error in JSON
  and an answer which breaks off after its headers have not failed; nor has a
  call that ended with an error of the cache.
* `FallbackIffRequired`: treq's `AnyPath` maps a frontend cookie, an expired one
  too, over the fallback cookie it has just put in.
* `NamedUserOwnsSession`: with `X-Api-Key` the user is looked for before the
  cookie is mapped, so that the user named may be the owner of the request's
  other cookie (`treq/handler.go:208-231`); the property then says that it is one
  of the two.  Requests under the fallback cookie are those of `HumanIsNamed`.
* `CompleteAnswerWritten`: one event has the whole answer, but an older event may
  come after it; and of a connection which is not streamed nothing is claimed.

What the properties do not catch although the models have it: `BurstReported` is
about measurements which reach the threshold however diluted, so weaker bursts
may be averaged away; `ReportsSurviveRestart` is about a complete file, so an
empty or partial one may lose everything.  What the models do not have: the
limiter is looked up and decremented in one step, so a lock missing there would
not be seen.

### Seen while modelling

Differences between comments and code which the models have and no run states:

* A tile with `otherTileId` gets no answer, since only the head of its group is
  answered (`wagstream/handler.go:149`); `wagstream/conf.go:41-42` says that
  "APIGuard will respond by the corresponding data also to this tile".
* The request counts saved on exit are never used: `Register` replaces what
  `LoadState` brought (`monitoring/alarms.go:363`, `server/service.go:100,117`);
  `alarms.go:70-71` says that they are serialized "in case of exit".
* `TrueUserIDHeader` always carries "0", as the handlers pass a `userID` they
  never assign (`services/cnc/proxy.go:193,229`).
* `RequiresFallbackCookie` is true with no fallback cookie there, with a 401
  (`cncauth.go:204-210`), while its comment in `guard.go` wants the cookie
  defined; treq logs in then, so nothing follows from it (`FallbackIsThere`).
* `Subsets` sends the frontend cookie unmapped, unlike the other two handlers.
* The goroutine of `NewActions` does not return when its context is done
  (`wagstream/handler.go:318-319`) and goes on in a loop without a pause.

### Fairness

`WagStream`: weak fairness of every goroutine's steps, because the Go scheduler
runs each goroutine that can run, and of the route handler's return, because
backend calls have timeouts; strong fairness of the sends to the response
channel, which Go serves in the order the senders came, pings among them, and of
the failure of a write to a client which has gone; and of the ticker that it
ticks.  Nothing is assumed of a backend writing one more chunk or of the
browser.  `AlarmTicker`: weak fairness of `Run`
and of a handler's deferred post; nothing is assumed of requests, removal
goroutines, the administrator, signals or the clock.  `ResponseCache`: weak
fairness of each handler, whose backend calls time out; nothing is assumed of
the goroutine which writes to Redis, of a flush or of the clock.
`StreamRegistry`: weak fairness of the clock and of the goroutine which cleans
up; nothing is assumed of clients.  `Gateway`: weak fairness of each handler and
of the alarm's receiver, and strong fairness of the send to its channel, because
Go serves the senders which wait for a channel in the order they came, so that
one which is offered room again and again gets it.  Nothing is assumed of the
portal: `RequestsEnd` excepts logins, which have no timeout.  `Treq`: the same,
and that the portal answers, well or badly, since its handlers have nothing else
to end the login by.

## 4. Proofs

Every invariant and every action property the passing runs check is also a
theorem, for every value of the constants, and so is the refinement.  Liveness
is only model-checked.

The assumptions are those the modules name, and TLC evaluates them in every run:
`TileGroupsAssumption`, `WagStreamAssumption` (finite set of groups, positive
capacities), `StreamRegistryAssumption` (lists are lists of requests),
`AlarmTickerAssumption` and `NoneAssumption` (finite set of handlers, positive
sizes and limits; what stands for nothing is no activity and not what `Run` holds),
`ResponseCacheAssumption` (types of requests and of their texts; sessions, bodies
and what is left of a body are different things), `GuardsAssumption` (cookies,
tokens and what stands for none of them are different things, the burst is
positive), `GatewayAssumption` and `TreqAssumption` (types of requests and
configurations; the sessions of the portal differ from each other and from what
clients have).

Each theorem follows the same way: an inductive invariant, itself checked by TLC
on the run's instance first, holds initially, is kept by every step (one proof
step per action), and implies the property.

* **Sequences** (`SelectedItemsProofs`).  The induction theorems of the library
  cannot be used, so what a recursive function on `0..n` computes is proved from
  the fact that a set of numbers has a least member (`Least`): a least
  counterexample is not 0 and has a predecessor which is none.  From it come what
  `Selected` makes of an appended item and of a lost head (`SelectedAppend`,
  `SelectedTail`), and in other modules what `Grouped` and `Total` compute.
  `Joined` is concatenation under a name the provers do not expand.
* **Grouping** (`StreamRegistryProofs`): `GroupsAlwaysMatch` and
  `IndependentAlwaysFirst`.  `RegisterMatches` shows that `register` takes the
  reference for a list to the reference for the list with one request more, where
  both go by the code's key; `GroupedCorrect` follows by going along the list.
  Outside `Misgrouped` the code's key is the one a request addresses.  `GroupsInv` adds that the
  map and the copy of a cleanup hold lists of requests.
* **Registry** (`StreamRegistryProofs`): `FreshAlwaysFound`.  What is in the map
  is not enough, since an assignment replaces it; `RegistryInv` adds that a copy
  which is about to be assigned has every stream which is not too old and was
  not added since the copy was made.
* **Data stream** (`WagStreamProofs`): `StreamInvariant`, `TypeCorrect`,
  `NoSendAfterClose`.  `SendersDone` is not inductive: that the channel is not
  closed under a sender depends on the WaitGroup's counter.  `StreamInv` says
  that the counter is the cardinality of the set of groups which may still send
  (`Outstanding`), that for an EventSource group the forwarder and for the
  others the worker is the one who leaves this set, and that the closer passed
  `wg.Wait()` only with the set empty; the lemmas `OneMore` and `OneLess`
  relate the counter to the set in the only steps which change them.
* **Delivery** (`WagStreamRefines`): `Delivery`, `NothingEverLost` and
  `Refinement`, that is `Spec => ImplementsContract`, for any number of groups,
  chunks, pings and any channel sizes.  In `DeliveryInv`, with `Sent(g)` the
  number of parts sent on the response channel, the writer's channel holds
  exactly the parts after it and the response channel exactly the parts between
  the ones written and `Sent(g)`, in increasing order.  A received part is
  therefore the next one (`HeadIsNext`), and a closed and drained channel means
  that all parts of all groups were delivered.  For `NothingLost` the four
  places a part can be in are one sequence (`Way`), which a part passes through
  without changing it (`WayTake`, `WaySend`, `WayDeliver`) and which grows only
  at its end (`WayWrite`).
* **Usage alarm** (`AlarmTickerProofs`): `TypeCorrect`, `ReportsSurvive`,
  `BurstsReported` and `AlarmsAreTrue`, from `TickerInv`.  `SavedInv` follows the
  reports from the signal through the file to the next start: those which are
  due are the first ones of the list, of the saved list and of the restored one.
  `BurstInv` says of live and of saved activities that no measurement is later
  than now and that one which reaches the threshold was reported, and of a
  removed activity which `Run` still holds the former.  That an alarm is true cannot be seen from the measurement, which
  counts entries of a circular list: `CountInv` bounds, for every client and
  every time, the requests after it which are in the activity (or in the removed
  one `Run` still holds), in the channel and with handlers by the requests the
  client really made after it.  `AlarmInv` says that every measurement in a list
  is one of these counts and every report, live, being cleaned or saved, is
  justified; a weighted average reaches the threshold only if one measurement
  exceeds the limit (`ExceedsBecause`).
* **Cache** (`ResponseCacheProofs`): `TypeCorrect` and `HitsAnswerTheRequest`,
  from `CacheInv`: every whole entry of the store, every SET in the queue and
  every answer a handler is writing has a key made of the request the answer is
  for, whoever overwrites, refreshes, flushes or is killed.  That two requests
  with one text are then alike is shown for texts which cannot be cut in another
  way (`~Ambiguous`), by comparing the concatenations from the left.
* **Gateway** (`GatewayProofs`): `LimitersHold`, `TypeCorrect`,
  `SentIsAuthorised`, `ChargedOnce`, `CachedWhole` and `FailuresTold`.
  `LimiterInv` makes the account exact: what may still be let through is what is
  in the bucket.  An evaluation by a limited guard ends in one of three ways for
  the limiter (`EvaluationEnds`), and every step of every handler is an
  evaluation or leaves the limiters alone (`HandleMild`).  The other four are
  about one handler, and follow from what it carries along between its steps
  (`Local`): which session the guard answered for, and that it was a living one
  of the request or none; that nothing is reported before the deferred call and
  everything is after it; how many parts are still to come and whether one has
  failed; whether a status has been written.  Steps of other handlers change
  nothing of it but the limiter, the living sessions and the alarm's channel.
* **Treq** (`TreqProofs`): `TypeCorrect`, `FallbackAlwaysThere`,
  `NothingAfterFlush`, `CompleteAlwaysWritten` and `CookieOnlyNewer` from
  `TreqInv`, `FallbackOnlyIfRequired` and `NamedUserAlwaysOwns` from
  `SessionsInv` on top of it.  That the cookie is there when it is read depends
  on what the guard answers: with no cookie a request without a session is
  refused by 401 (`EvaluateOK`).  That it never gets older needs that one handler
  logs in at a time (`OneLogin`) and so the session it was given is the last
  one.  That nobody writes after the flush rests on the counter: it is the number
  of the goroutines which were started and have not returned, so that zero with
  nobody left to start means that there are none.  That one event has the whole
  answer needs no order of the goroutines: the answer as it is now was serialized
  by the goroutine which was the last to add to it, and is in its hand or among
  the events (`PartsWritten`).  The session sent and the user named are followed
  from the request through the cookies put in, mapped or taken for the key
  (`SessionsOK`).  A restart leaves every handler idle, the living sessions and
  the count of the portal's ones (`RestartKeeps`).

Only model-checked: `StreamsAreForgotten`, `StreamFinishes`, `HandlersUnblock`
and the three `RequestsEnd` (gateway, cache, treq), since fairness and ENABLED are
out of the prover's reach.

## 5. Not modelled

The summaries, e-mails and report reviews of `monitoring/` (they read the state
or go out of the process); the tile configuration (a map of files, independent
of the rest); the tables of reports and of IP bans (SQL, written and not read);
the comparison of a session's value with its hash; the making of URLs, error
texts, HTML and JSON layouts; tracing and logging; validation of configurations;
`wagstream/errdetect.go`, used by its test only.  `Gateway` and `ResponseCache`
are not composed: what the cache may answer is left open in `Gateway`, and who
asks is left open in `ResponseCache`.

## 6. Plan

1. Proofs left: none of the invariants.  Worth adding is what the liveness
   properties rest on and the prover can reach, such as invariants which say
   that somebody who waits is waited for by nobody.
2. If a run becomes free: the two divergences at the head of "Seen while
   modelling", and `otherTileQueryIdx`.
3. `Gateway` with `ResponseCache` for what the cache answers.
