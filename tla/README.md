# A TLA+ model of iicpc-platform

iicpc-platform hosts a contest for trading engines. A contestant uploads an
engine, the platform builds, scans and runs it, bots trade against it, and the
measured speed and correctness become a place on a live leaderboard. These
modules model the parts of the platform that carry state and concurrency,
translated from the Go and TypeScript sources; TLC checks them on small
instances and TLAPS proves every invariant, action property and refinement that
TLC checks, for every value of the constants. Only liveness rests on TLC alone.

## 1. The system

```
 browser -> api-gateway -> submission-svc -> registry -> sandbox-runner -> contestant's engine
    ^        (limit, JWT)   (queue, build,                (pod, crash watch)      ^
    |                        scan, build log)                   |                 | orders (REST, WS, FIX)
    |                                                           |   bot-coordinator -> bot-worker
    |                                                           |                 | OrderEvents (gRPC stream)
    |                                                           |          telemetry-ingester
    |                                                           |                 | Kafka, keyed by contestant
    |                                                           |         aggregator   validator
    |                                                           |             \          /
    +------------------ hub (WebSocket) <------- Redis <--------+------>  leaderboard-svc
```

| Part | State it keeps | Operations | What is hard | What makes it correct |
|---|---|---|---|---|
| api-gateway | a token bucket per address | limit, issue and check tokens, proxy | two locks in `Allow`, eviction, forged headers, rounding | each client has exactly its own quota; a token lives as long as its owner was told |
| submission-svc | Postgres rows, in-memory queue, one worker | upload, enqueue, build, push, scan, start sandbox, shut down | a row and a job that can part ways at every step | only pushed and, with a scanner, scanned images run; accepted submissions settle, once |
| build log and its page | bounded ring of lines; cursor | append, since, poll | overlapping polls, a ring that is trimmed under them | no line skipped |
| sandbox-runner | crash tracker | run, wait, stop, watch | watches that drop and list again; names that are used twice | each crash counted once, and in the end |
| bot-coordinator | none; Kubernetes Jobs | start, stop | deletion is asynchronous | one fleet per benchmark at a time |
| bot-worker, order loop | per bot: `liveIDs`, the request in flight | place, cancel, classify the answer, emit | several bots at once; requests whose outcome is unknown | |
| bot-worker, FIX client | `pending`, `sides`, `seq`, a channel per call | place, cancel, route a report | one session shared by all bots; a timeout that races a report | an answer reaches its own call; nobody blocks the session |
| bot-worker, WebSocket client | one connection per bot | write a request, read the next message | answers carry no id | a late answer is never taken for another order's |
| bot-worker, arrivals | burst flag, ticker, timers | next wait, burst on, burst off | late ticks and timers | a burst starts and ends for all bots |
| bot-worker, telemetry client | bounded queue, sender, one stream | Emit, open, send, back off, close | broken streams, shutdown order | what the queue took arrives in order and once, or is lost from the front |
| telemetry-ingester | bounded channel, batch | handlers, drain loop, publish, stop | check-then-send on a channel that is closed, drops, kills | the same promise, no panic, bounded loss |
| aggregator | open windows, ring, whole-run totals | consume, record, flush, scrape | lock released between steps, stale ticks, redelivery, restart | every event in its run's total once |
| validator | a book and two counters per run | process an event, report | order of arrival, redelivery | agrees with the reference engine |
| reference engine (samples) | two heaps with index maps | place, market, cancel | must agree with sorted slices | |
| leaderboard-svc | Redis hash and sorted set, shared by replicas | tick: fetch, score, upsert, broadcast | interleaved replicas, three sources read at three moments | best attempt, strict attribution, convergence |
| live feed (hub) and its page | clients with bounded channels; view | register, broadcast, pump, reconnect, poll | slow clients, half-open connections, late REST answers | the page comes to show the standings |

The services interact by HTTP (gateway, polling), gRPC (bot-worker to ingester,
submission-svc to sandbox-runner), Kafka (ingester to aggregator and validator),
WebSocket, Redis, Postgres and the Kubernetes API. No service shares memory with
another, so most modules are one process with its goroutines, its peers being
reduced to what it can observe of them. `Replay` spans three processes because
its property is about their agreement, `Leaderboard` spans replicas and Redis,
`BuildLog` and `LiveFeed` span a service and the page that follows it.

## 2. Modules

| Module | Models | Proofs |
|---|---|---|
| `LossyQueue` | abstract: what each hop of the telemetry path promises | |
| `TelemetryIngester` | `services/telemetry-ingester` | `TelemetryProofs` |
| `TelemetryClient` | `services/bot-worker/internal/telemetry` and `main`'s shutdown | `TelemetryProofs` |
| `Telemetry` | both ends of the path | `TelemetryProofs` |
| `FixClient`, `MCFixClient` | `bot-worker/internal/client/fix.go` and its use in `runWorker` | `BotWorkerProofs` |
| `WsClient` | `bot-worker/internal/client/ws.go` and its use in `runWorker` | `BotWorkerProofs` |
| `Arrivals` | `bot-worker/internal/gen/arrival.go` and the waits of `runWorker` | `BotWorkerProofs` |
| `BotWorker`, `MCBotWorker` | the three above, by configuration of the worker | `BotWorkerProofs` |
| `Aggregator`, `MCAggregator` | `services/aggregator` | `AggregatorProofs` |
| `RefBook` | `services/validator/internal/replay/book.go`, as pure operators | `ReplayProofs` |
| `Replay`, `MCReplay` | `runWorker` with REST, the reference engine, the validator | `ReplayProofs` |
| `Leaderboard`, `MCLeaderboard` | `services/leaderboard-svc` ingest, score and store | `LeaderboardProofs` |
| `SubmissionPipeline` | `services/submission-svc` server, build and main | `UploadPathProofs` |
| `Sandbox` | `services/sandbox-runner` | `ClusterProofs` |
| `Coordinator` | `services/bot-coordinator` and the Jobs it creates | `ClusterProofs` |
| `Cluster` | the two services that act through Kubernetes | `ClusterProofs` |
| `Quota` | abstract: what a rate limiter promises each client | |
| `RateLimiter` | `services/api-gateway/internal/ratelimit` | `UploadPathProofs` |
| `Gateway`, `MCGateway` | `services/api-gateway`: the whole chain of a request | `UploadPathProofs` |
| `BuildLog` | `submission-svc/internal/buildlog`, `web/app/hooks/useSubmission.ts` | `LeaderboardProofs` |
| `LiveFeed` | `leaderboard-svc/internal/ws`, `handleLive`, `web/app/hooks/useLeaderboard.ts` | `LeaderboardProofs` |
| `Dashboard` | the two pages | `LeaderboardProofs` |
| `LoopTheorems` | no code: induction over sets and numbers, loops as functions | itself |

Conventions. One action per statement that another goroutine can see between:
`PushCheck`, `PushSend` and `PushCount` are the three visible steps of
`Buffer.Push`; `CloseFlag` and `CloseChannel` the two of `Buffer.Close`. A program
counter variable per goroutine (`handler`, `drain`, `cons`, `tloop`, `worker`,
`call`, `pc`) says where it stands. A `history` variable is not in the code and
only serves a property. Calls that can fail take a `Fault`, whose number a
constant bounds. A definition called `X_Something` is a plausible bug in `X`,
kept to show which property would notice it. `PROJECT.json` maps each definition
to its lines.

Two kinds of composition. `Gateway` EXTENDS `RateLimiter` and its actions conjoin
the limiter's: a request *is* a call of `Allow` between two steps of its own.
`Telemetry`, `BotWorker`, `Cluster` and `Dashboard` put components side by side
that have no variable in common and never call each other; a variable that never
changes (`end`, `part`, `namespace`, `page`) chooses one of them at the start. A
behaviour of the composition is then a behaviour of one component with the others
at rest, which loses nothing: properties are about one component each, and a
component at rest satisfies its own (none of its fair actions is enabled).
Interleaving them would multiply the states and show nothing new.

**TelemetryIngester.** An event is a stream and a sequence number. `accepted`,
`handed` and `written` record what the channel took, what `Publish` was given and
what the topic holds; `Publish` may succeed for any subset of the partitions.
The drain goroutine receives and appends in one step (`DrainRecv`) and publishes a
full batch in the next (`DrainFlush`), because a `Push` can take the freed slot in
between: a kill then loses a full channel and a full batch. `Kill` can come at any
moment and empties the process's memory.

**TelemetryClient.** Events are numbered as the queue takes them. `stream` is
`broken` until the sender notices. `Emit` is ignored once the client is closed,
as in the code, which is why `main` has to wait for the bots first. `Break` empties
the wire: what the ingester still receives of a broken stream counts as delivered
before the break, on the assumption that the old handler receives nothing more once
the sender has backed off and opened the next stream.

**FixClient.** `Register` gives a call its ClOrdID and puts its channel in
`pending`; `FromApp` takes the entry out under the lock and `Deliver` is the send
outside it, so that `Expire` and `Cleanup` of the caller can come in between. The
exchange is external: any number of reports, with or without CumQty, late or
never.

**WsClient.** The library is external: a read that fails makes every later read
of the connection fail with the same error, and it panics after a number of them
(1000 in gorilla, `ReadErrLimit` here). The engine answers each request once, in
any order, late or never.

**Arrivals.** Time is a clock that passes nobody's deadline by more than
`MaxLag`. An exponential wait is any wait up to a bound; jitter is any value below
`Jitter`. A tick that finds the ticker's channel full is dropped, as in Go.

**Aggregator.** Latencies are a few classes, histograms are functions over them;
quantiles are functions of the histogram and left out. The code adds windows up in
two places, column by column, and so do the definitions: `Fold` is the accumulator
of `Flush`, `SumWindow` the loop body of `MergedRecent`, which `MergeWindows` runs
over the ring as a function of how many windows it has added, and `MergedRow` the
row built from the sums. `historyCap`, a field of the aggregator (60 in the code),
is chosen at the start from `HistoryCaps`. The ticker's channel holds one tick with the time it fired. `ScrapeIds` and
`ScrapeRow` are the two lock sections of `AllMerged`.

**RefBook and Replay.** A book is a sequence of orders for each side, best first,
exactly as the slices of `book.go`. The matching loops of the book and of the
engine are recursive functions of the number of rounds: each round fills at least
one unit or is stuck, so as many rounds as the order has units are all of them
(`MatchResult` proves that the loop has ended by then). The engine's heaps are a
set with the order `Less`: what a heap pops is the minimum, so the set is the heap
without its layout, and without the index maps that `Cancel` finds an order with.
`clock` gives every bot request and every arrival at the engine
a fresh time: `SentTsNs` and the engine's `At` are different times, taken by
different processes. An event may be lost on the way and, when a rebalance comes
before its offset is committed, be replayed twice.

**Leaderboard.** A run is a submission or, for events without a submission id,
the contestant itself (a legacy run). Scores are integers: a snapshot row carries
the points of latency and throughput and its number of timeouts. The Lua script is
one step, because Redis runs it atomically; everything else of `Tick` is a step of
its own. Aggregator and validator may restart and lose their rows.

**SubmissionPipeline.** `worker.ctx` is the build's context: done after the build
timeout or the root cancel. Rows survive a restart, the queue does not. `scanner`
says whether the process has one, chosen at the start and kept: `main` builds one
only with TRIVY_ENABLED=true, which is not the default, and a `trivy` on the PATH.
Without it `Scan` goes on to `ready`, as buildkit.go:244 does, and
`OnlyScannedImagesRun` asks only that the image was pushed.

**Sandbox.** The Kubernetes API is external: a watch without a resource version
begins with an event for each existing pod and then tells every change until it
breaks. Restart counts are 0, since the pods have RestartPolicy Never, and a crash
shows as the Failed phase.

**Coordinator.** The service keeps nothing; its state is the Job and its pods.
A call of the API may fail before or after it took effect. With foreground
propagation the garbage collector removes the Job when its last pod is gone.

**RateLimiter and Gateway.** Tokens are scaled so that one unit is refilled per
tick. `Lookup` and `Grant` or `Deny` are the two lock sections of `Allow`; between
them other requests, eviction and time may come. Nothing in the code bounds that
time; the model does, with `MaxPause`, and assumes an entry is kept for longer
than a bucket needs to fill plus that pause (`EvictAssumption`: in the code 5
minutes against the burst divided by the rate). Claims are whole seconds, as in
the code, while the clock is finer. A client sends any X-Forwarded-For; each
trusted proxy appends the address it sees.

**BuildLog.** A line is its number, and an answer is the set of its lines: the
page appends them in the order they have in the buffer. A poll is a callback with
up to three requests; the timer starts a new one whether or not the last has
ended, and any callback may run between a request and its answer.

**LiveFeed.** The standings are a version number. A connection breaks so that
both ends notice, or silently, when only a write that finds no room notices. The
handler's reader goroutine ends at the first error without closing anything, so it
is the pump's next write that lets the handler go. A WebSocket constructor that
throws (`OpenSocketThrows`) leaves the page polling, with no socket and no timer for
another.

## 3. Runs

| Run | Bounds | States | What it shows |
|---|---|---|---|
| `telemetry` | ingester: 2 streams of 2 events, channel 1, batch 2; client: 2 bots, 5 events, queue 2, 2 faults | 64 k | both ends implement `LossyQueue`; no send on a closed channel, conservation, loss bound; publication, recovery and exit |
| `botworker` | FIX: 2 bots, 3 calls, 2 reports, 1 refused send; WS: 4 requests, panic after 2 reads; arrivals: 2 bots, 2 to 3 bursts | 1.7 M | answers are their own call's, the session never blocks, bursts shape the load |
| `fix_timeout` | 1 bot, 2 calls | - | violated: see 6 |
| `aggregator` | 2 runs, 2 messages of 5 kinds, 5 ticks of time, window 2, rings of 1 and 2, 1 fault | 336 k | conservation per run and column, agreement of the two merges, scrapes, durations, progress |
| `replay` | 1 bot, 4 orders, no fault; 2 bots, 2 orders, 1 fault; 2 prices, 2 quantities, 2 events on their way | 1.6 M | engine and validator agree on fills and books; the book stays sorted and uncrossed |
| `replay_failclosed` | 1 bot, 2 orders, 2 faults | - | violated: see 6 |
| `leaderboard` | 2 replicas, 1 contestant with a submission and a legacy run, 3 upstream changes, 1 fault | 511 k | best attempt, attribution, convergence |
| `pipeline` | 3 submissions, queue 1, 2 push attempts, 2 faults, with and without a scanner | 514 k | scanning, settling |
| `cluster` | sandboxes: 2 calls, 2 submissions, one without a label, 2 faults; bots: 1 id, 2 runs of 1 or 2 pods, 1 retry, 1 API fault | 277 k | crashes counted once and seen in the end; runs do not overlap and end |
| `sandbox_history` | 2 calls, 1 submission | - | violated: see 6 |
| `gateway` | 2 clients behind 1 proxy, 2 concurrent of 3 requests, 6 ticks, burst of 1.5 requests | 522 k | `Quota` is implemented; token lifetime |
| `dashboard` | log: ring of 2, 1 line of output, 2 polls at a time, 1 failure; feed: 2 connections, buffers of 1, 1 change, 2 breaks, 2 fetches | 62 k | no line skipped, the log and the view catch up, clients that left are dropped |

Why the bounds are enough. A channel of one and a batch of two make empty and full
channels, partial and full batches and drops happen, and with four events also the
channel that is refilled behind a full batch, where a kill loses the most. Four serial orders are two resting orders at one price, one that takes part
of them and one that meets what is left, with cancels in between; a wrong
tie-break needs three. How far the validator lags does not change what it does,
so two events on their way suffice. Two bots make timestamps arrive out of order.
Two replicas are enough for a stale overwrite, and three upstream changes for a
snapshot, a verdict and a crash. A ring of one evicts at the
second window, a ring of two merges two. Queue
1 with three uploads has one job running, one queued and one refused. A build
writes up to three lines into a ring of two, so the oldest is trimmed under a
page that has not seen it. Three requests against a burst of one and a half are
granted, refused and granted again after a refill, and six ticks are longer than
an entry lives. The clock of the arrivals passes two whole bursts and the start
of a third, so that the timer of one burst could end the next. One or two faults
put a single failure, or a failure during recovery from another, at every step.

Symmetry is used where it is sound: in `replay` the bots, in `gateway` the
clients and the request goroutines; neither run checks liveness.

Fairness. Goroutines are scheduled (`WF` of each goroutine's next step), tickers
fire, calls with a timeout return, browser callbacks run, REST requests are
answered, the garbage collector and the kubelets do their work. Nothing is assumed
of clients, signals, kills, rebalances, the contestant's engine, the FIX exchange
or the network beyond that. Requests may fail a bounded number of times, so
convergence is claimed for the time after the last failure. No run assumes strong
fairness.

Deadlock is checked for telemetry, replay and leaderboard. The other
modules stop when their bounds are used up or when the process has ended, and
their configurations say so.

## 4. Refinements

* `LossyQueue`: items leave in the order they were accepted, none twice and none
  invented, and what is lost is the oldest inside. The ingester implements it from
  `accepted` to `handed` (`ImplementsLossyQueue`), the client from its queue to
  what the ingester received (`ClientIsLossyQueue`). Both are proved, and so is
  what follows for the two ends: the client's events arrive in the order of their
  `Emit` (`ClientArrivesInOrder`), and the ingester hands on the beginning of what
  it accepted (`IngesterHandsOnPrefix`). The two hops in a row are not one
  `LossyQueue`, since a stream can break while the ingester still holds older
  events; but what each hands on is a subsequence of what it took, so events of
  one bot reach the topic in their order, with gaps and without repetitions.
* `Quota`: a request is granted exactly when every window of its client stays
  under `Cap + elapsed`, and refused exactly when it would not. `Gateway`
  implements it (`KeepsQuota`) although it has buckets it forgets, two locks, and
  keys that come out of a header the client can write to. Both halves are proved for
  all sizes: the bound from above (also stated by itself, as `RateBounded`), and
  that nobody is refused too early or on account of another client.

## 5. Proofs

Every proof is for any values of the constants that satisfy the `ASSUME`s of the
modules, which TLC evaluates in the runs. Each proof module states an inductive
invariant, shows that the initial states have it and that every action keeps it
(one step per action), and derives the properties from it. Where the properties
of section 3 speak of what has happened, the invariants speak of what is still on
its way.

Induction over data. The library's induction theorems take the property as an
operator, which the provers cannot instantiate. `LoopTheorems` states induction
with the property as a *set* (`InductionOnSet`, `InductionUpTo`), derived from the
library's theorem that a well-founded relation has minimal elements, and that a
loop of n rounds over a set has its sequence of values (`LoopExists`). A loop of the
code is modelled as a recursive function of the number of rounds; what it computes
for every input is then proved like any other invariant, as a property that the
start has and each round keeps.

`TelemetryProofs`, for any streams, bots, capacity, batch size and faults:

* The ingester: `TypeCorrect`, `PushNeverPanics` (`NoSendOnClosedChannel`),
  `EventsConserved` (`EventConservation`), `KillLossBounded` (`BoundedLoss`: at most
  a full channel and a full batch), `GracefulExitDrains`, `IngesterHandsOnPrefix`. That no handler is between the
  test and the send when the channel is closed follows from where `main` is. The
  inductive invariant adds `QuietWhenStopped` (after GracefulStop no handler is in
  an RPC), `CloseOrder` (which values of `buf` each phase of `main` allows, and
  that the drain goroutine has left only when the channel is closed and empty), and
  bounds on the channel and the batch.
* `IngesterIsLossyQueue`: every step of the ingester is a step of `LossyQueue`
  under the mapping, or leaves its variables alone. The argument needs
  conservation, which says that the batch is the part of `accepted` right after
  `handed`.
* The client: `ClientLosesNothingHealthy` (`LosslessWhileHealthy`),
  `ClientKeepsOrder` (`ClientIsLossyQueue`) and `ClientArrivesInOrder`. `UnderWay`
  says that the wire, the sender's hand and the queue hold consecutive numbers that
  end at the latest emitted one, so whatever a broken stream or the shutdown
  discards is the oldest under way. `SenderState` ties the sender's step to what it
  holds and to the state of the stream: a stream that is not up has nothing on the
  wire.
* `PathHasBothEnds`: a behaviour of the composition is one of each end.

`BotWorkerProofs`, for any bots, calls, reports, refused sends, requests and times:

* FIX: `WorkerSessionNeverBlocks`, `WorkerFillIsOwn`. A report is taken out of
  `pending` under the lock and sent to the channel outside it. `RoutedOnce` says
  that a ClOrdID in `pending` has an empty channel and the one in the router's hand
  is no longer in `pending`; `IdIsOwn` that no two calls have one ClOrdID;
  `NothingInvented` that whatever is on its way to a bot was reported for that
  ClOrdID.
* WebSocket: `WorkerAnswerIsOwn`. Nothing in a message names its request. `WsInv`
  says that a connection that can still be read has at most the answer to the last
  request under way, since after a missed deadline it is never read again.
* Arrivals: `WorkerBurstShapesLoad`, with one fixed interval. `TickerOnTime`,
  `BurstOnTime` and `WaitsOnTime` bound how late each tick, timer and wait can be.
  The proof needs the assumption that a burst is over, lags included, before the
  next tick (`Duration + 2 * MaxLag < Every`): otherwise two timers are under way
  and the first ends the second burst, as section 6 says.

`AggregatorProofs`, for any runs, events, window, ring, time and faults:

* `AggregatorConserves` (`WholeRunConserved`): the counts are cardinalities of the
  deliveries of a run, and one `Record` adds one to exactly those its event belongs
  to. It needs that a window without events is empty in every column, because a
  flush skips it.
* `AggregatorTimeBounded` (`DurationWithinElapsed`): a window opened after the tick
  that flushes it is charged a whole `Window`. That this never charges time twice
  is `ClockInv`: ticks are taken on a grid of `Window`, so two flushes are a whole
  `Window` apart or more, and an open window began after the last one.
* `AggregatorScrapeFresh` (`ScrapeIsFresh`): totals only grow while a scrape runs,
  and a run with a total always has a window in its ring.
* `AggregatorMergedPathsAgree` (`MergedPathsAgree`): until the ring evicts a window,
  the row that `MergedRecent` computes from the ring is the one it takes from the
  whole-run total. `MergeOneMore` says that its sums take in one window more exactly
  as the accumulator of `Flush` does, `RingInv` that the ring then holds every window
  the total has, and `CapInv` that its capacity is never zero.
* `AggregatorAtLeastOnce`: no offset is committed before its message was recorded
  or found undecodable. It is the safety half of `EventuallyRecorded`.

`ReplayProofs`, for any prices, quantities, orders, lag and number of bots:

* `MatchResult`: what the matching loop of `Place` leaves, for any book and order.
  The rounds end with the order filled, the side empty or the best price not
  crossed, and what is left of the side is a suffix of it: the same orders, with the
  same ids, prices and times.
* `SearchSplits`: `sort.Search` finds the one place that keeps the side sorted. Its
  predicate is monotone only on a sorted side, so this is half of the next result.
* `BookStaysWellFormed` (`BookWellFormed`): sorted by price and time, uncrossed,
  without empty orders, whatever arrives: events out of order, lost, delivered
  twice, of bots that interleave. `PlaceKeepsBook` and `CancelKeepsBook` do one
  operation each.
* `ReferenceEngineNeverMismatches` (`PerfectEngineScoresPerfect`) and
  `ValidatorFollowsEngine` (`BooksAgree`), for one bot and no failure. It is a
  simulation. `Mirror` relates a book to a heap: the heap is the image of the book
  and no order is in it twice. `RoundsAgree` shows that one round of each matching
  loop keeps it, since the top of the heap is the head of the side
  (`TopIsFirst`), and `MatchesAgree` that the loops end alike; `PlaceMirrors`,
  `PlaceMarketMirrors` and `CancelMirrors` do the operations. The validator lags
  behind: `Follows` says that its book, once it has replayed the events on their
  way and the one the bot has still to emit, mirrors the heap, each of them with
  exactly the fill that the replay will find.

`LeaderboardProofs`, for any number of replicas, contestants and submissions, and
for any rings, output, failures, overlap of polls, connections and buffers of the two
pages:

* `TypeCorrect`, `BestScoreIsMax` (`BestIsMax`), `StrictAttribution`
  (`ScoredFromOwnRows`).
* A replica scores from rows it fetched earlier, so the invariant bounds what a
  replica may hold: `WorldOK` (each current row and verdict is in the run's
  history), `LocalOK` (what a replica fetched is in the history too, its crashes
  are a subset of the crashes there were).
* The build log: `LogNeverSkips` (`NoLineSkipped`). A poll under way will write the
  cursor later, from an answer that may be old by then. `SinceIsShown` and
  `AnswerIsComplete` say of every poll what the property says of the page: what is
  up to its `since` is shown, and what lies between its `since` and its `latest` is
  in its answer.
* The live feed: `LiveInductive` and `LiveSocketIsServed`, the part
  of `LiveViewConverges` and `GoneIsUnregistered` that is true of every state.
  `HandlersOwnClients` says that the hub has a client exactly as long as its
  handler runs, so no broadcast goes to a client nobody unregisters;
  `PageKeepsAWay` that a mounted page has a socket, the timer for the next one or the
  polling timer, and never a socket and the timer for another; `VersionsInOrder` that what is under way on a
  connection is in the order of the broadcasts, however many a slow client missed.

`UploadPathProofs`, the way of an upload. For any submissions, queue, attempts and
faults of submission-svc:

* `PipelineScansFirst` (`OnlyScannedImagesRun`: what runs was pushed and, when the
  process has a scanner, passed it), `PipelineSettlesOnce`
  (`SettledStaysSettled`). `OneClaim` says that a job is in the queue once or in
  the worker, never both; `RowFollowsJob` that the row of a job that is claimed is
  not settled; `ImageFollowsJob` how far its image is at each step of the worker.
  Since the queue is lost with the process while rows stay, no restart claims a
  job a second time.

And for any clients, requests, proxies, cost, burst and eviction time of the gateway
with `EvictAssumption`:

* `LimiterRateBounded` and `GatewayRateBounded` (`RateBounded`). `RateBounded`
  speaks of pairs of grants and says nothing of what a bucket may still hand out.
  `Budget` does: since any earlier grant, what was granted and what is left stay
  under the line, where an address without an entry has a full bucket left.
  Eviction keeps it only because the bucket it drops is full, for which
  `LastIsRecent` and `HeldIsKnown` say that nobody has used it for longer than it
  takes to fill.
* `GatewayKeepsQuota` (`KeepsQuota`). That a refusal is deserved is `Tight`: a
  bucket that is not full is exactly on the line of some earlier grant. That a
  client's requests reach its own bucket is `OwnEntry`, from the lemma
  `KeyIsTheClient`: counting from the right, `clientIP` finds the client's address
  behind any number of trusted proxies whatever the client wrote into the header.
* `GatewayTokenLifetime` (`TokenLifetime`), from the arithmetic of whole seconds.

`ClusterProofs`, for any submissions, requests, benchmarks, workers and faults:

* `ClusterNeverOvercounts` (`NeverOvercounted`): `CrashesAreReal` extends the bound
  from the tracker to every event the watch has still to deliver.
* `ClusterRunsDontOverlap` (`RunsDontOverlap`): `PodsHaveTheirJob` says that a pod
  belongs to the run its Job is at; a new Job needs the old one to be gone, and
  foreground deletion keeps it until its last pod is.

Assumptions that say more than a type: `EvictAssumption` (section 2),
`BurstAssumption` (above, and that the multiplier of a burst is more than one),
`IsFiniteSet(Subs)` in `Sandbox` (a cluster has finitely many pods), and that
windows, rings, buffers, costs and seconds are not zero, where the code replaces
or excludes such a value.

Only model-checked: liveness, which is outside the proof system. These are
`AcceptedIsPublished`, `ShutdownCompletes`, `QueueMoves`, `WorkerExits`,
`EventuallyRecorded`, `ScoresConverge`, `FeedsConverge`, `AcceptedSettles`,
`CrashIsReported`, `StopEndsTheRun`, `LogCatchesUp`, `LiveViewConverges`,
`GoneIsUnregistered`.

## 6. Where the code and its texts disagree

Shown by a run:

* **FIX timeouts** (`fix_timeout`). `resultForErr` promises that a request the
  contestant did not acknowledge in time "is scored as a TIMEOUT". The FIX client
  returns a plain error after five seconds, which becomes REJECTED, and the
  timeout penalty is never charged. The comment in `client.go` that FIX does not
  parse CumQty is out of date as well.
* **A verdict without a fill** (`replay_failclosed`). ADR 0005 scores a submission
  only after "≥1 authoritative fill"; the validator counts TIMEOUT and REJECTED
  events as checked.
* **History of a replaced pod** (`sandbox_history`). The tracker is keyed by pod
  "so that a replaced pod doesn't erase the history of an earlier one", but the
  name of the pod is a function of the submission.

Met while modelling:

* `useSubmission.ts:177` drains "so trailing lines aren't missed", but the worker
  writes the row `ready` before the line "Image ready", which the last drain can
  miss. The page waits for `failed` while the service writes `build_failed`, so
  after a failed build it polls for ever. Overlapping polls show lines twice and
  move the cursor back; after a second upload an answer to the first can still
  move the cursor and stop the new timer, although lines 124-126 say the callbacks
  "carry no stale state".
* The WebSocket client does not dial again. After one read that timed out, every
  later order of that bot is TIMEOUT or REJECTED at once, and the library panics
  after 1000 of them; docs/CHAOS.md expects recovery "within 5s". A bot whose dial
  fails ends while the pod stays up.
* The coordinator answers 409 to any error of Create and 404 to any error of
  Delete, reports `failed` while the Job still retries and `succeeded` between two
  pods. Its `DURATION` is ignored by the bot-worker, so a timed benchmark ends by
  its deadline and as failed; the rate is rounded to a whole number.
* The comment on the live feed's reader goroutine says "close on error"; it returns
  and closes nothing, so a client that left is dropped at the next failing write.
* submission-svc's `InternalToken` says that the "api-gateway forwards traffic with
  this header set"; the gateway's proxy does not set it.

Behaviour that a reader of the code may not expect, without a contradiction:

* After SIGTERM the ingester's ticker no longer flushes; a partial batch waits
  until the last client closes its stream.
* While `WriteSnapshots` is slow a tick waits with its old time, and the next
  window is reported shorter than the time its events took.
* With TRIVY_ENABLED left at its default (false, main.go:217) the BuildKit builder's
  images become `ready` and run without a scan; ADR 0004 lists the gate as open.
* An error of FetchMessage other than a done context ends the consumer goroutine of the
  aggregator while the process stays up; `EventuallyRecorded` excuses the messages
  that come after it.
* An upload refused with 503 leaves a row in `uploaded` for ever; so does a
  restart with jobs in the queue.
* `corrByContestant` takes the last report in map order: the score of a legacy
  run with several reports changes from tick to tick. `FeedsConverge` excludes
  legacy rows for that reason.
* Concurrent bots can charge a correct engine with mismatches, a limitation the
  repository documents (docs/E2E_PIPELINE_REPORT.md:102-107), and so can an event
  delivered twice. `BookWellFormed` is what still holds then.
* A restart of the aggregator or the validator loses the totals and keeps the
  committed offset (ADR 0005).
* Neither end of the live feed pings: a connection that died silently leaves the
  page with the standings it had, for as long as the kernel does not notice.
  `LiveViewConverges` excludes that case.
* A burst that lasts as long as the time between two is cut short by the timer of
  the one before (`BurstAssumption` excludes it), and a bot learns of a burst only
  at its next order, so that a burst shorter than the interval may pass it by.

## 7. What is not modelled

* Read-only endpoints, statistics, logging, metrics, signatures, the pages of the
  dashboard that follow no service, generated protobuf code, manifests and
  scripts: no state that another step depends on.
* The order generator, trader profiles and clock sync: sampling and arithmetic on
  floats. What they can draw is a free choice of the actions that send.
* Extraction of archives and the text of Dockerfiles: success or failure of
  `Compile`.
* Histogram quantiles and the floating-point normalisation of scores.
* The heap as an array with its index maps (`Replay` has its order), and the SQL of
  the stores.
* The stub builder of submission-svc (stub.go, BUILDER_KIND's default, "for local dev /
  tests without Docker"): it marks a submission `ready` without building, pushing or
  scanning anything. `SubmissionPipeline` is the service with the BuildKit builder.
* A request the engine executes after the bot gave up *and* the event was
  replayed: `Fail` covers execution before the event, not after.
* A second upload in the same page (`BuildLog` follows one submission), and the
  graceful shutdown of the gateway.

## 8. Plan

Done: all services that keep state; the refinements of the telemetry path and the
rate limiter, checked and proved; every safety property of the runs proved.

Next, as the code grows: the heap of the reference engine as an array, below the
set of `Replay`, and the two hops of the telemetry path in one behaviour, so that
the order from `Emit` to the topic is one theorem instead of two.

Running it: `tlc -config X.cfg M` for each run of `PROJECT.json`, `tlapm M.tla` for
the eight proof modules.
