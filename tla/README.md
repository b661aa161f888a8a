# TLA+ models of event-probability-terminal

TLA+ specifications of this repository's own logic: the parts where order,
failure and time matter as state machines, its decision rules as operators. With
them come the TLC configurations that check small instances, and proofs, checked
by TLAPS, that hold for every value of the constants. Paths below are relative to
the repository (`src/` in `PROJECT.json`).

`PROJECT.json` is the index: components, runs, the source lines every
definition translates (`map`), a mutation for every checked property, the
hazards of the code, the disagreements found, and the theorems.

Contents: [1 The system](#1-the-system) · [2 What is hard](#2-what-is-hard-about-it) ·
[3 Modules](#3-the-modules-and-the-code) · [4 Runs](#4-what-tlc-checks) ·
[5 Fairness](#5-fairness) · [6 Proofs](#6-what-is-proved) ·
[7 Disagreements](#7-where-the-code-and-its-documents-disagree) ·
[8 Left out](#8-what-the-models-leave-out) · [9 Plan](#9-plan)

## 1. The system

The terminal shows research signals and probabilities for event markets. It
reads public data (Polymarket, Binance, Coinbase), never trades, and keeps a
local research store. One Node process, the API gateway, serves a Next.js
frontend; capture commands run the same code from the shell. Everything is
single-threaded JavaScript: a turn runs to its next `await` or to its end, and
all concurrency is interleaving between turns of one process, plus the other
processes on the same files, the browser, and the network.

| Component | State it keeps | Operations | What makes it correct | Modelled in |
| --- | --- | --- | --- | --- |
| Realtime WebSocket client `packages/research-signals/src/realtime/binance-spot-ws.ts` | current socket, reconnect count, last tick time, stale interval, reconnect timeout, closed-by-user flag | `start`, `stop`, four socket handlers, two timers | one socket at a time; `stop` is final; a bounded number of reconnects between ticks; failure is reported | `RealtimeClient` |
| Realtime SSE endpoint `apps/api-gateway/src/server.ts` (`GET /market-data/realtime`) | per request: `closed`, `lastTick`, `connectionStatus`, cleanup list | client callbacks, `send`, `close`, catch block | nothing written after close; status is that of the upstream; every socket goes away with its request | `RealtimeStream` |
| Realtime price card, short-window panel `apps/web/app/RealTimePriceCard.tsx`, `short-window/ShortWindowRuntimePanel.tsx` | EventSource, payload, status | event listeners, `onerror`, effect cleanup | never shows an old, foreign or unbacked price as healthy | `RealtimeCard` |
| Capture jobs `packages/research-signals/src/capture/` | none between runs; the store | five jobs, capture-once, snapshot-once, `POST /capture/run`, commands | no duplicate rows; `capture_runs` accounts for what is stored; provenance is kept; runs end | `CaptureRuns` |
| Capture scheduler `.../capture/scheduler.ts` | `lastRun` of each job, a timer | `start`, `stop`, `runDueJobs` | runs of a job keep their distance; no due job is left behind | `CaptureScheduler` |
| JSONL research store `.../store/jsonl-store.ts` | tables in memory, one file per table | `init`, inserts, reads, `close` | no duplicates; memory covers the file; what was reported as stored is there after a restart | `JsonlStore` |
| SQLite research store `.../store/sqlite-store.ts`, `schema.ts`, `index.ts` | database handle, tables, unique indexes | the same interface | the same, with several processes on one file | `SqliteStore` |
| Kline history and cache `.../ohlcv/binance-history.ts`, `market-data-klines.ts` | none; the store as a cache | paged fetch, coverage check, fetch and refill, derived intervals | history is whole or says it is not; the cache is no worse than the provider | `Klines` |
| OHLCV adapters `.../ohlcv/binance-spot.ts`, `coinbase-exchange.ts`, gateway fallback | none | fetch, validation, fallback | the health names the source that gave the data; failing closed | `MarketData` |
| Polymarket discovery `.../polymarket/` | none | list, search, odds, history, closed markets | each market once, only open ones, no odds but the CLOB's | `Polymarket` |
| Ingestor, pricing client and service `services/`, `apps/api-gateway/src/pricing-client.ts` | none | normalise, quote, local fallback | what one lets pass the other accepts; a fallback is named | `Scanner` |
| Fair value and eligibility `.../fair-value/` | none | parse, eligibility, probability, edge | a market is bought only when underpriced for its reason | `FairValue` |
| Signal replay `.../replay/` | none | windows, past signals, outcomes, metrics | no look-ahead beyond what the code states; rates of decided bets only | `Replay` |
| Strategy lab `.../strategy-lab/` | a sweep's index and results | grid, sweep, ranking, walk-forward | out of sample is out of sample; results keep their place | `StrategyLab` |
| Short-window engine `.../short-window/` | none | phases, references, direction, replay | a direction is backed and in its phase | `ShortWindow` |
| Indicators, confluence, engine, backtest, console | none | numeric scoring with vetoes, quality gates, markers | vetoes precede scores; missing data fails closed | `Indicators`, `SignalRules`, `SignalConsole` |
| Signal panel and observations `apps/web/app/EventSignalRuntimePanel.tsx`, `signal-observations.ts` | snapshot, status, abort controller, observations in localStorage | interval refresh, abort, merge, resolve, persist | one observation per signal, resolved once, not before its time | `SignalPanel` |
| Pages, charts, shared types, UI kit, source registry | none | layout and declarations | – | – |

How they interact:

- The browser's `EventSource` opens `GET /market-data/realtime`. The handler
  creates one WebSocket client *per request* and is called back by it
  (`onStatus`, `onTick`) inside the client's own turns. The callback may call
  `stop()` of the client that is calling it (a `once=true` request). Events
  travel to the browser as server-sent events; the `EventSource` reconnects by
  itself and gets a new handler and a new client.
- `POST /capture/run` and the `pnpm capture:*` commands run jobs that fetch,
  await, and insert into the research store. Requests overlap inside the
  gateway and share one store object. A command is a process of its own.
- The research store is SQLite if the module loads, otherwise JSONL files. The
  kline endpoint, the replay and the strategy lab read back what was captured.
- The replay calls the fair-value signal, the strategy lab calls the replay,
  and the console and the short-window replay call their engines on candles cut
  at the time they judge.
- The web panels poll the gateway and keep their observations in localStorage,
  which all tabs of a browser share.

## 2. What is hard about it

The full list, each with its line and the property that watches it or the
reason there is none, is `hazards` in `PROJECT.json`. In short:

- **Callbacks of dead sockets.** The socket handlers close over `this`, not
  over the socket they belong to. Error and close events come after `stop()`,
  after a reconnect was armed, or while the handler has already answered.
- **Status as shared state.** What a request reports is one variable written
  by several sockets and timers. "stale" can be written over "failed".
- **Check, await, act.** Capture requests fetch the same data and insert it
  later; scheduler sweeps read a clock and go on with it while later ones
  start; processes query for a duplicate and insert.
- **Partial failure.** A job of several symbols and intervals fails in the
  middle; recording the run may itself fail after the data was stored; a
  process may die between the two; one provider answers and the other fails.
- **Memory before disk.** The JSONL store updates memory, then appends. An
  append can be refused or torn, and the next append continues the torn line.
- **Provenance.** Live and mock captures share a store, and some queries do
  not ask which is which.
- **Clients that poll.** Each refresh aborts the previous one; two tabs write
  one list.
- **Boundaries of time.** Train and test windows, candles that are still
  forming, phases in rounded seconds, pages that do not hold the range.

## 3. The modules and the code

| Module | Models | Extends or implements |
| --- | --- | --- |
| `PriceFeed` | abstract specification: what one price subscription promises | – |
| `RealtimeClient` | `BinanceSpotRealtimeClient` | – |
| `RealtimeStream` | one realtime request: client and handler | extends `RealtimeClient`, implements `PriceFeed` |
| `RealtimeCard` | card and panel in the browser, EventSource, events in flight | extends `RealtimeStream` |
| `CaptureRuns` | capture requests over one store | – |
| `CaptureScheduler` | sweeps over the capture jobs | – |
| `ResearchStore` | abstract specification: what a store promises to whoever inserts | – |
| `JsonlStore` | one table of the JSONL store, its file and its processes | implements `ResearchStore` until an append fails |
| `SqliteStore` | one database and the processes on it, statement by statement | implements `ResearchStore` |
| `MarketData`, `Klines` | one live request; history, cache and charts | – |
| `FairValue` › `Replay` › `Polymarket`, `StrategyLab` | rules, each over the one before | each extends the one before it |
| `FairValue` › `ShortWindow` › `Indicators` › `SignalRules` › `SignalConsole` | the same for directional signals | each extends the one before it |
| `Scanner` | ingestor, pricing service and gateway | – |
| `SignalPanel` | the panel's refreshes and its log | extends `FairValue` for small helpers |
| `RealtimeProofs`, `CaptureProofs`, `JsonlProofs`, `SqliteProofs` | theorems about the state machines | the module they are about |
| `MarketProofs` | theorems about the rules for candles, event markets and the strategy lab, for all inputs | `Klines`, `MarketData`, `Polymarket`, `Scanner`, `StrategyLab` |
| `SignalProofs` | theorems about the rules for directional signals, for all inputs | `SignalConsole` |
| `ResearchRulesProofs` | theorems about the panel and the sweep, and the invariants of `research_rules` | `MCResearchRules`, `MarketProofs`, `SignalProofs` |
| `Lists` | sorting, filtering and adding up of a list by its positions | – |
| `CollectionTheorems` | lemmas on sums over finite sets and on the lists of `Lists` | – |
| `MC*` | instances for TLC | |

Operators named in a comment as *Mutant of X* are not part of the models. They
are plausible bugs, and for each checked property one of them is known to break
it under the same configuration (`mutants` in `PROJECT.json`).

### RealtimeClient, RealtimeStream

A step is a JavaScript turn. The client's actions carry the names of the
methods and handlers (`Start`, `Stop`, `OnOpen`, `OnTickMessage`,
`OnBadMessage`, `OnError`, `OnClose`, `ReconnectFires`, `StaleCheck`) and
change its fields exactly as the code does. The callbacks a turn makes are its
output `calls`; `RealtimeStream` joins every client action with what the
handler does in them, `HandleStatus` for `onStatus` and `StreamTick` for
`onTick`, and the events written are `sent`. `ws` is the network's view of each
WebSocket. The environment may open, fail, close, or fall silent at any time; a
socket that failed or was closed gets its close event later. A socket object is
identified by a member of `Sockets`, which is free again after its close event.

Time is abstracted to what the code compares: `lastTick` is never set, within
`staleAfterMs`, or older. A message is a tick or one the parser rejects.
`once` is the query parameter. `peerGone` is the broken response, which the
server may notice later (`RequestClosed`).

`PriceFeed` has no sockets, timers or callbacks: a phase and a number of
retries. `RealtimeStream` is shown to implement it under the mapping `Phase`,
which reads the phase from the handler's flags and the current socket.

### RealtimeCard

Adds the EventSource (`link`), the events on their way (`inbox`), and what the
two components make of them: `card` of the price card, `panel` of the
short-window panel, which keeps its last price when an event has none and does
not listen to `error` events. Reconnection and a change of symbol replace the
gateway's request by a new one. The old one has no more way to reach the
browser, and that it winds down is a property of `RealtimeStream`. An `error`
event of the server runs the listener and `onerror`, and a connection error runs
both with an unparsable event, as in the browser.

### CaptureRuns, CaptureScheduler

`req[r]` is a request's program counter and the local variables of its job:
the plan of jobs, the part it is at, the batch it fetched, warnings, failures,
counts. `Begin`, `StartJob`, `Fetch`, `Insert`, `Throws`, `Record`,
`RecordAggregate` follow the code from await to await: fetch and insert are
different steps, and an insert is one turn. `InitThrows` and `RecordThrows` are
the store errors nothing catches. `Restart` ends the process with all requests
under way and starts another over the same store, perhaps in the other mode of
`EPT_LIVE_MARKET_DATA_MOCK`. The store is used through its interface, a set of
rows with its duplicate check on `Key`. Statuses are computed as `statusFrom`
and the jobs' own counting do; of a warning's text only whether `statusFrom`
looks for it is kept.

`CaptureScheduler` has the sweeps of `createCaptureScheduler`. A sweep reads the
clock once and then starts its due jobs in their order, awaiting each; ticks and
calls of `runDueJobs` start other sweeps meanwhile, and a job may reject, which
ends its sweep and, for a timer's sweep, the process (nothing catches it).

### JsonlStore, SqliteStore

`JsonlStore` is one keyed table: `file` is the lines on disk with the records in
their text and whether they parse, `table` is what each process has in memory.
An insert goes record by record (`SkipRecord`, `AppendRecord`, `Return`), because
other processes write to the file in between and because it can stop in the
middle: `AppendThrows` when the disk refuses or takes part of a line, `Dies`
when the process ends. A line torn off before its newline is continued by the
next append, and neither record can be read after that. `Open` is `init()`,
which fails if any line does not parse.

`SqliteStore` has the rows of all tables in the order they were inserted, with
the columns each table's duplicate query and unique index compare. An insert is
`Select` (validation and duplicate query) and `InsertRow` (the INSERT, which the
index may refuse), record by record, and statements of other processes come in
between. `Busy` is a locked database, `Refuse` a record that `assertStoreSource`
rejects, `Close` the gateway's `onClose`, after which an insert opens the database again.
A row carries `seen`, the number of rows its duplicate query could see: a
history variable for the properties, which no action reads.

`ResearchStore` is the contract: a record an insert answered for, as inserted or
as already there, is stored or has its like there, and nothing stored is lost.

### The rules

These modules have no state of their own. Each translates the functions of its
package into operators on sets, sequences and records, in integers of the
smallest unit that the properties tell apart (minutes, hundredths of a percent,
basis points). The library functions they use are inputs: the normal
distribution is a number that comes with the input, a reply of a provider is a
record of its kind and rows. `MCResearchRules` picks an input of one topic in
each behaviour and judges the operators' results against a definition of what
the rule promises, which is stated without the rule's own steps wherever there is
such a statement: all closed candles of the provider in the range, the bets a
person could have bought, the signal on the candles cut at its time, the mirror
image of a market.

Three topics have behaviours of their own: the sweep of the strategy lab, whose
workers take the next index and await their replay (`StrategyLab`); the signal
panel (`SignalPanel`), with its refreshes, the interval, aborts, navigation, page
loads and the log in localStorage; and the capture scheduler.


## 4. What TLC checks

Every run ends with the whole state space explored.

| Run | Instance | Question | States |
| --- | --- | --- | --- |
| `realtime_stream` | 2 sockets, 3 reconnects | Is there ever a second feed? Is cleanup final? Are statuses true? Do retries end? Is `PriceFeed` implemented? | 1,066 |
| `realtime_card` | 2 sockets, 1 reconnect, 2 events in flight | Is what card and panel show backed by the current request, and does a failure reach them? | 6,032 |
| `realtime_card_doc` | the same | Does an old price become healthy only by a new one? (violated) | |
| `capture_once` | 1 request, 5 jobs, 2 parts | Does the aggregate agree with its jobs? Does the request end? | 153,684 |
| `capture_concurrent` | 2 requests, 4 job types, 2 parts, 2 moments | Are rows unique, do runs account for rows, is a success complete? | 1,998,916 |
| `capture_report` | 2 requests, replay and strategy lab | Do live reports rest on live replays? (violated) | |
| `jsonl_store` | 2 processes in turn, 3 records, batches of 2, all faults | No duplicates, memory covers file, nothing reported as inserted is lost or served in part, `ResearchStore` until an append fails | 138,768 |
| `jsonl_durable` | the same, refused appends only | Is what was reported as stored still there? (violated) | |
| `sqlite_store` | 2 processes at once, 5 records, batches of 2 | Are keys unique whatever crosses, what can two near snapshots be, how many inserts overlook a row, does the latest row go back, is `ResearchStore` implemented? | 574,160 |
| `research_rules` | one input per behaviour; panel, sweeps | Do the rules keep what they promise? | 717,276 |
| `short_window_reference` | the same | Is a short window, live or past, judged from the price it started at? (violated) | |
| `replay_odds` | the same | Are past signals the same whatever the odds of today? (violated) | |

The properties, by what they are after:

- `SingleFeed`, `CleanupIsFinal`, `OpenReportIsTrue`, `SilentAfterClose`: the
  callbacks of dead sockets do no harm although none of them checks where it
  comes from. They hold because an error handler only reports and only the
  close event arms the one reconnect timer.
- `KeepsFeedPromise`: the implementation of `PriceFeed`. Prices only while
  live, at most `MaxReconnects` retries between two prices, silence after the
  end.
- `RetriesEnd`, `SocketsDrain`: the client settles unless ticks keep coming,
  and a closed request's sockets go away.
- `OpenIsBacked`, `HealthyPriceIsFromThisRequest`, `LostLinkIsShown`,
  `FailureIsShown`: four ways a component could mislead, across the gateway, the
  connection and the browser. The second is a property of the card alone: the
  panel does show a price of an earlier request (section 7).
- `OneRowPerKey`, `RunsAccountForRows`, `SuccessIsComplete`,
  `RecordsAreSound` (types, and `AggregateMatchesJobs`), `RequestsEnd`: the store and its own account of how
  it was filled. `RunsAccountForRows` is an equation for jobs that continue
  after an error, and only an inequality for those that stop: these record no
  counts at all (section 7).
- `NoRecordTwice`, `OpenStoreKnowsFile`, `InsertedIsWritten`, `AllOrNothing`:
  what survives of the JSONL store when its appends fail or are torn. Until the
  first of them fails it keeps the contract of `ResearchStore`
  (`KeepsStorePromise`, with the history variable `whole`).
- `KeysAreUnique`, `LatestNeverGoesBack`, `KeepsStorePromise`:
  several processes on one database. `NearSnapshotsAreExplained` says what is
  left of a rule that no index enforces: two snapshots of one market, too near
  to both be stored, exist only if the first was not yet there at the second's
  query or was no longer among the rows the query looks at. `RacesAreFew` bounds the
  first case: a row is overlooked by at most one insert of each other process,
  because a process asks again before each record of its batch. One query for a
  whole batch breaks it (the mutant).
- `SchedulerIsSound`: two starts of one job are its schedule apart and a sweep
  leaves no due job behind, sweeps crossing as they like.
- `PanelStaysHonest`, `PanelKeepsItsPast`: what is shown is the selected
  console's or says that it is loading; each signal is observed once and
  resolved once, not before its time, by the candle it was resolved with; while
  the page stays, the log grows in front and keeps what is resolved.
- The rules, each a conjunction of named parts, explained at the parts:

| Invariant | Parts |
| --- | --- |
| `CandlesAreSound` | `ResponseIsSound`, `ResponseIsBest`: live candles are the ones asked for, recent, of the provider the health names, and an answer that could be had is given. `HistoryIsHonest`, `FetchedOnceIsEnough`, `CacheIsWhole`: pages give every closed candle of the range or the answer says it does not; the store never hides a hole. `DerivedCandlesAreRight`, `RangeFitsPages`: a 10-minute candle has both halves; which ranges of the chart the pages can hold |
| `PolymarketIsSound` | `DiscoveryIsSound`, `EligibleOddsAreLive`, `ClosedWindowsNest`, `HistoryIsWhole`: each market once; a market is eligible only by odds of its book; a longer look-back adds windows and loses none. `ScannerIsHonest`: a price names its engine |
| `FairValueIsSound` | `SignalsArePriced`, `EveryMarketIsAccounted`: a signal to buy has an edge over the market's price on its side only; each market is eligible or rejected, with a reason |
| `ReplayIsSound` | `SignalsIgnoreLaterCandles`, `ReplayAddsUp`, `NoRateIsMadeUp`: candles that open after a signal never change it (the odds of an open market are of today all the same: `replay_odds`); counts are those of the bets; a rate exists only for decided bets |
| `LabIsSound` | `GridIsWhole`, `SweepKeepsPlaces`, `ChoiceIsOutOfSample`, `ParametersOnlyFilter`, `CandidatesAreSound`: each point of the grid is evaluated once, whichever worker takes it; a walk-forward choice does not see its test window |
| `ShortWindowIsSound` | `DirectionIsBacked`, `WindowsKnowThePast`, `WindowsAddUp`: a live direction comes from a fresh price of a known rule's window; a replayed window is made of candles closed by then; its bets are counted once and settled by the end price against the reference the event states (which reference that is: `short_window_reference`) |
| `SignalsAreSound` | `DirectionsAreEven`: the mirror image of a market gets the mirror image of the signal, but for volume. `ConsoleFailsClosed`, `FailuresStayApart`, `PastIsKept`, `BacktestIsHonest`: missing data gives no direction; a source's failure is that source's; a marker does not change when candles are added |

**Bounds, and why they are enough.** `MaxReconnects` is 3 as in the code's
default; with the card it is 1, since the card only sees that there was a retry
and that it was the last. Two socket identities suffice to see a second socket
beside the first; the client never has more than one alive, which is itself
`SingleFeed` and proved for any number. `MaxInbox` 2 lets an event wait behind
another and holds the two events a failed start writes at once.

Two capture requests are the least that interleave; two parts let a job fail
after storing something and let one request be a part ahead; two moments
(`MaxClock`) let jobs share a key or not. The concurrent run leaves out the
fair-value job, which has the shape of the market job, and the aggregates, which
the single request run has.

Two processes give the JSONL store a predecessor and a successor; three records
give one that is there before a failed append, the one that fails and one that
comes after it. In SQLite two processes cross statement by statement; three
snapshots of one market, two near and a later one, with `LookBack` 1 for the ten
rows of the code and `NearWindow` 1 for its minutes, let the later one hide the
first from the duplicate query. The other two records are a replay result, with
a unique key and a latest-row query, and a candle of the mock provider that
claims to be live. No call starts at `MaxRows` rows or more.

The rules are judged on pages of two rows, up to three of them, so that a range
ends within, at, and after a page. Clocks, odds, strikes and thresholds are taken on
both sides of each comparison and at it. Three sweeps of the scheduler
over three jobs let one start while another awaits and a third follow; its times
go from 3, when every job's schedule fits after zero, to 6. The panel has
two consoles and a log of two, so that the log overflows. Symmetry is used for
requests, processes and records in runs that check safety only.

`CHECK_DEADLOCK FALSE` stands where the system may stop: a closed request
whose sockets are gone, requests that were answered, a file that cannot be
opened again, a database with no rows left to take, a rule that was judged, a
scheduler that was stopped.

## 5. Fairness

Only what the runtime guarantees is assumed.

- `StreamFairness`: the handler starts its client; a connection attempt ends
  in open or error (the operating system times it out); a closing or failed
  socket gets its close event; a pending timeout fires; the server notices a
  broken response. *Not* assumed: that ticks arrive, that an open socket stays
  open or ever fails, that the stale check runs.
- `FairCardSpec`: the browser dispatches events that arrived. Nothing about
  the gateway is needed, since `FailureIsShown` assumes a feed that
  failed for good.
- `FairCaptureSpec`: a request's next step happens, because every fetch has a
  timeout and the store is synchronous. Restarts are free to kill requests.

The panel's refreshes and the scheduler get none: a refresh does starve when
answers are slower than its interval, and a sweep may wait for its job for ever.

## 6. What is proved

TLAPS checks these for every set of sockets, requests, processes and records,
every schedule and every bound, from the named assumptions on the constants alone
(`ClientAssumption`, `CardAssumption`, `CaptureAssumption`, `JsonlAssumption`,
`SqliteAssumption`, `SchedulerAssumption`, `PanelAssumption`), which TLC evaluates in the runs.

**`RealtimeProofs`, the request.** `StreamTypes` (type correctness), then the
inductive invariant `StreamIInv`, which ties five facts together: before
`start()` nothing runs; only the current socket is in use and none while a
reconnect is pending; handler and client close together, and a socket is
closed from this side only by closing them; and the two properties
`CleanupIsFinal` and `OpenReportIsTrue`. Neither of the last two is inductive
alone: "no second socket" needs to know that the timer runs only when no socket
is alive, that needs to know which socket a close event can belong to, and
"open" being true needs that no other socket's event can leave it standing.
From it follow `StreamSingleFeed`, `StreamCleanup`, `StreamOpenReport`,
`StreamSilence`, and `StreamKeepsFeedPromise`: the initial states of
`RealtimeStream` map to initial states of `PriceFeed`, and each step to a step
or a stutter.

**`RealtimeProofs`, the browser.** `CardTypes`, `CardOpenIsBacked`, `CardPriceIsCurrent`
and `CardShowsLostLink`, with `CardInvariant`. What a component shows lags
behind the gateway by the events in flight, so none of these is inductive. The
invariant `CardIInv` speaks of those events: if the last of them says "open" the
gateway still does, none carries a price before the request has one, and the
request's first price is shown or on its way. It uses `StreamIInv`, through the
lemmas about the request, for the steps of the gateway.

**`CaptureProofs`.** `CaptureOneRowPerKey`, with `CaptureIInv`: the batch a
request carries between its fetch and its insert never has two records of one
key. That is the part that makes the property inductive: the duplicate check
compares a batch with the rows of its own turn, so two records within the batch
would pass. `CaptureSuccessIsComplete`, with `CompleteIInv`: while a job has
neither failed nor warned, each part before the current one is in the store and
the batch has the record of its part. A job leaves its parts early only by an
error, so that a success has them all.

`CaptureAccounts` (`RunsAccountForRows`) and `CaptureRecordsSound`
(`RecordsAreSound`: types, and aggregates that add up) share the invariant
`AccountIInv`. The runs of a request that are in the store are the results it
holds, and at most one aggregate of them; its plan tells which jobs have recorded and
which one it is at; it owes for one job at a time, and the records of a batch are rows of
that job. With that, each action moves the three sums of the account by the same
amount. The sums are those of the community modules, a recursive function that
picks elements in an order nobody knows: `CollectionTheorems` shows, by induction over
finite sets, that adding, removing or renaming an element does what one expects.
`AggregatesMatch` then follows: the results an aggregate sums up are the runs in
the store, none of them twice.

`SchedulerSound` (`SchedulerIsSound`), for any list of schedules, is about
`CaptureScheduler`. Its invariant adds that `lastRun` is the time of the last start: it is set before
the await, by sweeps that may be older than the last one, and yet never goes back,
since an older sweep does not find due what a later one has started.

**`JsonlProofs`.** `JsonlTypes`, `JsonlInserted` and `JsonlAllOrNothing` hold
whatever fails and however many processes share the file. `JsonlNoRecordTwice`
and `JsonlKnowsFile` assume `~Shared`: one process at a time. With two the
property is false, since each looks for duplicates in its own memory. The
invariant `JsonlIInv` adds to the two properties that a closed process has no
insert under way and that only one is open: then the table of the open process
covers the file, a record not in the table is not in the file, and appending it
makes no second copy, not even behind a torn line. `JsonlKeepsStorePromise`
has no assumption: until an append fails, each step is one of `ResearchStore` or
a stutter, since no table is ahead of a file that loads (`TableIsWritten`), also
where several processes write one file and store a record twice. The condition is
needed, as `jsonl_durable` shows.

**`SqliteProofs`.** `SqliteTypes`, `SqliteKeys`, `SqliteNearExplained`,
`SqliteRacesFew`, and `SqliteKeepsStorePromise`: `SqliteStore` implements
`ResearchStore`. Rows are only ever appended. What a process has found out by a
query stays true of the rows that query could see (`CheckedIsKnown`), and each row
keeps what its own query saw (`RowsAreKnown`); for the refinement, a
record its insert has passed is stored or has its like (`DoneIsStored`). For the races
the invariant counts, for each row, the rows that overlook it and the records that may
still do so (`RacesAreBounded`): an insert turns one of the second kind into one of the first,
and its process asks again before it is one of them anew. It assumes finitely many processes.
`SqliteLatest` (`LatestNeverGoesBack`) needs that a table with rows has a latest one;
for any finite set that is an induction, and here it is an invariant of appending
(`TablesHaveLatest`).

**`ResearchRulesProofs`.** `PanelHonest` (`PanelStaysHonest`) and
`PanelPastKept` (`PanelKeepsItsPast`), for any minutes, prices, consoles and length
of the log. The invariant `PanelIInv` adds the entries' types, that a pending
entry's time to resolve lies after its console, and that what the shown console
leaves pending is due later: so an entry is resolved by the first console that
can, not by a later one at another price. `SweepSound`: however the workers of
the strategy lab's sweep cross, every result is at its place and none is missing
unless a replay failed. `SweepIInv` says that each set before the
cursor has its result or exactly one worker that is at it, and that a worker
leaves, unless by a failure, only when the cursor is past the last set. `LabSound` takes this part of
`LabIsSound` from it.

**`MarketProofs`, candles.** Theorems about the operators of `Klines` and `MarketData`, for all
inputs rather than those of a run.

- `HistoryHonest`: for any candles of the provider, any kind, size and number of
  pages and any range. `PagesKept` is the loop's invariant: what is due before the
  cursor has been gathered. It is kept because a page holds the *first* rows of what
  is due from the cursor on (`PageIsFirst`), also where it is shorter than asked for
  or repeats rows, and the cursor moves just past the last of them.
- `CacheWhole`: if an open were missing, the next stored one after it would have
  an earlier one less than two steps before it, and nothing fits in between. Without
  the check for gaps this fails (the run's mutant).
- `FetchedOnce`: a range of n steps has at least n − 1 closed candles, which is at
  least four fifths of n or the one candle the code is content with, and their ends
  are near enough to the range's.
- `DerivedRight`: after n candles, those that share the last one's bucket are in the
  bucket and all before are in derived candles of whole buckets (`Bucketed`). It
  rests on `InOrderSorts`: the list has each candle once, by its open.
- `RangeFits`: every pair of interval and range.
- `ResponseSound` (`ResponseIsSound` and `ResponseIsBest`): any request, any replies of
  both providers, rows in any order and with any of them bad. It follows the candles
  from the adapters (`ParsedIsFresh`: the closed ones are arranged by their opens, so that
  the last of them is the latest, and the lookback's worth of them ends with it) to the
  fetcher's choice between the providers.

`Fetchable` assumes that a provider's candles are at least a step apart, `OnGrid`
that they open at multiples of the step (weeks open on Mondays: count time from
one), and `FetchedOnce` that the range does not end in the future, since
`resolveRangeForInterval` ends it at the time of the request. Months are not all of
one length, so that for the interval `1M` the first two do not hold; for history
a page would have to end within the range to matter, and it holds 1000 months.
`CandlesSound` (`CandlesAreSound`, in `ResearchRulesProofs`) shows that every
request, reply and provider of the run is of this kind.

Sorting, filtering and adding up are the obstacle in these proofs: `SortSeq`, `SelectSeq` and the
folds are recursive, so that the prover knows them by name only. The model uses `Arranged`, `Kept` and
`Summed` of `Lists` instead, which say by positions what a stable sort gives and by recursive
functions what a filter and a sum do. `CollectionTheorems` proves of any list, by induction over
finite sets, that such a function exists and is unique (`RecursionExists`), that
places are taken once each (`PlacesAreTaken`), that a sorted list has
exactly the chosen elements in the order of their numbers (`ArrangedIs`), what a filter keeps
(`KeptIs`, `KeptEnumerates`), and what a sum and its deepest fall are bounded by (`SummedWithin`,
`DrawdownFits`). TLC evaluates `Arranged` slowly, so that long lists keep `SortSeq`.

**`SignalProofs`, directions.** `DirectionsEven` (`DirectionsAreEven`, the run's first part of
`SignalsAreSound`), for any features of the shape a snapshot has (`FeatureSets`), any
context, horizon and quality of the data, and all three profiles.

- *Even*: every module's score is odd under the mirror of a market and every risk
  even (`ScoresAre`), roundings towards zero are odd (`OverIs`), so that the vetoes are the same
  and the total is the opposite. The one exception is a volume that is abnormally low, for
  which the code counts a fall like one with high volume and a rise hardly at all; the property
  leaves it out.
- *Backed*: a total that passes the long threshold cannot come from the other modules
  alone (`Demanding`: 36 of 100 of the profile's least trend, a momentum below the 5500 from
  which `alignment` vetoes, and the most of volatility, volume and context do not reach it).
- *Kept by the bolder profile*: each threshold of the bolder profile is the weaker one, so
  its vetoes are among the other's (`VetoesShrink`). Its weight of the volume is up to 2
  smaller, which moves the total by at most 181 and the confidence by at most 139
  (`TotalsAreClose`, `SurenessIsClose`), less than the thresholds differ (`Bolder`).
  A change of the profiles that breaks one of these breaks `ProfilesAre`.

**`SignalProofs`, consoles and charts.** `ConsoleClosed` (`ConsoleFailsClosed`) is for any
candles and context and any source whose age, where it is known, is that of its last candle
(`IsTimedSource`; all three sources of the gateway are). `FailuresApart` (`FailuresStayApart`)
needs nothing but that the other source did answer. `PastKept` (`PastIsKept`), for any number of
candles in strictly rising order: the windows of a shorter list are the first windows of the
longer one (`WindowOfFirst`), so that a marker and a record depend on their own candles alone; the
last ten markers of a shorter list contain those of the longer that are as old (`KeptPrefix`).

**`SignalProofs`, backtests.** `BacktestSound` (`BacktestIsHonest`), for any list of samples.
Equity stays at or below its peak and above nothing as long as a price no more than doubles
(`SampleRecords`), which a bet on a fall needs: at more, it loses more than all, and
the drawdown passes one.

**`SignalProofs`, short windows.** `DirectionBacked` (`DirectionIsBacked`), for any rule, ticker,
candles and spread, at any time since 1970 and with prices above zero: the features of any market
are numbers (`FeaturesAreNumbers`, down to the integer square root of the volatility), and what a
direction says of them is read off the guards. `WindowsPast`
(`WindowsKnowThePast`), for intervals of 5, 10 and 15 minutes, candles of whole minutes and rules
that average over five minutes or less: what a window and its signal are made of, start
reference, averages, price and outcome, is of candles that were closed by then, and what is kept of
a list twice is what is kept of it once (`KeptOfKept`). `WindowsHonest` (`WindowsAddUp`), for any
duration and whether or not the fetch failed, and candles in order of time: the price a bet is
judged by is the last close by the window's end, also among the candles fetched for the replay
alone (`FetchedClose`), and it is compared with the reference of the event, a price that is known
(`ReferenceAtTick`: the one at the signal, which is the divergence of `short_window_reference`). The clause
on who wins is for a rule that settles by the price at the end and counts a tie as unknown, since
an average or a tie is settled otherwise.

**`MarketProofs`, fair value and replay.** `FairValueSound` (`SignalsArePriced`, `EveryMarketIsAccounted`):
any list of bound markets, any candles, any costs and thresholds that are not negative, and
any probability in the place of the normal distribution. A side's edge is that side's
chance less its price and the cost, also where a rejected estimate or a missing price
stands as `Null` (`IsPriced`, `MarkerIsPriced`); that the other side is not worth as much follows
where the two prices sum to one or more, and only there: the property says so. What the
candles are sorted to does not matter to it, only that the estimate is a probability or
rejected (`EstimateIs`).

`ReplayHonest` (`ReplayIsHonest`), for any run as `IsReplayRun` has it: any window, candles,
options, closed markets, outcomes and price histories, and at most the twenty open markets the code
asks for (`runner.ts:71`). The last, and that prices of outcomes lie between nothing and one,
is because an unknown number is a number in the model, which a sum of losses must not reach. A
signal is the same without the candles after it since it is made of `UpTo` of them
and these are the same. Each result has one status (`SoundResultsAddUp`), so that the statuses
count the results; the sums are by induction over the list (`SummedBuilds`, `DrawdownFits`).

**`MarketProofs`, Polymarket and scanner.** `DiscoverySound` (`DiscoveryIsSound`) follows the
markets through the five lists the code makes of them (`Discovered`), for any markets and any
answers of Gamma, failures included: what is kept of each list, that the first of each id is
kept, and that a cut at the limit takes nothing where everything fits. `ClosedNest`
(`ClosedWindowsNest`): a page has at most a hundred rows, and with a limit of a hundred nothing is cut
off, so that taking the part and taking it from the whole come to the same. `HistoryWhole`
(`HistoryIsWhole`): the last of the points up to a time, once they are sorted, is the latest.
`ScannerHonest` (`ScannerIsHonest`), for any events, classifications and answers of the engine:
each market is shown or rejected, and the counts of the summary add up to the rejections it names
since each reason has one entry.

**`MarketProofs`, strategy lab.** `GridWhole` (`GridIsWhole`), for any lists of values and any
limit: a combination is the number of its place written in the sizes of the seven lists, and two
numbers below their product differ in a digit. `StricterLeavesLess` (`ParametersOnlyFilter`) follows one
result through the checks that turn it away. `ChosenOutOfSample` (`ChoiceIsOutOfSample`), for any
ratios of the windows: the replay of a training keeps the same results of a file whether or not the
later ones are in it (`BlindReplay`), so that the same set scores best, and the start of a window is
moved by the test's length (`WindowsRoll`). `CandidatesHold` (`CandidatesAreSound`): the reasons against a
set in its sample are read from its metrics (`ResultIsJudged`) and those in its validation from the tests of
the windows that chose it (`ValidationAgrees`), and the ranking, a stable sort by score, puts
a better score first (`RankedIs`, `HeadIs`).

They assume a file of mock results as `IsMockFixture` has it: at most 80, with profits within a share,
because an unknown number is a number in the model, which a sum of losses must not reach. What a bet
costs is at most two tenths of a share, as the grid's sanitised fees and slippage are (`IsParameters`).

**`ResearchRulesProofs`, the invariants of the run.** `CandlesSound`, `PolymarketSound`,
`FairValuesSound`, `ReplaysSound`, `LabSound`, `ShortWindowSound`, `SignalsSound`: every input that the run
picks is of the kind the theorems above are about, so that the invariants follow from them. They
show too that what the theorems assume is not empty. `ConfluenceIsEven` and `EligibleOddsLive` are parts
of two of them; the latter is for any market and any answers of the CLOB: without a reason against
the market no answer failed, and each price is the CLOB's own, since either both midpoints are
known or Gamma listed no prices at all.

**Only model-checked.** Liveness under fairness (`RetriesEnd`, `SocketsDrain`,
`FailureIsShown`, `RequestsEnd`) and ENABLED are outside the prover's reach, as
are RECURSIVE operators and induction theorems that take an operator.

## 7. Where the code and its documents disagree

Five runs expect a violation, each of a sentence the repository states.

1. **An old price becomes healthy again** (`realtime_card_doc`,
   `RealTimePriceCard.tsx:58`). `docs/runbooks/local-dev.md:166` says the UI
   must not present the last price as healthy after the feed became stale or
   failed. After a stale event, any later health event that carries the old
   tick (for instance the one a reconnect sends) clears the warning.
2. **A live report from a mock replay** (`capture_report`,
   `strategy-lab-job.ts:42`). ADR 0026 forbids conflating live and mock rows.
   The live strategy-lab job asks for the latest replay without its source.
3. **Stored, says the retry** (`jsonl_durable`, `jsonl-store.ts:108`). A record
   whose append was refused stays in memory. Retrying the insert reports it as
   already stored; after a restart it is gone.
4. **A window that starts at its end** (`short_window_reference`). The engine takes
   the first tick in a window for the price at its start (`window-engine.ts:95`), and
   both its callers hand it one tick only. Live (`server.ts:637`) that is the ticker,
   reference and current price at once, although `signal-engine.ts:88` gives a direction
   the reason that the price is above its reference. In the replay
   (`short-window/replay.ts:117`) it is the price at the signal, a minute before the
   end, although `rule-templates.ts:45` compares the price at the end with the
   reference at the start and ADR 0027:75 has the replay label with the same rule: a
   bet upwards on a window that rose for four minutes and fell a little in the last
   is lost. Each half of the property is violated by itself; TLC stops at the first.
5. **Signals of the past from the odds of today** (`replay_odds`,
   `replay/runner.ts:98`). `docs/api/research-signals.md:286` and ADR 0024:60
   forbid that Polymarket prices from after a signal influence it. A replay of a
   window that ended before now makes the signals of open markets from the odds it
   has just fetched.

Met while modelling and not the subject of a run, but worth a look by whoever works on these parts:

- **Captures.** A job that fails after it has stored some of its parts is recorded as
  failed with counts of zero (`binance-candles-job.ts:43`); had the catch block passed
  its counts on, `statusFrom` would have made it partial.
- **Short-window panel.** It keeps the price of an earlier request beside the
  status "open" until the current request has one
  (`ShortWindowRuntimePanel.tsx:54`), and has no listener for `error` events.
- **Signal panel.** Every page load replaces the stored log by the new
  page's: the panel's state begins with the page's own observation, so that
  `current.length` is never 0 and `readStoredObservations` never called
  (`EventSignalRuntimePanel.tsx:57`), although `docs/architecture.md:190-193`
  and ADR 0016:27 speak of a log kept in localStorage. Applying a profile while auto refresh is on, or turning the
  interval off during a request, aborts the request and leaves the status
  "loading", the second with the Refresh button disabled. A request in flight
  when the console changes with the interval off is not aborted and overwrites
  it. Observations are resolved by the latest candle, however late. Two tabs
  overwrite each other's log.
- **Scheduler.** Jobs behind a failing one keep their `lastRun` and start with
  the next sweep; the failing one waits for its schedule. A timer's sweep that
  rejects is not caught and ends the process.
- **Replay.** `candle.timestamp` is the candle's open, so that "the last candle
  before" includes up to one interval of the future; the baseline strategy of the
  backtest has the same. A live replay of a window that ends now has no decided bet
  and hence no win rate.
- **Chart ranges.** Three months of 10-minute candles, which are made of
  1-minute candles, are the one range that does not fit in the pages
  (`RangeFitsPages`).
- **Signals.** Abnormally low volume raises a fall's volume score and lowers a
  rise's. A bandwidth under 1.2 % is already a "squeeze", so
  `minVolatilityBandwidth` never decides. The RSI of a flat market reads 100.
  Markers of the console's chart are computed from 35 candles without the
  failures and staleness of their source; steps of a preview count candles, not
  minutes; `expectedResolveAt` counts from the candle's open although the entry
  price is its close; `canObserve` does not ask for source failures or a missing
  price. `PENDING` never arises in the live short window.
- **Polymarket.** A market without `active` and `closed` counts as active. The
  limit is applied before `isActiveOpen`, so closed markets use up places. A book
  whose levels are not a list gives odds marked "mock" within a live response;
  they are not eligible. The query for closed markets has no date.
- **Scanner.** `live_public` sets no classification, and so never lists a market.

## 8. What the models leave out

- **Numbers and texts.** Of prices, probabilities, scores and messages only the
  distinctions that control flow makes are kept; where a rule computes, it
  computes in integers of the smallest unit that decides.
- **The gateway's query parameters**, the answers to malformed requests, the
  branches that read stored results (`useStored`), and **the mock branch of the
  realtime endpoint**, a fixed list on a timer.
- **Durations of fetches.** Timeouts at `gamma.ts:250` and `clob-public.ts:211`
  are cleared when headers arrive, and the pricing client and the ingestor's
  transport have none; the runtime's own limit ends such a fetch. In the models a
  fetch may fail at any time.
- **An exception in the reconnect timeout.** Nothing catches it; it ends the
  process, and no state is left to speak about.
- **Two tabs** of one browser: see section 7. `SignalPanel` has one. Its symbol and
  source mode do not change, and `localStorage` takes what is written.
- **Of the stores.** In `JsonlStore` records are near each other if they are
  equal, and no batch has a record that `assertStoreSource` refuses: an insert would end
  there, with the records before it stored, as it does in `SqliteStore`. In `Klines` an insert into the store does not throw
  (`CaptureRuns` has stores that do), months have one length and derived candles
  do not say whether they are closed.
- **The link of a card** is not lost a second time while it is retried, and a socket
  that is closing counts as open.
- **Of the rules**: symbol `ALL` is one asset in `Replay`; a scenario of
  `MockScenario` finds its price among its candles (`replay.ts:186` falls back to
  an open or to 0); candles of one time only ("interval could not be inferred",
  `probability.ts:48`) and floating-point variance; shares of six digits are
  truncated in `StrategyLab`, and a cursor past the last set stays there.
- **The short-window panel's countdown**, and the latency and source it copies.
- **`buildMockResponse` and the nesting of search replies** (Polymarket), the
  **markers of the short-window chart** and the joining of providers' health, the
  **texts of risk filters and confluence reasons**, and `engine.ts:334-451`,
  which nothing calls.
- **Read queries of the JSONL store**, filters over a list in memory. Those of
  SQLite that depend on order are modelled.
- **`createCaptureScheduler` in a process**: it is exported, modelled and proved
  about, and nothing in the repository starts it.
- **Pages, charts, shared types, UI kit**: layout and declarations.

## 9. Plan

Done: the realtime path from socket to screen, with its refinement and proofs;
the captures and their scheduler; both stores and the contract they are shown to
keep; the decision rules.

What remains, in order of weight:

| Step | What | Checks and theorems |
| --- | --- | --- |
| 1 | two tabs over one localStorage, once a page load keeps the log | no observation is lost |
| 2 | stored branches of the gateway over `SqliteStore` | a stored answer says that it is stored |
