# BullDogAlpha in TLA+

This directory is the verification development of BullDogAlpha: TLA+ modules
that model its web terminal and its services, the TLC configurations that check
them on small instances, and theorems that TLAPS proves for every value of the
constants. Paths are relative to the repository (`src/`). `PROJECT.json` maps
every definition to the lines it models and lists hazards, runs, mutants and
theorems.

## 1. The system

| component | state | operations | talks to |
|---|---|---|---|
| Market data gateway, `cmd/mdg` | active vendor and status, subscriptions, one vendor connection | control listener, ingestion loop, connection watcher, `processAndPublish` | Redis `mdg:control_events` (in), vendor websocket (in), ZeroMQ ticks (out) |
| Bar aggregator, `cmd/bar_aggregator` | a channel, a current and a previous bar per symbol | `runProcessingLoop` (router), `SymbolAggregator.run`, `processTick`, `publishBar` | ZeroMQ ticks (in), bars (out) |
| Data recorder, `cmd/data_recorder` | channel of records, batch, database, archive files | `runReceiverLoop`, `runFlushWorker`, `flushBatch`, `ArchiveDay`, `Stop` | ZeroMQ ticks and bars (in), SQL, files, SIGUSR1 |
| Risk node, `cmd/risk_node` | blacklist cache, circuit breaker | `RiskInterceptor`, `ListenBlacklistUpdates`, Lua `risk_check.lua` | gRPC from strategies, Redis (margin, blacklist, pub/sub) |
| EMS, `cmd/ems` | orders (`sync.Map` of `OrderRuntime`), degraded flag, write-ahead log | `SubmitOrder`, `CancelOrder`, `ForcePause`, `TransitionState`, `RecoverFromWAL` | gRPC from clients and the BFF, the exchange |
| BFF, `cmd/bff` | circuit state in memory and in Redis, clients, health, feed configuration, trades | websocket and HTTP handlers, `processOOBAction`, resume handshake, health loop, subscriptions, history, backtests | Redis, EMS `ForcePause`, the web terminal |
| Alpha engine, `src/alpha_engine` | per-strategy contexts, sub-portfolios, pending orders, bar barrier | `on_bar`, order placement and fills, backtest driver, data pipeline | ZeroMQ bars, risk node |
| Launchers, `start_all_services.py`, `start_docker_services.py` | child processes | start, supervise, stop | all services |
| Web terminal: link and circuit, `web/src/App.tsx` | sockets, retry timers, `wsRef`, badges, `circuitState` | `connectWS` and its handlers, mount, online and offline effects, `sendOOBAction`, `requestResume` | BFF over WebSocket and HTTP |
| Web terminal: selection and requests | selected ticker, granularity, interval, mode, watchlist, requests in flight | selection, subscriptions, vendor key and feed, resynchronisation, the effects that fetch | BFF `/api/mdg/*` |
| Web terminal: bars and figures | `tickData`, `candleData`, `volumeData`, trades | live ticks, history answers, prefetches, indicators, trade markers, headline figures | the two above |
| Web terminal: chart | the chart objects, the MACD pane, shields, cards, view | the effects of a render, crosshair, click, resize, tabs | the stores above |
| Web terminal: backtesting lab, `web/src/components/backtest` | configuration, results, run in flight, view, search, page | run, edit, preset, views, table | BFF `/api/backtest/*` |

Data flows MDG -> ticks -> bar aggregator -> bars -> data recorder and alpha
engine. Orders pass the risk node and are executed by the EMS; the two services
share no state, and no code of the repository forwards an order from one to the
other. Control flows web -> BFF -> Redis and `ForcePause`; prices, trades and the
circuit state flow back on every WebSocket link the terminal holds.

### What is hard about it

- **EMS.** Every gRPC call is a goroutine; lookup and registration of an ID are
  separate steps; the log write and the change in memory can part ways when the
  write fails; the process can crash between any two steps and must rebuild from
  a log whose last line may be torn. Correct means: what a caller was told
  survives, states follow the transition table, fills never exceed the order.
- **Risk node.** A 5 ms deadline means the caller can give up on a script Redis
  has run or will still run; `NOSCRIPT` makes it send the script again; the cache
  lags the blacklist; the breaker records outcomes of earlier states. Correct
  means: margin is conserved and reserved once per order, an approved symbol was
  not blacklisted throughout the call, the cache follows the edits it is told of,
  the breaker recovers.
- **Bar aggregator.** Ticks arrive out of order across window edges; channels
  fill up; sends fail. Correct means: a bar equals what its ticks say, a corrected
  bar reaches subscribers, every tick received is accounted for.
- **Data recorder.** Bounded channel, batches that fail, a shutdown in the middle
  of a send. Correct means: records are stored once and in order, shutdown ends.
- **MDG.** Control signals go through a channel of one place that three
  goroutines receive from. Correct means: each command reaches the loop.
- **Link and circuit.** Every lost socket schedules its own replacement, and the
  mount effect and the browser's online event start further ones without closing
  what is there. A command goes out on the newest socket only and runs under the
  context of its connection; the BFF writes memory, Redis, the clients and the EMS
  in separate steps from unordered goroutines, each of which may find Redis or the
  EMS out of reach, and statuses of one link overtake one another. Correct means: the
  command link is always there or on its way, a halt sent over a link reaches the
  EMS, the terminal shows the BFF's state once things are quiet.
- **Selection and requests.** A callback uses the values of the render that
  created it; requests are answered in any order and the store is keyed by symbol
  and granularity but not by interval; the BFF reads, changes and writes the
  watchlist without a transaction. Correct means: every change of the selection is
  asked for, so that the newest answer shows what is selected, and no symbol stays
  at "Loading..." unasked.
- **Bars and figures.** Ticks are folded into whatever bars are there, filed and
  quantised by a captured selection, with gaps filled and lengths capped; figures
  shown side by side come from keys loaded at different times. Correct means: the
  series are what the chart library accepts, and the figures agree.
- **Chart.** The chart objects are imperative and are kept in step by effects
  whose dependencies decide when they run; `setActiveSeries` inside an effect
  takes a second render; the mouse and the window can come between a render and
  its effects. Correct means: no sequence of clicks, data and renders leaves an old
  series, old bars or a chart of the wrong width on the screen, what is looked up
  is what is drawn, and the view the user chose is not taken away.
- **Backtesting lab.** A run outlives edits, tabs and views, and StrictMode mounts
  the lab twice, so that it starts with two runs at once. Correct means: the overlap
  stays that small and ends, results then never go back to an earlier run, the
  button comes back, the page exists.
- **Alpha engine** (planned): a barrier over symbols that must not be passed
  twice; accounting.

## 2. Modules

| module | models | is used by |
|---|---|---|
| `OrderLifecycle` | abstract: what a log of order events promises | `EMSRefinement` |
| `EMS` | handlers, state machine, write-ahead log, replay | everything below |
| `EMSRefinement` | EMS implements `OrderLifecycle` | `MCEMS` |
| `MCEMS` | TLC instance (symmetry of goroutines) | runs `ems_*` |
| `EMSProofs` | theorems about `EMS` and `EMSRefinement` | |
| `Sums` | the sum of a function over a finite set | `RiskNode`, `BarAggregator`, `BarMath` |
| `SumTheorems` | induction over numbers and set sizes, laws of sums, extremes of finite sets, recursive functions over an interval | the other theorem modules |
| `CircuitBreaker` | the breaker's methods, each atomic under its mutex | `RiskNode`, `BreakerClients` |
| `RiskNode` | interceptor, cache, Redis script | run `risk_node` |
| `BreakerClients` | the breaker under callers that never stop | run `breaker` |
| `RiskNodeProofs` | theorems about `RiskNode` | |
| `BarAggregator` | router, workers, publishing; the reference definition of a bar | run `bar_aggregator` |
| `BarAggregatorProofs` | theorems about `BarAggregator` | |
| `DataRecorder` | receiver, flush worker, archiver, `Stop` | run `data_recorder` |
| `MDG` | listener, ingestion loop, watchers | run `mdg_control` |
| `MarketDataProofs` | theorems about `MDG` and `DataRecorder` | |
| `WebLink` | the terminal's sockets and retries | `TerminalCircuit` |
| `TerminalCircuit` | the links composed with the BFF's circuit handlers and the EMS's pause | run `web_link` |
| `TerminalProofs` | theorems about `WebLink`, `TerminalCircuit`, `WebMarket` and `BacktestLab` | |
| `WebBars` | the bar stores of one symbol | `TerminalFigures` |
| `BarMath` | averages, MACD, RSI, markers, statistics as functions | `TerminalFigures` |
| `TerminalFigures` | the figures shown, over `WebBars` and the trades | `MCTerminalFigures` |
| `MCTerminalFigures` | answers, trades and prices of the instance | run `web_figures` |
| `WebBarsProofs` | theorems about `WebBars` and `TerminalFigures` | |
| `WebMarket`, `MCWebMarket` | selection, watchlist, requests, closures, the BFF's list | run `web_market` |
| `WebChart`, `MCWebChart` | renders, effects and chart objects | run `web_chart` |
| `WebChartProofs` | theorems about `WebChart` | |
| `BacktestLab`, `MCBacktestLab` | the backtesting lab | run `web_lab` |

Modules that one theorem module extends together name their specifications apart:
`RecorderInit`, `LabInit`, `LinkInit`, `CircuitInit` and so on. The refinement reads
the log as a book of orders (`LoggedBook`): an order's state is that of its last
readable event, its fills the sum of its readable fill events.

Definitions named `X_Something` under a comment `MUTANT` are altered copies of
`X`: a plausible slip in that piece of code. Each property of a passing run is
violated when `X` is replaced by one of them.

### EMS

One goroutine makes one call; its steps are the shared accesses of the code: a
`sync.Map` operation, an access of the degraded flag, taking a lock, an append to
the log. `OrderRuntime` objects live in a `heap`, since two submissions of one ID
can leave two objects behind. The log is a sequence of lines, each readable or
not, and a flag for a missing final newline: after a torn write the next line
joins the torn one and both are lost. A crash empties memory at any point and
`RecoverFromWAL` replays one line per step. The exchange is the environment: it
reports fills and rejections through `TransitionState`, for any order, known or
not (only the tests do so in the repository). Requested quantities are counted in
half shares, because `int32(req.Quantity)` drops a fraction: a request for half a
share becomes an order for none.

### Risk node

A request is one run of the interceptor. A Redis call is: sent, executed, answered
or given up. The script is a single atomic step, as Redis runs it. The message
`sent` stays on the wire when the caller gives up, so Redis may execute it later.
The pub/sub channel may lose an update; cache entries expire. go-redis's own
retry cannot send a command twice, because its shortest backoff (8 ms) is longer
than the deadline (5 ms); only the `NOSCRIPT` path resends, and that is modelled.

`CircuitBreaker` replaces time by one bit: the cooldown has passed or has not.

### Bar aggregator

The router receives any tick at any moment and blocks on a full channel.
`processTick` is the whole handler, its publish included: same window, late tick
within the watermark (folded into the previous bar and published again), late
tick past it (dropped), a new window (the old bar is published). `WindowSize` is
60000 in the code and 4 in the run, `Watermark` 100 and 2; what counts is the
order of ticks relative to both edges, and the times of the run hit each side.
`ReferenceBar` says what a bar should be from the indices of the ticks that count
for its window: the price of the first, the extremes, the price of the latest in
time, and the sum of the sizes.

### Data recorder

Records are numbered, so "once and in order" can be stated about what the
database holds. The receiver stands at the check of the context, in the receive,
at the send into the channel, or is gone; the worker collects, flushes, drains.
The archive reads the bars from the database, then creates and writes its file.

### MDG

`reconnectChan` has one place; a goroutine parked on it gets a signal directly, as
in the Go runtime. Each connection has a watcher goroutine that the scheduler
starts at its leisure; one that starts after its connection has ended is `stale`
and finds two ready cases in its `select`.

### Link and circuit

`WebLink` numbers sockets in the order `connectWS` makes them, so `wsRef` is the
number made so far. A socket is connecting, open, closing (closed by the cleanup
of the mount effect, `onclose` still to come) or closed; `timers` holds the sockets
whose `onclose` has a `setTimeout(connectWS)` pending. StrictMode's double mount is an action of its
own. `chains` is a history variable: how often `connectWS` was started from
outside a retry.

`TerminalCircuit` adds the BFF. `Accept` registers a client; `Greet` reads the state
and sends it. A command becomes a task that passes through memory, Redis, broadcast
and `ForcePause`, one step each, and fails where its connection's context has ended;
the resume handshake validates before it starts. `postHalt` is `HandleCircuitAPI`
with a target other than RUNNING, which any client of the BFF can send: it changes
the state and broadcasts, and makes no call to the EMS. A broadcast reads the state
first (`broadcastStatus`), takes the clients it goes to in a second step (`SendTo`),
and is delivered to them in any order; `statuses` is in the order of the reading.
Redis fails at any write or read: the write is then logged and leaves Redis as it
was, the read answers from memory. The EMS restarts at any moment and forgets its
pause.

Three history variables name the exceptions of the two properties, so that each
has to hold outside them: `overtaken`, the status applied last was read before
one that was applied earlier; `misled`, a status was made from memory while Redis
held another state, and none has been broadcast since; `untold`, since the last
`ForcePause` that arrived a call failed, or the EMS restarted, or the halt came over
HTTP. `postHalt` sets PAUSED; TERMINATED would be the same with the two states and
the two commands of the operator exchanged.

### Selection and requests

`WebMarket` represents a closure as the record of the values it captured. A step
is one callback, the render after it, and the fetches of that render's effects.
The contents of the store are the interval and mode of the request they came
from, or emptiness. The BFF's handler of `/api/mdg/subscriptions` reads and writes
the list in two steps, so that two edits can lose one another. Three history
variables serve the properties: `newest`, for each key the last request made and
whether it asked for what was selected; `answered`, the request whose answer is
in the store; `missed`, the keys whose last request to end failed or brought no
bars.

### Bars and figures

`WebBars` has one action per writer of the stores: `LiveTick` with any captured
granularity and interval, `HistoryArrives` with any sequence of `Answers`,
`HistoryFails`, `PrefetchArrives`. Times are small integers; caps and gap limits
are constants (500, 12 h and 50 bars, 18 h and 120 bars in the code). `BarMath`
computes in whole cents, with `toFixed(2)` as rounding of an exact quotient. A
loop or a `filter` of the code is a recursive function over the index, so that it
can be reasoned about: `Picked` (filters), `RunningSum`, `Smoothed` (EMA),
`SmoothedMoves` (RSI).
`TerminalFigures` derives what is rendered, and adds the trades: reported live,
fetched, cleared.

### Chart

In `WebChart` a step is an event with its render. The effects of a click run with
the render, in source order, each only when one of its dependencies changed; those
of any other render run later (`Flush`), and `committed` is what they last ran
for. The mouse, a resize or another render may come in between, and the mouse
handlers read the bars through the ref that an effect last set (`inspected`).
`pending` says that `setActiveSeries` was called and is not yet rendered. Bars are
versions, so "shows the selected bars" compares a key and a version. `shouldFit` is
the ref of the code; `fits` counts fits since the last change of what is selected,
and `userView` says that the view is one the user chose (by scrolling, or by a jump
to a trade). `viewsAfter` has every call that moves it: the creation of a chart,
`fitContent`, and the first bars of the MACD pane, whose range the main chart takes
over. Shield cards are placed with the code's pixel constants.

### Backtesting lab

`BacktestLab` keeps configuration, results with the run they came from, the
requests in flight, the view, search and page. It starts with one run or with two,
as StrictMode runs the effect of the mount twice; `idled` says that once none was in
flight. The trade table is mounted by its view, so it forgets its page when another
view is opened, and keeps it when the results under it are replaced (`replaced`).

## 3. Runs

| run | properties | what it shows | bounds |
|---|---|---|---|
| `ems_recovery` | `AnswersKept`, `ReplayExact`, `AckedLogged`, `LifecycleStep` | acknowledged submissions and cancels are logged and survive replay, fills stay within the order, replay rebuilds what was settled, states follow the table | 4 calls on an order, 1 failing append, 1 crash |
| `ems_lifecycle` | `ImplementsOrderLifecycle`, `CallsComplete` | refinement of `OrderLifecycle`; each call returns; a cancel is carried through | 3 calls, 1 crash |
| `risk_node` | `MarginConserved`, `ReservedOnce`, `ApprovedWasClear`, `CacheFollows` | margin conserved and reserved once, no blacklisted approval, the cache follows the edits announced | 2 requests, 3 blacklist edits, 1 loss of scripts |
| `breaker` | `ClosedBelowThreshold`, `BreakerRecovers` | closed means below the threshold; recovers after an outage | 3 callers, threshold 3, 2 outages |
| `bar_aggregator` | `BarsOrdered`, `BarsExact`, `TicksKept` | bars equal the reference, subscribers get corrections, every tick is counted, thrown away as late, or waiting | 2 symbols, 4 ticks, channel of 1, 1 failed send |
| `data_recorder` | `StoredOnce`, `ShutdownLosesLittle`, `RecorderProceeds` | nothing lost or repeated, archives hold what is stored, shutdown strands at most one record and ends | 5 records, channel 2, batch 2, 1 refused batch, 2 signals |
| `mdg_control` | `SignalOnItsWay`, `LoopFollows` | no command is forgotten but to a stale watcher, the configuration is applied, the loop stops | 4 commands, 2 stale watchers |
| `web_link` | `CommandLinkKept`, `LinkRestored`, `HaltReachesEMS`, `DisplaySettles` | the command link is kept and restored, a halt reaches the EMS, the display settles | 3 sockets, 4 events, 2 handlers at once |
| `web_market` | `ShownIsSelected`, `WatchlistCovered` | the newest answer shows what is selected; every symbol is loaded or on its way | 2 tickers, 2 granularities, 3 intervals, 5 requests, 2 operations of the user, 1 resynchronisation |
| `web_figures` | `BarsWellFormed`, `LastPricesAgree`, `DetailsComplete`, `IndicatorsExact`, `MarkersConserve`, `HeadlineConsistent` | bars stay well formed; indicators equal their definitions, markers account for every trade, figures of different keys agree | 3 events, 5 instants, 2 prices, cap 3 |
| `web_chart` | `DrawnIsCurrent`, `ChartFillsContainer`, `CardInside`, `InspectsShown`, `UserViewKept` | the chart objects follow the selection, what is looked up is what is drawn, the view the user chose is kept, cards stay inside | 5 events, 2 keys, 2 intervals, 3 versions, 2 widths |
| `web_lab` | `ResultsAdvance`, `PageInRange`, `RunReturns` | results do not go back, the page exists, the button comes back | 3 runs, 2 edits, pages of 2 |

Why these bounds are enough to be interesting: with four EMS calls a submission,
a cancel, a fill and a pause overlap; one order is enough because orders share
only the log, whose order matters within an order; one log failure already
separates memory from disk and a second one finds the EMS degraded. Two risk
requests contend for a margin that fits one of them (5 against 2, 3, 5), with a
value above the cap; threshold 2 trips within a run. A channel of one place is
full after one tick; a channel of two with batches of two meets full, empty and
partial batches; five records leave one over.

In the terminal, three sockets are StrictMode's two and a replacement, or a link,
its replacement and one from an online event. A socket made or due counts as an
event: with one link three events overlap, such as a command, a failing call and a
restart of the EMS; with two links, over which statuses overtake one another, two
events, such as a pause and a resume, or a halt over HTTP and a failing Redis.

Two granularities and intervals make a tick meet bars of another interval, and three
events make answer, tick and answer meet in every order; a clock of five and a cap
of three let gaps be filled, limits be reached and bars be cut. Five requests cover
the start of the page and the follow-up requests of a change of the selection, of
the list or of the mode; the list starts with one symbol, so that two operations can
add a symbol and drop one at once and lose an edit. Five chart events, each with its
effects as a further step, let a change of type, its pending render, data for
another key, a mouse or a hidden tab follow one another; 400 and 1000 pixels put shield cards at both edges. Three runs of the lab
are the two of the mount and one the user starts while the older is still under way.

Overlapping submissions of one order ID (`ConcurrentRetries`) are off in the runs
and covered by the theorems `TypeCorrect`, `Lifecycle` and `AckedAreLogged`, which
hold for both settings.

`CHECK_DEADLOCK FALSE` stands where the environment may stop calling (all calls
made, all ticks delivered, the process stopped); `breaker` never stops.

### Fairness

- EMS: a goroutine that can take a step takes one (`WF` per goroutine, the Go
  scheduler). Nothing is assumed of callers, the exchange or crashes.
- Breaker: callers keep calling, an attempt ends (the 5 ms deadline), outcomes are
  recorded, the cooldown passes. Callers that never stop are the assumption under
  which recovery is promised: the breaker moves to half-open only when asked.
- Data recorder: `WF` for goroutines and the ticker. `SF` for the worker taking the
  `ctx.Done()` case: Go's `select` picks a ready case at random, so a case that is
  ready again and again is taken in the end.
- MDG: `WF` for goroutines and the backoff timer. A healthy stream may go on for
  ever; it ends only when its context is cancelled.
- Terminal link: the page mounts, the browser reports the end of a socket, fires
  its timers, and a connection attempt that is not refused is accepted (`WF` each). Nothing is
  assumed about links staying up; `LinkRestored` asks only that the interface stays
  online from some point on, and the bound on sockets ends the losses.
- Backtesting lab: the browser ends every request with an answer or an error.

### What the properties leave out

Where the code promises less than one would wish, the property names the exception
and holds outside it:

- `AnswersKept`, `ReplayExact`: a cancel and a replay after a failed append (section 4,
  item 2).
- `CallsComplete`: a process that dies; an order left in PENDING_CANCEL stays there.
- Whole shares only are submitted in the runs, so an order truncated to nothing
  (`state_machine.go:63`) is accepted by the code and not exercised.
- `ClosedBelowThreshold`: that a late success forgets failures counted since
  (`risk.go:70`) is what the breaker does.
- `CacheFollows`: a symbol whose blacklist was read before an edit and cached after
  its update was handled, or whose update was lost, stays wrong until its ttl.
- `StoredOnce`: the time after the first refused batch, which is not retried;
  `ShutdownLosesLittle` accounts for refused batches.
- `HaltReachesEMS`: a call that failed, a restart of the EMS, a halt over HTTP
  (`untold`), until the next `ForcePause` that arrives.
- `DisplaySettles`: a status applied after one that was read later (`overtaken`),
  and Redis failing while it disagrees with memory (`misled`).
- `CommandLinkKept`, `LinkRestored`: they say nothing against too many links;
  `LinksConservedTheorem` gives their exact number.
- `ShownIsSelected`: an older request that is answered last, a newer one made with
  the interval of a stale closure or by the watchlist, a failure in mock mode. The
  code has no guard against the first; a test of the answer's request would be one.
- `WatchlistCovered`: a symbol whose last request failed or brought nothing.
- `UserViewKept`: the first bars of a MACD pane move the main chart.
- `InspectsShown`: a card pinned before a change of symbol stays until dismissed, and
  the legend, which reads the ref while rendering, is one render behind; the MACD may
  be a render behind while the series is pending.
- `ChartFillsContainer`: the MACD pane (section 4, item 11).
- `ResultsAdvance`: the two runs of the mount, and one started over them, may answer
  in any order until the lab has been idle once.
- `PageInRange`: results replaced under an open page.

## 4. Observed disagreements

Met while modelling. The models contain each of these behaviours; the properties
are stated around them, with the exception named in the property's comment.

Services:

1. Two overlapping submissions of one ID both register (`cmd/ems/state/state_machine.go:69`),
   which the TESTING guide calls atomic.
2. A transition is kept in memory although its log write failed
   (`state_machine.go:135`), so a restart may reopen a filled order; the guide
   promises the exact pre-crash state.
3. `risk_check.lua:19` approves an order of value zero or below that reaches it;
   the guide says the script rejects it.
4. A stale watcher can take the signal of a resume (`cmd/mdg/main.go:293`): the
   gateway stays paused until another command.
5. Resuming the circuit never un-pauses the EMS: only `ForcePause` exists. A status
   other than RUNNING posted to the circuit API changes the circuit and tells the
   EMS nothing (`cmd/bff/main.go:346-371`).
6. A write that Redis refuses is logged and forgotten (`cmd/bff/main.go:166`), while a
   read that fails answers from memory (`main.go:155`): the two then disagree, and
   which one a client sees depends on the health of Redis at that moment.

Terminal:

7. `sendOOBAction` on a closed link logs "Failsafe local state applied" and
   applies none (`App.tsx:1726`). A panic whose connection ends before its handler
   is through is lost as well.
8. Every online event adds a link for good; each link handles every broadcast, so
   trades are entered once per link. Statuses of one link may be applied out of
   order, and the older one stays shown.
9. Removing the last ticker of the watchlist reads `data.tickers[0]` of a null
   list and throws (`App.tsx:1831`).
10. The store's key lacks the interval: bars fetched by a reconnection or by the
   watchlist at 30 minutes overwrite those of the selected interval.
11. The MACD pane takes width 0 when the window is resized while its tab is hidden
    (`App.tsx:2366`) and is not restored, unlike the main chart (`App.tsx:2169`). MACD and
    volume stay on the screen after a failed request has emptied the candles.
12. A live tick between a change of interval and its answer uses up the flag that
    asks for a fit, so the answer is not fitted.
13. RSI of prices that never move is shown as 100.
14. "Jump to latest execution" jumps to the last element of a list that is newest
    first (`App.tsx:3678`).
15. The trade table keeps its page when a new run has fewer pages
    (`TradeLogAuditTable.tsx:37`); the export is named after the present
    configuration, not the one of the results (`BacktestingLab.tsx:441`); KPI cards
    show constants for figures that are missing (`BacktestKPICards.tsx:90`).
16. A symbol whose request failed, or brought no bars, stays at "Loading..."
    (`App.tsx:1516`): its empty entry counts as loaded for the effect that fetches
    (`App.tsx:1555`).
17. Turning the MACD on lets the new pane's first bars set the range of the main chart
    (`App.tsx:2318`), whatever the user was looking at.
18. The legend reads a ref while it renders that only an effect updates
    (`App.tsx:1113`), so it shows the bar of the render before; a pinned card
    outlives a change of symbol.
19. StrictMode runs the effect that starts a backtest twice
    (`BacktestingLab.tsx:306`); the first answer enables the button and the older
    answer may come last and stay.

## 5. Proofs

All are for arbitrary constants under the named assumptions of each module
(`EMSAssumption`, `RiskAssumption` and `ThresholdAssumption`,
`AggregatorAssumption`, `RecorderAssumption`, `GatewayAssumption`,
`LinkAssumption`, `CircuitAssumption`, `WebMarketAssumption`,
`BacktestLabAssumption`, `WebBarsAssumption`, `AnswersAssumption`,
`TradesAssumption`, `FiguresAssumption`, `WebChartAssumption`): numbers are naturals
or integers, sets of names are disjoint from the null values, answers of the history
service are in time order, the day and the year are granularities, indicator periods
are positive and the one of the RSI, 14 in the code, is at least 2 (the first average
is over one difference fewer than the period). Further hypotheses stand in the theorem itself.

| theorem | argument |
|---|---|
| `EMSProofs!TypeCorrect` | `TypeOK` is inductive; it includes that a handler past its lookup holds an object, so no nil is dereferenced |
| `EMSProofs!Lifecycle` | `LifecycleInv`: the next state a goroutine computed under the lock is still allowed from the object's state, since only the holder of its lock writes the object |
| `EMSProofs!AckedAreLogged` | `AckInv` follows a submission: after each append its event is in a readable log, or the log is unreadable; appends keep earlier lines (`AppendKeeps`) |
| `EMSProofs!AnswersKeptTheorem`, `ReplayExactTheorem` | `EMSInv`, `BookInv`: see below |
| `EMSProofs!RefinementTheorem` | `EMSInv`, `BookInv` and `RefInv`: an append that succeeds adds one event to the book, which is a step of `OrderLifecycle`; every other step leaves the book alone |
| `RiskNodeProofs!TripsAtThreshold` | each step of the node is a method of the breaker or leaves it alone |
| `RiskNodeProofs!MarginLedger` | only the script moves margin, and its check keeps both accounts in range |
| `RiskNodeProofs!ReservedOnceTheorem` | `ReservedInv`: the margin in flight is the sum over the orders the script approved; approving takes one order more into that set, which is a part of the requests begun |
| `RiskNodeProofs!ApprovalsAreClear` | `ApprovalInv`: only the script's own look at the blacklist approves, whatever the cache said, and a script that runs belongs to a request that has begun |
| `RiskNodeProofs!CacheFollowsTheorem` | `CacheInv`: the last update on its way for a symbol is that of its last edit, so handling the rest in order leaves the entry right |
| `BarAggregatorProofs!BarsAlwaysOrdered` | `ChannelsSorted` (each channel holds ticks of its symbol) and the lemmas on `Fold` and `NewBar` |
| `BarAggregatorProofs!BarsExactTheorem` | `ExactInv`: the current bar, the previous one and, for every older window, the newest one published equal the reference bar of the ticks counted so far, unless a send failed |
| `BarAggregatorProofs!TicksKeptTheorem` | each step moves one tick from router to channel to bar or to the discarded ones; a tick whose window has no bar when the symbol has moved on is never given one |
| `MarketDataProofs!SignalsKept` | `SignalInv`: a configuration the loop has not read is announced by a token, a listener about to signal, a watcher that took the signal, or a loop about to read; and no goroutine is parked on a channel that holds a token |
| `MarketDataProofs!StoredOnceTheorem`, `ShutdownTheorem` | `RecorderInv`: database, batch and channel in a row end with the last record received, or the one before while the receiver holds it; the worker leaves with an empty batch, and after it found the channel empty only the record in the receiver's hands can follow |
| `TerminalProofs!CommandLinkTheorem`, `FlagsHonestTheorem` | `LinkInv`: sockets beyond `wsRef` do not exist, a pending timer belongs to a closed socket, and every `onclose` schedules a retry before it lets go; each step of `TerminalCircuit` is a step of `WebLink` or leaves the link alone |
| `TerminalProofs!LinksConservedTheorem` | a retry turns one timer into one socket and a close one socket into one timer, so the sum of the two cardinalities changes only with `chains` |
| `TerminalProofs!HaltReachesEMSTheorem` | `HaltInv`: a state other than RUNNING, in memory or in Redis, comes from a command whose handler has called the EMS or will still call it, or from a halt over HTTP |
| `TerminalProofs!DisplaySettlesTheorem` | `SettleInv`: when no handler stands between its change of the state and its broadcast, every open link is still to deliver the state of the BFF with nothing read later, or the terminal shows it and what is on its way agrees or was overtaken, unless a status came from memory while Redis disagreed |
| `TerminalProofs!ShownTheorem` | `MarketInv`, with `NewestAsks`: the newest request for a key that is selected asks for what is selected, if it did when it was made, because every change of the selection makes the effect run and ask again |
| `TerminalProofs!WatchlistTheorem` | `MarketInv`: a symbol that enters the list gets a request, and an entry without bars comes from one that failed or brought none (`EmptyMissed`) |
| `TerminalProofs!OverlapTheorem`, `AdvanceTheorem`, `PageTheorem` | `LabInv`: before the lab has been idle at most two runs are in flight, afterwards at most the latest one, and the results come from an earlier one; a table that is not mounted stands at its first page |
| `WebBarsProofs!BarsWellFormedTheorem` | `WellFormedInv` (types, order and shape of every store); lemmas that quantised ticks, gap filling, capping, filtering and padding keep sequences strictly ordered and candles shaped, whatever interval was captured |
| `WebBarsProofs!LastPricesTheorem` | `PriceInv`: well-formedness with the property itself; capping never drops the last element |
| `WebBarsProofs!MarkersTheorem` | markers and groups of trades correspond one to one, the groups part the trades of the symbol, and the sums over the parts add up to the sum over the whole |
| `WebBarsProofs!HeadlineTheorem` | `FiguresInv`: what has candles counts as loaded. The price of the header is a close of one of the bars that the ranges take in; regular session and after hours part the change of the day |
| `WebBarsProofs!DetailsTheorem` | `FiguresInv`; the bars for the indicators are in time order and lose none of those shown, each average has the times of its input, so the joins by time in `calculateMACD` and in the card find a value for every bar |
| `WebBarsProofs!IndicatorsTheorem` | the running sum is the sum of its window and an EMA is a quotient between the extremes so far, by induction over the index; see below for the RSI |
| `WebChartProofs!DrawnIsCurrentTheorem` | `ChartInv`: the active series is live exactly when no render is pending, the MACD pane exists exactly when it is shown, and what waits for its effects is the present series or the live one (`CommittedInv`); with that, each effect that a change makes necessary is one that its dependencies trigger |
| `WebChartProofs!UserViewKeptTheorem` | `FitInv`: a fit lowers the flag, and only a change of what is selected raises it and restarts the count; so after the first fit a view is lost by such a change, or by the first bars of the MACD |
| `WebChartProofs!InspectsShownTheorem` | `BlankOrCurrent`, a part of `ChartInv`: what a chart shows between a render and its effects is what the ref says, or nothing |
| `WebChartProofs!ChartFillsTheorem`, `CardInsideTheorem` | directly from the handlers; the second assumes a chart at least 330 wide and 328 high |

together with type correctness of `RiskNode`, `BarAggregator` and `MDG`. The
invariants that TLC evaluates too are defined beside the properties in the
component modules; those that name the elements a recursive definition goes
through are in the theorem modules.

**The EMS.** `AnswersKeptTheorem`, `ReplayExactTheorem` and `RefinementTheorem`
assume `~ConcurrentRetries`: with overlapping submissions of one ID two objects
are registered (section 4, item 1) and the statements are false. The refinement
also assumes that no append fails, since a failed one leaves memory ahead of the
log (item 2); it covers crashes. `EMSInv` has three parts beyond the earlier
invariants. `HandlersInv` says which object a handler works on: the registered
one, except a cancel that waits for the lock of a submission which was taken back.
`ReadInv` relates memory to what a reader of the log has seen last of each order
(`LastRead`), as bounds that hold whether or not appends failed. `ExactInv` turns
the bounds into equalities as long as none failed, up to the one event that a
handler has appended and not yet applied. `BookInv` says that reading the log line
by line, which is how replay works, gives the book of the refinement, which is
defined by sums and last events.

**The figures.** The strengthening is small (`FiguresInv`), the work is in what
the functions of `BarMath` compute. `PickedIs` characterises a filter: it keeps
order, every element comes from a place that was picked, and every such place is
used. For the RSI, `MovesFrom` describes the averages of gains and losses. Prices
that never moved have no average loss, so the code shows 100; once a price moved the
averages never return to zero both (`MovedFrom`); mirrored prices exchange gains and
losses (`MirroredFrom`); and two shares of a whole, rounded to hundredths of a
percent, add up to the whole or to one hundredth more (`RoundShares`), which is why
the property allows 10001.

**Data.** The provers cannot use induction theorems that take a predicate.
`SumTheorems` therefore states induction for a set of numbers (`NatInd`) and for a
set of subsets of a finite set (`SizeInd`), both from the well-foundedness of `<`;
a proof puts the property into a set comprehension. With these, the function that
a fold chooses is shown to exist and to be unique, and sums get their laws: an
element can be taken out, disjoint sets add up, the sums over the parts of a
partition add up. `BookInv`, `ExactInv` of the aggregator, `Awaited` and the markers
rest on them. `Recursion` says that a function over an interval that is computed from
its value one before exists, and `IntervalInd` is induction over the interval; the
filters and the averages of the figures rest on these two.

Every safety invariant and action property of the runs is stated by a theorem. Only model-checked:
liveness (`CallsComplete`, `BreakerRecovers`, `RecorderProceeds`, `LoopFollows`,
`LinkRestored`, `RunReturns`), which needs fairness and `ENABLED`.

## 6. Not modelled

- A machine crash that loses bytes written but not synced: the crash here is that
  of the process.
- Floating point: NaN, rounding of prices and margins. Values are integers.
- Durations: backoff, deadlines and tickers may fire at any moment.
- MDG's parsing of vendor messages, publishing, and loading its configuration at
  start; the archive's date window and files of several symbols.
- Terminal: the market session badge and its calendar; the risk sliders
  (`publishConfig`), `controlMdgStatus` and `selectVendor`, which send a request and show its
  answer; the range of the view beyond whether the user chose it; hovering and pinning of shields;
  tooltips, KPI cards, heatmap, equity curve and explanations, which format a
  result; the lab's free-form inputs and `fetchStrategies`; logs, styles, markup.
- BFF: history, calendar and backtest endpoints (formatting and synthetic data).
- Alpha engine and launchers: planned below. Strategy indicators and statistics
  are floating-point formulas. Protocol definitions declare messages only.

## 7. Plan

1. `StrategyOrchestrator`: the bar barrier, forward fill, bars published twice.
   `SubPortfolio` and the backtest context: orders, fills, cash and positions.
2. Composition of the terminal's gateway commands with `MDG`; trades appended to
   the BFF's Redis list and reported on the links.
3. Market calendar, validation and storage merge as functions against reference
   definitions; the platform manager's supervision.
