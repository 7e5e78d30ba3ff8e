# Trade blotter: specification

TLA+ modules, TLC configurations and TLAPS proofs for the trade blotter: a Fastify
backend over a SQLite file, a WebSocket fan-out, and a React front end. Paths are
relative to the repository's root.

## 1. The system

```
 browser                                       backend (one Node thread)         file
 ┌───────────────────────────────┐  GET/POST/  ┌──────────────────────────┐     ┌─────────────┐
 │ forms ─ mutations ────────────┼──PATCH/DEL─▶│ routes ▶ TradeService    │────▶│ trades      │
 │ useTrades (query, Refresh) ◀──┼─────────────│            │  repository │     │ trade_audit │
 │        │ setTrades            │             │            ▼             │     └─────────────┘
 │        ▼                      │  /ws        │        broadcast ────────┼─ every open socket
 │ store ◀─ buffer ◀─ socket  ◀──┼─────────────│ price feed ──┘           │
 └───────────────────────────────┘             └──────────────────────────┘
```

| component | source | state | operations | hard part | correct when |
|---|---|---|---|---|---|
| Trade repository | `database/src/trade.repository.ts`, `migrations.ts`, `seed.ts`, `shared/src/idGenerator.ts` | tables `trades`, `trade_audit`; `nextSequence` in memory | create, update, cancel, findAll, start-up (seed, resume the sequence) | several statements per transaction, any of which may fail; death of the process between two; ids compared as text | row and audit move together; ids are never reused |
| Trade service and routes | `backend/src/services`, `routes`, `utils`, `app.ts`, `server.ts` | the request in hand | create, random batch, amend, cancel, reads; error handler | commit, read-back and broadcast are three steps, and the read may throw; a batch has no transaction; two ways to cancel | a cancelled trade is final; what is committed is announced as it was committed, or its request fails; every request ends |
| WebSocket fan-out | `backend/src/websocket` | `wss.clients` | connect, acknowledge, broadcast, close | sockets break on either side first, with messages under way | every open socket gets every message in order |
| Trade store and live feed | `frontend/src/store/trade.store.ts`, `hooks/useTradeSocket.ts` | list of trades (bounded), buffer of created trades, pause and pacing dials | add a batch, amend, cancel, replace, drain, pause | creations are delayed by the buffer, patches are not; the window drops rows | the grid shows what the database holds |
| Trade query | `hooks/useTrades.ts`, `services/trade.api.ts`, `api.client.ts` | the request in flight, `query.data` | load, refresh, fail | the answer is ordered with no broadcast; equal answers are not news | an answer never makes the grid older |
| WebSocket client | `services/websocket.client.ts` | socket, attempt, reconnect timer, `manuallyClosed` | connect, disconnect, socket events, timer | callbacks of old sockets stay attached | one socket; a truthful flag; a connection again after a break |
| Connection banner | `components/ConnectionStatusBanner.tsx` | `showConnected`, previous flag, hide timer | effect, timeout | none: nothing renders it (`App.tsx:14-15`) | not modelled |
| Price feed | `backend/src/marketdata/priceFeed.ts` | price per symbol, timer | tick, reconcile with the book's VWAP, start, stop | rounding; symbols that appear and vanish | prices stay positive and cover the active symbols |
| Positions and P&L | `frontend/src/utils/computePositions.ts`, `TradeService.getPositionSummary`, `getPnlSummary` | none | folds over the active trades | zero divisors; two implementations | server and browser agree |
| Shell, forms, mutations | `frontend/src/App.tsx`, `features/forms`, `hooks/use*Trade.ts` | open dialog and the trade it opened on, one request of each kind under way, conflict message | open, fill, submit, answer, dismiss | the trade changes under an open dialog; the hooks outlive the dialog, so an answer may find another one open; an answer is lost | a trade is entered once; an amendment changes what its user edited; what the user is told is true |
| Form validation | `utils/tradeSchema.ts`, `backend/src/routes/trades.ts` | none | coerce, validate, build the body | two grammars of the same columns | the edge admits what the form lets through |
| Grid and toolbar | `frontend/src/features/blotter` | filters, sort, page, frozen rows, the search in three copies | filter, sort, page, scroll, type | indices into a list that changes; a debounce timer between two effects | rows live at the top and still below; a truthful summary line; the search applied |
| Audit views | `features/audit`, `hooks/useAudit*.ts` | queries in the cache, panel and tab | open, close, retry, refetch on focus and reconnection | requests outlive views and are joined; nothing invalidates them | the history of the right trade, as recent as asked for |
| Toasts | `store/toast.store.ts`, `components/ToastContainer.tsx` | toasts with ids and timers | show, dismiss | several end in any order | each tells the truth and goes away alone |

Each hazard is listed with its source line in `PROJECT.json`, with the properties
that cover it or the reason none does yet.

## 2. The modules

| module | models | extends |
|---|---|---|
| `TradeRepository` | tables, transactions statement by statement, the id sequence, seeding, restart | |
| `TradeService` | the handlers that change state, broadcast after commit, error handler, crash, start | `TradeRepository` |
| `TradeLifecycle` | abstract: the life of a trade and its journal, no transaction, crash or message | |
| `TradeFeed` | per browser: store, buffer, socket messages, query | |
| `Blotter` | backend, fan-out and browsers together | `TradeService`, `TradeFeed` |
| `WebSocketClient` | the socket client and the hook that mounts it | |
| `Positions` | the folds over a set of trades: VWAP, the server's summaries, the browser's positions | |
| `PriceFeed` | the walk of the market prices over a changing book, its interval, restarts | `Positions` |
| `TradeForm` | what the controls can hold, their coercion and rules, the body sent; what the routes admit | |
| `TradeDialogs` | dialogs, the mutations they start, conflict message and toasts, against a book others change | `TradeForm` |
| `BlotterGrid` | order, filters, debounced search, pages and held rows over a list that changes | |
| `AuditViews` | the history panel and the audit feed over the query cache and the audit table | |
| `MCTradeService`, `MCBlotter`, `MCPriceFeed`, `MCTradeDialogs`, `MCBlotterGrid`, `MCAuditViews` | instances for TLC | |
| `Listing` | what ORDER BY, `sort` and `filter` return, without an operator as an argument | |
| `ListingProofs` | theorems about those lists, for every order and sequence | `Listing` |
| `TradeServiceProofs` | theorems about the backend, the last of them that it implements `TradeLifecycle` | `TradeService`, `ListingProofs` |
| `BlotterProofs` | theorems about the backend and any number of browsers | `Blotter`, `TradeServiceProofs` |
| `TradeDialogsProofs` | theorems about forms and dialogs | `TradeDialogs` |
| `WebSocketClientProofs`, `PriceFeedProofs`, `BlotterGridProofs`, `AuditViewsProofs` | theorems | the module of that name |

### How state and steps correspond to the code

*Repository.* A row of `trades` is a function from the auditable columns to values;
`trade_date`, which orders the list, is kept beside it. A trade id `TRD-n` is its
number `n`, and `TextLess` is the order in which SQLite compares the ids: numeric
while they have six digits, and `TRD-1000000 < TRD-999999` beyond (`Rollover` is a
constant so that TLC reaches it). better-sqlite3 is synchronous, so at most one
transaction is open; `tx` is its working copy. `update` and `cancel` open it with the
entries to write, `UpdateRow` and `InsertAuditRow` are its statements, `Commit` and
`Rollback` its ends. A creation is one autocommitted INSERT that spends a number
first, also when it fails. `String` stands for the conversion to text of the audit
columns and of the comparison in `diffTrade`.

*Service.* `job` is what the thread is doing: idle, inside a transaction, about to read
back what it has committed, about to publish, between two rows of a random batch, or with
an error thrown. `createTrade` and `Finish` commit and leave the handler in phase
`readback`; `ReadBack` is the statement that fetches the row for the message
(`trade.repository.ts:169`, `207`, `229`), and `ReadBackFails` the same statement throwing:
the change stays, the request is answered with 500 and nothing is broadcast. Requests start
only when it is idle, because a handler has no `await` between its statements. The
process may die (`Crash`) in any phase; `Start` runs migrations, seeding and the
repository's constructor. Symbols, traders and counterparties differ from a price only
by name, so `AUDITABLE_FIELDS` is a parameter and only `status` is special.

*Feed.* `Receive` applies one message: a creation is put in the buffer, a patch goes
to the store at once, whether or not the trade is there. `drainTick` moves a slice of
the buffer into the store through `addTradesBatch` and `capToWindow`. `Load` is the
effect of `useTrades`, which runs only when `query.data` changes identity: TanStack
Query shares structure, so an answer equal to the one before changes nothing. `Leave` is
a page that is reloaded or left, the only way the hook unmounts outside development: the
cleanup at `useTradeSocket.ts:66` discards the buffer, and the rest of the page goes with
it. `missed` and `since` are history variables: they name, per browser, which trades it may
show wrongly and for which cause, and no action reads them in a guard. The causes are five:
`early`, a patch that found no row to change; `lost`, a message that never arrived;
`unsent`, a change that was committed and never broadcast, because the process died or the
read-back threw; `overwritten`, an answer older than what messages had done; `capped`, a
trade that fell out of the window or off the page.

*Socket client.* The fields of the singleton, with `state` per socket object, because
the callbacks of every socket ever opened keep acting on the client. `closing` and
`broken` are sockets whose close event is still to come. Timers the field no longer
refers to are counted in `strayTimers`. The mount effect may run twice
(`Remounts = 1`), as React's strict mode in `main.tsx` makes it do in development.

*Price feed and positions.* `Interval` is one firing of the timer in `startPriceFeed`:
it takes in new symbols at their VWAP, lets every price drift and broadcasts.
`IntervalWithoutBook` is the same when the query for the active trades throws.
`Restart` seeds the feed from the book, as `start` does; the browser keeps what it
showed. The book is a variable of its own here, because the prices depend on quantities
and prices and on nothing else of a trade. Prices count a fraction of a cent
(`Cent` of them make one cent) and arithmetic is exact: the models show what the
rounding to cents in the code does, and leave the error of binary fractions out.
`Drift` gives every cent that a step of up to 0.2% either way can be rounded to. The
browser's P&L is computed over the common denominator of both averages.

*Forms.* A control holds a text and perhaps blanks around it (`Input`); a number control
holds a spelling of a number or nothing. Numbers count in halves, so that there is one
that is positive and not whole. `Coerced`, `Valid` and `Body` are the preprocessing, the
rules and `handleSubmit`; `createTradeBodySchema` and `amendTradeBodySchema` are the
routes' own schemas over the same columns.

*Dialogs.* `shown` is what the grid holds, which may lag behind `book`, the server's
rows; `OthersRevise` and `GridUpdate` move them apart and together. A dialog keeps the
row it was opened on. `call` holds one request per mutation, because its button is
disabled while it is pending and the hook belongs to the shell; `Serve` is the server's
transaction with what follows it up to the answer: a change that is committed is
answered with success or, when its row cannot be read back, with an error
(`AfterCommit`), which is a success whose answer was lost; and `NetworkFails` is a
request or an answer that gets lost, before or after the server handled it. `Settle`
runs the callbacks, whichever dialog is open by then: `onSuccess` closes the dialog of
its kind, even one that has been opened on another trade since
(`AmendTradeModal.tsx:70`). What a user types matters when the form is submitted and is
chosen there. `entered` is a history variable: it counts what came of the create form
opened last.

*Grid.* A handler and the render after it are one step. The table library's reset of the
page when its rows change is queued and runs after that render: `resetDue` says that it
is due and `AutoReset` is the step, so that one frame may be rendered with the old
index; a microtask runs before any further event, which `Event` says. A range with its
bounds the wrong way round is swapped by the library (`InRange`). `Render` holds
`displayTrades` away from the top and takes it anew on the way back. `missed` says that
the list was rebuilt since the rows were taken. `localGlobal`, `timer` and
`globalFilter` are the three copies of the search text, and `synced` is FALSE while the
effect that copies the applied search back into the input is due. One text filter and
one range stand for the others of their kind.

*Audit views.* A query is its data, its error flag, what its fetch is doing and the
answer under way. `Fetch` joins a fetch under way, `Refetch` gives it up if there is data
to show; a fetch is paused while the browser is offline. The shell keeps the panel, so
that it stays open when the tab changes. An entry is named by its id, and `Entries` is
what the two endpoints answer. `owed` is a history variable: how many entries there were
when a view last asked for a key, or when the request it joined was begun.

## 3. What TLC checks

### Runs that pass

| run | what it shows | instance |
|---|---|---|
| `trade_service` | Under failing statements and crashes anywhere: the audit trail of a column is an unbroken chain ending at its value (`AuditChain`); a trade is cancelled once, by DELETE or PATCH (`CancelledOnce`), and never changes afterwards (`CancelledIsFinal`); the sequence stays above every id (`FreshSequence`); no commit is passed over in silence: its handler goes on to read the row back, and then to a broadcast of exactly that row or to an error answer, and every broadcast follows such a commit (`EveryCommitIsAnnouncedOrFails`); each request ends (`RequestsAreAnswered`); and the whole implements `TradeLifecycle` (`LifecycleSpec`). | one seeded trade, two more, batches of two, two audit rows, two readings of the clock |
| `blotter_faults` | Crashes, broken sockets, failed requests, a disk that fails at any statement, the read-back included: a quiet browser shows a trade wrongly only after one of the five causes (`DriftHasACause`), never shows one twice (`NoTradeShownTwice`), never knows one the database lacks (`NoPhantomTrade`), and never shows a live one as cancelled (`NeverFalselyCancelled`). | one browser, one trade with two values, two audit rows, one message in the inbox and one on the thread |
| `blotter_window` | Two trades over a window and a page of one, in every order and without faults: the window's bound holds (`BlotterTypeOK`), what falls out of the window or off the page is flagged, so that the five causes are all (`DriftHasACause`), and while the page stays open the buffer discards nothing that the window has room for (`BufferLosesNothing`). | one browser, two trades of one millisecond, one cancellation, two messages in the inbox |
| `connection` | The socket client and the hook that mounts it: every mount keeps exactly one chain of sockets and timers (`OneChainPerMount`); mounted once, the flag is true (`FlagIsTrue`) and complete (`FlagIsComplete`); only a greeting resets the backoff (`OnlyAckResetsBackoff`), and a mounted client always gets connected again (`AlwaysReconnects`). | three socket objects, one remount |
| `price_feed` | Trades come, change and go, reads of the book fail, the server restarts: shown prices stay positive (`ShownPricesArePositive`), a tick moves them by no more than the walk and its rounding (`TicksAreSmall`), each new symbol gets a price (`NewSymbolsGetAPrice`), and the browser's positions and the server's two summaries are the same numbers (`BrowserAgreesWithServer`). | two trades in two symbols, prices of 0.4 cents and 2.52 |
| `dialogs` | Users fill, submit and dismiss dialogs while others amend and cancel, the server fails and answers are lost: a form's body is admitted by the edge (`EdgeAdmitsEveryForm`), an amendment changes a column only to what was typed or back to what the form was opened with (`AmendsWhatWasTyped`), a form enters a second trade only after a lost answer (`DuplicatesNeedALostAnswer`), a toast or message that a trade is cancelled is true (`WhatIsToldIsTrue`), and every button is freed again (`AnswersComeBack`). | one browser, two trades, two toasts, one edited column, spellings of 1/2, 1 and 2 |
| `grid` | The list changes while the user scrolls, sorts, filters, searches and turns pages: rows are live at the top (`LiveAtTop`) and still away from it (`StreamNeverMovesRows`), unless the library's reset is still queued, "Showing X-Y of Z" describes rows that are there, with no empty page over a list that matches (`SummaryIsTrue`), and a search comes to be applied (`SearchSettles`). | up to three trades in three lists, pages of one or two, a text that some trades match |
| `audit` | Views open, close, retry and refetch over failures and outages: a settled view has every entry it was owed (`SettledViewsAreCurrent`), shows nothing it was not told (`WhatIsShownWasTold`), loses no entry while it stays open (`ViewsNeverLoseEntries`), and stops loading (`LoadingEnds`). | the panel of one trade, the feed with a limit of one entry, entries of a second trade, two entries |

### Runs that end in a counterexample

Each checks one sentence of the repository's documents or comments and shows a
behaviour of the code that contradicts it.

| run | sentence | what happens |
|---|---|---|
| `converge` | `README.md:3`: all connected clients converge on the same state | The socket and the list query start together. `GET /trades` is answered, from an empty table; a trade is created and broadcast to nobody; then the socket opens, and neither its opening nor the greeting fetches the list again. The browser is connected and quiet and does not show the trade. No fault is involved. |
| `rollover_restart` | `errors.ts:2`: every error is an AppError | Once `TRD-1000000` exists, `MAX(id)` is `TRD-999999`, and after a restart the next INSERT hits a taken id with a raw SqliteError. |
| `stale_conflict` | `AmendTradeModal.tsx:13`: on a 409 the message is rendered inline, in the form | The message is state of the hook, which outlives the dialog: one that arrives after its dialog was dismissed appears in the form of the trade opened next. |
| `offline_panel` | `AuditHistoryPanel.tsx:12`: the skeleton is rendered immediately on open | Offline the query is paused, which is neither loading nor an error: the panel says that there are no amendments. |

Other divergences of the code as it is modelled, without a run of their own:

- `README.md:165` speaks of displayed and server state in lockstep, and
  `PROMPT-LOG.md:39` of clients that recover on reconnect. An answer of `GET /trades`
  computed before a broadcast and received after it restores the old row, and a reconnect
  opens a socket and fetches nothing. Both are among the causes `DriftHasACause` names.
  So is a third way without a fault: an amendment or cancellation of a trade still in the
  paced buffer finds no row in the store and is dropped, and the drain then shows the trade
  as it was created.
- `useTrades.ts:5`: on success the rows are written to the store. An answer equal to the
  previous one does not run the effect, so Refresh leaves a store that has moved on since.
- `trade.store.ts:71`: the most recent entries are kept. The list is newest first and the
  window keeps its tail, so the newest loaded trades go first.
- `BlotterToolbar.tsx:427`: the text filter is trimmed so that stray blanks do not hide
  all rows. Neither the handler nor `TradeTable.tsx:303` trims it.
- `TradeTable.tsx:224` speaks of pagination preserved across updates. The
  table library resets the page whenever its rows are another array.

Consequences of the code that no sentence contradicts. An amend form sends every column,
so two users who edit different columns of one trade undo each other's edits;
`AmendsWhatWasTyped` says that nothing worse happens. A success closes whichever dialog
of its kind is open. While the rows are held the toggle of the order changes its label
and not the rows, and amendments and cancellations stay invisible. Clear leaves the
search alone. A letter typed between the timer's report and the effect that follows is
overwritten. The Audit tab shows "No amendments recorded yet." under its error message when
it has nothing to list, and the panel's heading keeps the row that was clicked while
its history moves on. A view that joins a request counts on no more than the request
did: an amendment made between the two is missing until the next fetch.

Within one millisecond (a random batch) `findAll` orders ids as text, so `TRD-1000000`
comes after `TRD-999999`. After a remount in development the late close event of the first
socket sees `manuallyClosed` cleared, reports the new connection as down and schedules a
second one; `OneChainPerMount` bounds this at one extra socket per remount. A price of 2.50
or less never moves: a step of less than 0.2% of it rounds back to where it was, where
`priceFeed.ts:45-47` has every new symbol start drifting. A symbol whose net quantity
is zero has no row among the browser's positions, and so its realised P&L is in no
total there; `BrowserAgreesWithServer` is about the symbols that have one. Until its first
`PRICE_TICK` a symbol is marked at 0.

### Bounds

`MaxSequence`, `MaxAudit`, `MaxClock`, `MaxInbox`, `MaxAttempt`, `MaxTimers`,
`MaxTrades`, `MaxPrice`, `MaxToasts`, `MaxEntries` and `Remounts` stop counters; nothing
else is bounded. Trades are independent of each other in the code except through the
sequence, the order of the list and the capacity of the window, so two or three suffice
to exhibit each of these; two audit rows show a link of a chain and its end, and an
amendment of two columns at once. Two values tell an amendment from a no-op and let a
column return to an earlier value. One browser is enough because browsers never act on
each other: they share the server, and a broadcast treats each socket alike. Two
messages under way are enough for a creation and its patch: in `blotter_window` two wait
in the inbox, in `blotter_faults` one waits there and the next on the thread.
`blotter_window` has no column but the status. Later trades have larger ids and no
earlier dates, so dates would order two trades no other way than their ids do. Three
socket objects are enough for two chains, since a closed one stands for a new one, and
`MaxTimers` is never reached. In `rollover_restart` the width changes at 10 instead of
10^6. `blotter_faults` checks safety only and treats the column's values as
interchangeable (symmetry). In `price_feed`, 2.52 is a price that just moves, since 0.2%
of it is more than half a cent, and 0.4 cents is rounded to nothing; two trades in these
quantities leave a symbol long, short and flat.

In `dialogs`, one browser is enough because `OthersRevise` is all that other users can
do to it; two trades let an answer arrive under the dialog of another trade, and two
toasts a second submission after a lost answer. The other columns of the forms differ
from the edited one by their rule only, and `TradeDialogsProofs` covers all of them. In
`grid`, three trades make three pages of one, two of two, and the three lists grow,
shrink, tie in time and change in place; the library's order is stable, which two equal
prices show. In `audit`, keys of the cache do not act on each other, so one panel and
the feed suffice; the entries of a second trade tell a history from the table. Two
entries exceed the limit of the feed and let a view be one, or both, behind. A toast's
number is never reused, so a user of `dialogs` makes at most `MaxToasts` submissions
that end in one.

### Fairness

`FairSpec` asks only that a handler the thread has begun takes its next step
(`WF_vars(Handler)`): Node runs synchronous code to its end. No request, crash, restart
or clock step is promised. The Blotter runs check safety and need none. `WsFairness`:
React runs a mount effect, and the browser fires a timer that is due and the close event
of a socket that is closing or broken (weak fairness). Strong fairness of the handshake
and of the greeting says that a server is reached now and then and lives long enough to
greet, although connections break in between; without it no client can connect.
`FeedSpec` asks strong fairness of `Interval`: the timer keeps firing while the server
runs, and the book can be read now and then, even if reads fail or the server restarts
in between. `DialogsSpec` asks that a request under way is answered or fails and that
its callbacks run; nothing is asked of the users. It supposes a browser that is online
or comes back: react-query pauses a mutation begun offline, and its button stays
disabled as long. `GridSpec` asks that the due effect runs and that the debounce timer
fires, which it does once the user pauses. `AuditFairness` asks that a request that was
sent is answered and delivered; nothing is asked of a paused one, of the views or of the
network.

## 4. What is proved

Every invariant and every action property the passing runs check is also a theorem, and
so is the refinement; what is left to TLC alone is liveness. The theorems hold for every
value of the constants under the named assumptions of the modules, which TLC evaluates in
the runs: every list of columns, every set of values, browsers, sockets, stores, trades
and texts, every bound. Four of the assumptions say more than a type:

- `BlotterAssumption`: a page of the query fits the window. Both are 10000
  (`useTrades.ts:18`, `trade.store.ts:17`).
- `TicketAssumption`: quantities and prices are positive and a side is BUY or SELL, as
  `fieldSchemas` of `routes/trades.ts:27` has it.
- `GridAssumption`: the trades a grid may ever hold are finitely many, so that its rows
  can be counted.
- `DialogAssumption`: the trade users start from is one the routes would admit.

| theorem | states |
|---|---|
| `TypeCorrectness` | `Spec => []TypeOK` |
| `CancelledStaysFinal` | `Spec => CancelledIsFinal` |
| `SequenceStaysFresh` | `Spec => []FreshSequence` |
| `AuditIsAChain` | `Spec => []AuditChain` |
| `TradeIsCancelledOnce` | `Spec => []CancelledOnce` |
| `CommitsAreAnnounced` | `Spec => EveryCommitIsAnnouncedOrFails` |
| `BackendImplementsLifecycle` | `Spec => LifecycleSpec` |
| `FeedIsSound` | `BlotterSpec => []FeedInv` |
| `BlotterTypeCorrectness` | `BlotterSpec => []BlotterTypeOK` |
| `NothingIsMadeUp` | `BlotterSpec => []NoPhantomTrade` |
| `NoFalseCancellation` | `BlotterSpec => []NeverFalselyCancelled` |
| `TradesAreShownOnce` | `BlotterSpec => []NoTradeShownTwice` |
| `OnlyNamedCausesDrift` | `BlotterSpec => []DriftHasACause` |
| `BufferIsLossless` | `BlotterSpec => BufferLosesNothing` |
| `PagesAreNewest` | what `GET /trades` returns are the newest trades, each once, newest first |
| `ListedIsTheOrder`, `KeptIsTheFilter` | `Listed` orders and `Kept` filters, for every strict total order and every sequence |
| `ChainsNeverSplit` | `WsSpec => []OneChainPerMount` |
| `FlagNeverLies`, `FlagNeverMisses` | `WsSpec => []FlagIsTrue`, `WsSpec => []FlagIsComplete` |
| `WsTypeCorrect`, `BackoffIsKept` | `WsSpec => []WsTypeOK`, `WsSpec => OnlyAckResetsBackoff` |
| `PricesStayPositive` | `FeedSpec => []ShownPricesArePositive` |
| `FeedTypeCorrect` | `FeedSpec => []FeedTypeOK` |
| `LivePricesOnlyDrift` | `FeedSpec => TicksAreSmall` |
| `TheFiguresAgree` | `FeedSpec => []BrowserAgreesWithServer` |
| `CreateFormsAreAdmitted`, `AmendFormsAreAdmitted` | a form its rules let through has a body the edge takes; an amend form unless every control was cleared |
| `EdgeAdmitsEveryBody` | `DialogsSpec => []EdgeAdmitsEveryForm` |
| `WhatIsToldIsTrueAlways` | `DialogsSpec => []WhatIsToldIsTrue` |
| `OneFormOneTrade` | `DialogsSpec => []DuplicatesNeedALostAnswer` |
| `AmendmentsAreTyped` | `DialogsSpec => AmendsWhatWasTyped` |
| `SettledViewsCatchUp` | `AuditSpec => []SettledViewsAreCurrent` |
| `ViewsShowWhatTheyWereTold` | `AuditSpec => []WhatIsShownWasTold` |
| `ViewsOnlyGrow` | `AuditSpec => ViewsNeverLoseEntries` |
| `AuditTypeCorrect` | `AuditSpec => []AuditTypeOK` |
| `RowsAreLiveAtTop` | `GridSpec => []LiveAtTop` |
| `HeldRowsStay` | `GridSpec => StreamNeverMovesRows` |
| `GridTypeCorrect`, `PageExists` | `GridSpec => []GridTypeOK`, `GridSpec => []GridInv` |
| `SummaryStaysTrue` | `GridSpec => []SummaryIsTrue` |
| `NoKeystrokeIsLost` | `GridSpec => []SearchIsUnderWay` |

### The backend

*Types.* `TypeOK` is not inductive. `TypeInv` adds that the ids in use are bounded, so
that `SELECT MAX(id)` has an answer (`MaxIdExists`, from the totality of the text
order), and `TransactionOK`: while a handler is in a transaction, the transaction is
well formed, about the row of an active trade, and its working copy differs from the
committed rows in that row only. `DownIsIdle` says that a dead process handles
nothing. *Finality* follows: the one step that changes a row is the commit, and it
changes a row that was active when the transaction began and still is.

*Freshness.* Below `Rollover` the text order is the numeric one, so the number resumed
after a restart is above every id, and it only grows.

*Audit.* `AuditChain` speaks of committed tables only and is not inductive, because a
commit replaces them by the working copy. `AuditInv` therefore looks into the open
transaction: the entries still to be written lead from the committed value to the new
one, one per column, and the trail of the working copy ends, for each column, at the
new value if its entry has been written and at the committed one otherwise
(`TrailEnd`). Each INSERT moves one column from the second case to the first, and at
the commit none is left. That a trade is cancelled once is a consequence: a second
entry about its status would have to start from CANCELLED, and every such entry starts
from ACTIVE.

*Announcement.* `JobMatchesTransaction` ties what the handler remembers (the id and
the kind of change) to the transaction it opened, so a commit leaves the handler about to
read back the row it changed (`Told`). From there it goes to a broadcast of the row as
committed or to an error (`ReadBackLeads`), and no broadcast has another origin
(`BroadcastIsOfTheRow`).

*Refinement.* The mapping gives each column its journal: the entries of the audit table
about it, in order (`Journal`, by `Kept`). `JournalInv` says what the open transaction has
done to the journals so far: one change more for each column whose entry is written,
and nothing else. `JournalOfAppend` is what one more audit row does to them. Then the
INSERT of a trade is an `Enter`, the commit of a transaction a `Revise` and the seeding
start an `Open`; every statement, rollback, refusal, failure and crash is a stutter.

### Backend and browsers

`FeedInv` is inductive together with the backend's invariants: whatever a browser holds,
has buffered or is sent, in a message or in an answer of any age, is a row its trade may
have (`SoundTrades`), and cancelled only if the trade is. It rests on two facts of the
backend alone, that the table only grows and that the dead stay dead
(`SoundStaysSound`), so nothing has to be said about the order in which messages and
answers come. `NoPhantomTrade` and `NeverFalselyCancelled` follow.

*Duplicates.* `OnceInv` follows the creations: among the messages a client will still
get (`Stream`: those sent to it and the one of the change that is committed and not yet
broadcast, read back or not) and the buffer, each trade is announced as created once;
the buffer is filtered by the ids of the store when it drains, so a trade that came with
the query is not shown again.

*Drift.* `DriftHasACause` is about quiet browsers only. `DriftInv` says of every browser
what is owed to it: each trade of the table that is not flagged with a cause is shown as
it is, or is corrected by a message that is still to come, or is in the buffer or
announced as created (`Covered`). An answer under way owes the same, with the flags of the
time it was given (`since`). Two facts about the stream carry the steps: a cancellation is
the last message about its trade (`CancelIsLast`), and of the amendments under way the
last one fits the table (`LastAmendFits`). Messages that are lost, or applied without
effect, leave a flag; that is where each of the named causes enters. A change that is
committed is in the stream at once, as the message its handler will read back (`Due`,
`DueMessage`): the read-back and the broadcast leave the stream alone, and a crash or a
read that throws takes its last message away and flags it `unsent` (`GivesUp`).

*The window.* While the page stays open only a drain tick shortens the buffer, and no tick
runs while paused. What it takes is in the window afterwards if store and batch fit it
together (`BatchFits`), or may have been cut off by the cap, which the same step flags; the
rest stays buffered.

### Socket client, prices

*Sockets.* `ChainInv` adds to `OneChainPerMount` that the busy sockets are finitely
many, so that opening one and closing one change their number by one (`BusyGrows`,
`BusyShrinks`); a timer that fires is exchanged for a socket, a close event for a timer.
The flag rests on it: mounted once, two busy sockets are one (`OneSocket`), so an error
or a close event that clears the flag is of the socket that set it. `FlagInv` adds that
a socket that is connecting has not been greeted, and that a client that was never
mounted has none. `WsInv` adds to the types that an unmounted client holds no socket,
and was closed by hand or has no timer and no open socket, so that nothing reconnects
for it.

*Prices.* A price is shown only after a tick, whose floor is a cent, whatever the seed
was: the average of a book may round to 0, and a restart may put it into the feed.
`FeedInv` of `PriceFeedProofs` says that the book is one the routes admit and that prices
are whole cents; a step of the walk, exact before it is rounded, ends within half a cent
of 0.2%.

*Figures.* A sum over the book is defined by recursion along the sequence, which TLC
evaluates and the provers can unfold one step. What a sum is at every prefix is
shown from a least counterexample (`LeastNatural`, from well-founded induction on the
natural numbers used with a set instead of an operator): `RunningSums` says that the
running sums exist and end in the total, `TotalOfNaturals` and `BookSums` that quantities
and amounts add up to natural numbers, and to 0 only if there are no trades. The browser's
total is then the server's cash balance plus the position at the market price, because
`round2` moves out whole cents (`RoundShifted`) and undoes a common factor (`RoundScaled`).

### Forms, dialogs and views

*Forms.* A control is coerced to at most one value (`OneValue`), so the value the rules
have seen is the one the body carries; and for each column a value that is both what its
control can hold and what its rule takes is one the edge admits. A form opened on a
trade starts from controls a user could have left so, which show what the trade holds
(`DefaultsAreInputs`, which needs that the trade's numbers can be spelled), and editing
keeps it so (`FilledForms`).

*Dialogs.* `ScreenInv` is inductive. The book and the rows of the grid are well formed, a
dialog is about a trade of the book, and a request not answered yet carries what its
form let through (`Asked`), which is `EdgeAdmitsEveryForm`. `TruthInv` looks ahead of what
has been told to what the answers under way will tell; no step of the server or of
another user revises a cancelled trade (`BookStep`), so an answer is as true when it is
told as when it was given, whichever dialog is open by then. For `DuplicatesNeedALostAnswer`,
`FormInv` says when the form opened last has a success in hand: only while its request is
answered, and the callbacks then close the form. `AmendmentsAreTyped` follows from `Asked`
and `BodyOfForm`: a column of the body was filled in, and if it was not typed into it
carries what the trade held when the form was opened.

*Audit views.* `KeyInv` carries the debt of a request: an answer under way is of a table at
least as long as what was owed when its view asked, a settled view without an error has
been told of at least that, and an error without data has no request under way (so Retry
begins one and does not join an older). The table only grows, so that what was the
answer at some length stays so (`EntriesStay`). Three lemmas say what keeping, beginning
and joining a request do to one key, and every action is one of them on each key.
`AnswerIsLater` adds that an answer under way is of a table at least as long as the one
the data are of; the first entry of a view is the last of its table (`NamedEntries`).

*Grid.* `LiveAtTop` is inductive: a rebuilt list is either rendered or marked `missed`,
and the way back to the top renders. `GridInv` adds that the page exists, through every
change of the rows, the filters and the page size, from which the summary line is
arithmetic on a page that is not empty; only between a render that lost rows and the
queued reset may the index lie beyond the last page. `HeldRowsStay`: the rendered rows
are computed from what the grid holds (`SameRows`), and away from the top a change of
the store leaves that alone. `NoKeystrokeIsLost` is the safety half of `SearchSettles`:
while input and applied search differ, the timer holds exactly the text of the input, or
the input is about to be overwritten.

### Only model-checked

Liveness under fairness is out of the prover's reach: `RequestsAreAnswered`,
`AlwaysReconnects`, `NewSymbolsGetAPrice`, `AnswersComeBack`, `SearchSettles` and
`LoadingEnds`. The provers take no operator as an argument, so `Listing` defines orders as
sets of pairs and filters as sets of positions, and induction is used with sets; the
operators of TLC.tla for functions are unknown to them, so the modules spell out the
functions they mean. The four runs that end in a counterexample have nothing to prove.

## 5. Not modelled

- *Filters and pages after the first* on the server: they change nothing, and the browser
  never asks for them.
- *`PRICE_TICK` among the other messages*: it touches none of the trades, so `Blotter`
  leaves it out and `PriceFeed` delivers it at once. `isLoading` and `error` of the store.
- *Frames that are not messages*: parsed, warned about and dropped.
- *A request the browser gives up and the server still handles later*: `NetworkFails`
  ends a request before it is handled or after.
- *Scroll position in pixels and the virtualizer* (`scrollPreserve.ts`): they choose which
  of the page's rows are painted.
- *A hidden window*, which pauses retries and not first requests; only the network pauses
  requests in `AuditViews`.
- *The connection banner*, which the shell keeps but no longer renders, and *`usePnl`*, a
  query that no component uses.
- *Mutations paused while offline*: a request of `TradeDialogs` is sent when its button is
  pressed.
- *Composition of the views with the feed*: `BlotterGrid`, `TradeDialogs` and `AuditViews`
  take the store, the rows shown and the audit table as things that change by
  themselves, in any way `Blotter` and `TradeService` change them. What they promise does
  not depend on the order of those changes, and the product is beyond TLC.
- *Presentation*: layout, wording, formatting, styles, configuration, error boundary.

## 6. Plan

1. The market prices among the messages of `Blotter`, with the store's `isLoading`.
2. The remaining filters of the toolbar, each of the kind of one that is modelled.
3. Safety halves of the liveness properties, as `NoKeystrokeIsLost` is of `SearchSettles`:
   that a request under way, a mounted client or an unpriced symbol always has a step of
   the fair actions before it.
