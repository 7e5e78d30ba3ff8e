----------------------------- MODULE AuditViews -----------------------------
(***************************************************************************)
(* The two views of the audit trail of one browser: the panel that shows   *)
(* the history of a trade (AuditHistoryPanel.tsx, useAuditHistory.ts) and  *)
(* the global feed of the Audit tab (AuditView.tsx, useAuditFeed.ts), over *)
(* the query cache of the application and the server's audit table.        *)
(*                                                                         *)
(* Nothing invalidates an audit query: a view is as recent as the fetch    *)
(* that its opening, its Retry button, the window's focus or the network's *)
(* return began.  A request outlives the view that began it.               *)
(*                                                                         *)
(* The cache is TanStack Query 5 as App.tsx and the hooks configure it:    *)
(* no retry, data stale at once, one fetch per key, paused while offline,  *)
(* refetched on mount, focus and reconnection, forgotten when unused.      *)
(***************************************************************************)
EXTENDS Integers, FiniteSetsExt, Listing

CONSTANTS
    Trades,      \* the ids of the trades in the book
    Clicked,     \* those of them this user looks up
    MAX_FIELDS,  \* most columns one amendment changes
    FEED_LIMIT,  \* DEFAULT_AUDIT_FEED_LIMIT
    Outages,     \* whether the browser may lose the network
    MaxEntries   \* bound: entries in the audit table

ASSUME AuditAssumption ==
    /\ {MAX_FIELDS, FEED_LIMIT, MaxEntries} \subseteq Nat \ {0}
    /\ Outages \in BOOLEAN /\ Clicked \subseteq Trades
    /\ "feed" \notin Trades /\ "none" \notin Trades

VARIABLES
    trade_audit,  \* the audit table: the trade of each entry, in order of its id
    online,       \* what the browser says of its network
    view,         \* the tab: the feed's, or the one with the grid
    panel,        \* auditTarget: the trade whose panel is open, or "none"
    cache,        \* key -> its query
    owed          \* history: key -> entries there were when it was last wanted

shellVars == <<view, panel>>
auditVars == <<trade_audit, online, shellVars, cache, owed>>

Keys == Clicked \cup {"feed"}
NoData == <<0>>  \* no entry has the id 0
Query(data, isError, fetch, answer) ==
    [data |-> data, isError |-> isError, fetch |-> fetch, answer |-> answer]
NewQuery == Query(NoData, FALSE, "idle", <<>>)

-----------------------------------------------------------------------------
(* The server.  An entry is named by its id.                               *)

\* ORDER BY id DESC.
Descending(ids) == Listed(ids, {p \in ids \X ids : p[1] > p[2]})

findAllAuditEntries(n, limit) == Descending(Max({0, n - limit}) + 1 .. n)
findAuditHistory(t, n) == Descending({i \in 1 .. n : trade_audit[i] = t})

\* The answer about a key when the table held n entries.
Entries(k, n) ==
    IF k = "feed" THEN findAllAuditEntries(n, FEED_LIMIT) ELSE findAuditHistory(k, n)

\* An amendment or a cancellation, by anyone: one transaction.
Record(t, columns) ==
    /\ Len(trade_audit) + columns <= MaxEntries
    /\ trade_audit' = trade_audit \o [i \in 1 .. columns |-> t]
    /\ UNCHANGED <<online, shellVars, cache, owed>>

AnswerQuery(k) ==
    /\ cache[k].fetch = "sent"
    /\ cache' = [cache EXCEPT ![k] = Query(cache[k].data, cache[k].isError, "answered",
                                           Entries(k, Len(trade_audit)))]
    /\ UNCHANGED <<trade_audit, online, shellVars, owed>>

-----------------------------------------------------------------------------
(* The cache *)

observed(k) == IF k = "feed" THEN view = "audit" ELSE panel = k

\* A fetch without data forgets the error before it.
Attempt(q, fetch) == Query(q.data, q.isError /\ q.data # NoData, fetch, <<>>)
Begin(q) == Attempt(q, IF online THEN "sent" ELSE "paused")

\* Faulty variant: a component that mounts starts the request over.
FetchAnew(q) == Begin(q)

\* Faulty variant: data that is there is taken for fresh.
FetchUnlessCached(q) ==
    IF q.fetch = "idle" /\ q.data = NoData THEN Begin(q) ELSE q

\* query.fetch() without cancelRefetch joins the request under way.
Fetch(q) == IF q.fetch = "idle" THEN Begin(q) ELSE q

\* query.refetch() gives up the request under way if there is data to show.
Refetch(q) == IF q.data # NoData THEN Begin(q) ELSE Fetch(q)

\* What a view that asks for a key now may count on: the entries there are,
\* or, when it joins a request, what the request could count on.
Wanted(k) ==
    owed' = [owed EXCEPT ![k] = IF cache[k].fetch = "idle"
                                THEN Len(trade_audit) ELSE owed[k]]

Succeed(k) ==
    /\ cache[k].fetch = "answered"
    /\ cache' = [cache EXCEPT ![k] = Query(cache[k].answer, FALSE, "idle", <<>>)]
    /\ UNCHANGED <<trade_audit, online, shellVars, owed>>

\* Faulty variant: a failure is dropped.
FailSilently(k) ==
    /\ cache[k].fetch \in {"sent", "answered"}
    /\ cache' = [cache EXCEPT ![k] = Query(cache[k].data, FALSE, "idle", <<>>)]
    /\ UNCHANGED <<trade_audit, online, shellVars, owed>>

\* Faulty variant: a failure clears the data.
FailAndForget(k) ==
    /\ cache[k].fetch \in {"sent", "answered"}
    /\ cache' = [cache EXCEPT ![k] = Query(NoData, TRUE, "idle", <<>>)]
    /\ UNCHANGED <<trade_audit, online, shellVars, owed>>

\* The request or its answer is lost, or the server answers with an error.
Fail(k) ==
    /\ cache[k].fetch \in {"sent", "answered"}
    /\ cache' = [cache EXCEPT ![k] = Query(cache[k].data, TRUE, "idle", <<>>)]
    /\ UNCHANGED <<trade_audit, online, shellVars, owed>>

\* gcTime passes: a query nobody observes, and no request feeds, is removed.
Collect(k) ==
    /\ ~observed(k) /\ cache[k].fetch = "idle" /\ cache[k] # NewQuery
    /\ cache' = [cache EXCEPT ![k] = NewQuery]
    /\ UNCHANGED <<trade_audit, online, shellVars, owed>>

\* refetchOnWindowFocus: of the queries observed.
Focus ==
    /\ \E k \in Keys : observed(k)
    /\ cache' = [k \in Keys |-> IF observed(k) THEN Fetch(cache[k]) ELSE cache[k]]
    /\ UNCHANGED <<trade_audit, online, shellVars, owed>>

GoOffline ==
    /\ Outages /\ online /\ online' = FALSE
    /\ UNCHANGED <<trade_audit, shellVars, cache, owed>>

\* Paused requests are sent, and refetchOnReconnect adds those observed.
resumes(k) == \/ cache[k].fetch = "paused"
              \/ cache[k].fetch = "idle" /\ observed(k)

GoOnline ==
    /\ ~online /\ online' = TRUE
    /\ cache' = [k \in Keys |->
                   IF resumes(k) THEN Attempt(cache[k], "sent")
                   ELSE cache[k]]
    /\ UNCHANGED <<trade_audit, shellVars, owed>>

-----------------------------------------------------------------------------
(* The views *)

\* A click on a row of the grid; the panel leaves the grid in reach.
OpenPanel(t) ==
    /\ view = "blotter" /\ panel # t
    /\ panel' = t
    /\ cache' = [cache EXCEPT ![t] = Fetch(cache[t])]
    /\ Wanted(t)
    /\ UNCHANGED <<trade_audit, online, view>>

ClosePanel ==
    /\ panel # "none" /\ panel' = "none"
    /\ UNCHANGED <<trade_audit, online, view, cache, owed>>

\* The panel belongs to the shell and stays; the feed lives in its tab.
SetView(v) ==
    /\ view # v /\ view' = v
    /\ IF v = "audit"
       THEN cache' = [cache EXCEPT !["feed"] = Fetch(cache["feed"])] /\ Wanted("feed")
       ELSE UNCHANGED <<cache, owed>>
    /\ UNCHANGED <<trade_audit, online, panel>>

\* Pending and fetching: a paused query is neither loading nor failed.
isLoading(k) ==
    /\ cache[k].data = NoData /\ ~cache[k].isError
    /\ cache[k].fetch \in {"sent", "answered"}

\* The error hides the panel's data, and stands above the feed's.
AuditBody(k) ==
    CASE isLoading(k) -> "loading"
      [] ~isLoading(k) /\ k # "feed" /\ cache[k].isError -> "error"
      [] OTHER -> IF cache[k].data \in {NoData, <<>>} THEN "empty" ELSE "entries"

\* The Retry button of a view that shows an error.
Retry(k) ==
    /\ observed(k) /\ cache[k].isError
    /\ cache' = [cache EXCEPT ![k] = Refetch(cache[k])]
    /\ owed' = [owed EXCEPT ![k] = Len(trade_audit)]
    /\ UNCHANGED <<trade_audit, online, shellVars>>

-----------------------------------------------------------------------------

AuditInit ==
    /\ trade_audit = <<>> /\ online = TRUE
    /\ view = "blotter" /\ panel = "none"
    /\ cache = [k \in Keys |-> NewQuery]
    /\ owed = [k \in Keys |-> 0]

AuditNext ==
    \/ \E t \in Trades : \E columns \in 1 .. MAX_FIELDS : Record(t, columns)
    \/ \E t \in Clicked : OpenPanel(t)
    \/ \E v \in {"blotter", "audit"} : SetView(v)
    \/ ClosePanel \/ Focus \/ GoOffline \/ GoOnline
    \/ \E k \in Keys : \/ AnswerQuery(k) \/ Succeed(k) \/ Fail(k)
                       \/ Collect(k) \/ Retry(k)

\* A request that was sent ends: the server answers, or the browser gives up.
AuditFairness ==
    \A k \in Keys : WF_auditVars(AnswerQuery(k)) /\ WF_auditVars(Succeed(k))

AuditSpec == AuditInit /\ [][AuditNext]_auditVars /\ AuditFairness

-----------------------------------------------------------------------------
(* Properties *)

Told(k, n) == \E m \in n .. Len(trade_audit) : cache[k].data = Entries(k, m)

\* What a view says of the history, other than that it could not get it.
Claims(k) == \/ AuditBody(k) = "entries"
             \/ AuditBody(k) = "empty" /\ ~cache[k].isError

\* Every variable has its type.
AuditTypeOK ==
    /\ trade_audit \in Seq(Trades) /\ Len(trade_audit) <= MaxEntries
    /\ online \in BOOLEAN /\ view \in {"blotter", "audit"}
    /\ panel \in Clicked \cup {"none"}
    /\ owed \in [Keys -> 0 .. MaxEntries]
    /\ DOMAIN cache = Keys
    /\ \A k \in Keys : /\ cache[k].fetch \in {"idle", "paused", "sent", "answered"}
                       /\ cache[k].isError \in BOOLEAN

\* A view that has settled without an error lists every entry of its trade that
\* there was when it was opened or retried, or when the request it joined was
\* begun: what a cache held from before is never the last word (App.tsx and the
\* hooks leave data stale at once, and nothing invalidates it).
SettledViewsAreCurrent ==
    \A k \in Keys :
        observed(k) /\ cache[k].fetch = "idle" /\ ~cache[k].isError => Told(k, owed[k])

\* What a view lists was the history of its own trade at some time, whole and
\* newest first; and it says that there are no amendments, without an error
\* beside it, only when it was told so, or while the network is down (AuditBody
\* and AuditView fall through to the empty message).
WhatIsShownWasTold ==
    \A k \in Keys :
        observed(k) /\ Claims(k) => Told(k, 0) \/ cache[k].fetch = "paused"

\* AuditHistoryPanel.tsx:12 "The loading skeleton is rendered IMMEDIATELY on
\* open": a panel without an answer or a failure yet shows the skeleton.
SkeletonUntilAnswered ==
    panel # "none" /\ cache[panel].data = NoData /\ ~cache[panel].isError =>
        AuditBody(panel) = "loading"

\* While a view stays on a key its entries only grow: a late, failed, joined or
\* repeated request never takes an entry off it (query cache, one fetch a key).
ViewsNeverLoseEntries ==
    [][\A k \in Keys : observed(k) /\ observed(k)' /\ cache[k].data # NoData =>
           /\ cache'[k].data # NoData
           /\ cache[k].data # <<>> =>
                  /\ cache'[k].data # <<>>
                  /\ Head(cache'[k].data) >= Head(cache[k].data)]_auditVars

\* However often the views of a key are opened and closed, its first request
\* that went out ends, and with it the skeleton (App.tsx: retry false).
LoadingEnds ==
    \A k \in Keys : isLoading(k) ~> ~isLoading(k)
=============================================================================
