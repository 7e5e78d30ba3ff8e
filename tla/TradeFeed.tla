----------------------------- MODULE TradeFeed -----------------------------
(***************************************************************************)
(* The live side of each browser: the trade store (trade.store.ts), the    *)
(* buffer of created trades drained at a paced rate (useTradeSocket.ts),   *)
(* and the query that loads the whole list (useTrades.ts).                 *)
(*                                                                         *)
(* A shown trade is its id and its row.  Every operator is about one       *)
(* client c; what the server does is in the modules that compose this one. *)
(*                                                                         *)
(* missed and since are history variables: missed[c] is the set of pairs   *)
(* <<cause, id>> of the trades the client may show wrongly, since[c] the   *)
(* pairs added after the answer of the fetch in flight was computed.       *)
(***************************************************************************)
EXTENDS Listing

CONSTANTS
    Clients,          \* browsers with the blotter open
    MAX_LIVE_TRADES,  \* capacity of the store
    Dials             \* values of the streamMaxPerTick dial

ASSUME FeedAssumption == MAX_LIVE_TRADES \in Nat \ {0} /\ Dials \subseteq Nat \ {0}

VARIABLES
    store,      \* client -> sequence of shown trades
    buffer,     \* client -> created trades waiting for a drain tick
    paused,     \* client -> streamPaused
    inbox,      \* client -> messages sent to it and not yet received
    connected,  \* client -> whether it holds a socket it believes open
    fetch,      \* client -> the GET /trades in flight
    cache,      \* client -> query.data
    missed, since

feedVars == <<store, buffer, paused, inbox, connected, fetch, cache, missed, since>>

Causes == {"early",        \* a patch reached the client before its trade was shown
           "lost",         \* a message never reached the client
           "unsent",       \* a change was committed and never broadcast
           "overwritten",  \* an older answer replaced what messages had done
           "capped"}       \* the trade fell out of the window

NoFetch == [phase |-> "none"]
Sent == [phase |-> "sent"]
NoData == [total |-> 0, data |-> <<>>, loaded |-> FALSE]
Response(total, data) == [total |-> total, data |-> data, loaded |-> TRUE]

Shown(id, row) == [id |-> id, row |-> row]
Cancelled(row) == [row EXCEPT !["status"] = "CANCELLED"]
ids(s) == {s[k].id : k \in DOMAIN s}

-----------------------------------------------------------------------------
(* The store *)

\* Faulty variant: the window ends one trade short of its capacity.
CapOneTooFew(s) ==
    IF Len(s) < MAX_LIVE_TRADES THEN s
    ELSE SubSeq(s, Len(s) - MAX_LIVE_TRADES + 2, Len(s))

\* Faulty variant: the window is off by one.
CapOneTooMany(s) ==
    IF Len(s) <= MAX_LIVE_TRADES + 1 THEN s
    ELSE SubSeq(s, Len(s) - MAX_LIVE_TRADES, Len(s))

capToWindow(s) ==
    IF Len(s) <= MAX_LIVE_TRADES THEN s
    ELSE SubSeq(s, Len(s) - MAX_LIVE_TRADES + 1, Len(s))

setTrades(s) == capToWindow(s)

\* Faulty variant: no check of the ids already shown.
AppendAll(s, batch) == capToWindow(s \o batch)

addTradesBatch(s, batch) ==
    LET fresh == {k \in DOMAIN batch : batch[k].id \notin ids(s)}
    IN capToWindow(s \o Kept(batch, fresh))

updateTrade(s, t) == [k \in DOMAIN s |-> IF s[k].id = t.id THEN t ELSE s[k]]

cancelShown(s, id) ==
    [k \in DOMAIN s |-> IF s[k].id = id THEN Shown(id, Cancelled(s[k].row)) ELSE s[k]]

-----------------------------------------------------------------------------
(* History *)

\* The trades that fall out of a window too small for what it holds and gets.
Dropped(held, batch, shown) ==
    IF Len(held) + Len(batch) <= MAX_LIVE_TRADES THEN {}
    ELSE (ids(held) \cup ids(batch)) \ ids(shown)

Note(c, pairs) ==
    /\ missed' = [missed EXCEPT ![c] = @ \cup pairs]
    /\ since' = [since EXCEPT ![c] = IF fetch[c].phase = "answered"
                                     THEN @ \cup pairs ELSE @]

\* What client c did with trade id would be undone by an answer in flight.
Applied(c, id) ==
    IF fetch[c].phase = "answered" THEN {<<"overwritten", id>>} ELSE {}

-----------------------------------------------------------------------------
(* The socket's messages *)

onCreated(c, m) ==
    /\ buffer' = [buffer EXCEPT ![c] = Append(@, Shown(m.id, m.payload))]
    /\ UNCHANGED <<store, missed, since>>

\* Faulty variant: patches are ignored while the stream is paused.
PatchUnlessPaused(c, m) ==
    /\ store' = [store EXCEPT ![c] =
                   IF paused[c] THEN @
                   ELSE IF m.type = "TRADE_AMENDED"
                   THEN updateTrade(@, Shown(m.id, m.payload))
                   ELSE cancelShown(@, m.id)]
    /\ Note(c, (IF m.id \in ids(store[c]) THEN {} ELSE {<<"early", m.id>>})
                 \cup Applied(c, m.id))
    /\ UNCHANGED buffer

onPatch(c, m) ==
    /\ store' = [store EXCEPT ![c] =
                   IF m.type = "TRADE_AMENDED"
                   THEN updateTrade(@, Shown(m.id, m.payload))
                   ELSE cancelShown(@, m.id)]
    /\ Note(c, (IF m.id \in ids(store[c]) THEN {} ELSE {<<"early", m.id>>})
                 \cup Applied(c, m.id))
    /\ UNCHANGED buffer

Receive(c) ==
    /\ connected[c]
    /\ inbox[c] # <<>>
    /\ LET m == Head(inbox[c]) IN
         IF m.type = "TRADE_CREATED" THEN onCreated(c, m) ELSE onPatch(c, m)
    /\ inbox' = [inbox EXCEPT ![c] = Tail(@)]
    /\ UNCHANGED <<paused, connected, fetch, cache>>

\* Faulty variant: one batch is shown and the rest of the buffer cleared.
DrainAndClear(c) ==
    /\ ~paused[c]
    /\ buffer[c] # <<>>
    /\ \E n \in Dials :
         LET streamMaxPerTick == IF n < Len(buffer[c]) THEN n ELSE Len(buffer[c])
             slice == SubSeq(buffer[c], 1, streamMaxPerTick)
         IN store' = [store EXCEPT ![c] = addTradesBatch(@, slice)]
    /\ buffer' = [buffer EXCEPT ![c] = <<>>]
    /\ UNCHANGED <<paused, inbox, connected, fetch, cache, missed, since>>

\* One setInterval tick; the effect arms no timer while paused.
drainTick(c) ==
    /\ ~paused[c]
    /\ buffer[c] # <<>>
    /\ \E n \in Dials :
         LET streamMaxPerTick == IF n < Len(buffer[c]) THEN n ELSE Len(buffer[c])
             slice == SubSeq(buffer[c], 1, streamMaxPerTick)
             shown == addTradesBatch(store[c], slice)
         IN /\ buffer' = [buffer EXCEPT ![c] =
                            SubSeq(@, streamMaxPerTick + 1, Len(@))]
            /\ store' = [store EXCEPT ![c] = shown]
            /\ Note(c, {<<"capped", i>> : i \in Dropped(store[c], slice, shown)}
                         \cup UNION {Applied(c, i) : i \in ids(slice)})
    /\ UNCHANGED <<paused, inbox, connected, fetch, cache>>

setStreamPaused(c) ==
    /\ paused' = [paused EXCEPT ![c] = ~@]
    /\ UNCHANGED <<store, buffer, inbox, connected, fetch, cache, missed, since>>

\* The socket closes under the client: what was under way is gone.
Close(c) ==
    /\ connected[c]
    /\ connected' = [connected EXCEPT ![c] = FALSE]
    /\ inbox' = [inbox EXCEPT ![c] = <<>>]
    /\ Note(c, {<<"lost", inbox[c][k].id>> : k \in DOMAIN inbox[c]})
    /\ UNCHANGED <<store, buffer, paused, fetch, cache>>

\* The page is reloaded or left (the only way useTradeSocket unmounts): the
\* effect's cleanup discards the buffer, and everything else of the page goes too.
Leave(c) ==
    /\ store' = [store EXCEPT ![c] = <<>>]
    /\ buffer' = [buffer EXCEPT ![c] = <<>>]
    /\ paused' = [paused EXCEPT ![c] = FALSE]
    /\ inbox' = [inbox EXCEPT ![c] = <<>>]
    /\ connected' = [connected EXCEPT ![c] = FALSE]
    /\ fetch' = [fetch EXCEPT ![c] = NoFetch]
    /\ cache' = [cache EXCEPT ![c] = NoData]
    /\ missed' = [missed EXCEPT ![c] = {}]
    /\ since' = [since EXCEPT ![c] = {}]

\* A new socket; onopen and CONNECTION_ACK trigger no fetch.
Reopen(c) ==
    /\ ~connected[c]
    /\ connected' = [connected EXCEPT ![c] = TRUE]
    /\ UNCHANGED <<store, buffer, paused, inbox, fetch, cache, missed, since>>

-----------------------------------------------------------------------------
(* The query: one fetch at a time (the Refresh control is disabled while    *)
(* one is in flight, the first load and a focus join it).                  *)

startFetch(c) ==
    /\ fetch[c] = NoFetch
    /\ fetch' = [fetch EXCEPT ![c] = Sent]
    /\ UNCHANGED <<store, buffer, paused, inbox, connected, cache, missed, since>>

\* The server computed response, from which its page left out the trades in absent.
Answered(c, response, absent) ==
    /\ fetch[c] = Sent
    /\ fetch' = [fetch EXCEPT ![c] = [phase |-> "answered", response |-> response]]
    /\ since' = [since EXCEPT ![c] = {<<"capped", i>> : i \in absent}]
    /\ UNCHANGED <<store, buffer, paused, inbox, connected, cache, missed>>

\* History: an answer repairs a message that never came, unless an earlier message about
\* the same trade is still on its way and will be applied on top of it.
StillLost(c) ==
    {<<cause, inbox[c][k].id>> : cause \in {"lost", "unsent"}, k \in DOMAIN inbox[c]}
        \cap missed[c]

\* The answer arrives.  query.data keeps its identity when the answer equals
\* the one before (structural sharing), and then the effect that writes the
\* store does not run.
Load(c) ==
    /\ fetch[c].phase = "answered"
    /\ LET response == fetch[c].response IN
         IF response = cache[c]
         THEN UNCHANGED <<store, cache, missed>>
         ELSE /\ cache' = [cache EXCEPT ![c] = response]
              /\ store' = [store EXCEPT ![c] = setTrades(response.data)]
              /\ missed' = [missed EXCEPT ![c] = since[c] \cup StillLost(c)]
    /\ fetch' = [fetch EXCEPT ![c] = NoFetch]
    /\ since' = [since EXCEPT ![c] = {}]
    /\ UNCHANGED <<buffer, paused, inbox, connected>>

\* No retry: the query goes to its error state and keeps its data.
FetchFails(c) ==
    /\ fetch[c] # NoFetch
    /\ fetch' = [fetch EXCEPT ![c] = NoFetch]
    /\ since' = [since EXCEPT ![c] = {}]
    /\ UNCHANGED <<store, buffer, paused, inbox, connected, cache, missed>>

FeedInit ==
    /\ store = [c \in Clients |-> <<>>]
    /\ buffer = [c \in Clients |-> <<>>]
    /\ paused = [c \in Clients |-> FALSE]
    /\ inbox = [c \in Clients |-> <<>>]
    /\ connected = [c \in Clients |-> FALSE]
    /\ fetch = [c \in Clients |-> NoFetch]
    /\ cache = [c \in Clients |-> NoData]
    /\ missed = [c \in Clients |-> {}]
    /\ since = [c \in Clients |-> {}]
=============================================================================
