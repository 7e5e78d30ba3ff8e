------------------------------ MODULE Blotter ------------------------------
(***************************************************************************)
(* The whole system: the backend (TradeService), the WebSocket fan-out     *)
(* (websocket/server.ts, websocket/broadcast.ts) and the browsers          *)
(* (TradeFeed).  Messages of one socket stay in order; a socket may break, *)
(* on either side first, and takes what it carried with it; the answer of  *)
(* GET /trades travels on its own connection, ordered with nothing.        *)
(***************************************************************************)
EXTENDS TradeService, TradeFeed

CONSTANTS
    CLIENT_FETCH_PAGE_SIZE,
    Faults,    \* which of "crash", "cut", "error" the environment may cause
    MaxInbox   \* bound: messages under way to one client

ASSUME BlotterAssumption ==
    /\ CLIENT_FETCH_PAGE_SIZE \in 1 .. MAX_LIVE_TRADES
    /\ Faults \subseteq {"crash", "cut", "error"}
    /\ MaxInbox \in Nat \ {0}

VARIABLE clients  \* wss.clients: the sockets that are open on the server's side

blotterVars == <<vars, feedVars, clients>>

-----------------------------------------------------------------------------
(* findAll: ORDER BY trade_date DESC, id DESC, ids compared as text *)

Newer(i, j) == \/ trade_date[i] > trade_date[j]
               \/ trade_date[i] = trade_date[j] /\ TextLess(j, i)
findAll ==
    Listed(DOMAIN trades,
           {p \in (DOMAIN trades) \X (DOMAIN trades) : Newer(p[1], p[2])})

\* getAllTrades for the first page
PageOf(order) ==
    SubSeq(order, 1, IF Len(order) < CLIENT_FETCH_PAGE_SIZE
                     THEN Len(order) ELSE CLIENT_FETCH_PAGE_SIZE)
getAllTrades ==
    LET page == PageOf(findAll) IN
    Response(Cardinality(DOMAIN trades),
             [k \in DOMAIN page |-> Shown(page[k], trades[page[k]])])

-----------------------------------------------------------------------------
(* Joint actions *)

\* createBroadcaster: every open socket gets the message, the others do not.
Broadcast ==
    /\ \A c \in clients : Len(inbox[c]) < MaxInbox
    /\ Publish
    /\ LET lost(c) == IF c \in clients THEN {} ELSE {<<"lost", job.message.id>>} IN
         /\ inbox' = [c \in Clients |-> IF c \in clients
                        THEN Append(inbox[c], job.message) ELSE inbox[c]]
         /\ missed' = [c \in Clients |-> missed[c] \cup lost(c)]
         /\ since' = [c \in Clients |-> IF fetch[c].phase = "answered"
                        THEN since[c] \cup lost(c) ELSE since[c]]
    /\ UNCHANGED <<store, buffer, paused, connected, fetch, cache, clients>>

\* The handlers' other steps are not seen by any client.
ServerStep ==
    /\ Request \/ NextRandomTrade \/ RunStatement \/ Finish \/ Abort \/ ReadBack
       \/ ErrorHandler \/ Start \/ AdvanceClock
    /\ UNCHANGED <<feedVars, clients>>

\* History: no client will hear of the trades in unsent.
Silent(unsent) ==
    LET pairs == {<<"unsent", i>> : i \in unsent} IN
    /\ missed' = [c \in Clients |-> missed[c] \cup pairs]
    /\ since' = [c \in Clients |-> IF fetch[c].phase = "answered"
                    THEN since[c] \cup pairs ELSE since[c]]
    /\ UNCHANGED <<store, buffer, paused, inbox, connected, fetch, cache>>

\* The row of a committed change cannot be read back for its broadcast.
ServerReadBackFails ==
    /\ ReadBackFails
    /\ Silent({job.id})
    /\ UNCHANGED clients

\* The trade whose change is committed and still to be broadcast.
Pending ==
    IF job.phase = "readback" THEN {job.id}
    ELSE IF job.phase = "publish" THEN {job.message.id} ELSE {}

\* The process dies.
ServerCrash ==
    /\ "crash" \in Faults
    /\ Crash
    /\ clients' = {}
    /\ Silent(Pending)

\* The upgrade of /ws succeeds: the socket joins wss.clients.
Connect(c) ==
    /\ idle
    /\ Reopen(c)
    /\ clients' = clients \cup {c}
    /\ UNCHANGED vars

\* The server's end of a socket closes; the client has not noticed yet.
Cut(c) ==
    /\ "cut" \in Faults
    /\ c \in clients
    /\ clients' = clients \ {c}
    /\ UNCHANGED <<vars, feedVars>>

\* The client notices a socket the server has dropped already.
NoticeClose(c) ==
    /\ c \notin clients
    /\ Close(c)
    /\ UNCHANGED <<vars, clients>>

\* The trades beyond the page, of a table larger than a page.
OffPage ==
    IF Cardinality(DOMAIN trades) <= CLIENT_FETCH_PAGE_SIZE THEN {}
    ELSE DOMAIN trades \ ids(getAllTrades.data)

AnswerFetch(c) ==
    /\ idle
    /\ Answered(c, getAllTrades, OffPage)
    /\ UNCHANGED <<vars, clients>>

FailFetch(c) ==
    /\ ~up \/ "error" \in Faults
    /\ FetchFails(c)
    /\ UNCHANGED <<vars, clients>>

ClientStep(c) ==
    /\ Receive(c) \/ drainTick(c) \/ setStreamPaused(c) \/ startFetch(c) \/ Load(c)
    /\ UNCHANGED <<vars, clients>>

LeavePage(c) ==
    /\ Leave(c)
    /\ clients' = clients \ {c}
    /\ UNCHANGED vars

BlotterInit == Init /\ FeedInit /\ clients = {}

BlotterNext ==
    \/ Broadcast \/ ServerStep \/ ServerReadBackFails \/ ServerCrash
    \/ \E c \in Clients : \/ Connect(c) \/ Cut(c) \/ NoticeClose(c) \/ LeavePage(c)
                          \/ AnswerFetch(c) \/ FailFetch(c) \/ ClientStep(c)

BlotterSpec == BlotterInit /\ [][BlotterNext]_blotterVars

-----------------------------------------------------------------------------
(* Properties *)

Shows(c, i) == \E k \in DOMAIN store[c] : store[c][k] = Shown(i, trades[i])
Flagged(c, i) == \E cause \in Causes : <<cause, i>> \in missed[c]

\* Nothing is under way between the server and client c, which has loaded.
Quiet(c) ==
    /\ job = Idle
    /\ inbox[c] = <<>> /\ buffer[c] = <<>>
    /\ fetch[c] = NoFetch /\ cache[c].loaded

BlotterTypeOK ==
    /\ clients \subseteq {c \in Clients : connected[c]}
    /\ \A c \in Clients :
         /\ Len(store[c]) <= MAX_LIVE_TRADES
         /\ \A k \in DOMAIN store[c] : store[c][k].row \in Rows
         /\ missed[c] \cup since[c] \subseteq Causes \X Nat
         /\ fetch[c].phase # "answered" => since[c] = {}

\* A quiet client shows every trade as the server holds it, except after one
\* of the five named causes: nothing else in the store, the buffer, the
\* broadcast or the query makes a browser drift from the database.
DriftHasACause ==
    \A c \in Clients : Quiet(c) =>
        \A i \in DOMAIN trades : Shows(c, i) \/ Flagged(c, i)

\* One socket and one query never make the grid show a trade twice, although
\* both deliver it: addTradesBatch drops what an answer brought in meanwhile.
NoTradeShownTwice ==
    \A c \in Clients : Cardinality(ids(store[c])) = Len(store[c])

\* A browser never knows a trade the database does not hold, crashes included:
\* handlers commit before they broadcast.
NoPhantomTrade ==
    \A c \in Clients :
        /\ ids(store[c]) \cup ids(buffer[c]) \subseteq DOMAIN trades
        /\ \A k \in DOMAIN inbox[c] : inbox[c][k].id \in DOMAIN trades

\* A trade shown as cancelled is cancelled: no message or answer, however late,
\* marks a live trade as dead.
NeverFalselyCancelled ==
    \A c \in Clients : \A k \in DOMAIN store[c] :
        store[c][k].row["status"] = "CANCELLED"
            => trades[store[c][k].id]["status"] = "CANCELLED"

\* Pausing and pacing discard nothing: as long as its page stays open, a trade
\* leaves the buffer only for the store, in the step that shows it or finds the
\* window full, and stays buffered while paused.
BufferLosesNothing ==
    [][\A c \in Clients : ~LeavePage(c) =>
          \A i \in ids(buffer[c]) \ ids(buffer'[c]) :
              /\ ~paused[c]
              /\ i \in ids(store'[c]) \/ <<"capped", i>> \in missed'[c]]_blotterVars

\* README.md: all connected clients converge on the same state.
ConnectedClientsConverge ==
    \A c \in clients : Quiet(c) => \A i \in DOMAIN trades : Shows(c, i)
=============================================================================
