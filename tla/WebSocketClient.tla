--------------------------- MODULE WebSocketClient ---------------------------
(***************************************************************************)
(* The singleton socket client of the browser (websocket.client.ts): open, *)
(* reconnect with exponential backoff, disconnect, and the hook that mounts *)
(* it (useTradeSocket.ts).  The client reads the field socket only in      *)
(* connect and disconnect: the callbacks of every socket it ever opened    *)
(* stay attached, so a late event of an old one acts on the client too.    *)
(***************************************************************************)
EXTENDS Naturals, FiniteSets

CONSTANTS
    Sockets,     \* WebSocket objects; one that has closed stands for a new one
    NoSocket,
    Remounts,    \* how often the hook may unmount and mount again
    MaxAttempt,  \* bound: attempts counted; from 6 on the delay is MAX_BACKOFF_MS
    MaxTimers    \* bound: reconnect timers armed at once

ASSUME SocketAssumption ==
    /\ NoSocket \notin Sockets
    /\ Remounts \in Nat
    /\ MaxAttempt \in Nat \ {0}
    /\ MaxTimers \in Nat \ {0}

VARIABLES
    state,           \* socket -> where it is in its life
    acked,           \* sockets whose CONNECTION_ACK has arrived
    socket,          \* the field socket
    attempt,
    reconnectTimer,  \* whether the field refers to an armed timer
    strayTimers,     \* armed timers the field no longer refers to
    manuallyClosed,
    mounted,         \* useTradeSocket is mounted
    unmounts,        \* how often it has been unmounted
    isConnected      \* the flag in the trade store

wsVars == <<state, acked, socket, attempt, reconnectTimer, strayTimers,
            manuallyClosed, mounted, unmounts, isConnected>>

\* closing: close() was called; broken: the peer or the network ended it.  For
\* both the close event is still to come.  readyState <= OPEN is Live.
States == {"closed", "connecting", "open", "closing", "broken"}
Live == {s \in Sockets : state[s] \in {"connecting", "open"}}

\* notifyConnection reaches the store only while the hook is subscribed.
notifyConnection(flag) == isConnected' = IF mounted THEN flag ELSE isConnected

WsInit ==
    /\ state = [s \in Sockets |-> "closed"]
    /\ acked = {}
    /\ socket = NoSocket
    /\ attempt = 0
    /\ reconnectTimer = FALSE
    /\ strayTimers = 0
    /\ manuallyClosed = FALSE
    /\ mounted = FALSE
    /\ unmounts = 0
    /\ isConnected = FALSE

-----------------------------------------------------------------------------
(* open, connect, disconnect *)

\* Faulty variant: the field socket is not updated.
OpenUnrecorded ==
    \E s \in Sockets :
        /\ state[s] = "closed"
        /\ state' = [state EXCEPT ![s] = "connecting"]
        /\ acked' = acked \ {s}
        /\ UNCHANGED socket

open ==
    \E s \in Sockets :
        /\ state[s] = "closed"
        /\ state' = [state EXCEPT ![s] = "connecting"]
        /\ acked' = acked \ {s}
        /\ socket' = s

\* The mount effect: subscribe, then connect().
Mount ==
    /\ ~mounted
    /\ mounted' = TRUE
    /\ IF socket # NoSocket /\ socket \in Live
       THEN UNCHANGED <<state, acked, socket, manuallyClosed>>
       ELSE manuallyClosed' = FALSE /\ open
    /\ UNCHANGED <<attempt, reconnectTimer, strayTimers, unmounts, isConnected>>

\* The cleanup: unsubscribe, then disconnect(), whose notification nobody hears.
Unmount ==
    /\ mounted
    /\ unmounts < Remounts
    /\ mounted' = FALSE
    /\ unmounts' = unmounts + 1
    /\ manuallyClosed' = TRUE
    /\ reconnectTimer' = FALSE
    /\ state' = IF socket # NoSocket /\ socket \in Live
                THEN [state EXCEPT ![socket] = "closing"] ELSE state
    /\ socket' = NoSocket
    /\ UNCHANGED <<acked, attempt, strayTimers, isConnected>>

-----------------------------------------------------------------------------
(* Events of a socket, whichever one it is *)

\* The handshake completes; the server sends CONNECTION_ACK at once.
Accept(s) ==
    /\ state[s] = "connecting"
    /\ state' = [state EXCEPT ![s] = "open"]
    /\ UNCHANGED <<acked, socket, attempt, reconnectTimer, strayTimers,
                   manuallyClosed, mounted, unmounts, isConnected>>

\* Faulty variant: the greeting is not reported.
AckUnreported(s) ==
    /\ state[s] = "open"
    /\ s \notin acked
    /\ acked' = acked \cup {s}
    /\ attempt' = 0
    /\ UNCHANGED <<state, socket, reconnectTimer, strayTimers, manuallyClosed,
                   mounted, unmounts, isConnected>>

\* handleRawMessage of the CONNECTION_ACK.
Ack(s) ==
    /\ state[s] = "open"
    /\ s \notin acked
    /\ acked' = acked \cup {s}
    /\ attempt' = 0
    /\ notifyConnection(TRUE)
    /\ UNCHANGED <<state, socket, reconnectTimer, strayTimers, manuallyClosed,
                   mounted, unmounts>>

\* Faulty variant: the backoff starts over at its cap.
ReconnectFromScratch ==
    /\ attempt' = IF attempt < MaxAttempt THEN attempt + 1 ELSE 0
    /\ reconnectTimer' = TRUE
    /\ strayTimers' = IF reconnectTimer THEN strayTimers + 1 ELSE strayTimers

scheduleReconnect ==
    /\ attempt' = IF attempt < MaxAttempt THEN attempt + 1 ELSE attempt
    /\ reconnectTimer' = TRUE
    /\ strayTimers' = IF reconnectTimer THEN strayTimers + 1 ELSE strayTimers

\* Faulty variant: an error schedules a reconnect, and so does the close event.
BreakReconnects(s) ==
    /\ state[s] \in {"connecting", "open"}
    /\ state' = [state EXCEPT ![s] = "broken"]
    /\ notifyConnection(FALSE)
    /\ scheduleReconnect
    /\ UNCHANGED <<acked, socket, manuallyClosed, mounted, unmounts>>

\* onerror: the handshake is refused or the connection breaks.
Break(s) ==
    /\ state[s] \in {"connecting", "open"}
    /\ state' = [state EXCEPT ![s] = "broken"]
    /\ notifyConnection(FALSE)
    /\ UNCHANGED <<acked, socket, attempt, reconnectTimer, strayTimers,
                   manuallyClosed, mounted, unmounts>>

\* Faulty variant: the close event is not reported.
OnCloseUnreported(s) ==
    /\ state[s] \in {"closing", "broken", "open"}
    /\ strayTimers < MaxTimers
    /\ state' = [state EXCEPT ![s] = "closed"]
    /\ IF manuallyClosed
       THEN UNCHANGED <<attempt, reconnectTimer, strayTimers>>
       ELSE scheduleReconnect
    /\ UNCHANGED <<acked, socket, manuallyClosed, mounted, unmounts, isConnected>>

\* Faulty variant: only a socket that was greeted is replaced.
OnCloseGivesUp(s) ==
    /\ state[s] \in {"closing", "broken", "open"}
    /\ strayTimers < MaxTimers
    /\ state' = [state EXCEPT ![s] = "closed"]
    /\ notifyConnection(FALSE)
    /\ IF manuallyClosed \/ s \notin acked
       THEN UNCHANGED <<attempt, reconnectTimer, strayTimers>>
       ELSE scheduleReconnect
    /\ UNCHANGED <<acked, socket, manuallyClosed, mounted, unmounts>>

\* onclose; the peer may also close cleanly, with no error before it.
OnClose(s) ==
    /\ state[s] \in {"closing", "broken", "open"}
    /\ strayTimers < MaxTimers
    /\ state' = [state EXCEPT ![s] = "closed"]
    /\ notifyConnection(FALSE)
    /\ IF manuallyClosed
       THEN UNCHANGED <<attempt, reconnectTimer, strayTimers>>
       ELSE scheduleReconnect
    /\ UNCHANGED <<acked, socket, manuallyClosed, mounted, unmounts>>

\* A timer fires and clears the field, even if the field refers to another one.
TimerFires ==
    /\ \/ reconnectTimer /\ strayTimers' = strayTimers
       \/ strayTimers > 0
          /\ strayTimers' = IF reconnectTimer THEN strayTimers ELSE strayTimers - 1
    /\ reconnectTimer' = FALSE
    /\ IF manuallyClosed THEN UNCHANGED <<state, acked, socket>> ELSE open
    /\ UNCHANGED <<attempt, manuallyClosed, mounted, unmounts, isConnected>>

WsNext ==
    \/ Mount \/ Unmount \/ TimerFires
    \/ \E s \in Sockets : Accept(s) \/ Ack(s) \/ Break(s) \/ OnClose(s)

WsSpec == WsInit /\ [][WsNext]_wsVars

\* The browser fires its timers and the events that are due.  That a server
\* is reached now and then, and lives long enough to greet, is assumed of the
\* environment; nothing prevents connections from breaking again and again.
WsFairness ==
    /\ WF_wsVars(Mount)
    /\ WF_wsVars(TimerFires)
    /\ \A s \in Sockets :
         /\ WF_wsVars(state[s] \in {"closing", "broken"} /\ OnClose(s))
         /\ SF_wsVars(Accept(s))
         /\ SF_wsVars(Ack(s))
WsFairSpec == WsSpec /\ WsFairness

-----------------------------------------------------------------------------
(* Properties *)

\* Every variable stays within its type, and a mounted hook has its socket.
WsTypeOK ==
    /\ state \in [Sockets -> States]
    /\ acked \subseteq Sockets
    /\ socket \in Sockets \cup {NoSocket}
    /\ attempt \in 0 .. MaxAttempt
    /\ {reconnectTimer, manuallyClosed, mounted, isConnected} \subseteq BOOLEAN
    /\ strayTimers \in 0 .. MaxTimers
    /\ unmounts \in 0 .. Remounts
    /\ mounted => socket # NoSocket /\ ~manuallyClosed

Timers == strayTimers + IF reconnectTimer THEN 1 ELSE 0

\* Every mount starts one chain of socket, timer, socket, ... and no error,
\* refusal, late close event or timer ever splits one in two.  In production,
\* mounted once, this is websocket.client.ts's one socket for the whole app
\* lifetime, and a reconnect is never armed beside a socket or another timer;
\* a remount may leave a second chain alive, which dispatches broadcasts twice.
OneChainPerMount ==
    Cardinality({s \in Sockets : state[s] # "closed"}) + Timers
        <= unmounts + IF mounted THEN 1 ELSE 0

MountedOnce == mounted /\ unmounts = 0

\* The store says connected only while a socket is open and greeted.
FlagIsTrue == (MountedOnce /\ isConnected) => \E s \in acked : state[s] = "open"

\* The header's status dot and its LIVE or Disconnected badge (App.tsx) do not
\* say disconnected while a greeted socket is open.
FlagIsComplete ==
    (MountedOnce /\ \E s \in acked : state[s] = "open") => isConnected

\* Only a CONNECTION_ACK resets the backoff: a server that accepts and hangs up
\* is not hammered.
OnlyAckResetsBackoff ==
    [][attempt' < attempt => \E s \in Sockets : s \in acked' \ acked]_wsVars

\* A mounted client always gets connected again, if the environment lets it.
AlwaysReconnects == mounted ~> (isConnected \/ ~mounted)
=============================================================================
