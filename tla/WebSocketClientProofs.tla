----------------------- MODULE WebSocketClientProofs ------------------------
(***************************************************************************)
(* Proofs about the socket client: one chain of sockets and timers for     *)
(* every mount and, mounted once, a flag that says exactly whether a       *)
(* greeted socket is open.                                                 *)
(* The flag rests on the chain: an event of a second socket would clear    *)
(* the flag of the first.                                                  *)
(***************************************************************************)
EXTENDS WebSocketClient, FiniteSetTheorems, TLAPS

Busy == {s \in Sockets : state[s] # "closed"}

TimersOK == strayTimers \in Nat /\ unmounts \in Nat

ChainInv ==
    /\ {reconnectTimer, mounted} \subseteq BOOLEAN
    /\ TimersOK
    /\ state \in [Sockets -> States]
    /\ acked \subseteq Sockets
    /\ IsFiniteSet(Busy)
    /\ OneChainPerMount

\* Mounted once, the flag and the greeted sockets agree; before that there is
\* neither.
FlagInv ==
    /\ FlagIsTrue /\ FlagIsComplete
    /\ ~mounted /\ unmounts = 0 => ~isConnected
    /\ \A s \in Sockets : state[s] = "connecting" => s \notin acked

-----------------------------------------------------------------------------
(* The chains *)

\* A socket is busy from its opening to its close event.
LEMMA BusyGrows ==
    ASSUME ChainInv, NEW s \in Sockets, state[s] = "closed",
           NEW st \in States \ {"closed"}, state' = [state EXCEPT ![s] = st]
    PROVE  IsFiniteSet(Busy') /\ Cardinality(Busy') = Cardinality(Busy) + 1
<1>1. Busy' = Busy \cup {s} /\ s \notin Busy
  BY DEF Busy, ChainInv
<1>2. IsFiniteSet(Busy)
  BY DEF ChainInv
<1> QED
  BY <1>1, <1>2, FS_AddElement

\* A socket that closes leaves one busy socket less.
LEMMA BusyShrinks ==
    ASSUME ChainInv, NEW s \in Sockets, state[s] # "closed",
           state' = [state EXCEPT ![s] = "closed"]
    PROVE  IsFiniteSet(Busy') /\ Cardinality(Busy') = Cardinality(Busy) - 1
<1>1. Busy' = Busy \ {s} /\ s \in Busy
  BY DEF Busy, ChainInv
<1>2. IsFiniteSet(Busy)
  BY DEF ChainInv
<1> QED
  BY <1>1, <1>2, FS_RemoveElement

\* A socket that stays busy changes nothing about their number.
LEMMA BusyStays ==
    ASSUME ChainInv, NEW s \in Sockets, state[s] # "closed",
           NEW st \in States \ {"closed"}, state' = [state EXCEPT ![s] = st]
    PROVE  Busy' = Busy
BY DEF Busy, ChainInv

\* open starts exactly one socket.
LEMMA OpenOne ==
    ASSUME ChainInv, open
    PROVE  /\ state' \in [Sockets -> States] /\ acked' \subseteq Sockets
           /\ IsFiniteSet(Busy') /\ Cardinality(Busy') = Cardinality(Busy) + 1
<1>1. PICK s \in Sockets : /\ state[s] = "closed"
                           /\ state' = [state EXCEPT ![s] = "connecting"]
                           /\ acked' = acked \ {s}
  BY DEF open
<1>2. "connecting" \in States \ {"closed"}
  BY DEF States
<1>3. state' \in [Sockets -> States] /\ acked' \subseteq Sockets
  BY <1>1, <1>2 DEF ChainInv
<1> QED
  BY <1>1, <1>2, <1>3, BusyGrows

\* Every step exchanges a timer for a socket or a socket for a timer, or belongs
\* to a mount.
LEMMA ChainStep == ChainInv /\ [WsNext]_wsVars => ChainInv'
<1> SUFFICES ASSUME ChainInv, [WsNext]_wsVars
             PROVE  ChainInv'
  OBVIOUS
<1>0. /\ state \in [Sockets -> States] /\ acked \subseteq Sockets
      /\ strayTimers \in Nat /\ unmounts \in Nat
      /\ reconnectTimer \in BOOLEAN /\ mounted \in BOOLEAN
      /\ IsFiniteSet(Busy) /\ Cardinality(Busy) \in Nat
      /\ Cardinality(Busy) + Timers <= unmounts + IF mounted THEN 1 ELSE 0
  BY FS_CardinalityType DEF ChainInv, TimersOK, OneChainPerMount, Busy
<1>a. ASSUME state' = state
      PROVE  Busy' = Busy
  BY <1>a DEF Busy
<1>b. ASSUME Cardinality(Busy') + Timers' <= unmounts' + IF mounted' THEN 1 ELSE 0
      PROVE  OneChainPerMount'
  BY <1>b DEF OneChainPerMount, Busy
<1>1. CASE Mount
  <2>1. /\ ~mounted /\ mounted' = TRUE
        /\ UNCHANGED <<reconnectTimer, strayTimers, unmounts>>
    BY <1>1 DEF Mount
  <2>2. /\ state' \in [Sockets -> States] /\ acked' \subseteq Sockets
        /\ IsFiniteSet(Busy') /\ Cardinality(Busy') \in Nat
        /\ Cardinality(Busy') <= Cardinality(Busy) + 1
    <3>1. CASE open
      BY <1>0, <3>1, OpenOne
    <3>2. CASE UNCHANGED <<state, acked>>
      BY <1>0, <1>a, <3>2
    <3> QED
      BY <1>1, <3>1, <3>2 DEF Mount
  <2>3. Cardinality(Busy') + Timers' <= unmounts' + IF mounted' THEN 1 ELSE 0
    BY <1>0, <2>1, <2>2 DEF Timers
  <2>4. reconnectTimer' \in BOOLEAN /\ mounted' \in BOOLEAN
    BY <1>0, <2>1
  <2>5. strayTimers' \in Nat /\ unmounts' \in Nat
    BY <1>0, <2>1
  <2>6. OneChainPerMount'
    BY <1>b, <2>3
  <2>7. {reconnectTimer', mounted'} \subseteq BOOLEAN
    BY <2>4
  <2> QED
    BY <2>2, <2>5, <2>6, <2>7 DEF ChainInv, TimersOK
<1>2. CASE Unmount
  <2>1. /\ mounted /\ mounted' = FALSE /\ unmounts' = unmounts + 1
        /\ reconnectTimer' = FALSE /\ UNCHANGED <<acked, strayTimers>>
    BY <1>2 DEF Unmount
  <2>2. Busy' = Busy /\ state' \in [Sockets -> States]
    <3>1. CASE socket # NoSocket /\ socket \in Live
      <4>1. /\ socket \in Sockets /\ state[socket] # "closed"
            /\ state' = [state EXCEPT ![socket] = "closing"]
        BY <1>2, <3>1 DEF Unmount, Live
      <4>2. "closing" \in States \ {"closed"}
        BY DEF States
      <4> QED
        BY <1>0, <4>1, <4>2, BusyStays
    <3>2. CASE ~(socket # NoSocket /\ socket \in Live)
      BY <1>0, <1>2, <1>a, <3>2 DEF Unmount
    <3> QED
      BY <3>1, <3>2
  <2>3. Cardinality(Busy') + Timers' <= unmounts' + IF mounted' THEN 1 ELSE 0
    BY <1>0, <2>1, <2>2 DEF Timers
  <2>4. strayTimers' \in Nat /\ unmounts' \in Nat
    BY <1>0, <2>1
  <2>5. {reconnectTimer', mounted'} \subseteq BOOLEAN
    BY <2>1
  <2>6. IsFiniteSet(Busy') /\ acked' \subseteq Sockets
    BY <1>0, <2>1, <2>2
  <2>7. OneChainPerMount'
    BY <1>b, <2>3
  <2> QED
    BY <2>2, <2>4, <2>5, <2>6, <2>7 DEF ChainInv, TimersOK
<1>3. CASE TimerFires
  <2>1. /\ reconnectTimer' = FALSE /\ UNCHANGED <<mounted, unmounts>>
        /\ strayTimers' \in Nat /\ Timers' = Timers - 1
    BY <1>0, <1>3 DEF TimerFires, Timers
  <2>2. /\ state' \in [Sockets -> States] /\ acked' \subseteq Sockets
        /\ IsFiniteSet(Busy') /\ Cardinality(Busy') \in Nat
        /\ Cardinality(Busy') <= Cardinality(Busy) + 1
    <3>1. CASE open
      BY <1>0, <3>1, OpenOne
    <3>2. CASE UNCHANGED <<state, acked>>
      BY <1>0, <1>a, <3>2
    <3> QED
      BY <1>3, <3>1, <3>2 DEF TimerFires
  <2>3. Timers \in Nat
    BY <1>0 DEF Timers
  <2>4. Cardinality(Busy') + Timers' <= unmounts' + IF mounted' THEN 1 ELSE 0
    BY <1>0, <2>1, <2>2, <2>3
  <2> QED
    BY <1>0, <1>b, <2>1, <2>2, <2>4 DEF ChainInv, TimersOK
<1>4. ASSUME NEW s \in Sockets, Accept(s) \/ Ack(s) \/ Break(s)
      PROVE  ChainInv'
  <2>1. UNCHANGED <<reconnectTimer, strayTimers, mounted, unmounts>>
    BY <1>4 DEF Accept, Ack, Break
  <2>2. /\ Busy' = Busy /\ state' \in [Sockets -> States] /\ acked' \subseteq Sockets
    <3>1. CASE Ack(s)
      BY <1>0, <1>a, <3>1 DEF Ack
    <3>2. CASE Accept(s) \/ Break(s)
      <4>1. PICK st \in {"open", "broken"} : state' = [state EXCEPT ![s] = st]
        BY <3>2 DEF Accept, Break
      <4>2. state[s] # "closed" /\ acked' = acked /\ st \in States \ {"closed"}
        BY <3>2 DEF Accept, Break, States
      <4> QED
        BY <1>0, <4>1, <4>2, BusyStays
    <3> QED
      BY <1>4, <3>1, <3>2
  <2>3. Cardinality(Busy') + Timers' <= unmounts' + IF mounted' THEN 1 ELSE 0
    BY <1>0, <2>1, <2>2 DEF Timers
  <2> QED
    BY <1>0, <1>b, <2>1, <2>2, <2>3 DEF ChainInv, TimersOK
<1>5. ASSUME NEW s \in Sockets, OnClose(s)
      PROVE  ChainInv'
  <2>1. /\ state[s] # "closed" /\ state' = [state EXCEPT ![s] = "closed"]
        /\ acked' = acked /\ UNCHANGED <<mounted, unmounts>>
    BY <1>5 DEF OnClose
  <2>2. /\ reconnectTimer' \in BOOLEAN /\ strayTimers' \in Nat
        /\ Timers' \in Nat /\ Timers' <= Timers + 1
    <3>1. CASE manuallyClosed
      BY <1>0, <1>5, <3>1 DEF OnClose, Timers
    <3>2. CASE ~manuallyClosed
      <4>1. /\ reconnectTimer' = TRUE
            /\ strayTimers' = IF reconnectTimer THEN strayTimers + 1 ELSE strayTimers
        BY <1>5, <3>2 DEF OnClose, scheduleReconnect
      <4> QED
        BY <1>0, <4>1 DEF Timers
    <3> QED
      BY <3>1, <3>2
  <2>3. IsFiniteSet(Busy') /\ Cardinality(Busy') = Cardinality(Busy) - 1
    BY <2>1, BusyShrinks
  <2>4. Timers \in Nat
    BY <1>0 DEF Timers
  <2>5. Cardinality(Busy') + Timers' <= unmounts' + IF mounted' THEN 1 ELSE 0
    BY <1>0, <2>1, <2>2, <2>3, <2>4
  <2>6. state' \in [Sockets -> States]
    BY <1>0, <2>1 DEF States
  <2> QED
    BY <1>0, <1>b, <2>1, <2>2, <2>3, <2>5, <2>6 DEF ChainInv, TimersOK
<1>6. CASE UNCHANGED wsVars
  <2>1. UNCHANGED <<state, acked, reconnectTimer, strayTimers, mounted, unmounts>>
    BY <1>6 DEF wsVars
  <2>2. Cardinality(Busy') + Timers' <= unmounts' + IF mounted' THEN 1 ELSE 0
    BY <1>0, <1>a, <2>1 DEF Timers
  <2> QED
    BY <1>0, <1>a, <1>b, <2>1, <2>2 DEF ChainInv, TimersOK
<1> QED
  BY <1>1, <1>2, <1>3, <1>4, <1>5, <1>6 DEF WsNext

\* Nothing runs before the first mount.
LEMMA ChainInit == WsInit => ChainInv
<1> SUFFICES ASSUME WsInit
             PROVE  ChainInv
  OBVIOUS
<1>1. Busy = {}
  BY DEF WsInit, Busy
<1>2. IsFiniteSet(Busy) /\ Cardinality(Busy) = 0
  BY <1>1, FS_EmptySet
<1>3. OneChainPerMount
  BY <1>2 DEF WsInit, OneChainPerMount, Timers, Busy
<1> QED
  BY <1>2, <1>3 DEF WsInit, ChainInv, TimersOK, States

\* One chain of socket and timer for every mount, for every number of sockets,
\* remounts and failures (connect, scheduleReconnect and onclose of
\* websocket.client.ts).
THEOREM ChainsNeverSplit == WsSpec => []OneChainPerMount
<1>1. ChainInv => OneChainPerMount
  BY DEF ChainInv
<1> QED
  BY <1>1, ChainInit, ChainStep, PTL DEF WsSpec

-----------------------------------------------------------------------------
(* The flag *)

\* Mounted once, no two sockets are busy.
LEMMA OneSocket ==
    ASSUME ChainInv, MountedOnce, NEW s \in Busy, NEW t \in Busy
    PROVE  s = t
<1>1. /\ IsFiniteSet(Busy) /\ Cardinality(Busy) \in Nat
      /\ Cardinality(Busy) + Timers <= 1 /\ Timers \in Nat
  BY FS_CardinalityType
     DEF ChainInv, OneChainPerMount, MountedOnce, Busy, Timers, TimersOK
<1>2. IsFiniteSet(Busy \ {s}) /\ Cardinality(Busy \ {s}) = Cardinality(Busy) - 1
  BY <1>1, FS_RemoveElement
<1>3. Cardinality(Busy \ {s}) \in Nat
  BY <1>2, FS_CardinalityType
<1>4. Cardinality(Busy \ {s}) = 0
  BY <1>1, <1>2, <1>3
<1>5. Busy \ {s} = {}
  BY <1>2, <1>4, FS_EmptySet
<1> QED
  BY <1>5

\* Every event that changes the flag is of the socket the flag is about.
LEMMA FlagStep == ChainInv /\ FlagInv /\ [WsNext]_wsVars => FlagInv'
<1> SUFFICES ASSUME ChainInv, FlagInv, [WsNext]_wsVars
             PROVE  FlagInv'
  OBVIOUS
<1> USE DEF MountedOnce
<1>0. state \in [Sockets -> States] /\ acked \subseteq Sockets /\ unmounts \in Nat
  BY DEF ChainInv, TimersOK
\* What opening a socket does to the greeted ones: nothing.
<1>a. ASSUME open
      PROVE  /\ \A t : t \in acked' /\ state'[t] = "open" <=> t \in acked /\ state[t] = "open"
             /\ \A t \in Sockets : state'[t] = "connecting" => t \notin acked'
  <2>1. PICK s \in Sockets : /\ state[s] = "closed"
                             /\ state' = [state EXCEPT ![s] = "connecting"]
                             /\ acked' = acked \ {s}
    BY <1>a DEF open
  <2> QED
    BY <1>0, <2>1 DEF FlagInv
\* Unmounted from the start, the client has no socket.
<1>b. ASSUME ~mounted, unmounts = 0, NEW s \in Sockets
      PROVE  state[s] = "closed"
  <2>1. IsFiniteSet(Busy) /\ Cardinality(Busy) \in Nat /\ Timers \in Nat
    BY FS_CardinalityType DEF ChainInv, TimersOK, Timers
  <2>2. Cardinality(Busy) = 0
    BY <1>b, <2>1 DEF ChainInv, OneChainPerMount, Busy
  <2>3. Busy = {}
    BY <2>1, <2>2, FS_EmptySet
  <2> QED
    BY <2>3 DEF Busy
<1>1. CASE Mount
  <2>1. ~mounted /\ mounted' /\ UNCHANGED <<unmounts, isConnected>>
    BY <1>1 DEF Mount
  <2>2. /\ \A t : t \in acked' /\ state'[t] = "open" <=> t \in acked /\ state[t] = "open"
        /\ \A t \in Sockets : state'[t] = "connecting" => t \notin acked'
    <3>1. CASE open
      BY <1>a, <3>1
    <3>2. CASE UNCHANGED <<state, acked>>
      BY <3>2 DEF FlagInv
    <3> QED
      BY <1>1, <3>1, <3>2 DEF Mount
  <2>3. CASE unmounts = 0
    <3>1. ~isConnected /\ \A t \in acked : state[t] # "open"
      BY <1>0, <1>b, <2>1, <2>3 DEF FlagInv
    <3> QED
      BY <2>1, <2>2, <3>1 DEF FlagInv, FlagIsTrue, FlagIsComplete
  <2>4. CASE unmounts # 0
    BY <2>1, <2>2, <2>4 DEF FlagInv, FlagIsTrue, FlagIsComplete
  <2> QED
    BY <2>3, <2>4
<1>2. CASE Unmount
  <2>1. ~mounted' /\ unmounts' # 0
    BY <1>0, <1>2 DEF Unmount
  <2>2. \A t \in Sockets : state'[t] = "connecting" => t \notin acked'
    BY <1>0, <1>2 DEF Unmount, FlagInv
  <2> QED
    BY <2>1, <2>2 DEF FlagInv, FlagIsTrue, FlagIsComplete
<1>3. CASE TimerFires
  <2>1. UNCHANGED <<mounted, unmounts, isConnected>>
    BY <1>3 DEF TimerFires
  <2>2. /\ \A t : t \in acked' /\ state'[t] = "open" <=> t \in acked /\ state[t] = "open"
        /\ \A t \in Sockets : state'[t] = "connecting" => t \notin acked'
    <3>1. CASE open
      BY <1>a, <3>1
    <3>2. CASE UNCHANGED <<state, acked>>
      BY <3>2 DEF FlagInv
    <3> QED
      BY <1>3, <3>1, <3>2 DEF TimerFires
  <2> QED
    BY <2>1, <2>2 DEF FlagInv, FlagIsTrue, FlagIsComplete
<1>4. ASSUME NEW s \in Sockets, Accept(s)
      PROVE  FlagInv'
  <2>1. /\ state[s] = "connecting" /\ state' = [state EXCEPT ![s] = "open"]
        /\ UNCHANGED <<acked, mounted, unmounts, isConnected>>
    BY <1>4 DEF Accept
  <2>2. \A t \in acked : state'[t] = "open" <=> state[t] = "open"
    BY <1>0, <2>1 DEF FlagInv
  <2>3. \A t \in Sockets : state'[t] = "connecting" => t \notin acked
    BY <1>0, <2>1 DEF FlagInv
  <2> QED
    BY <2>1, <2>2, <2>3 DEF FlagInv, FlagIsTrue, FlagIsComplete
<1>5. ASSUME NEW s \in Sockets, Ack(s)
      PROVE  FlagInv'
  <2>1. /\ state[s] = "open" /\ state' = state /\ acked' = acked \cup {s}
        /\ UNCHANGED <<mounted, unmounts>>
        /\ isConnected' = IF mounted THEN TRUE ELSE isConnected
    BY <1>5 DEF Ack, notifyConnection
  <2> QED
    BY <2>1 DEF FlagInv, FlagIsTrue, FlagIsComplete
<1>6. ASSUME NEW s \in Sockets, Break(s) \/ OnClose(s)
      PROVE  FlagInv'
  <2>1. /\ state[s] # "closed" /\ UNCHANGED <<acked, mounted, unmounts>>
        /\ isConnected' = IF mounted THEN FALSE ELSE isConnected
    BY <1>6 DEF Break, OnClose, notifyConnection
  <2>2. /\ state'[s] # "open" /\ \A t \in Sockets \ {s} : state'[t] = state[t]
    BY <1>0, <1>6 DEF Break, OnClose
  <2>3. ASSUME MountedOnce, NEW t \in acked
        PROVE  state'[t] # "open"
    <3>1. CASE t = s
      BY <2>2, <3>1
    <3>2. CASE t # s
      BY <1>0, <2>1, <2>2, <2>3, <3>2, OneSocket DEF Busy
    <3> QED
      BY <3>1, <3>2
  <2>4. \A t \in Sockets : state'[t] = "connecting" => t \notin acked
    BY <1>0, <1>6, <2>2 DEF Break, OnClose, FlagInv
  <2> QED
    BY <2>1, <2>3, <2>4 DEF FlagInv, FlagIsTrue, FlagIsComplete
<1>7. CASE UNCHANGED wsVars
  BY <1>7 DEF wsVars, FlagInv, FlagIsTrue, FlagIsComplete
<1> QED
  BY <1>1, <1>2, <1>3, <1>4, <1>5, <1>6, <1>7 DEF WsNext

\* The chain and what the flag says of it, in every reachable state of the client
\* (websocket.client.ts).
THEOREM FlagInvariant == WsSpec => [](ChainInv /\ FlagInv)
<1>1. WsInit => FlagInv
  BY DEF WsInit, FlagInv, FlagIsTrue, FlagIsComplete, MountedOnce
<1> QED
  BY <1>1, ChainInit, ChainStep, FlagStep, PTL DEF WsSpec

\* Mounted once, the store says connected only while a greeted socket is open
\* (notifyConnection in onerror, onclose and handleRawMessage).
THEOREM FlagNeverLies == WsSpec => []FlagIsTrue
<1>1. FlagInv => FlagIsTrue
  BY DEF FlagInv
<1> QED
  BY <1>1, FlagInvariant, PTL

\* And it says so whenever one is: no late event of another socket clears it.
THEOREM FlagNeverMisses == WsSpec => []FlagIsComplete
<1>1. FlagInv => FlagIsComplete
  BY DEF FlagInv
<1> QED
  BY <1>1, FlagInvariant, PTL

-----------------------------------------------------------------------------
(* Types, and the backoff *)

\* While the hook is not mounted the client is at rest: it holds no socket, and
\* a timer or a close event that is still to come finds it closed by hand.
Resting ==
    /\ socket = NoSocket
    /\ \/ manuallyClosed
       \/ ~reconnectTimer /\ strayTimers = 0 /\ \A s \in Sockets : state[s] = "closed"

WsInv == WsTypeOK /\ (~mounted => Resting)

\* What the invariant says of each variable.
LEMMA WsTyped ==
    ASSUME WsInv
    PROVE  /\ state \in [Sockets -> States] /\ acked \subseteq Sockets
           /\ socket \in Sockets \cup {NoSocket} /\ attempt \in 0 .. MaxAttempt
           /\ reconnectTimer \in BOOLEAN /\ manuallyClosed \in BOOLEAN
           /\ mounted \in BOOLEAN /\ isConnected \in BOOLEAN
           /\ strayTimers \in 0 .. MaxTimers /\ unmounts \in 0 .. Remounts
           /\ mounted => socket # NoSocket /\ ~manuallyClosed
           /\ MaxAttempt \in Nat /\ MaxTimers \in Nat /\ Remounts \in Nat
           /\ NoSocket \notin Sockets
BY SocketAssumption DEF WsInv, WsTypeOK

\* open makes a socket the field then refers to.
LEMMA OpenTyped ==
    ASSUME WsInv, open
    PROVE  /\ state' \in [Sockets -> States] /\ acked' \subseteq Sockets
           /\ socket' \in Sockets
BY WsTyped DEF open, States

\* Every step keeps the types, and an unmounted client at rest.
LEMMA WsInvStep == WsInv /\ [WsNext]_wsVars => WsInv'
<1> SUFFICES ASSUME WsInv, [WsNext]_wsVars
             PROVE  WsInv'
  OBVIOUS
<1>1. CASE Mount
  <2>1. /\ socket = NoSocket /\ mounted' = TRUE /\ manuallyClosed' = FALSE /\ open
        /\ UNCHANGED <<attempt, reconnectTimer, strayTimers, unmounts, isConnected>>
    BY <1>1 DEF Mount, WsInv, Resting
  <2> QED
    BY <2>1, WsTyped, OpenTyped DEF WsInv, WsTypeOK
<1>2. CASE Unmount
  <2>1. state' \in [Sockets -> States]
    <3>1. CASE socket # NoSocket /\ socket \in Live
      BY <1>2, <3>1, WsTyped DEF Unmount, States
    <3>2. CASE ~(socket # NoSocket /\ socket \in Live)
      BY <1>2, <3>2, WsTyped DEF Unmount
    <3> QED
      BY <3>1, <3>2
  <2>2. /\ mounted' = FALSE /\ unmounts' = unmounts + 1 /\ unmounts < Remounts
        /\ manuallyClosed' = TRUE /\ reconnectTimer' = FALSE /\ socket' = NoSocket
        /\ UNCHANGED <<acked, attempt, strayTimers, isConnected>>
    BY <1>2 DEF Unmount
  <2>3. unmounts' \in 0 .. Remounts
    BY <2>2, WsTyped
  <2> QED
    BY <2>1, <2>2, <2>3, WsTyped DEF WsInv, WsTypeOK, Resting
<1>3. CASE TimerFires
  <2>1. /\ strayTimers' \in 0 .. MaxTimers /\ reconnectTimer' = FALSE
        /\ UNCHANGED <<attempt, manuallyClosed, mounted, unmounts, isConnected>>
    BY <1>3, WsTyped DEF TimerFires
  <2>2. CASE manuallyClosed
    <3>1. UNCHANGED <<state, acked, socket>>
      BY <1>3, <2>2 DEF TimerFires
    <3>2. WsTypeOK'
      BY <2>1, <2>2, <3>1, WsTyped DEF WsTypeOK
    <3>3. ~mounted' => Resting'
      BY <2>1, <2>2, <3>1 DEF WsInv, Resting
    <3> QED
      BY <3>2, <3>3 DEF WsInv
  <2>3. CASE ~manuallyClosed
    <3>1. mounted
      BY <1>3, <2>3 DEF TimerFires, WsInv, Resting
    <3>2. open
      BY <1>3, <2>3 DEF TimerFires
    <3> QED
      BY <2>1, <2>3, <3>1, <3>2, WsTyped, OpenTyped DEF WsInv, WsTypeOK
  <2> QED
    BY <2>2, <2>3
<1>4. ASSUME NEW s \in Sockets, Accept(s) \/ Ack(s) \/ Break(s)
      PROVE  WsInv'
  <2>1. /\ state' \in [Sockets -> States] /\ acked' \subseteq Sockets
        /\ attempt' \in 0 .. MaxAttempt /\ isConnected' \in BOOLEAN
        /\ UNCHANGED <<socket, reconnectTimer, strayTimers, manuallyClosed, mounted, unmounts>>
    <3>1. CASE Accept(s)
      BY <3>1, WsTyped DEF Accept, States
    <3>2. CASE Ack(s)
      <4>1. acked' = acked \cup {s} /\ attempt' = 0 /\ isConnected' \in BOOLEAN
        BY <3>2, WsTyped DEF Ack, notifyConnection
      <4>2. acked' \subseteq Sockets /\ attempt' \in 0 .. MaxAttempt
        BY <4>1, WsTyped
      <4> QED
        BY <3>2, <4>1, <4>2, WsTyped DEF Ack
    <3>3. CASE Break(s)
      BY <3>3, WsTyped DEF Break, States, notifyConnection
    <3> QED
      BY <1>4, <3>1, <3>2, <3>3
  <2>2. mounted \/ manuallyClosed
    BY <1>4 DEF WsInv, Resting, Accept, Ack, Break
  <2> QED
    BY <2>1, <2>2, WsTyped DEF WsInv, WsTypeOK, Resting
<1>5. ASSUME NEW s \in Sockets, OnClose(s)
      PROVE  WsInv'
  <2>1. /\ state' \in [Sockets -> States] /\ isConnected' \in BOOLEAN
        /\ UNCHANGED <<acked, socket, manuallyClosed, mounted, unmounts>>
    BY <1>5, WsTyped DEF OnClose, States, notifyConnection
  <2>2. mounted \/ manuallyClosed
    BY <1>5 DEF WsInv, Resting, OnClose
  <2>3. /\ attempt' \in 0 .. MaxAttempt /\ reconnectTimer' \in BOOLEAN
        /\ strayTimers' \in 0 .. MaxTimers
    <3>1. CASE manuallyClosed
      BY <1>5, <3>1, WsTyped DEF OnClose
    <3>2. CASE ~manuallyClosed
      BY <1>5, <3>2, WsTyped DEF OnClose, scheduleReconnect
    <3> QED
      BY <3>1, <3>2
  <2> QED
    BY <2>1, <2>2, <2>3, WsTyped DEF WsInv, WsTypeOK, Resting
<1>6. CASE UNCHANGED wsVars
  BY <1>6, WsTyped DEF wsVars, WsInv, WsTypeOK, Resting
<1> QED
  BY <1>1, <1>2, <1>3, <1>4, <1>5, <1>6 DEF WsNext

\* So they hold of every reachable state.
LEMMA WsInvariant == WsSpec => []WsInv
<1>1. WsInit => WsInv
  <2> SUFFICES ASSUME WsInit PROVE WsInv
    OBVIOUS
  <2>1. "closed" \in States /\ 0 \in 0 .. MaxAttempt /\ 0 \in 0 .. MaxTimers /\ 0 \in 0 .. Remounts
    BY SocketAssumption DEF States
  <2>2. WsTypeOK
    BY <2>1 DEF WsInit, WsTypeOK
  <2> QED
    BY <2>2 DEF WsInit, WsInv, Resting
<1> QED
  BY <1>1, WsInvStep, PTL DEF WsSpec

\* Every field of the client has its type; while the hook is mounted the field
\* socket holds a socket and the client is not closed by hand, so that a broken
\* connection is replaced.
THEOREM WsTypeCorrect == WsSpec => []WsTypeOK
BY WsInvariant, PTL DEF WsInv

\* Only a CONNECTION_ACK resets the backoff, not the opening of a socket
\* (handleRawMessage of websocket.client.ts).
THEOREM BackoffIsKept == WsSpec => OnlyAckResetsBackoff
<1>1. ASSUME WsInv, [WsNext]_wsVars, attempt' < attempt
      PROVE  \E s \in Sockets : s \in acked' \ acked
  <2>1. attempt' # attempt /\ attempt \in Nat
    BY <1>1, WsTyped
  <2>2. PICK s \in Sockets : Ack(s) \/ OnClose(s)
    BY <1>1, <2>1 DEF WsNext, Mount, Unmount, TimerFires, Accept, Break, wsVars
  <2>3. CASE OnClose(s)
    BY <1>1, <2>1, <2>3 DEF OnClose, scheduleReconnect
  <2>4. CASE Ack(s)
    BY <2>4 DEF Ack
  <2> QED
    BY <2>2, <2>3, <2>4
<1>2. WsInv /\ [WsNext]_wsVars
        => [attempt' < attempt => \E s \in Sockets : s \in acked' \ acked]_wsVars
  BY <1>1
<1> QED
  BY <1>2, WsInvariant, PTL DEF WsSpec, OnlyAckResetsBackoff
=============================================================================
