---------------------------- MODULE BlotterProofs ----------------------------
(***************************************************************************)
(* Proofs about the whole system of Blotter: for every number of clients,  *)
(* trades and messages, every capacity of the window, every dial and every *)
(* fault that the environment may cause.                                   *)
(*                                                                         *)
(* A step of the server is silent, commits one change and makes its        *)
(* message, or fills the empty table (ServerStepKinds); the rest of the    *)
(* module needs nothing else of the backend.  Three invariants follow.     *)
(*                                                                         *)
(*   FeedInv   every row held by a client or on its way to one is a row    *)
(*             its trade may have, and is dead only if the trade is: the   *)
(*             table grows and the dead stay dead (SoundStaysSound);       *)
(*   OnceInv   neither the store, nor the answer under way, nor the buffer *)
(*             and the stream of messages together, has a trade twice;     *)
(*   DriftInv  a client that applied its stream of messages and drained    *)
(*             its buffer would show the table, but for the flagged trades *)
(*             (Covered); and so would one that took the answer under way. *)
(*                                                                         *)
(* The stream of a client is what it has still to receive, with the        *)
(* message of the change that is committed and not yet broadcast (read     *)
(* back or not) at its end, so that a commit appends to it, the read-back  *)
(* and the broadcast leave it alone, and what goes unsent is its last.     *)
(***************************************************************************)
EXTENDS Blotter, TradeServiceProofs, ListingProofs, SequenceTheorems,
        FunctionTheorems

-----------------------------------------------------------------------------
(* The server's side *)

\* Every step of the whole system is a step of the backend or leaves it alone.
LEMMA BlotterStepIsServiceStep == [BlotterNext]_blotterVars => [Next]_vars
<1> SUFFICES ASSUME [BlotterNext]_blotterVars PROVE [Next]_vars
  OBVIOUS
<1>1. CASE Broadcast
  BY <1>1 DEF Broadcast, Next, Handler
<1>2. CASE ServerStep
  BY <1>2 DEF ServerStep, Next, Handler
<1>3. CASE ServerCrash \/ ServerReadBackFails
  BY <1>3 DEF ServerCrash, ServerReadBackFails, Next, Handler
<1>4. CASE \E c \in Clients : \/ Connect(c) \/ Cut(c) \/ NoticeClose(c) \/ LeavePage(c)
                              \/ AnswerFetch(c) \/ FailFetch(c) \/ ClientStep(c)
  BY <1>4 DEF Connect, Cut, NoticeClose, LeavePage, AnswerFetch, FailFetch, ClientStep
<1>5. CASE UNCHANGED blotterVars
  BY <1>5 DEF blotterVars
<1> QED
  BY <1>1, <1>2, <1>3, <1>4, <1>5 DEF BlotterNext

\* What the proofs below use of the backend.
ServiceInv == TypeInv /\ DownIsIdle /\ AuditInv /\ JobMatchesTransaction

\* The backend keeps its own invariants among the browsers.
LEMMA ServiceInvariant == BlotterSpec => []ServiceInv
<1>1. BlotterInit => Init
  BY DEF BlotterInit
<1>2. BlotterSpec => Spec
  BY <1>1, BlotterStepIsServiceStep, PTL DEF BlotterSpec, Spec
<1>3. Init => JobMatchesTransaction
  BY DEF Init, Idle, JobMatchesTransaction
<1>4. Spec => []JobMatchesTransaction
  BY <1>3, JobMatchesStep, TypeInvariant, PTL DEF Spec
<1> QED
  BY <1>2, <1>4, TypeInvariant, AuditInvariant, PTL DEF ServiceInv

\* A change is committed and its broadcast is still due; its message, which the
\* handler will read back or has read back already.
Due == job.phase \in {"readback", "publish"}
DueMessage == IF job.phase = "publish" THEN job.message ELSE Announcement(job.type, job.id)

\* A step that changes no row and leaves what is due to be broadcast.
Unseen ==
    /\ UNCHANGED trades
    /\ Due' <=> Due
    /\ Due => DueMessage' = DueMessage

\* A handler commits the change of one trade that m tells about.
Commits(m) ==
    /\ ~Due /\ Due' /\ DueMessage' = m
    /\ trades' \in [DOMAIN trades \cup {m.id} -> Rows]
    /\ \A j \in DOMAIN trades \ {m.id} : trades'[j] = trades[j]
    /\ m.id \in DOMAIN trades => trades[m.id]["status"] # "CANCELLED"
    /\ \/ m.id \notin DOMAIN trades /\ m = TradeMessage("TRADE_CREATED", m.id, trades'[m.id])
       \/ m.id \in DOMAIN trades /\ m = TradeMessage("TRADE_AMENDED", m.id, trades'[m.id])
       \/ /\ m.id \in DOMAIN trades
          /\ m = CancelMessage(m.id)
          /\ trades'[m.id] = Cancelled(trades[m.id])

\* The start of the server fills the empty table.
Seeds ==
    /\ ~up /\ up' /\ UNCHANGED job /\ job = Idle
    /\ DOMAIN trades = {}
    /\ trades' \in [SeedIds -> Rows]

\* A handler that goes on to the read-back will announce what it committed.
LEMMA CommittedIsDue ==
    ASSUME NEW type, NEW i, NEW left, Committed(type, i, left)
    PROVE  Due' /\ DueMessage' = IF type = "TRADE_CANCELLED" THEN CancelMessage(i)
                                ELSE TradeMessage(type, i, trades'[i])
<1>1. job' = [phase |-> "readback", type |-> type, id |-> i, left |-> left]
  BY DEF Committed
<1>2. job'.phase = "readback" /\ job'.type = type /\ job'.id = i
  BY <1>1
<1> QED
  BY <1>2 DEF Due, DueMessage, Announcement

\* The read-back makes the message that was due.
LEMMA ReadBackIsUnseen ==
    ASSUME ReadBack
    PROVE  Unseen
<1>1. /\ job.phase = "readback" /\ UNCHANGED trades
      /\ job'.phase = "publish" /\ job'.message = Announcement(job.type, job.id)
  BY DEF ReadBack, repoVars, tables
<1> QED
  BY <1>1 DEF Unseen, Due, DueMessage

\* A creation commits what it announces, or nothing.
LEMMA CreateKinds ==
    ASSUME TypeInv, ~Due,
           NEW dto \in CreateRequests, NEW left, createTrade(dto, left)
    PROVE  Unseen \/ Commits(DueMessage')
<1>1. CASE Insert(NewTrade(dto)) /\ Committed("TRADE_CREATED", nextSequence, left - 1)
  <2> DEFINE m == TradeMessage("TRADE_CREATED", nextSequence, trades'[nextSequence])
  <2>1. Due' /\ DueMessage' = m /\ m.id = nextSequence
    BY <1>1, CommittedIsDue DEF TradeMessage
  <2>2. trades' \in [DOMAIN trades \cup {nextSequence} -> Rows]
    BY <1>1, NewTradeIsARow DEF Insert, TypeInv
  <2>3. \A j \in DOMAIN trades \ {nextSequence} : trades'[j] = trades[j]
    BY <1>1 DEF Insert
  <2>4. nextSequence \notin DOMAIN trades
    BY <1>1 DEF Insert
  <2> HIDE DEF m
  <2>5. Commits(m)
    BY <2>1, <2>2, <2>3, <2>4 DEF Commits, m
  <2> QED
    BY <2>1, <2>5
<1>2. CASE InsertFails /\ Throw("SqliteError")
  BY <1>2 DEF InsertFails, Throw, tables, Unseen, Due
<1> QED
  BY <1>1, <1>2 DEF createTrade

\* The commit of a transaction is of the kind its message says.
LEMMA FinishKinds ==
    ASSUME ServiceInv, Finish
    PROVE  Commits(DueMessage')
<1>1. job.phase = "transaction" /\ tx \in OpenTransactions /\ WorkingCopyOK
  BY TypeInvGivesTypeOK DEF ServiceInv, TypeInv, TypeOK, TransactionOK, Finish, Commit,
     AuditInv
<1>2. job.id = tx.id /\ job.type \in {"TRADE_AMENDED", "TRADE_CANCELLED"}
      /\ (job.type = "TRADE_CANCELLED" => tx.fields = ToCancelled)
  BY <1>1 DEF ServiceInv, JobMatchesTransaction
<1>3. trades' = tx.trades /\ tx.trades \in [DOMAIN trades -> Rows] /\ tx.id \in DOMAIN trades
      /\ tx.updated
  BY <1>1 DEF Finish, Commit, OpenTransactions
<1>4. /\ trades[tx.id]["status"] = "ACTIVE"
      /\ \A j \in DOMAIN trades \ {tx.id} : tx.trades[j] = trades[j]
  BY <1>1 DEF ServiceInv, TypeInv, TransactionOK
<1> DEFINE m == IF job.type = "TRADE_CANCELLED" THEN CancelMessage(job.id)
                ELSE TradeMessage(job.type, job.id, trades'[job.id])
<1>5. ~Due /\ Due' /\ DueMessage' = m
  BY <1>1, CommittedIsDue DEF Finish, Due
<1>6. m.id = tx.id
  BY <1>2 DEF CancelMessage, TradeMessage
<1>7. CASE job.type = "TRADE_CANCELLED"
  <2>1. trades[tx.id] \in Rows
    BY <1>3 DEF ServiceInv, TypeInv
  <2>2. WithColumns(trades[tx.id], ToCancelled) = Cancelled(trades[tx.id])
    BY <2>1 DEF WithColumns, ToCancelled, Rows, Cancelled
  <2>3. trades'[tx.id] = Cancelled(trades[tx.id])
    BY <1>1, <1>2, <1>3, <1>7, <2>2 DEF WorkingCopyOK
  <2>4. m = CancelMessage(m.id)
    BY <1>2, <1>6, <1>7
  <2> HIDE DEF m
  <2>5. Commits(m)
    BY <1>1, <1>3, <1>4, <1>5, <1>6, <2>3, <2>4 DEF Commits
  <2> QED
    BY <1>5, <2>5
<1>8. CASE job.type # "TRADE_CANCELLED"
  <2>4. m = TradeMessage("TRADE_AMENDED", m.id, trades'[m.id])
    BY <1>2, <1>6, <1>8
  <2> HIDE DEF m
  <2>5. Commits(m)
    BY <1>1, <1>3, <1>4, <1>5, <1>6, <2>4 DEF Commits
  <2> QED
    BY <1>5, <2>5
<1> QED
  BY <1>7, <1>8

\* What is due depends on the handler and the table only.
LEMMA WaitingIsUnseen ==
    ASSUME UNCHANGED <<trades, job>>
    PROVE  Unseen
BY DEF Unseen, Due, DueMessage, Announcement

\* What the steps of the server between two broadcasts amount to.
LEMMA ServerStepKinds ==
    ASSUME ServiceInv, ServerStep
    PROVE  Unseen \/ Commits(DueMessage') \/ Seeds
<1>1. CASE PostTrade \/ PostRandomTrades \/ NextRandomTrade
  <2>1. ~Due /\ \E dto \in CreateRequests : \E left : createTrade(dto, left)
    BY <1>1 DEF PostTrade, PostRandomTrades, NextRandomTrade, idle, Idle, Due
  <2> QED
    BY <2>1, CreateKinds DEF ServiceInv
<1>2. CASE Finish
  BY <1>2, FinishKinds
<1>3. CASE Start
  <2>1. ~up /\ job = Idle /\ up' /\ UNCHANGED job
    BY <1>3 DEF Start, ServiceInv, DownIsIdle
  <2>2. CASE DOMAIN trades = {}
    BY <1>3, <2>1, <2>2 DEF Start, Open, seedIfEmpty, Seeds
  <2>3. CASE DOMAIN trades # {}
    BY <1>3, <2>1, <2>3 DEF Start, Open, seedIfEmpty, tables, Unseen, Due, Idle
  <2> QED
    BY <2>2, <2>3
<1>4. CASE PatchTrade \/ DeleteTrade \/ RefuseUnknown \/ ReadFails \/ RunStatement
           \/ Abort \/ ErrorHandler \/ AdvanceClock
  <2>1. UNCHANGED trades
    BY <1>4 DEF PatchTrade, amendTrade, DeleteTrade, cancelTrade, Refuse, Transact,
       RefuseUnknown, ReadFails, RunStatement, UpdateRow, InsertAuditRow, Abort, Rollback,
       ErrorHandler, AdvanceClock, Tick, repoVars, tables
  <2>2. CASE PatchTrade \/ DeleteTrade \/ RefuseUnknown \/ ReadFails
    BY <2>1, <2>2 DEF PatchTrade, amendTrade, DeleteTrade, cancelTrade, Refuse, Transact,
       RefuseUnknown, ReadFails, Throw, idle, Idle, Unseen, Due
  <2>3. CASE RunStatement \/ AdvanceClock
    <3>1. UNCHANGED job
      BY <2>3 DEF RunStatement, AdvanceClock, serviceVars
    <3> QED
      BY <2>1, <3>1, WaitingIsUnseen
  <2>4. CASE Abort
    <3>1. job.phase = "transaction"
      BY <2>4, TypeInvGivesTypeOK DEF ServiceInv, TypeOK, Abort, Rollback
    <3> QED
      BY <2>1, <2>4, <3>1 DEF Abort, Throw, Unseen, Due
  <2>5. CASE ErrorHandler
    BY <2>1, <2>5 DEF ErrorHandler, Idle, Unseen, Due
  <2> QED
    BY <1>4, <2>2, <2>3, <2>4, <2>5
<1>5. CASE ReadBack
  BY <1>5, ReadBackIsUnseen
<1> QED
  BY <1>1, <1>2, <1>3, <1>4, <1>5 DEF ServerStep, Request

\* Without a crash or a failed read, what is due is sent or stays due; these two
\* give it up, and flag it for every client.
LEMMA GivesUp ==
    ASSUME ServerCrash \/ ServerReadBackFails
    PROVE  /\ UNCHANGED trades /\ ~Due'
           /\ clients' \subseteq clients
           /\ LET unsent == IF Due THEN {<<"unsent", DueMessage.id>>} ELSE {} IN
                /\ missed' = [c \in Clients |-> missed[c] \cup unsent]
                /\ since' = [c \in Clients |-> IF fetch[c].phase = "answered"
                                THEN since[c] \cup unsent ELSE since[c]]
           /\ UNCHANGED <<store, buffer, paused, inbox, connected, fetch, cache>>
<1> DEFINE unsent == IF Due THEN {<<"unsent", DueMessage.id>>} ELSE {}
<1>1. UNCHANGED trades /\ ~Due' /\ clients' \subseteq clients
  BY DEF ServerCrash, Crash, Die, tables, Idle, ServerReadBackFails, ReadBackFails, Refuse,
     Throw, repoVars, Due
<1>2. ServerReadBackFails => job.phase = "readback"
  BY DEF ServerReadBackFails, ReadBackFails
<1>3. PICK left : /\ left = IF ServerCrash THEN Pending ELSE {job.id}
                  /\ Silent(left)
  BY DEF ServerCrash, ServerReadBackFails
<1>4. left = IF job.phase = "readback" THEN {job.id}
             ELSE IF job.phase = "publish" THEN {job.message.id} ELSE {}
  BY <1>2, <1>3 DEF Pending
<1>5. Announcement(job.type, job.id).id = job.id
  BY DEF Announcement, CancelMessage, TradeMessage
<1>6. left = IF Due THEN {DueMessage.id} ELSE {}
  BY <1>4, <1>5 DEF Due, DueMessage
<1>7. {<<"unsent", i>> : i \in left} = unsent
  BY <1>6
<1> HIDE DEF unsent
<1> QED
  BY <1>1, <1>3, <1>7 DEF Silent, unsent

-----------------------------------------------------------------------------
(* The store's operators *)

Once(s) == \A k, m \in DOMAIN s : s[k].id = s[m].id => k = m

\* The window keeps the end of the list.
LEMMA CapShape ==
    ASSUME NEW S, NEW s \in Seq(S)
    PROVE  /\ capToWindow(s) \in Seq(S)
           /\ Len(capToWindow(s)) <= MAX_LIVE_TRADES
           /\ Len(capToWindow(s)) <= Len(s)
           /\ Len(s) <= MAX_LIVE_TRADES => capToWindow(s) = s
           /\ \A k \in 1 .. Len(capToWindow(s)) :
                 capToWindow(s)[k] = s[k + (Len(s) - Len(capToWindow(s)))]
<1>1. MAX_LIVE_TRADES \in Nat \ {0} /\ Len(s) \in Nat
  BY FeedAssumption
<1>2. CASE Len(s) <= MAX_LIVE_TRADES
  BY <1>1, <1>2 DEF capToWindow
<1>3. CASE ~(Len(s) <= MAX_LIVE_TRADES)
  <2> DEFINE m == Len(s) - MAX_LIVE_TRADES + 1
             n == Len(s)
             t == SubSeq(s, m, n)
  <2>1. m \in Int /\ n \in Int /\ m >= 1 /\ m <= n /\ n - m + 1 = MAX_LIVE_TRADES
    BY <1>1, <1>3
  <2>2. \A i \in m .. n : s[i] \in S
    BY <2>1
  <2> HIDE DEF m, n
  <2>3. /\ t \in Seq(S) /\ Len(t) = n - m + 1
        /\ \A i \in 1 .. n - m + 1 : t[i] = s[m + i - 1]
    BY <2>1, <2>2, SubSeqProperties
  <2>4. capToWindow(s) = t
    BY <1>3 DEF capToWindow, m, n
  <2> HIDE DEF t
  <2>5. \A k \in 1 .. Len(t) : t[k] = s[k + (n - Len(t))]
    BY <1>1, <2>1, <2>3 DEF m, n
  <2>6. Len(t) = MAX_LIVE_TRADES /\ Len(t) <= Len(s)
    BY <1>1, <1>3, <2>1, <2>3
  <2>7. \A k \in 1 .. Len(t) : t[k] = s[k + (Len(s) - Len(t))]
    BY <2>5 DEF n
  <2>8. t \in Seq(S) /\ Len(t) <= MAX_LIVE_TRADES /\ Len(t) <= Len(s)
    BY <1>1, <2>3, <2>6
  <2> QED
    BY <1>3, <2>4, <2>7, <2>8
<1> QED
  BY <1>2, <1>3

\* A batch adds what is not shown yet, and nothing else.
LEMMA BatchShape ==
    ASSUME NEW S, NEW s \in Seq(S), NEW b \in Seq(S)
    PROVE  /\ addTradesBatch(s, b) \in Seq(S)
           /\ Len(addTradesBatch(s, b)) <= MAX_LIVE_TRADES
           /\ \A k \in DOMAIN addTradesBatch(s, b) :
                 \/ \E n \in DOMAIN s : addTradesBatch(s, b)[k] = s[n]
                 \/ \E n \in DOMAIN b : /\ addTradesBatch(s, b)[k] = b[n]
                                        /\ b[n].id \notin ids(s)
           /\ Once(s) /\ Once(b) => Once(addTradesBatch(s, b))
<1> DEFINE fresh == {k \in DOMAIN b : b[k].id \notin ids(s)}
           N == Cardinality(fresh)
           add == Kept(b, fresh)
           all == s \o add
           res == capToWindow(all)
<1>1. PICK at \in [1 .. N -> fresh] :
         /\ N \in Nat
         /\ add \in Seq(S)
         /\ Len(add) = N
         /\ \A n \in 1 .. N : add[n] = b[at[n]]
         /\ \A m, n \in 1 .. N : m < n => at[m] < at[n]
  <2>1. fresh \in SUBSET (DOMAIN b)
    OBVIOUS
  <2> HIDE DEF fresh
  <2> QED
    BY <2>1, KeptIsTheFilter
<1>2. addTradesBatch(s, b) = res
  BY DEF addTradesBatch
<1>3. /\ Len(s) \in Nat /\ DOMAIN s = 1 .. Len(s)
      /\ Len(b) \in Nat /\ DOMAIN b = 1 .. Len(b)
  OBVIOUS
<1>4. \A n \in 1 .. N : at[n] \in DOMAIN b /\ add[n] = b[at[n]] /\ add[n].id \notin ids(s)
  BY <1>1
<1> HIDE DEF fresh, N, add
<1>5. /\ all \in Seq(S) /\ Len(all) = Len(s) + N
      /\ \A k \in 1 .. Len(s) + N : all[k] = IF k <= Len(s) THEN s[k] ELSE add[k - Len(s)]
  BY <1>1, <1>3, ConcatProperties
<1> HIDE DEF all
<1>6. /\ res \in Seq(S) /\ Len(res) <= MAX_LIVE_TRADES /\ Len(res) <= Len(all)
      /\ \A k \in 1 .. Len(res) : res[k] = all[k + (Len(all) - Len(res))]
      /\ DOMAIN res = 1 .. Len(res) /\ Len(res) \in Nat
  BY <1>5, CapShape
<1> HIDE DEF res
<1>7. ASSUME NEW k \in 1 .. Len(all)
      PROVE  \/ k \in DOMAIN s /\ all[k] = s[k]
             \/ k - Len(s) \in 1 .. N /\ all[k] = add[k - Len(s)]
  BY <1>1, <1>3, <1>5
<1>8. ASSUME NEW k \in DOMAIN res
      PROVE  k + (Len(all) - Len(res)) \in 1 .. Len(all)
  BY <1>1, <1>3, <1>5, <1>6
<1>9. ASSUME NEW k \in DOMAIN res
      PROVE  \/ \E n \in DOMAIN s : res[k] = s[n]
             \/ \E n \in DOMAIN b : res[k] = b[n] /\ b[n].id \notin ids(s)
  <2> DEFINE l == k + (Len(all) - Len(res))
  <2>1. res[k] = all[l] /\ l \in 1 .. Len(all)
    BY <1>6, <1>8
  <2> HIDE DEF l
  <2>2. CASE l \in DOMAIN s /\ all[l] = s[l]
    BY <2>1, <2>2
  <2>3. CASE l - Len(s) \in 1 .. N /\ all[l] = add[l - Len(s)]
    BY <2>1, <2>3, <1>4
  <2> QED
    BY <2>1, <2>2, <2>3, <1>7
<1>10. ASSUME Once(s), Once(b), NEW k \in 1 .. Len(all), NEW m \in 1 .. Len(all),
              k < m, all[k].id = all[m].id
       PROVE  FALSE
  <2>1. k \in DOMAIN s => all[k] = s[k] /\ all[k].id \in ids(s)
    BY <1>3, <1>5 DEF ids
  <2>2. m \in DOMAIN s => all[m] = s[m] /\ k \in DOMAIN s
    BY <1>3, <1>5, <1>10
  <2>3. CASE m \in DOMAIN s
    BY <1>3, <1>10, <2>1, <2>2, <2>3 DEF Once
  <2>4. CASE m \notin DOMAIN s
    <3>1. m - Len(s) \in 1 .. N /\ all[m] = add[m - Len(s)]
      BY <1>7, <2>4
    <3>2. k \notin DOMAIN s
      BY <1>4, <1>10, <2>1, <3>1
    <3>3. k - Len(s) \in 1 .. N /\ all[k] = add[k - Len(s)]
      BY <1>7, <3>2
    <3>4. at[k - Len(s)] < at[m - Len(s)]
      BY <1>1, <1>3, <1>5, <1>10, <3>1, <3>3
    <3>5. at[k - Len(s)] \in 1 .. Len(b) /\ at[m - Len(s)] \in 1 .. Len(b)
      BY <1>3, <1>4, <3>1, <3>3
    <3>6. b[at[k - Len(s)]].id = b[at[m - Len(s)]].id
      BY <1>4, <1>10, <3>1, <3>3
    <3> QED
      BY <1>3, <1>10, <3>4, <3>5, <3>6 DEF Once
  <2> QED
    BY <2>3, <2>4
<1>11. ASSUME Once(s), Once(b) PROVE Once(res)
  <2>1. ASSUME NEW k \in 1 .. Len(res), NEW m \in 1 .. Len(res), res[k].id = res[m].id,
               k < m
        PROVE  FALSE
    <3> DEFINE kk == k + (Len(all) - Len(res))
               mm == m + (Len(all) - Len(res))
    <3>1. kk \in 1 .. Len(all) /\ mm \in 1 .. Len(all)
      BY <1>6, <1>8
    <3>2. kk < mm
      BY <1>1, <1>3, <1>5, <1>6, <2>1
    <3>3. all[kk].id = all[mm].id
      BY <1>6, <2>1
    <3> HIDE DEF kk, mm
    <3> QED
      BY <1>10, <1>11, <3>1, <3>2, <3>3
  <2> QED
    BY <1>6, <2>1 DEF Once
<1> QED
  BY <1>2, <1>6, <1>9, <1>11

\* A sequence that is cut down to some of its entries is not longer than it was,
\* and has every one of them.
LEMMA KeptCovers ==
    ASSUME NEW S, NEW b \in Seq(S), NEW P \in SUBSET (DOMAIN b)
    PROVE  /\ Kept(b, P) \in Seq(S) /\ Len(Kept(b, P)) <= Len(b)
           /\ \A p \in P : \E n \in DOMAIN Kept(b, P) : Kept(b, P)[n] = b[p]
<1>1. PICK at \in [1 .. Cardinality(P) -> P] :
         /\ Cardinality(P) \in Nat
         /\ Kept(b, P) \in Seq(S)
         /\ Len(Kept(b, P)) = Cardinality(P)
         /\ \A n \in 1 .. Cardinality(P) : Kept(b, P)[n] = b[at[n]]
         /\ \A p \in P : \E n \in 1 .. Cardinality(P) : at[n] = p
  BY KeptIsTheFilter
<1>2. Len(b) \in Nat /\ DOMAIN b = 1 .. Len(b)
  OBVIOUS
<1>3. IsFiniteSet(1 .. Len(b)) /\ Cardinality(1 .. Len(b)) = Len(b)
  <2>1. ASSUME NEW n \in Nat
        PROVE  IsFiniteSet(1 .. n) /\ Cardinality(1 .. n) = n
    BY FS_Interval
  <2> QED
    BY <1>2, <2>1
<1>4. Cardinality(P) <= Len(b)
  BY <1>2, <1>3, FS_Subset
<1> QED
  BY <1>1, <1>4

\* A batch drops nothing while the window has room for all.
LEMMA BatchFits ==
    ASSUME NEW S, NEW s \in Seq(S), NEW b \in Seq(S)
    PROVE  (ids(s) \cup ids(b)) \ ids(addTradesBatch(s, b))
              \subseteq Dropped(s, b, addTradesBatch(s, b))
<1> DEFINE fresh == {k \in DOMAIN b : b[k].id \notin ids(s)}
           add == Kept(b, fresh)
           all == s \o add
<1>1. /\ add \in Seq(S) /\ Len(add) <= Len(b)
      /\ \A p \in fresh : \E n \in DOMAIN add : add[n] = b[p]
  <2>1. fresh \in SUBSET (DOMAIN b)
    OBVIOUS
  <2> HIDE DEF fresh
  <2> QED
    BY <2>1, KeptCovers
<1>2. addTradesBatch(s, b) = capToWindow(all)
  BY DEF addTradesBatch
<1>3. \A n \in DOMAIN b : b[n].id \notin ids(s) => \E k \in DOMAIN add : add[k] = b[n]
  BY <1>1
<1> HIDE DEF fresh, add
<1>4. Len(s) \in Nat /\ Len(b) \in Nat /\ Len(add) \in Nat /\ DOMAIN add = 1 .. Len(add)
  BY <1>1
<1>5. /\ all \in Seq(S) /\ Len(all) = Len(s) + Len(add)
      /\ \A k \in 1 .. Len(s) : all[k] = s[k]
      /\ \A k \in 1 .. Len(add) : all[Len(s) + k] = add[k]
  BY <1>1, <1>4
<1> HIDE DEF all
<1>6. ASSUME Len(s) + Len(b) <= MAX_LIVE_TRADES, NEW i \in ids(s) \cup ids(b)
      PROVE  i \in ids(addTradesBatch(s, b))
  <2>1. Len(all) <= MAX_LIVE_TRADES
    BY <1>1, <1>4, <1>5, <1>6, FeedAssumption
  <2>2. addTradesBatch(s, b) = all
    BY <1>2, <1>5, <2>1, CapShape
  <2>3. CASE i \in ids(s)
    <3>1. PICK n \in 1 .. Len(s) : s[n].id = i
      BY <2>3 DEF ids
    <3>2. n \in DOMAIN all /\ all[n] = s[n]
      BY <1>4, <1>5, <3>1
    <3> QED
      BY <2>2, <3>1, <3>2 DEF ids
  <2>4. CASE i \notin ids(s)
    <3>1. PICK n \in DOMAIN b : b[n].id = i
      BY <1>6, <2>4 DEF ids
    <3>2. PICK k \in 1 .. Len(add) : add[k] = b[n]
      BY <1>3, <1>4, <2>4, <3>1
    <3>3. Len(s) + k \in DOMAIN all /\ all[Len(s) + k] = add[k]
      BY <1>4, <1>5
    <3> QED
      BY <2>2, <3>1, <3>2, <3>3 DEF ids
  <2> QED
    BY <2>3, <2>4
<1> QED
  BY <1>6 DEF Dropped

\* A patch replaces rows in place.
LEMMA PatchShape ==
    ASSUME NEW S, NEW s \in Seq(S), NEW t \in S, NEW i,
           \A u \in S : u.id = i => Shown(i, Cancelled(u.row)) \in S
    PROVE  /\ updateTrade(s, t) \in Seq(S) /\ Len(updateTrade(s, t)) = Len(s)
           /\ cancelShown(s, i) \in Seq(S) /\ Len(cancelShown(s, i)) = Len(s)
           /\ \A k \in DOMAIN s : /\ updateTrade(s, t)[k].id = s[k].id
                                  /\ cancelShown(s, i)[k].id = s[k].id
<1>1. DOMAIN s = 1 .. Len(s) /\ Len(s) \in Nat
  OBVIOUS
<1>2. updateTrade(s, t) \in [1 .. Len(s) -> S]
  BY <1>1 DEF updateTrade
<1>3. cancelShown(s, i) \in [1 .. Len(s) -> S]
  BY <1>1 DEF cancelShown
<1>4. updateTrade(s, t) \in Seq(S) /\ Len(updateTrade(s, t)) = Len(s)
  BY <1>1, <1>2
<1>5. cancelShown(s, i) \in Seq(S) /\ Len(cancelShown(s, i)) = Len(s)
  BY <1>1, <1>3
<1>6. ASSUME NEW k \in DOMAIN s
      PROVE  updateTrade(s, t)[k].id = s[k].id /\ cancelShown(s, i)[k].id = s[k].id
  BY DEF updateTrade, cancelShown, Shown
<1> QED
  BY <1>4, <1>5, <1>6

-----------------------------------------------------------------------------
(* The answer of GET /trades *)

NewerPairs == {p \in (DOMAIN trades) \X (DOMAIN trades) : Newer(p[1], p[2])}

\* The order of ids as text is strict and total.
LEMMA TextOrderStrict ==
    ASSUME NEW i \in Nat, NEW j \in Nat, NEW k \in Nat
    PROVE  /\ ~TextLess(i, i)
           /\ TextLess(i, j) /\ TextLess(j, k) => TextLess(i, k)
           /\ i # j => TextLess(i, j) \/ TextLess(j, i)
<1>1. TextKey(i) \in Nat /\ TextKey(j) \in Nat /\ TextKey(k) \in Nat
  BY SequenceAssumption DEF TextKey
<1> QED
  BY <1>1 DEF TextLess

\* ORDER BY trade_date DESC, id DESC is a strict total order of the table.
LEMMA NewerIsStrict ==
    ASSUME TypeInv
    PROVE  IsFiniteSet(DOMAIN trades) /\ StrictOrder(DOMAIN trades, NewerPairs)
<1>1. DOMAIN trades \subseteq Nat /\ \A i \in DOMAIN trades : trade_date[i] \in Nat
  BY DEF TypeInv
<1>2. IsFiniteSet(DOMAIN trades)
  <2>1. PICK b \in Nat : \A i \in DOMAIN trades : i < b
    BY DEF TypeInv, IdsBounded
  <2>2. \A i \in DOMAIN trades : i <= b
    BY <1>1, <2>1
  <2> QED
    BY <1>1, <2>2, FS_BoundedSetOfNaturals
<1>3. \A i, j \in DOMAIN trades : <<i, j>> \in NewerPairs <=> Newer(i, j)
  BY DEF NewerPairs
<1>4. \A i \in DOMAIN trades : ~Newer(i, i)
  BY <1>1, TextOrderStrict DEF Newer
<1>5. ASSUME NEW i \in DOMAIN trades, NEW j \in DOMAIN trades, i # j
      PROVE  Newer(i, j) \/ Newer(j, i)
  BY <1>1, <1>5, TextOrderStrict DEF Newer
<1>6. ASSUME NEW i \in DOMAIN trades, NEW j \in DOMAIN trades, NEW k \in DOMAIN trades,
             Newer(i, j), Newer(j, k)
      PROVE  Newer(i, k)
  <2>1. i \in Nat /\ j \in Nat /\ k \in Nat
        /\ trade_date[i] \in Nat /\ trade_date[j] \in Nat /\ trade_date[k] \in Nat
    BY <1>1
  <2>2. TextLess(j, i) /\ TextLess(k, j) => TextLess(k, i)
    BY <2>1, TextOrderStrict
  <2> QED
    BY <1>6, <2>1, <2>2 DEF Newer
<1> QED
  BY <1>2, <1>3, <1>4, <1>5, <1>6 DEF StrictOrder

\* The page is the first CLIENT_FETCH_PAGE_SIZE trades as the table holds them.
LEMMA PageShape ==
    ASSUME TypeInv, NEW page, page = PageOf(findAll)
    PROVE  /\ Cardinality(DOMAIN trades) \in Nat
           /\ page \in Seq(DOMAIN trades)
           /\ Len(page) <= CLIENT_FETCH_PAGE_SIZE
           /\ \A k, m \in DOMAIN page : page[k] = page[m] => k = m
           /\ \A k, m \in DOMAIN page : k < m => Newer(page[k], page[m])
           /\ \A k \in DOMAIN page, i \in DOMAIN trades :
                 (\A m \in DOMAIN page : page[m] # i) => Newer(page[k], i)
           /\ Cardinality(DOMAIN trades) <= CLIENT_FETCH_PAGE_SIZE =>
                 \A i \in DOMAIN trades : \E k \in DOMAIN page : page[k] = i
<1> DEFINE all == findAll
           N == Cardinality(DOMAIN trades)
           n == IF Len(all) < CLIENT_FETCH_PAGE_SIZE THEN Len(all) ELSE CLIENT_FETCH_PAGE_SIZE
<1>1. /\ all \in Seq(DOMAIN trades) /\ Len(all) = N /\ N \in Nat
      /\ \A i \in DOMAIN trades : \E k \in 1 .. N : all[k] = i
      /\ \A k, m \in 1 .. N : k < m => <<all[k], all[m]>> \in NewerPairs
      /\ \A k, m \in 1 .. N : all[k] = all[m] => k = m
  <2>1. all = Listed(DOMAIN trades, NewerPairs)
    BY DEF findAll, NewerPairs
  <2> HIDE DEF all
  <2> QED
    BY <2>1, NewerIsStrict, ListedIsTheOrder
<1>2. CLIENT_FETCH_PAGE_SIZE \in Nat \ {0}
  BY BlotterAssumption, FeedAssumption
<1>3. page = SubSeq(all, 1, n)
  BY DEF PageOf
<1> HIDE DEF all, N
<1>4. n \in 0 .. N /\ n <= CLIENT_FETCH_PAGE_SIZE
  BY <1>1, <1>2
<1>5. N <= CLIENT_FETCH_PAGE_SIZE => n = N
  BY <1>1, <1>2
<1> HIDE DEF n
<1>6. /\ page \in Seq(DOMAIN trades) /\ Len(page) = n
      /\ \A k \in 1 .. n : page[k] = all[k]
  BY <1>1, <1>3, <1>4
<1>7. DOMAIN page = 1 .. n /\ \A k \in 1 .. n : k \in 1 .. N
  BY <1>1, <1>4, <1>6
<1>8. ASSUME NEW k \in 1 .. n, NEW i \in DOMAIN trades, \A m \in 1 .. n : page[m] # i
      PROVE  Newer(page[k], i)
  <2>1. PICK m \in 1 .. N : all[m] = i
    BY <1>1
  <2>2. m \notin 1 .. n
    BY <1>6, <1>8, <2>1
  <2>3. k < m /\ k \in 1 .. N
    BY <1>1, <1>4, <2>2
  <2> QED
    BY <1>1, <1>6, <2>1, <2>3 DEF NewerPairs
<1>9. \A k, m \in 1 .. n : k < m => Newer(page[k], page[m])
  <2> SUFFICES ASSUME NEW k \in 1 .. n, NEW m \in 1 .. n, k < m
               PROVE  Newer(page[k], page[m])
    OBVIOUS
  <2>1. k \in 1 .. N /\ m \in 1 .. N
    BY <1>1, <1>4
  <2>2. <<all[k], all[m]>> \in NewerPairs
    BY <1>1, <2>1
  <2> QED
    BY <1>6, <2>2 DEF NewerPairs
<1>10. N <= CLIENT_FETCH_PAGE_SIZE =>
          \A i \in DOMAIN trades : \E k \in 1 .. n : page[k] = i
  BY <1>1, <1>5, <1>6
<1> QED
  BY <1>1, <1>4, <1>6, <1>7, <1>8, <1>9, <1>10 DEF N

\* Each trade of the page stands once in it, newest first, and a trade the page
\* leaves out is older than all it holds.
PageIsNewest ==
    LET page == PageOf(findAll) IN
    /\ \A k, m \in DOMAIN page : k < m => Newer(page[k], page[m])
    /\ \A k, m \in DOMAIN page : page[k] = page[m] => k = m
    /\ \A k \in DOMAIN page, i \in DOMAIN trades :
          (\A m \in DOMAIN page : page[m] # i) => Newer(page[k], i)

\* Trades of one millisecond are ordered by id as text, which is no order of
\* creation, but still an order: GET /trades never skips a trade for an older
\* one.
THEOREM PagesAreNewest == BlotterSpec => []PageIsNewest
<1>1. TypeInv => PageIsNewest
  BY PageShape DEF PageIsNewest
<1> QED
  BY <1>1, ServiceInvariant, PTL DEF ServiceInv

-----------------------------------------------------------------------------
(* What the browsers can hold *)

\* A trade a browser may be shown or sent: one of the table, dead only there.
SoundTrades ==
    {t \in [id : DOMAIN trades, row : Rows] :
        t.row["status"] = "CANCELLED" => trades[t.id]["status"] = "CANCELLED"}
SoundMessages ==
    {m \in [type : {"TRADE_CREATED", "TRADE_AMENDED"}, id : DOMAIN trades, payload : Rows] :
        Shown(m.id, m.payload) \in SoundTrades}
    \cup {m \in [type : {"TRADE_CANCELLED"}, id : DOMAIN trades] :
            trades[m.id]["status"] = "CANCELLED"}

Windows == {s \in Seq(SoundTrades) : Len(s) <= MAX_LIVE_TRADES}
Responses == [total : Nat, data : Windows, loaded : {TRUE}]
Fetches == {NoFetch, Sent} \cup [phase : {"answered"}, response : Responses]
Pairs == Causes \X Nat

Answer(c) == fetch[c].phase = "answered"

FeedInv ==
    /\ clients \in SUBSET Clients
    /\ store \in [Clients -> Windows]
    /\ buffer \in [Clients -> Seq(SoundTrades)]
    /\ paused \in [Clients -> BOOLEAN]
    /\ inbox \in [Clients -> Seq(SoundMessages)]
    /\ connected \in [Clients -> BOOLEAN]
    /\ fetch \in [Clients -> Fetches]
    /\ DOMAIN cache = Clients
    /\ missed \in [Clients -> SUBSET Pairs]
    /\ since \in [Clients -> SUBSET Pairs]
    /\ \A c \in clients : connected[c]
    /\ \A c \in Clients : ~Answer(c) => since[c] = {}
    /\ Due => DueMessage \in SoundMessages

\* The table only grows and the dead stay dead, so what is sound stays sound.
LEMMA SoundStaysSound ==
    ASSUME ServiceInv, [BlotterNext]_blotterVars
    PROVE  /\ SoundTrades \subseteq SoundTrades'
           /\ SoundMessages \subseteq SoundMessages'
           /\ Windows \subseteq Windows'
           /\ Fetches \subseteq Fetches'
<1>1. ASSUME NEW i \in DOMAIN trades
      PROVE  /\ i \in DOMAIN trades'
             /\ trades[i]["status"] = "CANCELLED" => trades'[i]["status"] = "CANCELLED"
  BY BlotterStepIsServiceStep, CancelledIsFinalStep DEF ServiceInv
<1>2. SoundTrades \subseteq SoundTrades'
  BY <1>1 DEF SoundTrades
<1>3. SoundMessages \subseteq SoundMessages'
  <2>1. ASSUME NEW m \in SoundMessages, m.type # "TRADE_CANCELLED"
        PROVE  m \in SoundMessages'
    <3>1. m \in [type : {"TRADE_CREATED", "TRADE_AMENDED"}, id : DOMAIN trades, payload : Rows]
          /\ Shown(m.id, m.payload) \in SoundTrades
      BY <2>1 DEF SoundMessages
    <3>2. m \in [type : {"TRADE_CREATED", "TRADE_AMENDED"}, id : DOMAIN trades', payload : Rows]
      BY <3>1, <1>1
    <3> QED
      BY <3>1, <3>2, <1>2 DEF SoundMessages
  <2>2. ASSUME NEW m \in SoundMessages, m.type = "TRADE_CANCELLED"
        PROVE  m \in SoundMessages'
    <3>1. m \in [type : {"TRADE_CANCELLED"}, id : DOMAIN trades]
          /\ trades[m.id]["status"] = "CANCELLED"
      BY <2>2 DEF SoundMessages
    <3>2. m \in [type : {"TRADE_CANCELLED"}, id : DOMAIN trades']
          /\ trades'[m.id]["status"] = "CANCELLED"
      BY <3>1, <1>1
    <3> QED
      BY <3>2 DEF SoundMessages
  <2> QED
    BY <2>1, <2>2
<1>4. Windows \subseteq Windows'
  BY <1>2, SeqMonotonic DEF Windows
<1>5. Responses \subseteq Responses'
  BY <1>4 DEF Responses
<1>6. Fetches \subseteq Fetches'
  BY <1>5 DEF Fetches
<1> QED
  BY <1>2, <1>3, <1>4, <1>6

\* Nothing is shown or under way at first.
LEMMA FeedInvInit == BlotterInit => FeedInv
<1> SUFFICES ASSUME BlotterInit PROVE FeedInv
  OBVIOUS
<1>1. <<>> \in Windows
  BY FeedAssumption DEF Windows
<1> QED
  BY <1>1 DEF BlotterInit, Init, FeedInit, FeedInv, Idle, Fetches, NoFetch, Answer, Due

\* What a patch does to the trades shown is sound.
LEMMA SoundPatch ==
    ASSUME NEW s \in Windows, NEW m \in SoundMessages
    PROVE  /\ m.type # "TRADE_CANCELLED" =>
                /\ Shown(m.id, m.payload) \in SoundTrades
                /\ updateTrade(s, Shown(m.id, m.payload)) \in Windows
           /\ m.type = "TRADE_CANCELLED" => cancelShown(s, m.id) \in Windows
           /\ m.id \in DOMAIN trades
<1>1. s \in Seq(SoundTrades) /\ Len(s) <= MAX_LIVE_TRADES
  BY DEF Windows
<1>2. ASSUME m.type # "TRADE_CANCELLED"
      PROVE  Shown(m.id, m.payload) \in SoundTrades /\ m.id \in DOMAIN trades
  BY <1>2 DEF SoundMessages
<1>3. ASSUME m.type # "TRADE_CANCELLED"
      PROVE  updateTrade(s, Shown(m.id, m.payload)) \in Windows
  <2> DEFINE t == Shown(m.id, m.payload)
             u == updateTrade(s, t)
  <2>1. t \in SoundTrades
    BY <1>2, <1>3
  <2> HIDE DEF t
  <2>2. u \in [1 .. Len(s) -> SoundTrades]
    BY <1>1, <2>1 DEF updateTrade
  <2>3. u \in Seq(SoundTrades) /\ Len(u) = Len(s)
    BY <1>1, <2>2
  <2> QED
    BY <1>1, <2>3 DEF Windows, t
<1>4. ASSUME m.type = "TRADE_CANCELLED"
      PROVE  m.id \in DOMAIN trades /\ cancelShown(s, m.id) \in Windows
  <2>1. m.id \in DOMAIN trades /\ trades[m.id]["status"] = "CANCELLED"
    BY <1>4 DEF SoundMessages
  <2>2. ASSUME NEW t \in SoundTrades, t.id = m.id
        PROVE  Shown(m.id, Cancelled(t.row)) \in SoundTrades
    <3>1. t.row \in Rows
      BY DEF SoundTrades
    <3>2. Cancelled(t.row) \in Rows
      <4> DEFINE r == Cancelled(t.row)
      <4>1. r = [f \in Fields |-> IF f = "status" THEN "CANCELLED" ELSE t.row[f]]
        BY <3>1 DEF Cancelled, Rows
      <4>2. \A f \in Fields : r[f] \in FieldValues(f)
        BY <3>1, <4>1 DEF Rows, FieldValues, Statuses
      <4>3. \A f \in Fields : r[f] \in Values \cup Statuses
        BY <4>2 DEF FieldValues
      <4> QED
        BY <4>1, <4>2, <4>3 DEF Rows
    <3> QED
      BY <2>1, <3>2 DEF SoundTrades, Shown
  <2> DEFINE u == cancelShown(s, m.id)
  <2>3. u \in [1 .. Len(s) -> SoundTrades]
    BY <1>1, <2>2 DEF cancelShown
  <2>4. u \in Seq(SoundTrades) /\ Len(u) = Len(s)
    BY <1>1, <2>3
  <2> QED
    BY <1>1, <2>1, <2>4 DEF Windows
<1> QED
  BY <1>2, <1>3, <1>4

\* The history variables of a client keep to their types.
LEMMA NoteKeepsTypes ==
    ASSUME FeedInv, NEW c \in Clients, NEW pairs \in SUBSET Pairs, Note(c, pairs)
    PROVE  /\ missed' \in [Clients -> SUBSET Pairs]
           /\ since' \in [Clients -> SUBSET Pairs]
           /\ \A d \in Clients : ~Answer(d) => since'[d] = {}
<1>1. /\ missed \in [Clients -> SUBSET Pairs]
      /\ since \in [Clients -> SUBSET Pairs]
      /\ \A d \in Clients : ~Answer(d) => since[d] = {}
  BY DEF FeedInv
<1>2. missed' = [missed EXCEPT ![c] = @ \cup pairs]
      /\ since' = [since EXCEPT ![c] = IF Answer(c) THEN @ \cup pairs ELSE @]
  BY DEF Note, Answer
<1> QED
  BY <1>1, <1>2

\* Nothing a browser does alone changes what is sound, or what is due.
LEMMA SoundUnchanged ==
    ASSUME UNCHANGED vars
    PROVE  /\ SoundTrades' = SoundTrades /\ SoundMessages' = SoundMessages
           /\ Windows' = Windows /\ Fetches' = Fetches /\ UNCHANGED <<trades, job>>
           /\ (Due' <=> Due) /\ DueMessage' = DueMessage
<1>1. UNCHANGED <<trades, job>>
  BY DEF vars, repoVars, serviceVars
<1>2. SoundTrades' = SoundTrades /\ SoundMessages' = SoundMessages
  BY <1>1 DEF SoundTrades, SoundMessages
<1>3. Windows' = Windows
  BY <1>2 DEF Windows
<1>4. Fetches' = Fetches
  BY <1>3 DEF Fetches, Responses
<1>5. (Due' <=> Due) /\ DueMessage' = DueMessage
  BY <1>1 DEF Due, DueMessage, Announcement
<1> QED
  BY <1>1, <1>2, <1>3, <1>4, <1>5

\* A sound message makes sound rows.
LEMMA ReceiveKeepsFeed ==
    ASSUME ServiceInv, FeedInv, NEW c \in Clients, Receive(c), UNCHANGED <<vars, clients>>
    PROVE  FeedInv'
<1> DEFINE m == Head(inbox[c])
           t == Shown(m.id, m.payload)
           pairs == (IF m.id \in ids(store[c]) THEN {} ELSE {<<"early", m.id>>})
                      \cup Applied(c, m.id)
<1>1. /\ SoundTrades' = SoundTrades /\ SoundMessages' = SoundMessages
      /\ Windows' = Windows /\ Fetches' = Fetches /\ UNCHANGED <<trades, job>>
      /\ (Due' <=> Due) /\ DueMessage' = DueMessage
  BY SoundUnchanged
<1>2. /\ inbox[c] \in Seq(SoundMessages) /\ inbox[c] # <<>>
      /\ inbox' = [inbox EXCEPT ![c] = Tail(@)]
      /\ UNCHANGED <<paused, connected, fetch, cache, clients>>
  BY DEF Receive, FeedInv
<1>3. m \in SoundMessages /\ Tail(inbox[c]) \in Seq(SoundMessages)
  BY <1>2, HeadTailProperties
<1>4. inbox' \in [Clients -> Seq(SoundMessages)]
  BY <1>2, <1>3 DEF FeedInv
<1>5. CASE m.type = "TRADE_CREATED"
  <2>1. t \in SoundTrades
    BY <1>3, <1>5, SoundPatch, CapShape DEF SoundMessages
  <2>2. buffer' = [buffer EXCEPT ![c] = Append(@, t)] /\ UNCHANGED <<store, missed, since>>
    BY <1>5 DEF Receive, onCreated
  <2> HIDE DEF t
  <2>3. buffer' \in [Clients -> Seq(SoundTrades)]
    BY <2>1, <2>2 DEF FeedInv
  <2> QED
    BY <1>1, <1>2, <1>4, <2>2, <2>3 DEF FeedInv, Answer
<1>6. CASE m.type # "TRADE_CREATED"
  <2>1. onPatch(c, m)
    BY <1>6 DEF Receive
  <2>2. UNCHANGED buffer /\ Note(c, pairs)
    BY <2>1 DEF onPatch
  <2>3. store' = [store EXCEPT ![c] = IF m.type = "TRADE_AMENDED"
                    THEN updateTrade(@, t) ELSE cancelShown(@, m.id)]
    BY <2>1 DEF onPatch
  <2>4. store[c] \in Windows
    BY DEF FeedInv
  <2>5. m.type = "TRADE_AMENDED" \/ m.type = "TRADE_CANCELLED"
    BY <1>3, <1>6 DEF SoundMessages
  <2>6. m.id \in DOMAIN trades
    BY <1>3, <2>4, SoundPatch
  <2>7. m.id \in Nat
    BY <2>6 DEF ServiceInv, TypeInv
  <2>8. pairs \in SUBSET Pairs
    BY <2>7 DEF Applied, Pairs, Causes
  <2>9. (IF m.type = "TRADE_AMENDED" THEN updateTrade(store[c], t) ELSE cancelShown(store[c], m.id))
          \in Windows
    BY <1>3, <2>4, <2>5, SoundPatch
  <2> HIDE DEF pairs, t, m
  <2>10. store' \in [Clients -> Windows]
    BY <2>3, <2>9 DEF FeedInv
  <2>11. /\ missed' \in [Clients -> SUBSET Pairs]
         /\ since' \in [Clients -> SUBSET Pairs]
         /\ \A d \in Clients : ~Answer(d) => since'[d] = {}
    BY <2>2, <2>8, NoteKeepsTypes
  <2> QED
    BY <1>1, <1>2, <1>4, <2>2, <2>10, <2>11 DEF FeedInv, Answer
<1> QED
  BY <1>5, <1>6

\* The length and the entries of a slice.
LEMMA SubSeqShape ==
    ASSUME NEW S, NEW s \in Seq(S), NEW p \in Int, NEW q \in Int,
           1 <= p, p <= q + 1, q <= Len(s)
    PROVE  /\ SubSeq(s, p, q) \in Seq(S) /\ Len(SubSeq(s, p, q)) = q - p + 1
           /\ \A i \in 1 .. q - p + 1 : SubSeq(s, p, q)[i] = s[p + i - 1]
BY SMT

\* What a tick of the drain timer takes from the buffer, and what it leaves.
LEMMA SliceShape ==
    ASSUME NEW S, NEW b \in Seq(S), NEW k \in 1 .. Len(b)
    PROVE  /\ SubSeq(b, 1, k) \in Seq(S) /\ Len(SubSeq(b, 1, k)) = k
           /\ \A m \in 1 .. k : SubSeq(b, 1, k)[m] = b[m]
           /\ SubSeq(b, k + 1, Len(b)) \in Seq(S)
           /\ Len(SubSeq(b, k + 1, Len(b))) = Len(b) - k
           /\ \A m \in 1 .. Len(b) - k : SubSeq(b, k + 1, Len(b))[m] = b[m + k]
<1>1. Len(b) \in Nat
  OBVIOUS
<1>2. k \in 1 .. Len(b) /\ k \in Int
  BY <1>1
<1>3. PICK p \in Int, q \in Int : p = k + 1 /\ q = Len(b)
  BY <1>1, <1>2
<1>4. 1 <= p /\ p <= q + 1 /\ q <= Len(b) /\ q - p + 1 = Len(b) - k
  BY <1>1, <1>2, <1>3
<1> DEFINE h == SubSeq(b, 1, k)
           r == SubSeq(b, p, q)
<1>5. /\ h \in Seq(S) /\ Len(h) = k - 1 + 1
      /\ \A i \in 1 .. k - 1 + 1 : h[i] = b[1 + i - 1]
  BY <1>1, <1>2, SubSeqShape
<1>6. /\ r \in Seq(S) /\ Len(r) = q - p + 1
      /\ \A i \in 1 .. q - p + 1 : r[i] = b[p + i - 1]
  BY <1>4, SubSeqShape
<1>7. r = SubSeq(b, k + 1, Len(b))
  BY <1>3
<1> HIDE DEF h, r
<1>8. Len(h) = k /\ \A m \in 1 .. k : h[m] = b[m]
  BY <1>2, <1>5
<1>9. Len(r) = Len(b) - k /\ \A m \in 1 .. Len(b) - k : r[m] = b[m + k]
  BY <1>1, <1>2, <1>3, <1>4, <1>6
<1> QED
  BY <1>2, <1>5, <1>6, <1>7, <1>8, <1>9 DEF h

\* A drain tick moves rows that are sound.
LEMMA DrainKeepsFeed ==
    ASSUME ServiceInv, FeedInv, NEW c \in Clients, drainTick(c), UNCHANGED <<vars, clients>>
    PROVE  FeedInv'
<1>1. /\ SoundTrades' = SoundTrades /\ SoundMessages' = SoundMessages
      /\ Windows' = Windows /\ Fetches' = Fetches /\ UNCHANGED <<trades, job>>
      /\ (Due' <=> Due) /\ DueMessage' = DueMessage
  BY SoundUnchanged
<1>2. /\ buffer[c] \in Seq(SoundTrades) /\ buffer[c] # <<>>
      /\ store[c] \in Seq(SoundTrades)
      /\ UNCHANGED <<paused, inbox, connected, fetch, cache, clients>>
  BY DEF drainTick, FeedInv, Windows
<1> DEFINE k(n) == IF n < Len(buffer[c]) THEN n ELSE Len(buffer[c])
           slice(n) == SubSeq(buffer[c], 1, k(n))
           rest(n) == SubSeq(buffer[c], k(n) + 1, Len(buffer[c]))
           shown(n) == addTradesBatch(store[c], slice(n))
           pairs(n) == {<<"capped", i>> :
                          i \in Dropped(store[c], slice(n), shown(n))}
                         \cup UNION {Applied(c, i) : i \in ids(slice(n))}
<1>3. PICK n \in Dials : /\ buffer' = [buffer EXCEPT ![c] = rest(n)]
                         /\ store' = [store EXCEPT ![c] = shown(n)]
                         /\ Note(c, pairs(n))
  BY DEF drainTick
<1>4. slice(n) \in Seq(SoundTrades) /\ rest(n) \in Seq(SoundTrades)
  <2>1. k(n) \in 1 .. Len(buffer[c])
    BY <1>2, EmptySeq, FeedAssumption
  <2> HIDE DEF k
  <2> QED
    BY <1>2, <2>1, SliceShape
<1>5. shown(n) \in Seq(SoundTrades) /\ Len(shown(n)) <= MAX_LIVE_TRADES
  <2> HIDE DEF slice
  <2> QED
    BY <1>2, <1>4, BatchShape
<1>6. pairs(n) \in SUBSET Pairs
  <2>1. \A t \in SoundTrades : t.id \in Nat
    BY DEF SoundTrades, ServiceInv, TypeInv
  <2>2. ids(store[c]) \subseteq Nat /\ ids(slice(n)) \subseteq Nat
    <3> HIDE DEF slice
    <3> QED
      BY <1>2, <1>4, <2>1 DEF ids
  <2> HIDE DEF slice, shown
  <2>3. Dropped(store[c], slice(n), shown(n)) \subseteq Nat
    BY <2>2 DEF Dropped
  <2> QED
    BY <2>2, <2>3 DEF Applied, Pairs, Causes
<1>7. shown(n) \in Windows
  BY <1>5 DEF Windows
<1> HIDE DEF rest, shown, pairs
<1>8. /\ missed' \in [Clients -> SUBSET Pairs]
      /\ since' \in [Clients -> SUBSET Pairs]
      /\ \A d \in Clients : ~Answer(d) => since'[d] = {}
  BY <1>3, <1>6, NoteKeepsTypes
<1>9. store' \in [Clients -> Windows] /\ buffer' \in [Clients -> Seq(SoundTrades)]
  BY <1>3, <1>4, <1>7 DEF FeedInv
<1> QED
  BY <1>1, <1>2, <1>8, <1>9 DEF FeedInv, Answer

\* An answer fits the window whole, and flags what it may lack.
LEMMA LoadShape ==
    ASSUME FeedInv, NEW c \in Clients, Load(c)
    PROVE  /\ fetch[c].response \in Responses
           /\ setTrades(fetch[c].response.data) = fetch[c].response.data
           /\ StillLost(c) \subseteq missed[c]
<1>1. fetch[c] \in Fetches /\ fetch[c].phase = "answered"
  BY DEF Load, FeedInv
<1>2. fetch[c].response \in Responses
  BY <1>1 DEF Fetches, NoFetch, Sent
<1>3. fetch[c].response.data \in Seq(SoundTrades)
      /\ Len(fetch[c].response.data) <= MAX_LIVE_TRADES
  BY <1>2 DEF Responses, Windows
<1>4. capToWindow(fetch[c].response.data) = fetch[c].response.data
  BY <1>3, CapShape
<1> QED
  BY <1>2, <1>4 DEF setTrades, StillLost

\* An answer was sound when it was given, and so it still is.
LEMMA LoadKeepsFeed ==
    ASSUME ServiceInv, FeedInv, NEW c \in Clients, Load(c), UNCHANGED <<vars, clients>>
    PROVE  FeedInv'
<1>1. /\ SoundTrades' = SoundTrades /\ SoundMessages' = SoundMessages
      /\ Windows' = Windows /\ Fetches' = Fetches /\ UNCHANGED <<trades, job>>
      /\ (Due' <=> Due) /\ DueMessage' = DueMessage
  BY SoundUnchanged
<1>2. /\ fetch[c].response \in Responses /\ fetch[c].response.data \in Windows
      /\ StillLost(c) \in SUBSET Pairs /\ since[c] \in SUBSET Pairs
  BY LoadShape DEF FeedInv, Responses
<1>3. /\ fetch' = [fetch EXCEPT ![c] = NoFetch] /\ since' = [since EXCEPT ![c] = {}]
      /\ UNCHANGED <<buffer, paused, inbox, connected, clients>>
  BY DEF Load
<1>4. fetch' \in [Clients -> Fetches] /\ since' \in [Clients -> SUBSET Pairs]
      /\ \A d \in Clients : ~Answer(d)' => since'[d] = {}
  BY <1>3 DEF FeedInv, Fetches, Answer
<1>5. CASE fetch[c].response = cache[c]
  <2>1. UNCHANGED <<store, cache, missed>>
    BY <1>5 DEF Load
  <2> QED
    BY <1>1, <1>3, <1>4, <2>1 DEF FeedInv
<1>6. CASE fetch[c].response # cache[c]
  <2>1. /\ cache' = [cache EXCEPT ![c] = fetch[c].response]
        /\ store' = [store EXCEPT ![c] = fetch[c].response.data]
        /\ missed' = [missed EXCEPT ![c] = since[c] \cup StillLost(c)]
    BY <1>6, LoadShape DEF Load
  <2>2. /\ DOMAIN cache' = Clients /\ store' \in [Clients -> Windows]
        /\ missed' \in [Clients -> SUBSET Pairs]
    BY <1>2, <2>1 DEF FeedInv
  <2> QED
    BY <1>1, <1>3, <1>4, <2>2 DEF FeedInv
<1> QED
  BY <1>5, <1>6

\* An answer tells the rows of the table as they are.
LEMMA AnswerShape ==
    ASSUME ServiceInv
    PROVE  /\ getAllTrades \in Responses
           /\ Once(getAllTrades.data)
           /\ \A k \in DOMAIN getAllTrades.data :
                 LET t == getAllTrades.data[k] IN
                 t.id \in DOMAIN trades /\ t.row = trades[t.id]
           /\ DOMAIN trades \ ids(getAllTrades.data) \subseteq OffPage
           /\ OffPage \subseteq DOMAIN trades
<1> DEFINE page == PageOf(findAll)
           data == [k \in DOMAIN page |-> Shown(page[k], trades[page[k]])]
<1>1. /\ Cardinality(DOMAIN trades) \in Nat
      /\ page \in Seq(DOMAIN trades)
      /\ Len(page) <= CLIENT_FETCH_PAGE_SIZE
      /\ \A k, m \in DOMAIN page : page[k] = page[m] => k = m
      /\ Cardinality(DOMAIN trades) <= CLIENT_FETCH_PAGE_SIZE =>
            \A i \in DOMAIN trades : \E k \in DOMAIN page : page[k] = i
  BY PageShape DEF ServiceInv
<1>2. getAllTrades = [total |-> Cardinality(DOMAIN trades), data |-> data, loaded |-> TRUE]
  BY DEF getAllTrades, Response
<1> HIDE DEF page
<1>3. Len(page) \in Nat /\ DOMAIN page = 1 .. Len(page)
      /\ \A k \in DOMAIN page : page[k] \in DOMAIN trades
  BY <1>1
<1>4. \A k \in DOMAIN page : Shown(page[k], trades[page[k]]) \in SoundTrades
  BY <1>3 DEF SoundTrades, Shown, ServiceInv, TypeInv
<1>5. data \in [1 .. Len(page) -> SoundTrades]
  BY <1>3, <1>4
<1>6. /\ \A k \in DOMAIN data : data[k].id = page[k] /\ data[k].row = trades[page[k]]
      /\ DOMAIN data = DOMAIN page
  BY DEF Shown
<1> HIDE DEF data
<1>7. data \in Seq(SoundTrades) /\ Len(data) = Len(page)
  BY <1>3, <1>5
<1>8. data \in Windows
  BY <1>1, <1>3, <1>7, BlotterAssumption, FeedAssumption DEF Windows
<1>9. getAllTrades \in Responses
  BY <1>1, <1>2, <1>8 DEF Responses
<1>10. Once(data)
  BY <1>1, <1>6 DEF Once
<1>11. \A k \in DOMAIN data : data[k].id \in DOMAIN trades /\ data[k].row = trades[data[k].id]
  BY <1>3, <1>6
<1>12. Cardinality(DOMAIN trades) <= CLIENT_FETCH_PAGE_SIZE => DOMAIN trades \subseteq ids(data)
  BY <1>1, <1>6 DEF ids
<1>13. /\ DOMAIN trades \ ids(getAllTrades.data) \subseteq OffPage
       /\ OffPage \subseteq DOMAIN trades
  BY <1>2, <1>12 DEF OffPage
<1> QED
  BY <1>2, <1>9, <1>10, <1>11, <1>13

\* The steps of one client, and of its socket.
LEMMA ClientKeepsFeed ==
    ASSUME ServiceInv, FeedInv, NEW c \in Clients, UNCHANGED vars,
           \/ Connect(c) \/ Cut(c) \/ NoticeClose(c) \/ LeavePage(c)
           \/ AnswerFetch(c) \/ FailFetch(c) \/ ClientStep(c)
    PROVE  FeedInv'
<1>1. /\ SoundTrades' = SoundTrades /\ SoundMessages' = SoundMessages
      /\ Windows' = Windows /\ Fetches' = Fetches /\ UNCHANGED <<trades, job>>
      /\ (Due' <=> Due) /\ DueMessage' = DueMessage
  BY SoundUnchanged
<1>2. CASE Connect(c)
  <2>1. /\ connected' = [connected EXCEPT ![c] = TRUE] /\ clients' = clients \cup {c}
        /\ UNCHANGED <<store, buffer, paused, inbox, fetch, cache, missed, since>>
    BY <1>2 DEF Connect, Reopen
  <2>2. /\ connected' \in [Clients -> BOOLEAN] /\ clients' \in SUBSET Clients
        /\ \A d \in clients' : connected'[d]
    BY <2>1 DEF FeedInv
  <2> QED
    BY <1>1, <2>1, <2>2 DEF FeedInv, Answer
<1>3. CASE Cut(c)
  BY <1>1, <1>3 DEF Cut, FeedInv, feedVars, Answer
<1>4. CASE NoticeClose(c)
  <2> DEFINE pairs == {<<"lost", inbox[c][k].id>> : k \in DOMAIN inbox[c]}
  <2>1. /\ connected' = [connected EXCEPT ![c] = FALSE]
        /\ inbox' = [inbox EXCEPT ![c] = <<>>]
        /\ Note(c, pairs) /\ c \notin clients
        /\ UNCHANGED <<store, buffer, paused, fetch, cache, clients>>
    BY <1>4 DEF NoticeClose, Close
  <2>2. pairs \in SUBSET Pairs
    <3>1. inbox[c] \in Seq(SoundMessages)
      BY DEF FeedInv
    <3>2. \A m \in SoundMessages : m.id \in Nat
      BY DEF SoundMessages, ServiceInv, TypeInv
    <3>3. \A k \in DOMAIN inbox[c] : inbox[c][k].id \in Nat
      BY <3>1, <3>2
    <3> QED
      BY <3>3 DEF Pairs, Causes
  <2> HIDE DEF pairs
  <2>3. /\ missed' \in [Clients -> SUBSET Pairs]
        /\ since' \in [Clients -> SUBSET Pairs]
        /\ \A d \in Clients : ~Answer(d) => since'[d] = {}
    BY <2>1, <2>2, NoteKeepsTypes
  <2>4. /\ connected' \in [Clients -> BOOLEAN]
        /\ \A d \in clients : connected'[d]
        /\ inbox' \in [Clients -> Seq(SoundMessages)]
    BY <2>1 DEF FeedInv
  <2> QED
    BY <1>1, <2>1, <2>3, <2>4 DEF FeedInv, Answer
<1>5. CASE AnswerFetch(c)
  <2> DEFINE absent == OffPage
  <2>1. /\ fetch' = [fetch EXCEPT ![c] = [phase |-> "answered", response |-> getAllTrades]]
        /\ since' = [since EXCEPT ![c] = {<<"capped", i>> : i \in absent}]
        /\ UNCHANGED <<store, buffer, paused, inbox, connected, cache, missed, clients>>
    BY <1>5 DEF AnswerFetch, Answered
  <2>2. absent \subseteq Nat
    BY AnswerShape DEF ServiceInv, TypeInv
  <2>3. since' \in [Clients -> SUBSET Pairs]
    <3> HIDE DEF absent
    <3>1. {<<"capped", i>> : i \in absent} \in SUBSET Pairs
      BY <2>2 DEF Pairs, Causes
    <3> QED
      BY <2>1, <3>1 DEF FeedInv
  <2> HIDE DEF absent
  <2>4. [phase |-> "answered", response |-> getAllTrades] \in Fetches
    BY AnswerShape DEF Fetches
  <2>5. fetch' \in [Clients -> Fetches]
    BY <2>1, <2>4 DEF FeedInv
  <2>6. \A d \in Clients : ~Answer(d)' => since'[d] = {}
    BY <2>1 DEF FeedInv, Answer
  <2> QED
    BY <1>1, <2>1, <2>3, <2>5, <2>6 DEF FeedInv
<1>6. CASE FailFetch(c)
  <2>1. /\ fetch' = [fetch EXCEPT ![c] = NoFetch] /\ since' = [since EXCEPT ![c] = {}]
        /\ UNCHANGED <<store, buffer, paused, inbox, connected, cache, missed, clients>>
    BY <1>6 DEF FailFetch, FetchFails
  <2>2. /\ fetch' \in [Clients -> Fetches] /\ since' \in [Clients -> SUBSET Pairs]
        /\ \A d \in Clients : ~Answer(d)' => since'[d] = {}
    BY <2>1 DEF FeedInv, Fetches, Answer
  <2> QED
    BY <1>1, <2>1, <2>2 DEF FeedInv
<1>7. CASE ClientStep(c)
  <2>1. UNCHANGED <<vars, clients>>
    BY <1>7 DEF ClientStep
  <2>2. CASE Receive(c)
    BY <2>1, <2>2, ReceiveKeepsFeed
  <2>3. CASE drainTick(c)
    BY <2>1, <2>3, DrainKeepsFeed
  <2>4. CASE Load(c)
    BY <2>1, <2>4, LoadKeepsFeed
  <2>5. CASE setStreamPaused(c)
    <3>1. paused' \in [Clients -> BOOLEAN]
      BY <2>5 DEF setStreamPaused, FeedInv
    <3> QED
      BY <1>1, <2>1, <2>5, <3>1 DEF setStreamPaused, FeedInv, Answer
  <2>6. CASE startFetch(c)
    <3>1. /\ fetch' = [fetch EXCEPT ![c] = Sent]
          /\ UNCHANGED <<store, buffer, paused, inbox, connected, cache, missed, since>>
      BY <2>6 DEF startFetch
    <3>2. fetch[c] = NoFetch
      BY <2>6 DEF startFetch
    <3>3. /\ fetch' \in [Clients -> Fetches]
          /\ \A d \in Clients : ~Answer(d)' => since'[d] = {}
      BY <3>1, <3>2 DEF FeedInv, Fetches, Answer, NoFetch
    <3> QED
      BY <1>1, <2>1, <3>1, <3>3 DEF FeedInv
  <2> QED
    BY <1>7, <2>2, <2>3, <2>4, <2>5, <2>6 DEF ClientStep
<1>8. CASE LeavePage(c)
  <2>1. /\ store' = [store EXCEPT ![c] = <<>>] /\ buffer' = [buffer EXCEPT ![c] = <<>>]
        /\ paused' = [paused EXCEPT ![c] = FALSE] /\ inbox' = [inbox EXCEPT ![c] = <<>>]
        /\ connected' = [connected EXCEPT ![c] = FALSE]
        /\ fetch' = [fetch EXCEPT ![c] = NoFetch]
        /\ cache' = [cache EXCEPT ![c] = NoData]
        /\ missed' = [missed EXCEPT ![c] = {}] /\ since' = [since EXCEPT ![c] = {}]
        /\ clients' = clients \ {c}
    BY <1>8 DEF LeavePage, Leave
  <2>2. <<>> \in Windows
    BY FeedAssumption DEF Windows
  <2>3. /\ store' \in [Clients -> Windows] /\ buffer' \in [Clients -> Seq(SoundTrades)]
        /\ paused' \in [Clients -> BOOLEAN] /\ inbox' \in [Clients -> Seq(SoundMessages)]
        /\ connected' \in [Clients -> BOOLEAN] /\ DOMAIN cache' = Clients
    BY <2>1, <2>2 DEF FeedInv
  <2>4. /\ fetch' \in [Clients -> Fetches] /\ missed' \in [Clients -> SUBSET Pairs]
        /\ since' \in [Clients -> SUBSET Pairs]
    BY <2>1 DEF FeedInv, Fetches
  <2>5. /\ clients' \in SUBSET Clients /\ \A d \in clients' : connected'[d]
        /\ \A d \in Clients : ~Answer(d)' => since'[d] = {}
    BY <2>1 DEF FeedInv, Answer
  <2> QED
    BY <1>1, <2>3, <2>4, <2>5 DEF FeedInv
<1> QED
  BY <1>2, <1>3, <1>4, <1>5, <1>6, <1>7, <1>8

\* What is broadcast is what was committed.
LEMMA BroadcastKeepsFeed ==
    ASSUME ServiceInv, FeedInv, Broadcast
    PROVE  FeedInv'
<1> DEFINE m == job.message
           lost(c) == IF c \in clients THEN {} ELSE {<<"lost", m.id>>}
<1>1. /\ job.phase = "publish" /\ ~Due' /\ UNCHANGED trades
      /\ inbox' = [c \in Clients |-> IF c \in clients
                     THEN Append(inbox[c], m) ELSE inbox[c]]
      /\ missed' = [c \in Clients |-> missed[c] \cup lost(c)]
      /\ since' = [c \in Clients |-> IF Answer(c) THEN since[c] \cup lost(c) ELSE since[c]]
      /\ UNCHANGED <<store, buffer, paused, connected, fetch, cache, clients>>
  BY DEF Broadcast, Publish, Idle, repoVars, tables, Answer, Due
<1>2. SoundTrades' = SoundTrades /\ SoundMessages' = SoundMessages
  BY <1>1 DEF SoundTrades, SoundMessages
<1>3. Windows' = Windows
  BY <1>2 DEF Windows
<1>4. Fetches' = Fetches
  BY <1>3 DEF Fetches, Responses
<1>5. m \in SoundMessages
  BY <1>1 DEF FeedInv, Due, DueMessage
<1>6. m.id \in Nat
  BY <1>5 DEF SoundMessages, ServiceInv, TypeInv
<1>7. \A c \in Clients : lost(c) \in SUBSET Pairs
  BY <1>6 DEF Pairs, Causes
<1> HIDE DEF m, lost
<1>8. inbox' \in [Clients -> Seq(SoundMessages)]
  BY <1>1, <1>5 DEF FeedInv
<1>9. missed' \in [Clients -> SUBSET Pairs] /\ since' \in [Clients -> SUBSET Pairs]
  BY <1>1, <1>7 DEF FeedInv
<1>10. \A c \in Clients : ~Answer(c)' => since'[c] = {}
  BY <1>1 DEF FeedInv, Answer
<1> QED
  BY <1>1, <1>2, <1>3, <1>4, <1>8, <1>9, <1>10 DEF FeedInv

\* A crash, or a change that cannot be read back, makes up no message.
LEMMA GivingUpKeepsFeed ==
    ASSUME ServiceInv, FeedInv, ServerCrash \/ ServerReadBackFails
    PROVE  FeedInv'
<1> DEFINE unsent == IF Due THEN {<<"unsent", DueMessage.id>>} ELSE {}
<1>1. /\ ~Due' /\ UNCHANGED trades
      /\ clients' \subseteq clients
      /\ missed' = [c \in Clients |-> missed[c] \cup unsent]
      /\ since' = [c \in Clients |-> IF Answer(c) THEN since[c] \cup unsent ELSE since[c]]
      /\ UNCHANGED <<store, buffer, paused, inbox, connected, fetch, cache>>
  BY GivesUp DEF Answer
<1>2. SoundTrades' = SoundTrades /\ SoundMessages' = SoundMessages
  BY <1>1 DEF SoundTrades, SoundMessages
<1>3. Windows' = Windows
  BY <1>2 DEF Windows
<1>4. Fetches' = Fetches
  BY <1>3 DEF Fetches, Responses
<1>5. unsent \in SUBSET Pairs
  <2>1. Due => DueMessage.id \in Nat
    BY DEF FeedInv, SoundMessages, ServiceInv, TypeInv
  <2> QED
    BY <2>1 DEF Pairs, Causes
<1> HIDE DEF unsent
<1>6. missed' \in [Clients -> SUBSET Pairs] /\ since' \in [Clients -> SUBSET Pairs]
  BY <1>1, <1>5 DEF FeedInv
<1>7. \A c \in Clients : ~Answer(c)' => since'[c] = {}
  BY <1>1 DEF FeedInv, Answer
<1>8. clients' \in SUBSET Clients /\ \A c \in clients' : connected'[c]
  BY <1>1 DEF FeedInv
<1> QED
  BY <1>1, <1>2, <1>3, <1>4, <1>6, <1>7, <1>8 DEF FeedInv

\* What a handler commits is sound to send.
LEMMA CommitIsSound ==
    ASSUME ServiceInv, NEW m, Commits(m)
    PROVE  m \in SoundMessages'
<1>1. CASE m \in {TradeMessage("TRADE_CREATED", m.id, trades'[m.id]),
                  TradeMessage("TRADE_AMENDED", m.id, trades'[m.id])}
  <2>1. m.id \in DOMAIN trades' /\ trades'[m.id] \in Rows
    BY DEF Commits
  <2>2. /\ m = [type |-> m.type, id |-> m.id, payload |-> trades'[m.id]]
        /\ m.type \in {"TRADE_CREATED", "TRADE_AMENDED"}
    BY <1>1 DEF TradeMessage
  <2>3. m \in [type : {"TRADE_CREATED", "TRADE_AMENDED"}, id : DOMAIN trades', payload : Rows]
    BY <2>1, <2>2
  <2>4. Shown(m.id, m.payload) \in SoundTrades'
    BY <2>1, <2>2 DEF SoundTrades, Shown
  <2> QED
    BY <2>3, <2>4 DEF SoundMessages
<1>2. CASE /\ m.id \in DOMAIN trades /\ m = CancelMessage(m.id)
           /\ trades'[m.id] = Cancelled(trades[m.id])
  <2>1. trades[m.id] \in [Fields -> Values \cup Statuses]
    BY <1>2 DEF ServiceInv, TypeInv, Rows
  <2>2. trades'[m.id]["status"] = "CANCELLED" /\ m.id \in DOMAIN trades'
    BY <1>2, <2>1, StatusIsAField DEF Cancelled, Commits
  <2>3. m = [type |-> "TRADE_CANCELLED", id |-> m.id]
    BY <1>2 DEF CancelMessage
  <2>4. m \in [type : {"TRADE_CANCELLED"}, id : DOMAIN trades']
    BY <2>2, <2>3
  <2> QED
    BY <2>2, <2>4 DEF SoundMessages
<1> QED
  BY <1>1, <1>2 DEF Commits

\* Every step of the server keeps rows and messages sound.
LEMMA ServerKeepsFeed ==
    ASSUME ServiceInv, FeedInv, ServerStep
    PROVE  FeedInv'
<1>1. /\ SoundTrades \subseteq SoundTrades' /\ SoundMessages \subseteq SoundMessages'
      /\ Windows \subseteq Windows' /\ Fetches \subseteq Fetches'
  BY SoundStaysSound DEF BlotterNext
<1>2. UNCHANGED <<store, buffer, paused, inbox, connected, fetch, cache, missed, since, clients>>
  BY DEF ServerStep, feedVars
<1>3. Seq(SoundTrades) \subseteq Seq(SoundTrades') /\ Seq(SoundMessages) \subseteq Seq(SoundMessages')
  BY <1>1, SeqMonotonic
<1>4. /\ store' \in [Clients -> Windows'] /\ buffer' \in [Clients -> Seq(SoundTrades')]
      /\ inbox' \in [Clients -> Seq(SoundMessages')] /\ fetch' \in [Clients -> Fetches']
  BY <1>1, <1>2, <1>3 DEF FeedInv
<1>5. Due' => DueMessage' \in SoundMessages'
  <2>1. CASE Unseen
    BY <1>1, <2>1 DEF Unseen, FeedInv
  <2>2. CASE Commits(DueMessage')
    BY <2>2, CommitIsSound
  <2>3. CASE Seeds
    BY <2>3 DEF Seeds, Idle, Due
  <2> QED
    BY <2>1, <2>2, <2>3, ServerStepKinds
<1>6. \A c \in Clients : ~Answer(c)' => since'[c] = {}
  BY <1>2 DEF FeedInv, Answer
<1> QED
  BY <1>2, <1>4, <1>5, <1>6 DEF FeedInv

\* Every step of the whole keeps rows and messages sound.
LEMMA FeedInvStep == ServiceInv /\ FeedInv /\ [BlotterNext]_blotterVars => FeedInv'
<1> SUFFICES ASSUME ServiceInv, FeedInv, [BlotterNext]_blotterVars
             PROVE  FeedInv'
  OBVIOUS
<1>1. CASE UNCHANGED blotterVars
  <2>1. /\ SoundTrades' = SoundTrades /\ SoundMessages' = SoundMessages
        /\ Windows' = Windows /\ Fetches' = Fetches
        /\ (Due' <=> Due) /\ DueMessage' = DueMessage
    BY <1>1, SoundUnchanged DEF blotterVars
  <2>2. UNCHANGED <<clients, store, buffer, paused, inbox, connected, fetch, cache,
                    missed, since, job>>
    BY <1>1 DEF blotterVars, feedVars, vars, serviceVars
  <2> QED
    BY <2>1, <2>2 DEF FeedInv, Answer
<1>2. CASE \E c \in Clients : \/ Connect(c) \/ Cut(c) \/ NoticeClose(c) \/ LeavePage(c)
                              \/ AnswerFetch(c) \/ FailFetch(c) \/ ClientStep(c)
  <2>1. UNCHANGED vars
    BY <1>2 DEF Connect, Cut, NoticeClose, LeavePage, AnswerFetch, FailFetch, ClientStep
  <2> QED
    BY <1>2, <2>1, ClientKeepsFeed
<1> QED
  BY <1>1, <1>2, BroadcastKeepsFeed, ServerKeepsFeed, GivingUpKeepsFeed DEF BlotterNext

\* What every client holds, and what is on its way to it, is a trade of the
\* table in a row it may have, dead only if the trade is: the handlers commit
\* before they broadcast, and no later step of theirs takes a row back.
THEOREM FeedIsSound == BlotterSpec => []FeedInv
<1>1. BlotterInit => FeedInv
  BY FeedInvInit
<1> QED
  BY <1>1, FeedInvStep, ServiceInvariant, PTL DEF BlotterSpec

\* Type correctness: the window is never exceeded, rows are rows, and nothing is
\* noted against an answer that is not under way.
THEOREM BlotterTypeCorrectness == BlotterSpec => []BlotterTypeOK
<1>1. FeedInv => BlotterTypeOK
  <2> SUFFICES ASSUME FeedInv PROVE BlotterTypeOK
    OBVIOUS
  <2>1. clients \subseteq {c \in Clients : connected[c]}
    BY DEF FeedInv
  <2>2. ASSUME NEW c \in Clients
        PROVE  /\ Len(store[c]) <= MAX_LIVE_TRADES
               /\ \A k \in DOMAIN store[c] : store[c][k].row \in Rows
               /\ missed[c] \cup since[c] \subseteq Causes \X Nat
               /\ fetch[c].phase # "answered" => since[c] = {}
    <3>1. store[c] \in Seq(SoundTrades) /\ Len(store[c]) <= MAX_LIVE_TRADES
      BY DEF FeedInv, Windows
    <3>2. \A k \in DOMAIN store[c] : store[c][k].row \in Rows
      BY <3>1 DEF SoundTrades
    <3>3. missed[c] \in SUBSET Pairs /\ since[c] \in SUBSET Pairs
          /\ (~Answer(c) => since[c] = {})
      BY DEF FeedInv
    <3> QED
      BY <3>1, <3>2, <3>3 DEF Pairs, Answer
  <2> QED
    BY <2>1, <2>2 DEF BlotterTypeOK
<1> QED
  BY <1>1, FeedIsSound, PTL

\* A browser never knows a trade the database does not hold, whatever crashes,
\* breaks or is answered late: every handler commits before it broadcasts.
THEOREM NothingIsMadeUp == BlotterSpec => []NoPhantomTrade
<1>1. FeedInv => NoPhantomTrade
  <2> SUFFICES ASSUME FeedInv, NEW c \in Clients
               PROVE  /\ ids(store[c]) \cup ids(buffer[c]) \subseteq DOMAIN trades
                      /\ \A k \in DOMAIN inbox[c] : inbox[c][k].id \in DOMAIN trades
    BY DEF NoPhantomTrade
  <2>1. /\ store[c] \in Seq(SoundTrades) /\ buffer[c] \in Seq(SoundTrades)
        /\ inbox[c] \in Seq(SoundMessages)
    BY DEF FeedInv, Windows
  <2>2. \A t \in SoundTrades : t.id \in DOMAIN trades
    BY DEF SoundTrades
  <2>3. \A m \in SoundMessages : m.id \in DOMAIN trades
    BY DEF SoundMessages
  <2> QED
    BY <2>1, <2>2, <2>3 DEF ids
<1> QED
  BY <1>1, FeedIsSound, PTL

\* A trade shown as cancelled is cancelled: the message tells about a committed
\* cancellation, and no handler brings a cancelled trade back.
THEOREM NoFalseCancellation == BlotterSpec => []NeverFalselyCancelled
<1>1. FeedInv => NeverFalselyCancelled
  <2> SUFFICES ASSUME FeedInv, NEW c \in Clients, NEW k \in DOMAIN store[c],
                      store[c][k].row["status"] = "CANCELLED"
               PROVE  trades[store[c][k].id]["status"] = "CANCELLED"
    BY DEF NeverFalselyCancelled
  <2>1. store[c] \in Seq(SoundTrades)
    BY DEF FeedInv, Windows
  <2>2. store[c][k] \in SoundTrades
    BY <2>1
  <2> QED
    BY <2>2 DEF SoundTrades
<1> QED
  BY <1>1, FeedIsSound, PTL

-----------------------------------------------------------------------------
(* A trade is shown once *)

\* What is on its way to client c, in order, with the message of the change that
\* is committed and not broadcast yet at the end.
Stream(c) == IF Due THEN Append(inbox[c], DueMessage) ELSE inbox[c]

\* No two of the trades that are buffered or announced as created are the same.
NewOnce(P, b) ==
    /\ Once(b)
    /\ \A k, m \in DOMAIN P :
          P[k].type = "TRADE_CREATED" /\ P[m].type = "TRADE_CREATED" /\ P[k].id = P[m].id
             => k = m
    /\ \A k \in DOMAIN P, n \in DOMAIN b : P[k].type = "TRADE_CREATED" => P[k].id # b[n].id

OnceInv ==
    \A c \in Clients :
        /\ Once(store[c])
        /\ Answer(c) => Once(fetch[c].response.data)
        /\ NewOnce(Stream(c), buffer[c])

\* The types of the messages a client will still get.
LEMMA StreamType ==
    ASSUME FeedInv, NEW c \in Clients
    PROVE  /\ Stream(c) \in Seq(SoundMessages)
           /\ inbox[c] \in Seq(SoundMessages)
           /\ Due =>
                /\ Stream(c) = Append(inbox[c], DueMessage)
                /\ Len(Stream(c)) = Len(inbox[c]) + 1
                /\ Stream(c)[Len(inbox[c]) + 1] = DueMessage
           /\ ~Due => Stream(c) = inbox[c]
           /\ \A k \in 1 .. Len(inbox[c]) : Stream(c)[k] = inbox[c][k]
           /\ inbox[c] # <<>> => Head(Stream(c)) = Head(inbox[c]) /\ Stream(c) # <<>>
<1>1. inbox[c] \in Seq(SoundMessages) /\ (Due => DueMessage \in SoundMessages)
  BY DEF FeedInv
<1>2. CASE Due
  <2> DEFINE P == Append(inbox[c], DueMessage)
  <2>1. /\ P \in Seq(SoundMessages) /\ Len(P) = Len(inbox[c]) + 1
        /\ P[Len(inbox[c]) + 1] = DueMessage
        /\ \A k \in 1 .. Len(inbox[c]) : P[k] = inbox[c][k]
    BY <1>1, <1>2
  <2>2. inbox[c] # <<>> => Head(P) = Head(inbox[c]) /\ P # <<>>
    BY <1>1, <1>2
  <2> HIDE DEF P
  <2>3. Stream(c) = P
    BY <1>2 DEF Stream, P
  <2> QED
    BY <1>1, <1>2, <2>1, <2>2, <2>3 DEF P
<1>3. CASE ~Due
  BY <1>1, <1>3 DEF Stream
<1> QED
  BY <1>2, <1>3

\* Receiving takes the head of the stream.
LEMMA ReceiveTakesHead ==
    ASSUME FeedInv, NEW c \in Clients, Receive(c), UNCHANGED vars
    PROVE  /\ Stream(c) # <<>> /\ inbox[c] # <<>>
           /\ Head(Stream(c)) = Head(inbox[c])
           /\ Stream(c)' = Tail(Stream(c))
           /\ inbox'[c] = Tail(inbox[c])
           /\ \A d \in Clients \ {c} : Stream(d)' = Stream(d) /\ inbox'[d] = inbox[d]
<1>1. /\ inbox[c] \in Seq(SoundMessages) /\ inbox[c] # <<>>
      /\ inbox' = [inbox EXCEPT ![c] = Tail(@)]
      /\ (Due' <=> Due) /\ DueMessage' = DueMessage
      /\ Due => DueMessage \in SoundMessages
  BY SoundUnchanged DEF Receive, FeedInv
<1>2. inbox'[c] = Tail(inbox[c]) /\ \A d \in Clients \ {c} : inbox'[d] = inbox[d]
  BY <1>1 DEF FeedInv
<1>3. \A d \in Clients \ {c} : Stream(d)' = Stream(d)
  BY <1>1, <1>2 DEF Stream
<1>4. Stream(c)' = Tail(Stream(c))
  <2>1. CASE Due
    <3>1. Append(Tail(inbox[c]), DueMessage) = Tail(Append(inbox[c], DueMessage))
      BY <1>1, <2>1
    <3> QED
      BY <1>1, <1>2, <2>1, <3>1 DEF Stream
  <2>2. CASE ~Due
    BY <1>1, <1>2, <2>2 DEF Stream
  <2> QED
    BY <2>1, <2>2
<1> QED
  BY <1>1, <1>2, <1>3, <1>4, StreamType
\* Q is a stretch of P, from position off + 1 on.
Part(Q, P, off) ==
    \A k \in DOMAIN Q : k \in Nat /\ k + off \in DOMAIN P /\ Q[k] = P[k + off]

\* A server step appends what a handler commits to every stream, and nothing else.
LEMMA ServerStepStream ==
    ASSUME ServiceInv, FeedInv, ServerStep, NEW c \in Clients
    PROVE  /\ UNCHANGED <<feedVars, clients>>
           /\ \/ Unseen /\ Stream(c)' = Stream(c)
              \/ Commits(DueMessage') /\ Stream(c)' = Append(Stream(c), DueMessage')
              \/ Seeds /\ Stream(c)' = Stream(c)
<1>1. UNCHANGED <<feedVars, clients>> /\ UNCHANGED inbox
  BY DEF ServerStep, feedVars
<1>2. CASE Unseen
  BY <1>1, <1>2 DEF Unseen, Stream
<1>3. CASE Commits(DueMessage')
  BY <1>1, <1>3 DEF Commits, Stream
<1>4. CASE Seeds
  BY <1>1, <1>4 DEF Seeds, Stream, Idle, Due
<1> QED
  BY <1>1, <1>2, <1>3, <1>4, ServerStepKinds

\* A broadcast moves the message committed last into the inboxes of the clients
\* the server is connected to; for the others it is lost.
LEMMA BroadcastStream ==
    ASSUME FeedInv, Broadcast, NEW c \in Clients
    PROVE  /\ UNCHANGED <<trades, up, store, buffer, fetch, cache>>
           /\ missed[c] \subseteq missed'[c] /\ since[c] \subseteq since'[c]
           /\ Stream(c)' = inbox'[c] /\ Due
           /\ \/ c \in clients /\ inbox'[c] = Stream(c)
                 /\ missed'[c] = missed[c] /\ since'[c] = since[c]
              \/ /\ c \notin clients /\ inbox'[c] = inbox[c]
                 /\ <<"lost", DueMessage.id>> \in missed'[c]
                 /\ Answer(c) => <<"lost", DueMessage.id>> \in since'[c]
<1> DEFINE m == job.message
           lost == IF c \in clients THEN {} ELSE {<<"lost", m.id>>}
<1>1. /\ Due /\ ~Due' /\ DueMessage = m
      /\ inbox'[c] = IF c \in clients THEN Append(inbox[c], m) ELSE inbox[c]
      /\ missed'[c] = missed[c] \cup lost
      /\ since'[c] = IF Answer(c) THEN since[c] \cup lost ELSE since[c]
      /\ UNCHANGED <<trades, up, store, buffer, fetch, cache>>
  BY DEF Broadcast, Publish, Idle, repoVars, tables, Answer, Due, DueMessage
<1>2. Stream(c)' = inbox'[c] /\ Stream(c) = Append(inbox[c], m)
  BY <1>1 DEF Stream
<1>3. CASE c \in clients
  BY <1>1, <1>2, <1>3
<1>4. CASE c \notin clients
  BY <1>1, <1>2, <1>4
<1> QED
  BY <1>3, <1>4

\* A crash or a failed read-back gives up the message still to be broadcast.
LEMMA GivingUpStream ==
    ASSUME FeedInv, ServerCrash \/ ServerReadBackFails, NEW c \in Clients
    PROVE  /\ UNCHANGED <<trades, store, buffer, inbox, fetch, cache>>
           /\ missed[c] \subseteq missed'[c] /\ since[c] \subseteq since'[c]
           /\ Stream(c)' = inbox[c]
           /\ Due =>
                /\ <<"unsent", DueMessage.id>> \in missed'[c]
                /\ Answer(c) => <<"unsent", DueMessage.id>> \in since'[c]
<1>1. /\ ~Due'
      /\ UNCHANGED <<trades, store, buffer, inbox, fetch, cache>>
      /\ LET unsent == IF Due THEN {<<"unsent", DueMessage.id>>} ELSE {} IN
           /\ missed'[c] = missed[c] \cup unsent
           /\ since'[c] = IF Answer(c) THEN since[c] \cup unsent ELSE since[c]
  BY GivesUp DEF Answer
<1>2. Stream(c)' = inbox[c]
  BY <1>1 DEF Stream
<1> QED
  BY <1>1, <1>2

\* A client that loses what is on its way keeps what is still to be broadcast.
LEMMA EmptiedStream ==
    ASSUME FeedInv, UNCHANGED vars, NEW c \in Clients, inbox'[c] = <<>>
    PROVE  /\ Stream(c)' = IF Due THEN <<DueMessage>> ELSE <<>>
           /\ Part(Stream(c)', Stream(c), Len(inbox[c]))
           /\ \A l \in DOMAIN Stream(c) :
                 \/ l - Len(inbox[c]) \in DOMAIN Stream(c)'
                 \/ l \in DOMAIN inbox[c] /\ Stream(c)[l] = inbox[c][l]
<1>1. Stream(c)' = IF Due THEN <<DueMessage>> ELSE <<>>
  <2>1. (Due' <=> Due) /\ DueMessage' = DueMessage
    BY SoundUnchanged
  <2> QED
    BY <2>1 DEF Stream
<1>2. /\ Len(inbox[c]) \in Nat /\ inbox[c] \in Seq(SoundMessages)
      /\ Stream(c) \in Seq(SoundMessages)
      /\ \A k \in 1 .. Len(inbox[c]) : Stream(c)[k] = inbox[c][k]
  BY StreamType
<1> SUFFICES /\ Part(Stream(c)', Stream(c), Len(inbox[c]))
             /\ \A l \in DOMAIN Stream(c) :
                   \/ l - Len(inbox[c]) \in DOMAIN Stream(c)'
                   \/ l \in DOMAIN inbox[c] /\ Stream(c)[l] = inbox[c][l]
  BY <1>1
<1>3. CASE Due
  <2>1. /\ Len(Stream(c)) = Len(inbox[c]) + 1
        /\ Stream(c)[Len(inbox[c]) + 1] = DueMessage
    BY <1>3, StreamType
  <2>2. DOMAIN Stream(c)' = {1} /\ Stream(c)'[1] = DueMessage
    BY <1>1, <1>3
  <2>3. 1 + Len(inbox[c]) \in DOMAIN Stream(c) /\ Stream(c)[1 + Len(inbox[c])] = DueMessage
    BY <1>2, <2>1
  <2>4. Part(Stream(c)', Stream(c), Len(inbox[c]))
    BY <2>2, <2>3 DEF Part
  <2>5. \A l \in DOMAIN Stream(c) : l - Len(inbox[c]) = 1 \/ l \in DOMAIN inbox[c]
    BY <1>2, <2>1
  <2>6. \A l \in DOMAIN inbox[c] : Stream(c)[l] = inbox[c][l]
    BY <1>2
  <2>7. ASSUME NEW l \in DOMAIN Stream(c)
        PROVE  \/ l - Len(inbox[c]) \in DOMAIN Stream(c)'
               \/ l \in DOMAIN inbox[c] /\ Stream(c)[l] = inbox[c][l]
    <3>1. CASE l - Len(inbox[c]) = 1
      <4>1. l - Len(inbox[c]) \in DOMAIN Stream(c)'
        BY <2>2, <3>1
      <4> QED
        BY <4>1
    <3>2. CASE l \in DOMAIN inbox[c]
      BY <2>6, <3>2
    <3> QED
      BY <2>5, <3>1, <3>2
  <2> QED
    BY <2>4, <2>7
<1>4. CASE ~Due
  <2>1. Stream(c) = inbox[c]
    BY <1>4, StreamType
  <2>2. Part(Stream(c)', Stream(c), Len(inbox[c]))
    BY <1>1, <1>4 DEF Part
  <2> QED
    BY <1>1, <1>2, <2>1, <2>2
<1> QED
  BY <1>3, <1>4

\* A socket that closes takes what is on its way with it, not what is still to
\* be broadcast.
LEMMA CloseStream ==
    ASSUME FeedInv, NEW d \in Clients, NoticeClose(d), UNCHANGED vars, NEW c \in Clients
    PROVE  /\ UNCHANGED <<trades, store, buffer, fetch, cache>>
           /\ missed[c] \subseteq missed'[c] /\ since[c] \subseteq since'[c]
           /\ \/ Stream(c)' = Stream(c) /\ inbox'[c] = inbox[c]
                 /\ missed'[c] = missed[c] /\ since'[c] = since[c]
              \/ /\ inbox'[c] = <<>>
                 /\ Stream(c)' = IF Due THEN <<DueMessage>> ELSE <<>>
                 /\ Part(Stream(c)', Stream(c), Len(inbox[c]))
                 /\ \A k \in DOMAIN inbox[c] :
                       /\ <<"lost", inbox[c][k].id>> \in missed'[c]
                       /\ Answer(c) => <<"lost", inbox[c][k].id>> \in since'[c]
<1> DEFINE pairs == {<<"lost", inbox[d][k].id>> : k \in DOMAIN inbox[d]}
<1>1. /\ inbox' = [inbox EXCEPT ![d] = <<>>]
      /\ missed' = [missed EXCEPT ![d] = @ \cup pairs]
      /\ since' = [since EXCEPT ![d] = IF Answer(d) THEN @ \cup pairs ELSE @]
      /\ UNCHANGED <<store, buffer, paused, fetch, cache, clients>>
  BY DEF NoticeClose, Close, Note, Answer
<1>2. UNCHANGED trades /\ (Due' <=> Due) /\ DueMessage' = DueMessage
  BY SoundUnchanged
<1>3. CASE c # d
  <2>1. inbox'[c] = inbox[c] /\ missed'[c] = missed[c] /\ since'[c] = since[c]
    BY <1>1, <1>3 DEF FeedInv
  <2> QED
    BY <1>1, <1>2, <2>1 DEF Stream
<1>4. CASE c = d
  <2>1. /\ inbox'[c] = <<>> /\ missed'[c] = missed[c] \cup pairs
        /\ since'[c] = IF Answer(c) THEN since[c] \cup pairs ELSE since[c]
    BY <1>1, <1>4 DEF FeedInv
  <2>2. /\ Stream(c)' = IF Due THEN <<DueMessage>> ELSE <<>>
        /\ Part(Stream(c)', Stream(c), Len(inbox[c]))
    BY <2>1, EmptiedStream
  <2>4. \A k \in DOMAIN inbox[c] : <<"lost", inbox[c][k].id>> \in pairs
    BY <1>4
  <2> HIDE DEF pairs
  <2> QED
    BY <1>1, <1>2, <2>1, <2>2, <2>4
<1> QED
  BY <1>3, <1>4

\* A browser that leaves the page keeps nothing of it, and nothing is sent to it.
LEMMA LeaveStream ==
    ASSUME FeedInv, NEW c \in Clients, LeavePage(c)
    PROVE  /\ inbox'[c] = <<>> /\ buffer'[c] = <<>> /\ store'[c] = <<>>
           /\ ~Answer(c)' /\ ~cache'[c].loaded
           /\ Stream(c)' = IF Due THEN <<DueMessage>> ELSE <<>>
           /\ Part(Stream(c)', Stream(c), Len(inbox[c]))
           /\ \A l \in DOMAIN Stream(c) :
                 \/ l - Len(inbox[c]) \in DOMAIN Stream(c)'
                 \/ l \in DOMAIN inbox[c]
           /\ \A d \in Clients \ {c} :
                 /\ Stream(d)' = Stream(d) /\ inbox'[d] = inbox[d]
                 /\ buffer'[d] = buffer[d] /\ store'[d] = store[d]
                 /\ fetch'[d] = fetch[d] /\ cache'[d] = cache[d]
                 /\ missed'[d] = missed[d] /\ since'[d] = since[d]
<1>1. /\ store' = [store EXCEPT ![c] = <<>>] /\ buffer' = [buffer EXCEPT ![c] = <<>>]
      /\ inbox' = [inbox EXCEPT ![c] = <<>>]
      /\ fetch' = [fetch EXCEPT ![c] = NoFetch] /\ cache' = [cache EXCEPT ![c] = NoData]
      /\ missed' = [missed EXCEPT ![c] = {}] /\ since' = [since EXCEPT ![c] = {}]
      /\ UNCHANGED vars
  BY DEF LeavePage, Leave
<1>2. /\ inbox'[c] = <<>> /\ buffer'[c] = <<>> /\ store'[c] = <<>>
      /\ fetch'[c] = NoFetch /\ cache'[c] = NoData
      /\ \A d \in Clients \ {c} :
            /\ inbox'[d] = inbox[d] /\ buffer'[d] = buffer[d] /\ store'[d] = store[d]
            /\ fetch'[d] = fetch[d] /\ cache'[d] = cache[d]
            /\ missed'[d] = missed[d] /\ since'[d] = since[d]
  BY <1>1 DEF FeedInv
<1>3. ~Answer(c)' /\ ~cache'[c].loaded
  BY <1>2 DEF Answer, NoFetch, NoData
<1>4. (Due' <=> Due) /\ DueMessage' = DueMessage
  BY <1>1, SoundUnchanged
<1>5. \A d \in Clients \ {c} : Stream(d)' = Stream(d)
  BY <1>2, <1>4 DEF Stream
<1> QED
  BY <1>1, <1>2, <1>3, <1>5, EmptiedStream

\* What is left of a stream and a buffer without duplicates has none.
LEMMA NewOncePart ==
    ASSUME NEW P, NEW b, NewOnce(P, b), NEW Q, NEW a, NEW i \in Nat, NEW j \in Nat,
           Part(Q, P, i), Part(a, b, j)
    PROVE  NewOnce(Q, a)
<1>1. Once(a)
  <2> SUFFICES ASSUME NEW k \in DOMAIN a, NEW m \in DOMAIN a, a[k].id = a[m].id
               PROVE  k = m
    BY DEF Once
  <2>1. k + j = m + j
    BY DEF Part, NewOnce, Once
  <2> QED
    BY <2>1 DEF Part
<1>2. ASSUME NEW k \in DOMAIN Q, NEW m \in DOMAIN Q, Q[k].type = "TRADE_CREATED",
             Q[m].type = "TRADE_CREATED", Q[k].id = Q[m].id
      PROVE  k = m
  <2>1. k + i \in DOMAIN P /\ m + i \in DOMAIN P /\ Q[k] = P[k + i] /\ Q[m] = P[m + i]
    BY DEF Part
  <2>2. k + i = m + i
    BY <1>2, <2>1 DEF NewOnce
  <2> QED
    BY <2>2 DEF Part
<1>3. ASSUME NEW k \in DOMAIN Q, NEW n \in DOMAIN a, Q[k].type = "TRADE_CREATED"
      PROVE  Q[k].id # a[n].id
  <2>1. k + i \in DOMAIN P /\ n + j \in DOMAIN b /\ Q[k] = P[k + i] /\ a[n] = b[n + j]
    BY DEF Part
  <2> QED
    BY <1>3, <2>1 DEF NewOnce
<1> QED
  BY <1>1, <1>2, <1>3 DEF NewOnce

\* A sequence is a part of itself.
LEMMA SelfIsPart == ASSUME NEW S, NEW s \in Seq(S) PROVE Part(s, s, 0)
BY DEF Part

\* And so is its tail.
LEMMA TailIsPart ==
    ASSUME NEW S, NEW s \in Seq(S), s # <<>>
    PROVE  Part(Tail(s), s, 1)
<1>1. Len(s) \in Nat /\ Tail(s) \in Seq(S) /\ Len(Tail(s)) = Len(s) - 1
      /\ \A i \in 1 .. Len(Tail(s)) : Tail(s)[i] = s[i + 1]
  BY HeadTailProperties
<1>2. ASSUME NEW k \in DOMAIN Tail(s)
      PROVE  k \in Nat /\ k + 1 \in DOMAIN s /\ Tail(s)[k] = s[k + 1]
  BY <1>1
<1> QED
  BY <1>2 DEF Part

\* What was sent is a part of what was and will be sent.
LEMMA InboxIsPart ==
    ASSUME FeedInv, NEW c \in Clients
    PROVE  Part(inbox[c], Stream(c), 0)
<1>1. /\ Stream(c) \in Seq(SoundMessages) /\ inbox[c] \in Seq(SoundMessages)
      /\ \A k \in 1 .. Len(inbox[c]) : Stream(c)[k] = inbox[c][k]
      /\ Due => Len(Stream(c)) = Len(inbox[c]) + 1
      /\ ~Due => Stream(c) = inbox[c]
  BY StreamType
<1>2. Len(inbox[c]) <= Len(Stream(c)) /\ Len(inbox[c]) \in Nat
  BY <1>1
<1>3. ASSUME NEW k \in DOMAIN inbox[c]
      PROVE  k \in Nat /\ k + 0 \in DOMAIN Stream(c) /\ inbox[c][k] = Stream(c)[k + 0]
  BY <1>1, <1>2
<1> QED
  BY <1>3 DEF Part

\* A patch replaces rows in place.
LEMMA PatchKeepsOnce ==
    ASSUME NEW s, Once(s), NEW t, NEW i
    PROVE  /\ Once(updateTrade(s, t))
           /\ Once(cancelShown(s, i))
<1>1. DOMAIN updateTrade(s, t) = DOMAIN s /\ DOMAIN cancelShown(s, i) = DOMAIN s
  BY DEF updateTrade, cancelShown
<1>2. \A k \in DOMAIN s : updateTrade(s, t)[k].id = s[k].id
  BY DEF updateTrade
<1>3. \A k \in DOMAIN s : cancelShown(s, i)[k].id = s[k].id
  BY DEF cancelShown, Shown
<1> QED
  BY <1>1, <1>2, <1>3 DEF Once

\* Receiving a created trade moves it from the stream to the buffer.
LEMMA ReceiveKeepsOnce ==
    ASSUME ServiceInv, FeedInv, OnceInv, NEW c \in Clients, Receive(c),
           UNCHANGED <<vars, clients>>
    PROVE  OnceInv'
<1> DEFINE P == Stream(c)
           m == Head(P)
           t == Shown(m.id, m.payload)
<1>1. /\ P # <<>> /\ P \in Seq(SoundMessages) /\ m = Head(inbox[c])
      /\ Stream(c)' = Tail(P)
      /\ \A d \in Clients \ {c} : Stream(d)' = Stream(d)
      /\ buffer[c] \in Seq(SoundTrades)
  BY ReceiveTakesHead, StreamType DEF FeedInv
<1>2. UNCHANGED fetch /\ UNCHANGED <<trades, job>>
  BY DEF Receive, vars, repoVars, serviceVars
<1>3. Part(Tail(P), P, 1) /\ Part(buffer[c], buffer[c], 0) /\ NewOnce(P, buffer[c])
  BY <1>1, TailIsPart, SelfIsPart DEF OnceInv
<1>4. NewOnce(Tail(P), buffer[c])
  <2> HIDE DEF P
  <2> QED
    BY <1>3, NewOncePart
<1>5. \A d \in Clients \ {c} : store'[d] = store[d] /\ buffer'[d] = buffer[d]
  BY DEF Receive, onCreated, onPatch, FeedInv
<1>6. ASSUME NewOnce(Tail(P), buffer'[c]), Once(store'[c])
      PROVE  OnceInv'
  <2> SUFFICES ASSUME NEW d \in Clients
               PROVE  /\ Once(store'[d])
                      /\ Answer(d)' => Once(fetch'[d].response.data)
                      /\ NewOnce(Stream(d)', buffer'[d])
    BY DEF OnceInv
  <2>1. CASE d = c
    BY <1>1, <1>2, <1>6, <2>1 DEF OnceInv, Answer
  <2>2. CASE d # c
    BY <1>1, <1>2, <1>5, <2>2 DEF OnceInv, Answer
  <2> QED
    BY <2>1, <2>2
<1>7. CASE m.type = "TRADE_CREATED"
  <2>1. buffer'[c] = Append(buffer[c], t) /\ UNCHANGED store
    BY <1>1, <1>7 DEF Receive, onCreated, FeedInv
  <2>2. /\ \A k \in 1 .. Len(Tail(P)) : k + 1 \in 1 .. Len(P) /\ Tail(P)[k] = P[k + 1]
        /\ Tail(P) \in Seq(SoundMessages)
        /\ P[1] = m /\ 1 \in 1 .. Len(P)
    BY <1>1
  <2>3. \A n \in DOMAIN buffer[c] : buffer[c][n].id # m.id
    BY <1>1, <1>3, <1>7, <2>2 DEF NewOnce
  <2>4. ASSUME NEW k \in DOMAIN Tail(P), Tail(P)[k].type = "TRADE_CREATED"
        PROVE  Tail(P)[k].id # m.id
    <3>1. k + 1 \in DOMAIN P /\ k + 1 # 1 /\ Tail(P)[k] = P[k + 1]
      BY <1>1, <2>2
    <3> HIDE DEF P
    <3> QED
      BY <1>3, <1>7, <2>2, <2>4, <3>1 DEF NewOnce, P
  <2> DEFINE b == Append(buffer[c], t)
  <2>5. /\ b \in Seq({t} \cup SoundTrades) /\ DOMAIN b = 1 .. Len(buffer[c]) + 1
        /\ \A n \in DOMAIN b : IF n \in DOMAIN buffer[c] THEN b[n] = buffer[c][n]
                               ELSE n = Len(buffer[c]) + 1 /\ b[n] = t
    BY <1>1
  <2>6. t.id = m.id
    BY DEF Shown
  <2> HIDE DEF b, P, m, t
  <2>7. Once(b)
    BY <1>4, <2>3, <2>5, <2>6 DEF NewOnce, Once
  <2>8. ASSUME NEW k \in DOMAIN Tail(P), NEW n \in DOMAIN b, Tail(P)[k].type = "TRADE_CREATED"
        PROVE  Tail(P)[k].id # b[n].id
    BY <1>4, <2>4, <2>5, <2>6, <2>8 DEF NewOnce
  <2>9. NewOnce(Tail(P), b)
    BY <1>4, <2>7, <2>8 DEF NewOnce
  <2> QED
    BY <1>6, <2>1, <2>9 DEF OnceInv, b
<1>8. CASE m.type # "TRADE_CREATED"
  <2>1. UNCHANGED buffer
    BY <1>1, <1>8 DEF Receive, onPatch
  <2>2. \/ store'[c] = updateTrade(store[c], t)
        \/ store'[c] = cancelShown(store[c], m.id)
    BY <1>1, <1>8 DEF Receive, onPatch, FeedInv
  <2>3. Once(store[c])
    BY DEF OnceInv
  <2>4. Once(store'[c])
    BY <2>2, <2>3, PatchKeepsOnce
  <2> QED
    BY <1>4, <1>6, <2>1, <2>4
<1> QED
  BY <1>7, <1>8

\* A tick shows the front of the buffer and keeps the rest.
LEMMA DrainShape ==
    ASSUME FeedInv, NEW c \in Clients, drainTick(c)
    PROVE  \E slice, rest \in Seq(SoundTrades), n \in Nat :
             /\ Part(slice, buffer[c], 0) /\ Part(rest, buffer[c], n)
             /\ ids(buffer[c]) \subseteq ids(slice) \cup ids(rest)
             /\ buffer' = [buffer EXCEPT ![c] = rest]
             /\ store' = [store EXCEPT ![c] = addTradesBatch(store[c], slice)]
             /\ Note(c, {<<"capped", i>> : i \in
                          Dropped(store[c], slice, addTradesBatch(store[c], slice))}
                          \cup UNION {Applied(c, i) : i \in ids(slice)})
             /\ UNCHANGED <<paused, inbox, connected, fetch, cache>>
<1> DEFINE b == buffer[c]
           k(n) == IF n < Len(b) THEN n ELSE Len(b)
           sl(n) == SubSeq(b, 1, k(n))
           re(n) == SubSeq(b, k(n) + 1, Len(b))
<1>1. b \in Seq(SoundTrades) /\ b # <<>>
  BY DEF drainTick, FeedInv
<1>2. UNCHANGED <<paused, inbox, connected, fetch, cache>>
  BY DEF drainTick
<1>3. PICK n \in Dials :
         /\ buffer' = [buffer EXCEPT ![c] = re(n)]
         /\ store' = [store EXCEPT ![c] = addTradesBatch(store[c], sl(n))]
         /\ Note(c, {<<"capped", i>> : i \in
                          Dropped(store[c], sl(n), addTradesBatch(store[c], sl(n)))}
                      \cup UNION {Applied(c, i) : i \in ids(sl(n))})
  BY DEF drainTick
<1> DEFINE q == k(n)
           slice == sl(n)
           rest == re(n)
<1>4. n \in Nat \ {0}
  BY FeedAssumption
<1>5. /\ q = IF n < Len(b) THEN n ELSE Len(b)
      /\ slice = SubSeq(b, 1, q) /\ rest = SubSeq(b, q + 1, Len(b))
      /\ slice = sl(n) /\ rest = re(n)
  OBVIOUS
<1> HIDE DEF slice, rest, sl, re, q, b, k
<1>6. /\ q \in 1 .. Len(b)
      /\ slice \in Seq(SoundTrades) /\ Len(slice) = q
      /\ \A m \in 1 .. q : slice[m] = b[m]
      /\ rest \in Seq(SoundTrades) /\ Len(rest) = Len(b) - q
      /\ \A m \in 1 .. Len(b) - q : rest[m] = b[m + q]
  <2>1. q \in 1 .. Len(b)
    BY <1>1, <1>4, <1>5, EmptySeq
  <2>2. /\ SubSeq(b, 1, q) \in Seq(SoundTrades) /\ Len(SubSeq(b, 1, q)) = q
        /\ \A m \in 1 .. q : SubSeq(b, 1, q)[m] = b[m]
        /\ SubSeq(b, q + 1, Len(b)) \in Seq(SoundTrades)
        /\ Len(SubSeq(b, q + 1, Len(b))) = Len(b) - q
        /\ \A m \in 1 .. Len(b) - q : SubSeq(b, q + 1, Len(b))[m] = b[m + q]
    BY <1>1, <2>1, SliceShape
  <2> QED
    BY <1>5, <2>1, <2>2, Zenon
<1>7. Len(b) \in Nat /\ DOMAIN b = 1 .. Len(b)
  BY <1>1
<1>8. Part(slice, b, 0)
  BY <1>6, <1>7 DEF Part
<1>9. Part(rest, b, q)
  BY <1>6, <1>7 DEF Part
<1>10. ids(b) \subseteq ids(slice) \cup ids(rest)
  <2> SUFFICES ASSUME NEW m \in 1 .. Len(b)
               PROVE  b[m].id \in ids(slice) \cup ids(rest)
    BY <1>7 DEF ids
  <2>1. CASE m <= q
    <3>1. m \in 1 .. q /\ m \in DOMAIN slice
      BY <1>6, <1>7, <2>1
    <3> QED
      BY <1>6, <3>1 DEF ids
  <2>2. CASE ~(m <= q)
    <3>1. m - q \in 1 .. Len(b) - q /\ m - q \in DOMAIN rest /\ (m - q) + q = m
      BY <1>6, <1>7, <2>2
    <3>2. rest[m - q] = b[m]
      BY <1>6, <3>1
    <3> QED
      BY <3>1, <3>2 DEF ids
  <2> QED
    BY <2>1, <2>2
<1>11. q \in Nat
  BY <1>6, <1>7
<1> QED
  BY <1>2, <1>3, <1>5, <1>6, <1>8, <1>9, <1>10, <1>11 DEF b

\* A drain tick adds what the store does not have.
LEMMA DrainKeepsOnce ==
    ASSUME ServiceInv, FeedInv, OnceInv, NEW c \in Clients, drainTick(c),
           UNCHANGED <<vars, clients>>
    PROVE  OnceInv'
<1>1. PICK slice \in Seq(SoundTrades), rest \in Seq(SoundTrades), n \in Nat :
        /\ Part(slice, buffer[c], 0) /\ Part(rest, buffer[c], n)
        /\ buffer' = [buffer EXCEPT ![c] = rest]
        /\ store' = [store EXCEPT ![c] = addTradesBatch(store[c], slice)]
        /\ UNCHANGED <<inbox, fetch>>
  BY DrainShape
<1>2. /\ Stream(c) \in Seq(SoundMessages) /\ store[c] \in Seq(SoundTrades)
      /\ NewOnce(Stream(c), buffer[c]) /\ Once(store[c])
  BY StreamType DEF FeedInv, Windows, OnceInv
<1>3. NewOnce(Stream(c), rest) /\ Once(slice)
  <2>1. Part(Stream(c), Stream(c), 0)
    BY <1>2, SelfIsPart
  <2>2. NewOnce(Stream(c), rest) /\ NewOnce(Stream(c), slice)
    BY <1>1, <1>2, <2>1, NewOncePart
  <2> QED
    BY <2>2 DEF NewOnce
<1>4. Once(addTradesBatch(store[c], slice))
  BY <1>2, <1>3, BatchShape
<1>5. \A d \in Clients : Stream(d)' = Stream(d)
  BY <1>1, SoundUnchanged DEF Stream
<1> SUFFICES ASSUME NEW d \in Clients
             PROVE  /\ Once(store'[d])
                    /\ Answer(d)' => Once(fetch'[d].response.data)
                    /\ NewOnce(Stream(d)', buffer'[d])
  BY DEF OnceInv
<1>6. CASE d = c
  <2>1. store'[c] = addTradesBatch(store[c], slice) /\ buffer'[c] = rest
    BY <1>1 DEF FeedInv
  <2> QED
    BY <1>1, <1>3, <1>4, <1>5, <1>6, <2>1 DEF OnceInv, Answer
<1>7. CASE d # c
  <2>1. store'[d] = store[d] /\ buffer'[d] = buffer[d]
    BY <1>1, <1>7 DEF FeedInv
  <2> QED
    BY <1>1, <1>5, <2>1 DEF OnceInv, Answer
<1> QED
  BY <1>6, <1>7

\* No step of a browser makes it show a trade twice.
LEMMA ClientKeepsOnce ==
    ASSUME ServiceInv, FeedInv, OnceInv, NEW c \in Clients, UNCHANGED vars,
           \/ Connect(c) \/ Cut(c) \/ NoticeClose(c) \/ LeavePage(c)
           \/ AnswerFetch(c) \/ FailFetch(c) \/ ClientStep(c)
    PROVE  OnceInv'
<1>1. (Due' <=> Due) /\ DueMessage' = DueMessage
  BY SoundUnchanged
<1>2. CASE NoticeClose(c)
  <2> SUFFICES ASSUME NEW d \in Clients
               PROVE  /\ Once(store'[d])
                      /\ Answer(d)' => Once(fetch'[d].response.data)
                      /\ NewOnce(Stream(d)', buffer'[d])
    BY DEF OnceInv
  <2>1. UNCHANGED <<store, buffer, fetch>>
    BY <1>2, CloseStream
  <2>2. \/ Stream(d)' = Stream(d)
        \/ Part(Stream(d)', Stream(d), Len(inbox[d]))
    BY <1>2, CloseStream
  <2>3. buffer[d] \in Seq(SoundTrades) /\ Len(inbox[d]) \in Nat
    BY DEF FeedInv
  <2>4. NewOnce(Stream(d)', buffer[d])
    BY <2>2, <2>3, NewOncePart, SelfIsPart DEF OnceInv
  <2> QED
    BY <2>1, <2>4 DEF OnceInv, Answer
<1>3. CASE Connect(c) \/ Cut(c) \/ setStreamPaused(c)
  <2>1. UNCHANGED <<store, buffer, inbox, fetch>>
    BY <1>3 DEF Connect, Reopen, Cut, feedVars, setStreamPaused
  <2> QED
    BY <1>1, <2>1 DEF OnceInv, Answer, Stream
<1>4. CASE FailFetch(c) \/ startFetch(c)
  <2>1. UNCHANGED <<store, buffer, inbox>>
    BY <1>4 DEF FailFetch, FetchFails, startFetch
  <2>2. fetch' = [fetch EXCEPT ![c] = NoFetch] \/ fetch' = [fetch EXCEPT ![c] = Sent]
    BY <1>4 DEF FailFetch, FetchFails, startFetch
  <2>3. \A d \in Clients : Answer(d)' => Answer(d) /\ fetch'[d] = fetch[d]
    <3>1. \A d \in Clients : IF d = c THEN fetch'[d] \in {NoFetch, Sent}
                             ELSE fetch'[d] = fetch[d]
      BY <2>2 DEF FeedInv
    <3>2. NoFetch.phase # "answered" /\ Sent.phase # "answered"
      BY DEF NoFetch, Sent
    <3> QED
      BY <3>1, <3>2 DEF Answer
  <2> QED
    BY <1>1, <2>1, <2>3 DEF OnceInv, Stream
<1>5. CASE AnswerFetch(c)
  <2>1. UNCHANGED <<store, buffer, inbox>>
    BY <1>5 DEF AnswerFetch, Answered
  <2>2. fetch' = [fetch EXCEPT ![c] = [phase |-> "answered", response |-> getAllTrades]]
    BY <1>5 DEF AnswerFetch, Answered
  <2>3. \A d \in Clients : IF d = c THEN fetch'[d].response = getAllTrades
                           ELSE fetch'[d] = fetch[d]
    BY <2>2 DEF FeedInv
  <2>4. Once(getAllTrades.data)
    BY AnswerShape
  <2> QED
    BY <1>1, <2>1, <2>3, <2>4 DEF OnceInv, Stream, Answer
<1>6. CASE Load(c)
  <2>1. UNCHANGED <<buffer, inbox>> /\ fetch' = [fetch EXCEPT ![c] = NoFetch] /\ Answer(c)
    BY <1>6 DEF Load, Answer
  <2>2. \A d \in Clients : Answer(d)' => Answer(d) /\ fetch'[d] = fetch[d]
    BY <2>1 DEF FeedInv, Answer, NoFetch
  <2>3. \/ UNCHANGED store
        \/ store' = [store EXCEPT ![c] = fetch[c].response.data]
    BY <1>6, LoadShape DEF Load
  <2>4. \A d \in Clients : Once(store'[d])
    BY <2>1, <2>3 DEF OnceInv, FeedInv
  <2> QED
    BY <1>1, <2>1, <2>2, <2>4 DEF OnceInv, Stream
<1>7. CASE ClientStep(c) /\ (Receive(c) \/ drainTick(c))
  BY <1>7, ReceiveKeepsOnce, DrainKeepsOnce DEF ClientStep
<1>8. CASE LeavePage(c)
  <2> SUFFICES ASSUME NEW d \in Clients
               PROVE  /\ Once(store'[d])
                      /\ Answer(d)' => Once(fetch'[d].response.data)
                      /\ NewOnce(Stream(d)', buffer'[d])
    BY DEF OnceInv
  <2>1. CASE d # c
    BY <1>8, <2>1, LeaveStream DEF OnceInv, Answer
  <2>2. CASE d = c
    <3>1. /\ buffer'[c] = <<>> /\ store'[c] = <<>> /\ ~Answer(c)'
          /\ Part(Stream(c)', Stream(c), Len(inbox[c]))
      BY <1>8, LeaveStream
    <3>2. DOMAIN <<>> = {}
      OBVIOUS
    <3>3. Part(buffer'[c], buffer[c], 0) /\ Once(store'[c])
      BY <3>1, <3>2 DEF Part, Once
    <3>4. Len(inbox[c]) \in Nat /\ NewOnce(Stream(c), buffer[c])
      BY DEF FeedInv, OnceInv
    <3>5. NewOnce(Stream(c)', buffer'[c])
      BY <3>1, <3>3, <3>4, NewOncePart
    <3> QED
      BY <2>2, <3>1, <3>3, <3>5
  <2> QED
    BY <2>1, <2>2
<1> QED
  BY <1>2, <1>3, <1>4, <1>5, <1>6, <1>7, <1>8 DEF ClientStep

\* The positions of a stream that grows by one message.
LEMMA AppendShape ==
    ASSUME NEW S, NEW P \in Seq(S), NEW m, NEW Q, Q = Append(P, m)
    PROVE  /\ Len(P) \in Nat /\ DOMAIN P = 1 .. Len(P) /\ DOMAIN Q = 1 .. Len(P) + 1
           /\ \A k \in DOMAIN P : k \in DOMAIN Q /\ Q[k] = P[k]
           /\ Len(P) + 1 \in DOMAIN Q /\ Q[Len(P) + 1] = m
           /\ \A k \in DOMAIN Q : k \in DOMAIN P \/ k = Len(P) + 1
<1>1. /\ Q \in Seq(S \cup {m}) /\ Len(Q) = Len(P) + 1 /\ Q[Len(P) + 1] = m
      /\ \A k \in 1 .. Len(P) : Q[k] = P[k]
  OBVIOUS
<1> QED
  BY <1>1

\* A trade that is new to the table is new to every client and every socket.
LEMMA CommitKeepsOnce ==
    ASSUME ServiceInv, FeedInv, OnceInv, NEW m, Commits(m), NEW c \in Clients
    PROVE  NewOnce(Append(Stream(c), m), buffer[c])
<1> DEFINE P == Stream(c)
           Q == Append(P, m)
<1>1. P \in Seq(SoundMessages) /\ buffer[c] \in Seq(SoundTrades) /\ NewOnce(P, buffer[c])
  BY StreamType DEF FeedInv, OnceInv
<1> HIDE DEF P
<1>2. /\ \A k \in DOMAIN P : k \in DOMAIN Q /\ Q[k] = P[k] /\ k # Len(P) + 1
      /\ Q[Len(P) + 1] = m
      /\ \A k \in DOMAIN Q : k \in DOMAIN P \/ k = Len(P) + 1
  BY <1>1, AppendShape
<1>3. \A k \in DOMAIN P : P[k].id \in DOMAIN trades
  BY <1>1 DEF SoundMessages
<1>4. \A k \in DOMAIN buffer[c] : buffer[c][k].id \in DOMAIN trades
  BY <1>1 DEF SoundTrades
<1>5. m.type = "TRADE_CREATED" => m.id \notin DOMAIN trades
  BY DEF Commits, TradeMessage, CancelMessage
<1> HIDE DEF Q
<1>6. ASSUME NEW k \in DOMAIN Q, NEW l \in DOMAIN Q, Q[k].type = "TRADE_CREATED",
             Q[l].type = "TRADE_CREATED", Q[k].id = Q[l].id
      PROVE  k = l
  <2>1. CASE k \in DOMAIN P /\ l \in DOMAIN P
    BY <1>1, <1>2, <1>6, <2>1 DEF NewOnce
  <2>2. CASE k \notin DOMAIN P \/ l \notin DOMAIN P
    BY <1>2, <1>3, <1>5, <1>6, <2>2
  <2> QED
    BY <2>1, <2>2
<1>7. ASSUME NEW k \in DOMAIN Q, NEW n \in DOMAIN buffer[c], Q[k].type = "TRADE_CREATED"
      PROVE  Q[k].id # buffer[c][n].id
  BY <1>1, <1>2, <1>4, <1>5, <1>7 DEF NewOnce
<1> QED
  BY <1>1, <1>6, <1>7 DEF NewOnce, P, Q

\* Nothing is shown or under way at first.
LEMMA OnceInvInit == BlotterInit => OnceInv
<1> SUFFICES ASSUME BlotterInit PROVE OnceInv
  OBVIOUS
<1>1. \A c \in Clients : store[c] = <<>> /\ buffer[c] = <<>> /\ Stream(c) = <<>> /\ ~Answer(c)
  BY DEF BlotterInit, Init, FeedInit, Idle, Due, Stream, Answer, NoFetch
<1>2. DOMAIN <<>> = {}
  OBVIOUS
<1> QED
  BY <1>1, <1>2 DEF OnceInv, NewOnce, Once

\* No step of the whole makes a browser show a trade twice.
LEMMA OnceInvStep == ServiceInv /\ FeedInv /\ OnceInv /\ [BlotterNext]_blotterVars => OnceInv'
<1> SUFFICES ASSUME ServiceInv, FeedInv, OnceInv, [BlotterNext]_blotterVars
             PROVE  OnceInv'
  OBVIOUS
<1>1. CASE UNCHANGED blotterVars
  <2>1. (Due' <=> Due) /\ DueMessage' = DueMessage /\ UNCHANGED feedVars
    BY <1>1, SoundUnchanged DEF blotterVars
  <2> QED
    BY <2>1 DEF OnceInv, Stream, Answer, feedVars
<1>2. CASE \E c \in Clients : \/ Connect(c) \/ Cut(c) \/ NoticeClose(c) \/ LeavePage(c)
                              \/ AnswerFetch(c) \/ FailFetch(c) \/ ClientStep(c)
  <2>1. UNCHANGED vars
    BY <1>2 DEF Connect, Cut, NoticeClose, LeavePage, AnswerFetch, FailFetch, ClientStep
  <2> QED
    BY <1>2, <2>1, ClientKeepsOnce
<1>3. CASE Broadcast \/ ServerCrash \/ ServerReadBackFails
  <2> SUFFICES ASSUME NEW c \in Clients
               PROVE  /\ Once(store'[c])
                      /\ Answer(c)' => Once(fetch'[c].response.data)
                      /\ NewOnce(Stream(c)', buffer'[c])
    BY DEF OnceInv
  <2>1. UNCHANGED <<store, buffer, fetch>>
        /\ (Stream(c)' = Stream(c) \/ Stream(c)' = inbox[c])
    BY <1>3, BroadcastStream, GivingUpStream
  <2>2. buffer[c] \in Seq(SoundTrades) /\ NewOnce(Stream(c), buffer[c])
    BY DEF FeedInv, OnceInv
  <2>3. NewOnce(Stream(c)', buffer[c])
    BY <2>1, <2>2, NewOncePart, InboxIsPart, SelfIsPart
  <2> QED
    BY <2>1, <2>3 DEF OnceInv, Answer
<1>4. CASE ServerStep
  <2> SUFFICES ASSUME NEW c \in Clients
               PROVE  /\ Once(store'[c])
                      /\ Answer(c)' => Once(fetch'[c].response.data)
                      /\ NewOnce(Stream(c)', buffer'[c])
    BY DEF OnceInv
  <2>1. UNCHANGED <<store, buffer, fetch>>
    BY <1>4 DEF ServerStep, feedVars
  <2>2. NewOnce(Stream(c)', buffer[c])
    <3>1. NewOnce(Stream(c), buffer[c])
      BY DEF OnceInv
    <3>2. CASE Stream(c)' = Stream(c)
      BY <3>1, <3>2
    <3>3. CASE Commits(DueMessage') /\ Stream(c)' = Append(Stream(c), DueMessage')
      BY <3>3, CommitKeepsOnce
    <3> QED
      BY <1>4, <3>2, <3>3, ServerStepStream
  <2> QED
    BY <2>1, <2>2 DEF OnceInv, Answer
<1> QED
  BY <1>1, <1>2, <1>3, <1>4 DEF BlotterNext

\* So it holds of every reachable state.
LEMMA OnceInvariant == BlotterSpec => []OnceInv
BY OnceInvInit, OnceInvStep, FeedIsSound, ServiceInvariant, PTL DEF BlotterSpec

\* A list in which every trade is once is as long as the set of its trades.
LEMMA OnceCounts ==
    ASSUME NEW S, NEW s \in Seq(S), Once(s)
    PROVE  Cardinality(ids(s)) = Len(s)
<1>1. DOMAIN s = 1 .. Len(s) /\ Len(s) \in Nat
  OBVIOUS
<1> DEFINE f == [k \in 1 .. Len(s) |-> s[k].id]
<1>2. f \in Bijection(1 .. Len(s), ids(s))
  <2>1. f \in [1 .. Len(s) -> ids(s)]
    BY <1>1 DEF ids
  <2>2. \A k, m \in 1 .. Len(s) : f[k] = f[m] => k = m
    BY <1>1 DEF Once
  <2>3. \A i \in ids(s) : \E k \in 1 .. Len(s) : f[k] = i
    BY <1>1 DEF ids
  <2> HIDE DEF f
  <2> QED
    BY <2>1, <2>2, <2>3, Fun_IsBij
<1> QED
  BY <1>1, <1>2, FS_CountingElements DEF ExistsBijection

\* No client ever shows a trade twice, however many clients, broadcasts and
\* answers there are: addTradesBatch and the one fetch at a time see to it.
THEOREM TradesAreShownOnce == BlotterSpec => []NoTradeShownTwice
<1>1. FeedInv /\ OnceInv => NoTradeShownTwice
  BY OnceCounts DEF FeedInv, OnceInv, Windows, NoTradeShownTwice
<1> QED
  BY <1>1, FeedIsSound, OnceInvariant, PTL

-----------------------------------------------------------------------------
(* What keeps a browser in step with the table.  The operators below take   *)
(* what they are about as arguments: the table, the stream P of messages    *)
(* still to be received, the buffer b, a list s of shown trades, and the    *)
(* pairs flagged by the history variables.                                  *)

Has(P, i, type) == \E k \in DOMAIN P : P[k].id = i /\ P[k].type = type
Flag(flags, i) == \E cause \in Causes : <<cause, i>> \in flags

\* A row that the messages of P turn into the row of the table.
Fits(table, P, i, row) ==
    IF Has(P, i, "TRADE_CANCELLED") THEN Cancelled(row) = table[i] ELSE row = table[i]

\* No amendment follows a cancellation of the same trade.
CancelIsLast(P) ==
    \A k, m \in DOMAIN P :
        k < m /\ P[k].type = "TRADE_CANCELLED" /\ P[m].id = P[k].id
            => P[m].type # "TRADE_AMENDED"

\* The last amendment of a trade on its way brings the row of the table, unless a
\* message was lost or not sent after the n first ones, which it is among.
Gone(flags, i) == <<"lost", i>> \in flags \/ <<"unsent", i>> \in flags
LastAmend(P, k) ==
    /\ P[k].type = "TRADE_AMENDED"
    /\ \A m \in DOMAIN P : m > k /\ P[m].type = "TRADE_AMENDED" => P[m].id # P[k].id
LastAmendFits(table, P, n, flags) ==
    \A k \in DOMAIN P :
        LastAmend(P, k) /\ (k > n \/ ~Gone(flags, P[k].id))
            => Fits(table, P, P[k].id, P[k].payload)

\* Trade i is shown in s as the stream will leave it in the table, or is about
\* to be shown so.
Accounted(table, P, b, s, i) ==
    /\ \A k \in DOMAIN s : s[k].id = i => Fits(table, P, i, s[k].row)
    /\ i \notin ids(s) =>
         /\ i \in ids(b) \/ Has(P, i, "TRADE_CREATED")
         /\ \A k \in DOMAIN b : b[k].id = i => Fits(table, P, i, b[k].row)
         /\ \A k \in DOMAIN P : P[k].id = i /\ P[k].type = "TRADE_CREATED"
                                  => Fits(table, P, i, P[k].payload)

Covered(table, P, b, s, flags) ==
    \A i \in DOMAIN table :
        Flag(flags, i) \/ Has(P, i, "TRADE_AMENDED") \/ Accounted(table, P, b, s, i)

\* A message of a part is one of the whole.
LEMMA HasOfPart ==
    ASSUME NEW P, NEW Q, NEW off, Part(Q, P, off), NEW i, NEW type, Has(Q, i, type)
    PROVE  Has(P, i, type)
BY DEF Has, Part

\* A message of a stream is its head or one of its tail.
LEMMA HasOfTail ==
    ASSUME NEW S, NEW P \in Seq(S), P # <<>>, NEW i, NEW type
    PROVE  Has(P, i, type) <=>
             Has(Tail(P), i, type) \/ (Head(P).id = i /\ Head(P).type = type)
<1>1. /\ Len(P) \in Nat /\ DOMAIN P = 1 .. Len(P) /\ DOMAIN Tail(P) = 1 .. Len(P) - 1
      /\ \A k \in 1 .. Len(P) - 1 : Tail(P)[k] = P[k + 1]
      /\ Head(P) = P[1] /\ 1 \in DOMAIN P
  OBVIOUS
<1>2. ASSUME NEW k \in DOMAIN P
      PROVE  k = 1 \/ (k - 1 \in DOMAIN Tail(P) /\ Tail(P)[k - 1] = P[k])
  BY <1>1
<1>3. Has(Tail(P), i, type) => Has(P, i, type)
  BY TailIsPart, HasOfPart
<1> QED
  BY <1>1, <1>2, <1>3 DEF Has

\* A message of a longer stream is its last or one of the stream.
LEMMA HasOfAppend ==
    ASSUME NEW S, NEW P \in Seq(S), NEW m, NEW i, NEW type
    PROVE  Has(Append(P, m), i, type) <=> Has(P, i, type) \/ (m.id = i /\ m.type = type)
<1> DEFINE Q == Append(P, m)
<1>1. /\ \A k \in DOMAIN P : k \in DOMAIN Q /\ Q[k] = P[k]
      /\ Len(P) + 1 \in DOMAIN Q /\ Q[Len(P) + 1] = m
      /\ \A k \in DOMAIN Q : k \in DOMAIN P \/ k = Len(P) + 1
  BY AppendShape
<1> HIDE DEF Q
<1>2. Has(Q, i, type) <=> Has(P, i, type) \/ (m.id = i /\ m.type = type)
  BY <1>1 DEF Has
<1> QED
  BY <1>2 DEF Q

\* In a part, too, a cancellation is the last word on its trade.
LEMMA CancelIsLastOfPart ==
    ASSUME NEW P, CancelIsLast(P), NEW Q, NEW off \in Nat, Part(Q, P, off)
    PROVE  CancelIsLast(Q)
<1> SUFFICES ASSUME NEW k \in DOMAIN Q, NEW m \in DOMAIN Q, k < m,
                    Q[k].type = "TRADE_CANCELLED", Q[m].id = Q[k].id
             PROVE  Q[m].type # "TRADE_AMENDED"
  BY DEF CancelIsLast
<1>1. /\ k \in Nat /\ m \in Nat /\ k + off \in DOMAIN P /\ m + off \in DOMAIN P
      /\ Q[k] = P[k + off] /\ Q[m] = P[m + off]
  BY DEF Part
<1>2. k + off < m + off
  BY <1>1
<1> QED
  BY <1>1, <1>2 DEF CancelIsLast

\* The messages that leave the stream left it at the front, or were lost.
LEMMA LastAmendOfPart ==
    ASSUME NEW S, NEW P \in Seq(S), CancelIsLast(P), NEW off \in Nat, NEW Q, Part(Q, P, off),
           NEW n \in Int, NEW nn \in Int, NEW table, NEW flags, NEW more, flags \subseteq more,
           LastAmendFits(table, P, n, flags),
           \A k \in DOMAIN Q : k > nn => k + off > n,
           \A l \in DOMAIN P : \/ l - off \in DOMAIN Q
                               \/ l <= off
                               \/ Gone(more, P[l].id) /\ \A k \in DOMAIN Q : k <= nn
    PROVE  LastAmendFits(table, Q, nn, more)
<1> SUFFICES ASSUME NEW k \in DOMAIN Q, LastAmend(Q, k),
                    k > nn \/ ~Gone(more, Q[k].id)
             PROVE  Fits(table, Q, Q[k].id, Q[k].payload)
  BY DEF LastAmendFits
<1> DEFINE l == k + off
           i == Q[k].id
<1>1. k \in Nat /\ l \in DOMAIN P /\ l \in Nat /\ Q[k] = P[l] /\ DOMAIN P = 1 .. Len(P)
  BY DEF Part
<1>2. ASSUME NEW m \in DOMAIN P, P[m].id = i, m > l
      PROVE  m - off \in DOMAIN Q /\ Q[m - off] = P[m] /\ m - off > k
  <2>1. m \in Nat
    BY <1>1
  <2>2. ~(m <= off)
    BY <1>1, <1>2, <2>1
  <2>3. ~(Gone(more, P[m].id) /\ \A h \in DOMAIN Q : h <= nn)
    BY <1>1, <1>2
  <2>4. m - off \in DOMAIN Q
    BY <2>2, <2>3
  <2>5. m - off \in Nat /\ Q[m - off] = P[(m - off) + off]
    BY <2>4 DEF Part
  <2>6. (m - off) + off = m /\ m - off > k
    BY <1>1, <1>2, <2>1
  <2> QED
    BY <2>4, <2>5, <2>6
<1>3. LastAmend(P, l)
  BY <1>1, <1>2 DEF LastAmend
<1>4. l > n \/ ~Gone(flags, P[l].id)
  BY <1>1 DEF Gone
<1>5. Fits(table, P, i, P[l].payload)
  BY <1>1, <1>3, <1>4 DEF LastAmendFits
<1>6. Has(P, i, "TRADE_CANCELLED") => Has(Q, i, "TRADE_CANCELLED")
  <2> SUFFICES ASSUME NEW m \in DOMAIN P, P[m].id = i, P[m].type = "TRADE_CANCELLED"
               PROVE  Has(Q, i, "TRADE_CANCELLED")
    BY DEF Has
  <2>1. ~(m < l)
    BY <1>1, <1>3 DEF CancelIsLast, LastAmend
  <2>2. m # l
    BY <1>1, <1>3 DEF LastAmend
  <2>3. m > l
    BY <1>1, <2>1, <2>2
  <2> QED
    BY <1>2, <2>3 DEF Has
<1>7. Has(Q, i, "TRADE_CANCELLED") => Has(P, i, "TRADE_CANCELLED")
  BY HasOfPart
<1> QED
  BY <1>1, <1>5, <1>6, <1>7 DEF Fits

\* A list stays covered when only flagged trades have messages that went.
LEMMA CoveredByPart ==
    ASSUME NEW P, NEW Q, NEW off, Part(Q, P, off), NEW table, NEW b, NEW s,
           NEW flags, NEW more, flags \subseteq more, Covered(table, P, b, s, flags),
           \A i \in DOMAIN table : Flag(more, i) \/
              \A type \in {"TRADE_CREATED", "TRADE_AMENDED", "TRADE_CANCELLED"} :
                 Has(P, i, type) => Has(Q, i, type)
    PROVE  Covered(table, Q, b, s, more)
<1> SUFFICES ASSUME NEW i \in DOMAIN table, ~Flag(more, i), ~Has(Q, i, "TRADE_AMENDED")
             PROVE  Accounted(table, Q, b, s, i)
  BY DEF Covered
<1>1. ~Flag(flags, i)
  BY DEF Flag
<1>2. \A type \in {"TRADE_CREATED", "TRADE_AMENDED", "TRADE_CANCELLED"} :
         Has(P, i, type) <=> Has(Q, i, type)
  BY HasOfPart
<1>3. Accounted(table, P, b, s, i)
  BY <1>1, <1>2 DEF Covered
<1>4. \A row : Fits(table, P, i, row) => Fits(table, Q, i, row)
  BY <1>2 DEF Fits
<1>5. \A k \in DOMAIN Q : k + off \in DOMAIN P /\ Q[k] = P[k + off]
  BY DEF Part
<1>6. ASSUME NEW k \in DOMAIN Q, Q[k].id = i, Q[k].type = "TRADE_CREATED", i \notin ids(s)
      PROVE  Fits(table, Q, i, Q[k].payload)
  BY <1>3, <1>4, <1>5, <1>6 DEF Accounted
<1> QED
  BY <1>2, <1>3, <1>4, <1>6 DEF Accounted

\* And when more trades are flagged.
LEMMA CoveredByFlags ==
    ASSUME NEW table, NEW P, NEW b, NEW s, NEW flags, NEW more, flags \subseteq more,
           Covered(table, P, b, s, flags)
    PROVE  Covered(table, P, b, s, more)
BY DEF Covered, Flag

\* A cancelled row is not changed by another cancellation.
LEMMA CancelTwice == ASSUME NEW row PROVE Cancelled(Cancelled(row)) = Cancelled(row)
BY DEF Cancelled

\* A created trade goes from the stream to the buffer.
LEMMA CoveredByCreated ==
    ASSUME NEW S, NEW P \in Seq(S), P # <<>>, NEW m, m = Head(P), m.type = "TRADE_CREATED",
           NEW T, NEW b \in Seq(T), NEW table, NEW s, NEW flags,
           Covered(table, P, b, s, flags)
    PROVE  Covered(table, Tail(P), Append(b, Shown(m.id, m.payload)), s, flags)
<1> DEFINE Q == Tail(P)
           t == Shown(m.id, m.payload)
           bb == Append(b, t)
<1>1. \A i, type : Has(P, i, type) <=> Has(Q, i, type) \/ (m.id = i /\ m.type = type)
  BY HasOfTail
<1>2. Part(Q, P, 1)
  BY TailIsPart
<1>3. /\ \A k \in DOMAIN b : k \in DOMAIN bb /\ bb[k] = b[k]
      /\ Len(b) + 1 \in DOMAIN bb /\ bb[Len(b) + 1] = t
      /\ \A k \in DOMAIN bb : k \in DOMAIN b \/ k = Len(b) + 1
  BY AppendShape
<1>4. t.id = m.id /\ t.row = m.payload
  BY DEF Shown
<1>5. 1 \in DOMAIN P /\ P[1] = m
  OBVIOUS
<1> HIDE DEF Q, t, bb
<1> SUFFICES ASSUME NEW i \in DOMAIN table, ~Flag(flags, i), ~Has(Q, i, "TRADE_AMENDED")
             PROVE  Accounted(table, Q, bb, s, i)
  BY DEF Covered, Q, bb, t
<1>6. Accounted(table, P, b, s, i)
  BY <1>1 DEF Covered
<1>7. \A row : Fits(table, P, i, row) <=> Fits(table, Q, i, row)
  BY <1>1 DEF Fits
<1>8. ids(b) \subseteq ids(bb) /\ m.id \in ids(bb)
  BY <1>3, <1>4 DEF ids
<1>9. ASSUME i \notin ids(s)
      PROVE  /\ i \in ids(bb) \/ Has(Q, i, "TRADE_CREATED")
             /\ \A k \in DOMAIN bb : bb[k].id = i => Fits(table, Q, i, bb[k].row)
             /\ \A k \in DOMAIN Q : Q[k].id = i /\ Q[k].type = "TRADE_CREATED"
                                      => Fits(table, Q, i, Q[k].payload)
  <2>1. i \in ids(bb) \/ Has(Q, i, "TRADE_CREATED")
    BY <1>1, <1>6, <1>8, <1>9 DEF Accounted
  <2>2. ASSUME NEW k \in DOMAIN bb, bb[k].id = i
        PROVE  Fits(table, Q, i, bb[k].row)
    <3>1. CASE k \in DOMAIN b
      BY <1>3, <1>6, <1>7, <1>9, <2>2, <3>1 DEF Accounted
    <3>2. CASE k = Len(b) + 1
      BY <1>3, <1>4, <1>5, <1>6, <1>7, <1>9, <2>2, <3>2 DEF Accounted
    <3> QED
      BY <1>3, <3>1, <3>2
  <2>3. ASSUME NEW k \in DOMAIN Q, Q[k].id = i, Q[k].type = "TRADE_CREATED"
        PROVE  Fits(table, Q, i, Q[k].payload)
    <3>1. k + 1 \in DOMAIN P /\ Q[k] = P[k + 1]
      BY <1>2 DEF Part
    <3> QED
      BY <1>6, <1>7, <1>9, <2>3, <3>1 DEF Accounted
  <2> QED
    BY <2>1, <2>2, <2>3
<1> QED
  BY <1>6, <1>7, <1>9 DEF Accounted

\* A patch is applied to what is shown: the last amendment brings the row of
\* the table, and a cancellation comes after every amendment.
LEMMA CoveredByPatch ==
    ASSUME NEW S, NEW P \in Seq(S), P # <<>>, NEW m, m = Head(P),
           m.type \in {"TRADE_AMENDED", "TRADE_CANCELLED"},
           NEW table, NEW b, NEW s, NEW flags, NEW more, flags \subseteq more,
           CancelIsLast(P), NEW n \in Nat \ {0}, LastAmendFits(table, P, n, flags),
           m.id \in ids(s) \/ <<"early", m.id>> \in more,
           NEW ss, ss = IF m.type = "TRADE_AMENDED"
                        THEN updateTrade(s, Shown(m.id, m.payload)) ELSE cancelShown(s, m.id),
           Covered(table, P, b, s, flags)
    PROVE  Covered(table, Tail(P), b, ss, more)
<1> DEFINE Q == Tail(P)
<1>1. \A i, type : Has(P, i, type) <=> Has(Q, i, type) \/ (m.id = i /\ m.type = type)
  BY HasOfTail
<1>2. Part(Q, P, 1)
  BY TailIsPart
<1>3. 1 \in DOMAIN P /\ P[1] = m /\ \A k \in DOMAIN P : k \in Nat /\ (k = 1 \/ k > 1)
  OBVIOUS
<1>4. /\ DOMAIN ss = DOMAIN s
      /\ \A k \in DOMAIN s : /\ ss[k].id = s[k].id
                             /\ s[k].id # m.id => ss[k] = s[k]
                             /\ s[k].id = m.id => ss[k].row =
                                  IF m.type = "TRADE_AMENDED" THEN m.payload
                                  ELSE Cancelled(s[k].row)
  <2>1. CASE m.type = "TRADE_AMENDED"
    BY <2>1 DEF updateTrade, Shown
  <2>2. CASE m.type = "TRADE_CANCELLED"
    BY <2>2 DEF cancelShown, Shown
  <2> QED
    BY <2>1, <2>2
<1>5. ids(ss) = ids(s)
  BY <1>4 DEF ids
<1> HIDE DEF Q
<1> SUFFICES ASSUME NEW i \in DOMAIN table, ~Flag(more, i), ~Has(Q, i, "TRADE_AMENDED")
             PROVE  Accounted(table, Q, b, ss, i)
  BY DEF Covered, Q
<1>6. ~Flag(flags, i) /\ ~Gone(flags, i)
  BY DEF Flag, Causes, Gone
<1>7. CASE i # m.id
  <2>1. \A type : Has(P, i, type) <=> Has(Q, i, type)
    BY <1>1, <1>7
  <2>2. Accounted(table, P, b, s, i)
    BY <1>6, <2>1 DEF Covered
  <2>3. \A row : Fits(table, P, i, row) <=> Fits(table, Q, i, row)
    BY <2>1 DEF Fits
  <2>4. \A k \in DOMAIN Q : k + 1 \in DOMAIN P /\ Q[k] = P[k + 1]
    BY <1>2 DEF Part
  <2>5. \A k \in DOMAIN ss : ss[k].id = i => Fits(table, Q, i, ss[k].row)
    BY <1>4, <1>7, <2>2, <2>3 DEF Accounted
  <2>6. i \notin ids(s) => \A k \in DOMAIN Q : Q[k].id = i /\ Q[k].type = "TRADE_CREATED"
                                              => Fits(table, Q, i, Q[k].payload)
    BY <2>2, <2>3, <2>4 DEF Accounted
  <2>7. i \notin ids(s) => /\ i \in ids(b) \/ Has(Q, i, "TRADE_CREATED")
                           /\ \A k \in DOMAIN b : b[k].id = i => Fits(table, Q, i, b[k].row)
    BY <2>1, <2>2, <2>3 DEF Accounted
  <2> QED
    BY <1>5, <2>5, <2>6, <2>7 DEF Accounted
<1>8. CASE i = m.id
  <2>1. i \in ids(s)
    BY <1>8 DEF Flag, Causes
  <2>2. ASSUME NEW k \in DOMAIN ss, ss[k].id = i
        PROVE  Fits(table, Q, i, ss[k].row)
    <3>1. CASE m.type = "TRADE_AMENDED"
      <4>1. LastAmend(P, 1)
        <5>1. ASSUME NEW l \in DOMAIN P, l > 1, P[l].type = "TRADE_AMENDED", P[l].id = m.id
              PROVE  FALSE
          <6>1. l - 1 \in DOMAIN Q /\ Q[l - 1] = P[l]
            BY <5>1 DEF Q
          <6> QED
            BY <1>8, <5>1, <6>1 DEF Has
        <5> QED
          BY <1>3, <3>1, <5>1 DEF LastAmend
      <4>2. Fits(table, P, i, m.payload)
        BY <1>3, <1>6, <1>8, <4>1 DEF LastAmendFits
      <4>3. Fits(table, Q, i, m.payload)
        BY <1>1, <3>1, <4>2 DEF Fits
      <4> QED
        BY <1>4, <1>8, <2>2, <3>1, <4>3
    <3>2. CASE m.type = "TRADE_CANCELLED"
      <4>1. Has(P, i, "TRADE_CANCELLED")
        BY <1>1, <1>8, <3>2
      <4>2. ~Has(P, i, "TRADE_AMENDED")
        BY <1>1, <3>2
      <4>3. Accounted(table, P, b, s, i)
        BY <1>6, <4>2 DEF Covered
      <4>4. k \in DOMAIN s /\ s[k].id = i /\ ss[k].row = Cancelled(s[k].row)
        BY <1>4, <1>8, <2>2, <3>2
      <4>5. Cancelled(s[k].row) = table[i]
        BY <4>1, <4>3, <4>4 DEF Accounted, Fits
      <4> QED
        BY <4>4, <4>5, CancelTwice DEF Fits
    <3> QED
      BY <3>1, <3>2
  <2> QED
    BY <1>5, <2>1, <2>2 DEF Accounted
<1> QED
  BY <1>7, <1>8

\* What a tick takes from the buffer is flagged for the answer in flight.
LEMMA CoveredByRest ==
    ASSUME NEW table, NEW P, NEW b, NEW s, NEW flags, NEW more, flags \subseteq more,
           NEW slice, NEW rest, NEW l, Part(rest, b, l),
           ids(b) \subseteq ids(slice) \cup ids(rest),
           Covered(table, P, b, s, flags),
           \A i \in ids(slice) : Flag(more, i)
    PROVE  Covered(table, P, rest, s, more)
<1> SUFFICES ASSUME NEW i \in DOMAIN table, ~Flag(more, i), ~Has(P, i, "TRADE_AMENDED")
             PROVE  Accounted(table, P, rest, s, i)
  BY DEF Covered
<1>1. Accounted(table, P, b, s, i)
  BY DEF Covered, Flag
<1>2. i \in ids(b) => i \in ids(rest)
  OBVIOUS
<1>3. \A k \in DOMAIN rest : k + l \in DOMAIN b /\ rest[k] = b[k + l]
  BY DEF Part
<1>4. i \notin ids(s) => \A k \in DOMAIN rest : rest[k].id = i => Fits(table, P, i, rest[k].row)
  BY <1>1, <1>3 DEF Accounted
<1> QED
  BY <1>1, <1>2, <1>4 DEF Accounted

\* A tick shows the front of the buffer, and flags what falls out of the window.
LEMMA CoveredByDrain ==
    ASSUME NEW table, NEW P, NEW b, NEW s, NEW flags, NEW more, flags \subseteq more,
           NEW slice, NEW rest, NEW j, NEW l, Part(slice, b, j), Part(rest, b, l),
           ids(b) \subseteq ids(slice) \cup ids(rest),
           Covered(table, P, b, s, flags),
           NEW ss, \A i \in (ids(s) \cup ids(slice)) \ ids(ss) : Flag(more, i),
           \A k \in DOMAIN ss :
              \/ \E n \in DOMAIN s : ss[k] = s[n]
              \/ \E n \in DOMAIN slice : ss[k] = slice[n] /\ slice[n].id \notin ids(s)
    PROVE  Covered(table, P, rest, ss, more)
<1>1. \A k \in DOMAIN slice : k + j \in DOMAIN b /\ slice[k] = b[k + j]
  BY DEF Part
<1>2. \A k \in DOMAIN rest : k + l \in DOMAIN b /\ rest[k] = b[k + l]
  BY DEF Part
<1> SUFFICES ASSUME NEW i \in DOMAIN table, ~Flag(more, i), ~Has(P, i, "TRADE_AMENDED")
             PROVE  Accounted(table, P, rest, ss, i)
  BY DEF Covered
<1>3. Accounted(table, P, b, s, i)
  BY DEF Covered, Flag
<1>4. i \notin ids(ss) => i \notin ids(s) /\ i \notin ids(slice)
  OBVIOUS
<1>5. ASSUME NEW k \in DOMAIN ss, ss[k].id = i
      PROVE  Fits(table, P, i, ss[k].row)
  <2>1. CASE \E n \in DOMAIN s : ss[k] = s[n]
    BY <1>3, <1>5, <2>1 DEF Accounted
  <2>2. CASE \E n \in DOMAIN slice : ss[k] = slice[n] /\ slice[n].id \notin ids(s)
    BY <1>1, <1>3, <1>5, <2>2 DEF Accounted
  <2> QED
    BY <2>1, <2>2
<1>6. i \notin ids(s) => \A k \in DOMAIN rest : rest[k].id = i => Fits(table, P, i, rest[k].row)
  BY <1>2, <1>3 DEF Accounted
<1> QED
  BY <1>3, <1>4, <1>5, <1>6 DEF Accounted
\* m tells how the table tt comes from table; the messages of P are about table.
CommitOf(table, tt, P, m) ==
    /\ DOMAIN tt = DOMAIN table \cup {m.id}
    /\ \A j \in DOMAIN table \ {m.id} : tt[j] = table[j]
    /\ m.id \in DOMAIN table => table[m.id]["status"] # "CANCELLED"
    /\ \/ m.id \notin DOMAIN table /\ m.type = "TRADE_CREATED" /\ m.payload = tt[m.id]
       \/ m.id \in DOMAIN table /\ m.type = "TRADE_AMENDED" /\ m.payload = tt[m.id]
       \/ /\ m.id \in DOMAIN table /\ m.type = "TRADE_CANCELLED"
          /\ tt[m.id] = Cancelled(table[m.id])
    /\ \A k \in DOMAIN P :
          /\ P[k].id \in DOMAIN table
          /\ P[k].type = "TRADE_CANCELLED" => table[P[k].id]["status"] = "CANCELLED"

\* amendTrade and cancelTrade refuse a cancelled trade.
LEMMA CommitKeepsOrder ==
    ASSUME NEW S, NEW P \in Seq(S), CancelIsLast(P), NEW table, NEW tt, NEW m,
           CommitOf(table, tt, P, m)
    PROVE  CancelIsLast(Append(P, m)) /\ ~Has(P, m.id, "TRADE_CANCELLED")
<1> DEFINE Q == Append(P, m)
<1>1. /\ \A k \in DOMAIN P : k \in DOMAIN Q /\ Q[k] = P[k] /\ k < Len(P) + 1
      /\ Len(P) + 1 \in DOMAIN Q /\ Q[Len(P) + 1] = m
      /\ \A k \in DOMAIN Q : k \in Nat /\ (k \in DOMAIN P \/ k = Len(P) + 1)
      /\ Len(P) \in Nat
  BY AppendShape
<1>2. ~Has(P, m.id, "TRADE_CANCELLED")
  BY DEF CommitOf, Has
<1> HIDE DEF Q
<1>3. ASSUME NEW k \in DOMAIN Q, NEW l \in DOMAIN Q, k < l,
             Q[k].type = "TRADE_CANCELLED", Q[l].id = Q[k].id
      PROVE  Q[l].type # "TRADE_AMENDED"
  <2>1. k \in DOMAIN P
    BY <1>1, <1>3
  <2>2. CASE l \in DOMAIN P
    BY <1>1, <1>3, <2>1, <2>2 DEF CancelIsLast
  <2>3. CASE l = Len(P) + 1
    BY <1>1, <1>2, <1>3, <2>1, <2>3 DEF Has
  <2> QED
    BY <1>1, <2>2, <2>3
<1> QED
  BY <1>2, <1>3 DEF CancelIsLast, Q

\* For the trade committed, what fitted before the step fits after it.
LEMMA FitsAfterCommit ==
    ASSUME NEW S, NEW P \in Seq(S), CancelIsLast(P), NEW table, NEW tt, NEW m,
           CommitOf(table, tt, P, m), NEW i \in DOMAIN table, NEW row,
           Fits(table, P, i, row), i = m.id => m.type = "TRADE_CANCELLED"
    PROVE  Fits(tt, Append(P, m), i, row)
<1>1. \A type : Has(Append(P, m), i, type) <=> Has(P, i, type) \/ (m.id = i /\ m.type = type)
  BY HasOfAppend
<1>2. CASE i # m.id
  BY <1>1, <1>2 DEF Fits, CommitOf
<1>3. CASE i = m.id
  <2>1. row = table[i]
    BY <1>3, CommitKeepsOrder DEF Fits
  <2>2. tt[i] = Cancelled(table[i]) /\ m.type = "TRADE_CANCELLED"
    BY <1>3 DEF CommitOf
  <2> QED
    BY <1>1, <1>3, <2>1, <2>2 DEF Fits
<1> QED
  BY <1>2, <1>3

\* After a commit the last amendment under way still fits the table.
LEMMA CommitKeepsAmend ==
    ASSUME NEW S, NEW P \in Seq(S), CancelIsLast(P), NEW table, NEW tt, NEW m,
           CommitOf(table, tt, P, m), NEW n, NEW flags, LastAmendFits(table, P, n, flags)
    PROVE  LastAmendFits(tt, Append(P, m), n, flags)
<1> DEFINE Q == Append(P, m)
<1>1. /\ \A k \in DOMAIN P : k \in DOMAIN Q /\ Q[k] = P[k] /\ k < Len(P) + 1
      /\ Len(P) + 1 \in DOMAIN Q /\ Q[Len(P) + 1] = m
      /\ \A k \in DOMAIN Q : k \in Nat /\ (k \in DOMAIN P \/ k = Len(P) + 1)
      /\ Len(P) \in Nat
  BY AppendShape
<1>2. \A i, type : Has(Q, i, type) <=> Has(P, i, type) \/ (m.id = i /\ m.type = type)
  BY HasOfAppend
<1>3. ~Has(P, m.id, "TRADE_CANCELLED")
  BY CommitKeepsOrder
<1>4. \A i \in DOMAIN table : \A row :
         Fits(table, P, i, row) /\ (i = m.id => m.type = "TRADE_CANCELLED") => Fits(tt, Q, i, row)
  BY FitsAfterCommit
<1> HIDE DEF Q
<1>5. ASSUME NEW k \in DOMAIN Q, LastAmend(Q, k), k > n \/ ~Gone(flags, Q[k].id)
      PROVE  Fits(tt, Q, Q[k].id, Q[k].payload)
  <2>1. CASE k \in DOMAIN P
    <3>1. LastAmend(P, k)
      BY <1>1, <1>5, <2>1 DEF LastAmend
    <3>2. Fits(table, P, P[k].id, P[k].payload) /\ P[k].id \in DOMAIN table
      BY <1>1, <1>5, <2>1, <3>1 DEF LastAmendFits, CommitOf
    <3>3. P[k].id = m.id => m.type # "TRADE_AMENDED"
      BY <1>1, <1>5, <2>1 DEF LastAmend
    <3>4. P[k].id = m.id => m.type = "TRADE_CANCELLED"
      BY <3>2, <3>3 DEF CommitOf
    <3> QED
      BY <1>1, <1>4, <2>1, <3>2, <3>4
  <2>2. CASE k = Len(P) + 1
    <3>1. m.type = "TRADE_AMENDED" /\ Q[k] = m
      BY <1>1, <1>5, <2>2 DEF LastAmend
    <3>2. ~Has(Q, m.id, "TRADE_CANCELLED") /\ m.payload = tt[m.id]
      BY <1>2, <1>3, <3>1 DEF CommitOf
    <3> QED
      BY <3>1, <3>2 DEF Fits
  <2> QED
    BY <1>1, <2>1, <2>2
<1> QED
  BY <1>5 DEF LastAmendFits, Q

\* The message of a commit covers what the commit changed.
LEMMA CoveredByCommit ==
    ASSUME NEW S, NEW P \in Seq(S), CancelIsLast(P), NEW table, NEW tt, NEW m,
           CommitOf(table, tt, P, m), NEW b, NEW s, NEW flags,
           ids(b) \subseteq DOMAIN table, ids(s) \subseteq DOMAIN table,
           Covered(table, P, b, s, flags)
    PROVE  Covered(tt, Append(P, m), b, s, flags)
<1> DEFINE Q == Append(P, m)
<1>1. /\ \A k \in DOMAIN P : k \in DOMAIN Q /\ Q[k] = P[k]
      /\ Len(P) + 1 \in DOMAIN Q /\ Q[Len(P) + 1] = m
      /\ \A k \in DOMAIN Q : k \in DOMAIN P \/ k = Len(P) + 1
  BY AppendShape
<1>2. \A i, type : Has(Q, i, type) <=> Has(P, i, type) \/ (m.id = i /\ m.type = type)
  BY HasOfAppend
<1>3. ~Has(P, m.id, "TRADE_CANCELLED")
  BY CommitKeepsOrder
<1>4. \A i \in DOMAIN table : \A row :
         Fits(table, P, i, row) /\ (i = m.id => m.type = "TRADE_CANCELLED") => Fits(tt, Q, i, row)
  BY FitsAfterCommit
<1> HIDE DEF Q
<1> SUFFICES ASSUME NEW i \in DOMAIN tt, ~Flag(flags, i), ~Has(Q, i, "TRADE_AMENDED")
             PROVE  Accounted(tt, Q, b, s, i)
  BY DEF Covered, Q
<1>5. CASE i \notin DOMAIN table
  <2>1. /\ i = m.id /\ m.type = "TRADE_CREATED" /\ m.payload = tt[i]
        /\ i \notin ids(s) /\ i \notin ids(b)
    BY <1>5 DEF CommitOf
  <2>2. \A k \in DOMAIN P : P[k].id # i
    BY <1>5 DEF CommitOf
  <2>3. ~Has(Q, i, "TRADE_CANCELLED") /\ Has(Q, i, "TRADE_CREATED")
    BY <1>2, <1>3, <2>1
  <2>4. \A k \in DOMAIN Q : Q[k].id = i => Q[k] = m
    BY <1>1, <2>2
  <2>5. (\A k \in DOMAIN s : s[k].id # i) /\ (\A k \in DOMAIN b : b[k].id # i)
    BY <2>1 DEF ids
  <2>6. Fits(tt, Q, i, m.payload)
    BY <2>1, <2>3 DEF Fits
  <2> QED
    BY <2>3, <2>4, <2>5, <2>6 DEF Accounted
<1>6. CASE i \in DOMAIN table
  <2>1. i = m.id => m.type = "TRADE_CANCELLED"
    BY <1>2, <1>6 DEF CommitOf
  <2>2. Accounted(table, P, b, s, i)
    BY <1>2, <1>6 DEF Covered
  <2>3. \A row : Fits(table, P, i, row) => Fits(tt, Q, i, row)
    BY <1>4, <1>6, <2>1
  <2>4. Has(P, i, "TRADE_CREATED") => Has(Q, i, "TRADE_CREATED")
    BY <1>2
  <2>5. \A k \in DOMAIN Q : Q[k].id = i /\ Q[k].type = "TRADE_CREATED"
                               => k \in DOMAIN P /\ Q[k] = P[k]
    BY <1>1, <2>1
  <2> QED
    BY <2>2, <2>3, <2>4, <2>5 DEF Accounted
<1> QED
  BY <1>5, <1>6
\* The table is not empty once the server has filled it.
Stocked == DOMAIN trades # {} \/ SeedIds = {}

\* What client c shows, or is about to be shown by the answer on its way, is
\* the table, but for the flagged trades and the messages under way.
InStep(c) ==
    /\ Answer(c) \/ cache[c].loaded => Stocked
    /\ CancelIsLast(Stream(c))
    /\ LastAmendFits(trades, Stream(c), Len(inbox[c]), missed[c])
    /\ cache[c].loaded => Covered(trades, Stream(c), buffer[c], store[c], missed[c])
    /\ Answer(c) => Covered(trades, Stream(c), buffer[c], fetch[c].response.data, since[c])

DriftInv == (up => Stocked) /\ \A c \in Clients : InStep(c)

\* A step that is about another client.
LEMMA OtherStaysInStep ==
    ASSUME NEW d, InStep(d), UNCHANGED trades,
           Stream(d)' = Stream(d), inbox'[d] = inbox[d], buffer'[d] = buffer[d],
           store'[d] = store[d], fetch'[d] = fetch[d], cache'[d] = cache[d],
           missed'[d] = missed[d], since'[d] = since[d]
    PROVE  InStep(d)'
BY DEF InStep, Answer, Stocked

\* Messages that are lost are flagged.
LEMMA DropKeepsStep ==
    ASSUME FeedInv, NEW c \in Clients, InStep(c),
           NEW off \in Nat, Part(Stream(c)', Stream(c), off),
           UNCHANGED <<trades, store, buffer, fetch, cache>>,
           missed[c] \subseteq missed'[c], since[c] \subseteq since'[c],
           Len(inbox'[c]) \in Int,
           \A k \in DOMAIN Stream(c)' : k > Len(inbox'[c]) => k + off > Len(inbox[c]),
           \A l \in DOMAIN Stream(c) :
              \/ l - off \in DOMAIN Stream(c)'
              \/ /\ Gone(missed'[c], Stream(c)[l].id)
                 /\ Answer(c) => Gone(since'[c], Stream(c)[l].id)
                 /\ l <= off \/ \A k \in DOMAIN Stream(c)' : k <= Len(inbox'[c])
    PROVE  InStep(c)'
<1> DEFINE P == Stream(c)
           Q == Stream(c)'
           n == Len(inbox[c])
           nn == Len(inbox'[c])
<1>1. P \in Seq(SoundMessages) /\ n \in Int /\ nn \in Int
  BY StreamType
<1>2. CancelIsLast(P) /\ LastAmendFits(trades, P, n, missed[c])
  BY DEF InStep
<1>3. CancelIsLast(Q)
  BY <1>2, CancelIsLastOfPart
<1>4. LastAmendFits(trades, Q, nn, missed'[c])
  <2>1. \A k \in DOMAIN Q : k > nn => k + off > n
    OBVIOUS
  <2>2. \A l \in DOMAIN P : \/ l - off \in DOMAIN Q
                            \/ l <= off
                            \/ Gone(missed'[c], P[l].id) /\ \A k \in DOMAIN Q : k <= nn
    OBVIOUS
  <2>3. Part(Q, P, off)
    OBVIOUS
  <2> HIDE DEF P, Q, n, nn
  <2> QED
    BY <1>1, <1>2, <2>1, <2>2, <2>3, LastAmendOfPart
<1>5. ASSUME NEW more, NEW i, ~Flag(more, i), NEW type, Has(P, i, type),
             \A l \in DOMAIN P : l - off \in DOMAIN Q \/ Gone(more, P[l].id)
      PROVE  Has(Q, i, type)
  <2>1. PICK l \in DOMAIN P : P[l].id = i /\ P[l].type = type
    BY <1>5 DEF Has
  <2>2. l - off \in DOMAIN Q
    BY <1>5, <2>1 DEF Flag, Causes, Gone
  <2>3. Q[l - off] = P[(l - off) + off]
    BY <2>2 DEF Part
  <2>4. (l - off) + off = l
    BY <1>1, <2>1
  <2> QED
    BY <2>1, <2>2, <2>3, <2>4 DEF Has
<1>6. ASSUME cache[c].loaded
      PROVE  Covered(trades, Q, buffer[c], store[c], missed'[c])
  <2>1. Covered(trades, P, buffer[c], store[c], missed[c])
    BY <1>6 DEF InStep
  <2>2. \A i \in DOMAIN trades : Flag(missed'[c], i) \/
           \A type \in {"TRADE_CREATED", "TRADE_AMENDED", "TRADE_CANCELLED"} :
              Has(P, i, type) => Has(Q, i, type)
    BY <1>5
  <2> QED
    BY <2>1, <2>2, CoveredByPart
<1>7. ASSUME Answer(c)
      PROVE  Covered(trades, Q, buffer[c], fetch[c].response.data, since'[c])
  <2>1. Covered(trades, P, buffer[c], fetch[c].response.data, since[c])
    BY <1>7 DEF InStep
  <2>2. \A i \in DOMAIN trades : Flag(since'[c], i) \/
           \A type \in {"TRADE_CREATED", "TRADE_AMENDED", "TRADE_CANCELLED"} :
              Has(P, i, type) => Has(Q, i, type)
    BY <1>5, <1>7
  <2> QED
    BY <2>1, <2>2, CoveredByPart
<1> QED
  BY <1>3, <1>4, <1>6, <1>7 DEF InStep, Answer, Stocked

\* A message passes from the thread to the sockets that are open; the others
\* miss it, and that is flagged.
LEMMA BroadcastKeepsStep ==
    ASSUME ServiceInv, FeedInv, Broadcast, NEW c \in Clients, InStep(c)
    PROVE  InStep(c)'
<1>1. /\ UNCHANGED <<trades, store, buffer, fetch, cache>>
      /\ missed[c] \subseteq missed'[c] /\ since[c] \subseteq since'[c]
      /\ Stream(c)' = inbox'[c] /\ Due
  BY BroadcastStream
<1>2. /\ Stream(c) \in Seq(SoundMessages) /\ inbox[c] \in Seq(SoundMessages)
      /\ Len(Stream(c)) = Len(inbox[c]) + 1 /\ Stream(c)[Len(inbox[c]) + 1] = DueMessage
  BY <1>1, StreamType
<1>3. CASE c \in clients /\ inbox'[c] = Stream(c)
  <2>1. Part(Stream(c)', Stream(c), 0)
    BY <1>1, <1>2, <1>3, SelfIsPart
  <2>2. \A k \in DOMAIN Stream(c)' : k <= Len(inbox'[c])
    BY <1>1, <1>2, <1>3
  <2>3. \A l \in DOMAIN Stream(c) : l - 0 \in DOMAIN Stream(c)'
    BY <1>1, <1>2, <1>3
  <2>4. Len(inbox'[c]) \in Int
    BY <1>2, <1>3
  <2>5. \A k \in DOMAIN Stream(c)' : k > Len(inbox'[c]) => k + 0 > Len(inbox[c])
    BY <1>1, <1>2, <1>3
  <2> QED
    BY <1>1, <2>1, <2>3, <2>4, <2>5, DropKeepsStep
<1>4. CASE /\ c \notin clients /\ inbox'[c] = inbox[c]
           /\ Gone(missed'[c], DueMessage.id)
           /\ Answer(c) => Gone(since'[c], DueMessage.id)
  <2>1. Part(Stream(c)', Stream(c), 0)
    BY <1>1, <1>4, InboxIsPart
  <2>2. \A k \in DOMAIN Stream(c)' : k <= Len(inbox'[c])
    BY <1>1, <1>2, <1>4
  <2>3. \A l \in DOMAIN Stream(c) : l - 0 \in DOMAIN Stream(c)' \/ Stream(c)[l] = DueMessage
    BY <1>1, <1>2, <1>4
  <2>4. Len(inbox'[c]) \in Int
    BY <1>2, <1>4
  <2>5. \A k \in DOMAIN Stream(c)' : k > Len(inbox'[c]) => k + 0 > Len(inbox[c])
    BY <1>1, <1>2, <1>4
  <2> QED
    BY <1>1, <1>4, <2>1, <2>2, <2>3, <2>4, <2>5, DropKeepsStep
<1> QED
  BY <1>3, <1>4, BroadcastStream DEF Gone

\* A crash or a failed read-back may swallow one message, and that is flagged
\* for everyone.
LEMMA GivingUpKeepsStep ==
    ASSUME ServiceInv, FeedInv, ServerCrash \/ ServerReadBackFails,
           NEW c \in Clients, InStep(c)
    PROVE  InStep(c)'
<1>1. /\ UNCHANGED <<trades, store, buffer, inbox, fetch, cache>>
      /\ missed[c] \subseteq missed'[c] /\ since[c] \subseteq since'[c]
      /\ Stream(c)' = inbox[c]
      /\ Due =>
           /\ Gone(missed'[c], DueMessage.id)
           /\ Answer(c) => Gone(since'[c], DueMessage.id)
  BY GivingUpStream DEF Gone
<1>2. /\ Stream(c) \in Seq(SoundMessages) /\ inbox[c] \in Seq(SoundMessages)
      /\ Due => /\ Len(Stream(c)) = Len(inbox[c]) + 1
                /\ Stream(c)[Len(inbox[c]) + 1] = DueMessage
      /\ ~Due => Stream(c) = inbox[c]
  BY <1>1, StreamType
<1>3. Part(Stream(c)', Stream(c), 0)
  BY <1>1, InboxIsPart
<1>4. \A k \in DOMAIN Stream(c)' : k <= Len(inbox'[c])
  BY <1>1, <1>2
<1>5. \A l \in DOMAIN Stream(c) :
         l - 0 \in DOMAIN Stream(c)' \/ (Due /\ Stream(c)[l] = DueMessage)
  <2>1. CASE Due
    BY <1>1, <1>2, <2>1
  <2>2. CASE ~Due
    BY <1>1, <1>2, <2>2
  <2> QED
    BY <2>1, <2>2
<1>6. Len(inbox'[c]) \in Int
  BY <1>1, <1>2
<1>7. \A k \in DOMAIN Stream(c)' : k > Len(inbox'[c]) => k + 0 > Len(inbox[c])
  BY <1>1, <1>2
<1> QED
  BY <1>1, <1>3, <1>4, <1>5, <1>6, <1>7, DropKeepsStep

\* A client that notices the end of its socket has read all that came by it.
LEMMA CloseKeepsStep ==
    ASSUME ServiceInv, FeedInv, NEW d \in Clients, NoticeClose(d), UNCHANGED vars,
           NEW c \in Clients, InStep(c)
    PROVE  InStep(c)'
<1>1. /\ UNCHANGED <<trades, store, buffer, fetch, cache>>
      /\ missed[c] \subseteq missed'[c] /\ since[c] \subseteq since'[c]
  BY CloseStream
<1>2. CASE /\ Stream(c)' = Stream(c) /\ inbox'[c] = inbox[c]
           /\ missed'[c] = missed[c] /\ since'[c] = since[c]
  BY <1>1, <1>2, OtherStaysInStep
<1>3. CASE /\ inbox'[c] = <<>>
           /\ Stream(c)' = IF Due THEN <<DueMessage>> ELSE <<>>
           /\ Part(Stream(c)', Stream(c), Len(inbox[c]))
           /\ \A k \in DOMAIN inbox[c] :
                 /\ Gone(missed'[c], inbox[c][k].id)
                 /\ Answer(c) => Gone(since'[c], inbox[c][k].id)
  <2>1. Len(inbox[c]) \in Nat /\ inbox[c] \in Seq(SoundMessages) /\ Len(inbox'[c]) = 0
    BY <1>3, StreamType
  <2>3. \A k \in DOMAIN Stream(c)' : k > Len(inbox'[c]) => k + Len(inbox[c]) > Len(inbox[c])
    BY <1>3, <2>1 DEF Part
  <2>4. \A l \in DOMAIN Stream(c) :
           \/ l - Len(inbox[c]) \in DOMAIN Stream(c)'
           \/ l <= Len(inbox[c]) /\ l \in DOMAIN inbox[c] /\ Stream(c)[l] = inbox[c][l]
    BY <1>3, <2>1, EmptiedStream
  <2>5. \A l \in DOMAIN Stream(c) :
           \/ l - Len(inbox[c]) \in DOMAIN Stream(c)'
           \/ /\ Gone(missed'[c], Stream(c)[l].id)
              /\ Answer(c) => Gone(since'[c], Stream(c)[l].id)
              /\ l <= Len(inbox[c])
    BY <1>3, <2>4
  <2>6. Len(inbox'[c]) \in Int
    BY <2>1
  <2> QED
    BY <1>1, <1>3, <2>1, <2>3, <2>5, <2>6, DropKeepsStep
<1> QED
  BY <1>2, <1>3, CloseStream DEF Gone

\* A page that is left is out of step with nothing.
LEMMA LeaveKeepsStep ==
    ASSUME ServiceInv, FeedInv, NEW c \in Clients, LeavePage(c), InStep(c)
    PROVE  InStep(c)'
<1> DEFINE P == Stream(c)
           Q == Stream(c)'
           n == Len(inbox[c])
<1>1. /\ inbox'[c] = <<>> /\ ~Answer(c)' /\ ~cache'[c].loaded
      /\ Part(Q, P, n)
      /\ \A l \in DOMAIN P : l - n \in DOMAIN Q \/ l \in DOMAIN inbox[c]
  BY LeaveStream
<1>2. /\ UNCHANGED trades
      /\ P \in Seq(SoundMessages) /\ inbox[c] \in Seq(SoundMessages)
  BY SoundUnchanged, StreamType DEF LeavePage
<1>3. n \in Nat /\ n \in Int /\ Len(inbox'[c]) = 0 /\ 0 \in Int
  BY <1>1, <1>2
<1>4. CancelIsLast(P) /\ LastAmendFits(trades, P, n, missed[c])
  BY DEF InStep
<1>5. /\ \A k \in DOMAIN Q : k > 0 => k + n > n
      /\ \A l \in DOMAIN P : l - n \in DOMAIN Q \/ l <= n
      /\ \A k \in DOMAIN Q : k > 0
  <2>1. \A k \in DOMAIN Q : k \in Nat /\ k + n \in DOMAIN P
    BY <1>1 DEF Part
  <2>2. \A k \in DOMAIN Q : k > 0
    <3>1. Q = IF Due THEN <<DueMessage>> ELSE <<>>
      BY LeaveStream
    <3> QED
      BY <3>1
  <2> QED
    BY <1>1, <1>2, <1>3, <2>1, <2>2
<1> HIDE DEF P, Q, n
<1>6. CancelIsLast(Q)
  BY <1>1, <1>3, <1>4, CancelIsLastOfPart
<1>7. LastAmendFits(trades, Q, 0, missed[c])
  BY <1>1, <1>2, <1>3, <1>4, <1>5, LastAmendOfPart
<1>8. LastAmendFits(trades, Q, 0, missed'[c])
  BY <1>5, <1>7 DEF LastAmendFits
<1> QED
  BY <1>1, <1>2, <1>3, <1>6, <1>8 DEF InStep, Q

\* A message that is applied makes good what it covered, or is flagged.
LEMMA ReceiveKeepsStep ==
    ASSUME ServiceInv, FeedInv, NEW c \in Clients, Receive(c), UNCHANGED <<vars, clients>>,
           InStep(c)
    PROVE  InStep(c)'
<1> DEFINE P == Stream(c)
           Q == Tail(P)
           m == Head(P)
           n == Len(inbox[c])
           pairs == (IF m.id \in ids(store[c]) THEN {} ELSE {<<"early", m.id>>})
                      \cup Applied(c, m.id)
<1>1. /\ P # <<>> /\ P \in Seq(SoundMessages) /\ m = Head(inbox[c])
      /\ Stream(c)' = Q /\ inbox'[c] = Tail(inbox[c])
      /\ inbox[c] \in Seq(SoundMessages) /\ inbox[c] # <<>>
  BY ReceiveTakesHead, StreamType
<1>2. UNCHANGED <<trades, job, fetch, cache>>
  BY DEF Receive, vars, repoVars, serviceVars
<1>3. n \in Nat \ {0} /\ Len(inbox'[c]) = n - 1 /\ n \in Int /\ n - 1 \in Int
  BY <1>1
<1>4. m.type \in {"TRADE_CREATED", "TRADE_AMENDED", "TRADE_CANCELLED"}
  <2>1. m \in SoundMessages
    BY <1>1
  <2> QED
    BY <2>1 DEF SoundMessages
<1>5. CancelIsLast(P) /\ LastAmendFits(trades, P, n, missed[c])
  BY DEF InStep
<1>6. Part(Q, P, 1) /\ \A l \in DOMAIN P : l - 1 \in DOMAIN Q \/ l <= 1
  BY <1>1, TailIsPart
<1>7. CancelIsLast(Q)
  BY <1>5, <1>6, CancelIsLastOfPart
<1>8. ASSUME NEW more, missed[c] \subseteq more
      PROVE  LastAmendFits(trades, Q, n - 1, more)
  <2>1. PICK nn \in Int : nn = n - 1
    BY <1>3
  <2>2. \A k \in DOMAIN Q : k > nn => k + 1 > n
    BY <1>3, <1>6, <2>1 DEF Part
  <2> HIDE DEF P, Q, n
  <2> QED
    BY <1>1, <1>3, <1>5, <1>6, <1>8, <2>1, <2>2, LastAmendOfPart
<1>9. \A i, type : Has(P, i, type) <=> Has(Q, i, type) \/ (m.id = i /\ m.type = type)
  BY <1>1, HasOfTail
<1>10. CASE m.type = "TRADE_CREATED"
  <2>1. /\ buffer'[c] = Append(buffer[c], Shown(m.id, m.payload))
        /\ buffer[c] \in Seq(SoundTrades) /\ UNCHANGED <<store, missed, since>>
    BY <1>1, <1>10 DEF Receive, onCreated, FeedInv
  <2>2. ASSUME NEW s, NEW flags, Covered(trades, P, buffer[c], s, flags)
        PROVE  Covered(trades, Q, buffer'[c], s, flags)
    <3> HIDE DEF P, m
    <3> QED
      BY <1>1, <1>10, <2>1, <2>2, CoveredByCreated DEF m
  <2>3. LastAmendFits(trades, Q, n - 1, missed[c])
    BY <1>8
  <2> HIDE DEF Q
  <2> QED
    BY <1>1, <1>2, <1>3, <1>7, <2>1, <2>2, <2>3 DEF InStep, Answer, Stocked
<1>11. CASE m.type \in {"TRADE_AMENDED", "TRADE_CANCELLED"}
  <2>1. onPatch(c, m)
    BY <1>1, <1>11 DEF Receive
  <2>2. /\ missed'[c] = missed[c] \cup pairs
        /\ since'[c] = IF Answer(c) THEN since[c] \cup pairs ELSE since[c]
        /\ UNCHANGED buffer
    BY <2>1 DEF onPatch, Note, FeedInv, Answer
  <2>3. store'[c] = IF m.type = "TRADE_AMENDED"
                    THEN updateTrade(store[c], Shown(m.id, m.payload))
                    ELSE cancelShown(store[c], m.id)
    BY <2>1 DEF onPatch, FeedInv
  <2>4. m.id \in ids(store[c]) \/ <<"early", m.id>> \in missed'[c]
    BY <2>2
  <2>5. Answer(c) => Flag(since'[c], m.id) /\ since[c] \subseteq since'[c]
    BY <2>2 DEF Applied, Answer, Flag, Causes
  <2>6. missed[c] \subseteq missed'[c]
    BY <2>2
  <2> HIDE DEF pairs
  <2>7. ASSUME cache[c].loaded
        PROVE  Covered(trades, Q, buffer[c], store'[c], missed'[c])
    <3>1. Covered(trades, P, buffer[c], store[c], missed[c])
      BY <2>7 DEF InStep
    <3> HIDE DEF P, m, n
    <3> QED
      BY <1>1, <1>3, <1>5, <1>11, <2>3, <2>4, <2>6, <3>1, CoveredByPatch DEF m
  <2>8. ASSUME Answer(c)
        PROVE  Covered(trades, Q, buffer[c], fetch[c].response.data, since'[c])
    <3>1. Covered(trades, P, buffer[c], fetch[c].response.data, since[c])
      BY <2>8 DEF InStep
    <3>2. \A i \in DOMAIN trades : Flag(since'[c], i) \/
             \A type \in {"TRADE_CREATED", "TRADE_AMENDED", "TRADE_CANCELLED"} :
                Has(P, i, type) => Has(Q, i, type)
      BY <1>9, <2>5, <2>8
    <3> HIDE DEF P, Q
    <3> QED
      BY <1>6, <2>5, <2>8, <3>1, <3>2, CoveredByPart
  <2>9. LastAmendFits(trades, Q, n - 1, missed'[c])
    BY <1>8, <2>6
  <2> HIDE DEF Q
  <2> QED
    BY <1>1, <1>2, <1>3, <1>7, <2>2, <2>7, <2>8, <2>9 DEF InStep, Answer, Stocked
<1> QED
  BY <1>4, <1>10, <1>11

\* A buffered row is shown as it was, or finds a window that is full.
LEMMA DrainKeepsStep ==
    ASSUME ServiceInv, FeedInv, NEW c \in Clients, drainTick(c), UNCHANGED <<vars, clients>>,
           InStep(c)
    PROVE  InStep(c)'
<1>1. PICK slice \in Seq(SoundTrades), rest \in Seq(SoundTrades), l \in Nat :
        /\ Part(slice, buffer[c], 0) /\ Part(rest, buffer[c], l)
        /\ ids(buffer[c]) \subseteq ids(slice) \cup ids(rest)
        /\ buffer' = [buffer EXCEPT ![c] = rest]
        /\ store' = [store EXCEPT ![c] = addTradesBatch(store[c], slice)]
        /\ Note(c, {<<"capped", i>> : i \in
                          Dropped(store[c], slice, addTradesBatch(store[c], slice))}
                     \cup UNION {Applied(c, i) : i \in ids(slice)})
        /\ UNCHANGED <<paused, inbox, connected, fetch, cache>>
  BY DrainShape
<1> DEFINE P == Stream(c)
           shown == addTradesBatch(store[c], slice)
           pairs == {<<"capped", i>> : i \in Dropped(store[c], slice, shown)}
                     \cup UNION {Applied(c, i) : i \in ids(slice)}
<1>2. buffer'[c] = rest /\ store'[c] = shown
  BY <1>1 DEF FeedInv
<1>3. /\ missed'[c] = missed[c] \cup pairs
      /\ since'[c] = IF Answer(c) THEN since[c] \cup pairs ELSE since[c]
  BY <1>1 DEF Note, FeedInv, Answer
<1>4. \A i \in (ids(store[c]) \cup ids(slice)) \ ids(shown) : Flag(missed'[c], i)
  <2>1. (ids(store[c]) \cup ids(slice)) \ ids(shown) \subseteq Dropped(store[c], slice, shown)
    <3>1. store[c] \in Seq(SoundTrades)
      BY DEF FeedInv, Windows
    <3> QED
      BY <1>1, <3>1, BatchFits
  <2> HIDE DEF shown
  <2> QED
    BY <1>3, <2>1 DEF Flag, Causes
<1>5. Answer(c) => since[c] \subseteq since'[c] /\ \A i \in ids(slice) : Flag(since'[c], i)
  <2> SUFFICES ASSUME Answer(c), NEW i \in ids(slice) PROVE Flag(since'[c], i)
    BY <1>3
  <2>1. <<"overwritten", i>> \in Applied(c, i)
    BY DEF Applied, Answer
  <2>2. <<"overwritten", i>> \in pairs
    BY <2>1
  <2> HIDE DEF pairs
  <2> QED
    BY <1>3, <2>2 DEF Flag, Causes
<1>6. missed[c] \subseteq missed'[c]
  BY <1>3
<1>7. Stream(c)' = P /\ UNCHANGED <<trades, inbox, fetch, cache>>
  BY <1>1, SoundUnchanged DEF Stream
<1>8. \A k \in DOMAIN shown :
         \/ \E n \in DOMAIN store[c] : shown[k] = store[c][n]
         \/ \E n \in DOMAIN slice : shown[k] = slice[n] /\ slice[n].id \notin ids(store[c])
  <2>1. store[c] \in Seq(SoundTrades)
    BY DEF FeedInv, Windows
  <2> QED
    BY <1>1, <2>1, BatchShape
<1> HIDE DEF P, shown, pairs
<1>9. cache[c].loaded => Covered(trades, P, rest, shown, missed'[c])
  <2>1. cache[c].loaded => Covered(trades, P, buffer[c], store[c], missed[c])
    BY DEF InStep, P
  <2> QED
    BY <1>1, <1>4, <1>6, <1>8, <2>1, CoveredByDrain
<1>10. Answer(c) => Covered(trades, P, rest, fetch[c].response.data, since'[c])
  <2>1. Answer(c) => Covered(trades, P, buffer[c], fetch[c].response.data, since[c])
    BY DEF InStep, P
  <2> QED
    BY <1>1, <1>5, <2>1, CoveredByRest
<1>11. LastAmendFits(trades, P, Len(inbox[c]), missed'[c]) /\ CancelIsLast(P)
  <2>1. LastAmendFits(trades, P, Len(inbox[c]), missed[c]) /\ CancelIsLast(P)
    BY DEF InStep, P
  <2> QED
    BY <1>6, <2>1 DEF LastAmendFits, Gone
<1>12. Answer(c) \/ cache[c].loaded => Stocked
  BY DEF InStep
<1> QED
  BY <1>2, <1>7, <1>9, <1>10, <1>11, <1>12 DEF InStep, Answer, Stocked

\* An answer that is applied covers the table as well as it did under way.
LEMMA LoadKeepsStep ==
    ASSUME ServiceInv, FeedInv, NEW c \in Clients, Load(c), UNCHANGED <<vars, clients>>,
           InStep(c)
    PROVE  InStep(c)'
<1> DEFINE P == Stream(c)
           n == Len(inbox[c])
           response == fetch[c].response
<1>1. /\ Answer(c) /\ ~Answer(c)' /\ UNCHANGED <<buffer, inbox>>
  BY DEF Load, Answer, FeedInv, NoFetch
<1>2. Stream(c)' = P /\ UNCHANGED trades
  BY <1>1, SoundUnchanged DEF Stream
<1>3. Stocked /\ CancelIsLast(P) /\ LastAmendFits(trades, P, n, missed[c])
      /\ Covered(trades, P, buffer[c], response.data, since[c])
  BY <1>1 DEF InStep
<1>4. CASE response = cache[c]
  <2>1. UNCHANGED <<store, cache, missed>>
    BY <1>4 DEF Load
  <2>2. cache[c].loaded => Covered(trades, P, buffer[c], store[c], missed[c])
    BY DEF InStep
  <2> QED
    BY <1>1, <1>2, <1>3, <2>1, <2>2 DEF InStep, Stocked
<1>5. CASE response # cache[c]
  <2>1. store'[c] = response.data /\ missed'[c] = since[c] \cup StillLost(c)
    BY <1>5, LoadShape DEF Load, FeedInv
  <2>2. Covered(trades, P, buffer[c], response.data, missed'[c])
    BY <1>3, <2>1, CoveredByFlags
  <2>3. LastAmendFits(trades, P, n, missed'[c])
    <3> SUFFICES ASSUME NEW k \in DOMAIN P, ~(k > n), ~Gone(missed'[c], P[k].id)
                 PROVE  ~Gone(missed[c], P[k].id)
      BY <1>3 DEF LastAmendFits
    <3>1. inbox[c] \in Seq(SoundMessages) /\ P \in Seq(SoundMessages)
          /\ \A l \in 1 .. n : P[l] = inbox[c][l]
      BY StreamType
    <3>2. k \in DOMAIN inbox[c] /\ P[k] = inbox[c][k]
      BY <3>1
    <3> QED
      BY <2>1, <3>2 DEF StillLost, Gone
  <2> QED
    BY <1>1, <1>2, <1>3, <2>1, <2>2, <2>3 DEF InStep, Stocked
<1> QED
  BY <1>4, <1>5

\* An answer covers the table it is taken from, but for what its page leaves out.
LEMMA AnswerKeepsStep ==
    ASSUME ServiceInv, FeedInv, NEW c \in Clients, AnswerFetch(c), up => Stocked, InStep(c)
    PROVE  InStep(c)'
<1> DEFINE P == Stream(c)
           data == getAllTrades.data
<1>1. /\ UNCHANGED <<vars, store, buffer, inbox, cache, missed>> /\ up
      /\ fetch'[c] = [phase |-> "answered", response |-> getAllTrades]
      /\ since'[c] = {<<"capped", i>> : i \in OffPage}
  BY DEF AnswerFetch, Answered, idle, FeedInv
<1>2. Stream(c)' = P /\ P \in Seq(SoundMessages) /\ UNCHANGED trades
  BY <1>1, SoundUnchanged, StreamType DEF Stream
<1>3. /\ \A k \in DOMAIN data : data[k].id \in DOMAIN trades /\ data[k].row = trades[data[k].id]
      /\ DOMAIN trades \ ids(data) \subseteq OffPage
  BY AnswerShape
<1> HIDE DEF data, P
<1>4. Covered(trades, P, buffer[c], data, since'[c])
  <2> SUFFICES ASSUME NEW i \in DOMAIN trades, ~Flag(since'[c], i)
               PROVE  Accounted(trades, P, buffer[c], data, i)
    BY DEF Covered
  <2>1. i \in ids(data)
    BY <1>1, <1>3 DEF Flag, Causes
  <2>2. Fits(trades, P, i, trades[i])
    <3>1. Has(P, i, "TRADE_CANCELLED") => trades[i]["status"] = "CANCELLED"
      BY <1>2 DEF Has, SoundMessages
    <3>2. trades[i] \in Rows
      BY DEF ServiceInv, TypeInv
    <3>3. trades[i]["status"] = "CANCELLED" => Cancelled(trades[i]) = trades[i]
      BY <3>2 DEF Cancelled, Rows
    <3> QED
      BY <3>1, <3>3 DEF Fits
  <2> QED
    BY <1>3, <2>1, <2>2 DEF Accounted
<1>5. Answer(c)' /\ fetch'[c].response.data = data
  BY <1>1 DEF Answer, data
<1>6. CancelIsLast(P) /\ LastAmendFits(trades, P, Len(inbox[c]), missed[c])
      /\ (cache[c].loaded => Covered(trades, P, buffer[c], store[c], missed[c]))
  BY DEF InStep, P
<1> QED
  BY <1>1, <1>2, <1>4, <1>5, <1>6 DEF InStep, Stocked

\* No step of a browser puts one out of step unflagged.
LEMMA ClientKeepsStep ==
    ASSUME ServiceInv, FeedInv, DriftInv, NEW c \in Clients, UNCHANGED vars,
           \/ Connect(c) \/ Cut(c) \/ NoticeClose(c) \/ LeavePage(c)
           \/ AnswerFetch(c) \/ FailFetch(c) \/ ClientStep(c),
           NEW d \in Clients
    PROVE  InStep(d)'
<1>1. UNCHANGED <<trades, up>> /\ (Due' <=> Due) /\ DueMessage' = DueMessage
  BY SoundUnchanged DEF vars, serviceVars
<1>2. InStep(c) /\ InStep(d) /\ (up => Stocked)
  BY DEF DriftInv
<1>3. CASE NoticeClose(c)
  BY <1>2, <1>3, CloseKeepsStep
<1>4. CASE Connect(c) \/ Cut(c) \/ setStreamPaused(c)
  <2>1. UNCHANGED <<store, buffer, inbox, fetch, cache, missed, since>>
    BY <1>4 DEF Connect, Reopen, Cut, feedVars, setStreamPaused
  <2>2. Stream(d)' = Stream(d)
    BY <1>1, <2>1 DEF Stream
  <2> QED
    BY <1>1, <1>2, <2>1, <2>2, OtherStaysInStep
<1>5. CASE FailFetch(c) \/ startFetch(c)
  <2>1. UNCHANGED <<store, buffer, inbox, cache, missed>>
    BY <1>5 DEF FailFetch, FetchFails, startFetch
  <2>2. \/ /\ fetch' = [fetch EXCEPT ![c] = NoFetch]
           /\ since' = [since EXCEPT ![c] = {}]
        \/ fetch' = [fetch EXCEPT ![c] = Sent] /\ UNCHANGED since
    BY <1>5 DEF FailFetch, FetchFails, startFetch
  <2>3. Stream(d)' = Stream(d)
    BY <1>1, <2>1 DEF Stream
  <2>4. CASE d = c
    <3>1. ~Answer(d)'
      BY <2>2, <2>4 DEF Answer, NoFetch, Sent, FeedInv
    <3> QED
      BY <1>1, <1>2, <2>1, <2>3, <3>1 DEF InStep, Stocked
  <2>5. CASE d # c
    <3>1. fetch'[d] = fetch[d] /\ since'[d] = since[d]
      BY <2>2, <2>5 DEF FeedInv
    <3> QED
      BY <1>1, <1>2, <2>1, <2>3, <3>1, OtherStaysInStep
  <2> QED
    BY <2>4, <2>5
<1>6. CASE (Receive(c) \/ drainTick(c) \/ Load(c)) /\ ClientStep(c)
  <2>1. UNCHANGED clients
    BY <1>6 DEF ClientStep
  <2>2. CASE d = c
    BY <1>2, <1>6, <2>1, <2>2, ReceiveKeepsStep, DrainKeepsStep, LoadKeepsStep
  <2>3. CASE d # c
    <3>2. /\ inbox'[d] = inbox[d] /\ buffer'[d] = buffer[d] /\ store'[d] = store[d]
          /\ fetch'[d] = fetch[d] /\ cache'[d] = cache[d]
          /\ missed'[d] = missed[d] /\ since'[d] = since[d]
      <4>1. CASE Receive(c)
        BY <2>3, <4>1 DEF Receive, onCreated, onPatch, Note, FeedInv
      <4>2. CASE drainTick(c)
        BY <2>3, <4>2 DEF drainTick, Note, FeedInv
      <4>3. CASE Load(c)
        BY <2>3, <4>3 DEF Load, FeedInv
      <4> QED
        BY <1>6, <4>1, <4>2, <4>3
    <3>3. Stream(d)' = Stream(d)
      BY <1>1, <3>2 DEF Stream
    <3> QED
      BY <1>1, <1>2, <3>2, <3>3, OtherStaysInStep
  <2> QED
    BY <2>2, <2>3
<1>7. CASE AnswerFetch(c)
  <2>1. CASE d = c
    BY <1>2, <1>7, <2>1, AnswerKeepsStep
  <2>2. CASE d # c
    <3>1. /\ UNCHANGED <<store, buffer, inbox, cache, missed>>
          /\ fetch'[d] = fetch[d] /\ since'[d] = since[d]
      BY <1>7, <2>2 DEF AnswerFetch, Answered, FeedInv
    <3>2. Stream(d)' = Stream(d)
      BY <1>1, <3>1 DEF Stream
    <3> QED
      BY <1>1, <1>2, <3>1, <3>2, OtherStaysInStep
  <2> QED
    BY <2>1, <2>2
<1>8. CASE LeavePage(c)
  <2>1. CASE d = c
    BY <1>2, <1>8, <2>1, LeaveKeepsStep
  <2>2. CASE d # c
    BY <1>1, <1>2, <1>8, <2>2, LeaveStream, OtherStaysInStep
  <2> QED
    BY <2>1, <2>2
<1> QED
  BY <1>3, <1>4, <1>5, <1>6, <1>7, <1>8 DEF ClientStep

\* The table is filled before the first request and never emptied again.
LEMMA StaysStocked ==
    ASSUME ServiceInv, [BlotterNext]_blotterVars
    PROVE  /\ Stocked => Stocked'
           /\ ServerStep /\ up' /\ (up => Stocked) => Stocked'
<1>1. DOMAIN trades \subseteq DOMAIN trades'
  BY BlotterStepIsServiceStep, CancelledIsFinalStep DEF ServiceInv
<1>2. Stocked => Stocked'
  BY <1>1 DEF Stocked
<1>3. ASSUME ServerStep, up', up => Stocked
      PROVE  Stocked'
  <2>1. CASE Start
    <3>1. CASE DOMAIN trades = {}
      BY <2>1, <3>1 DEF Start, Open, seedIfEmpty, Stocked
    <3>2. CASE DOMAIN trades # {}
      BY <1>2, <3>2 DEF Stocked
    <3> QED
      BY <3>1, <3>2
  <2>2. CASE ~Start
    <3>1. UNCHANGED up
      BY <1>3, <2>2 DEF ServerStep, Request, PostTrade, PostRandomTrades, NextRandomTrade,
         createTrade, Throw, PatchTrade, amendTrade, DeleteTrade, cancelTrade, Refuse,
         Transact, RefuseUnknown, ReadFails, RunStatement, serviceVars, Finish, Committed,
         Abort, ReadBack, ErrorHandler, AdvanceClock
    <3> QED
      BY <1>2, <1>3, <3>1
  <2> QED
    BY <2>1, <2>2
<1> QED
  BY <1>2, <1>3

\* No step of the server does.
LEMMA ServerKeepsStep ==
    ASSUME ServiceInv, FeedInv, DriftInv, ServerStep, NEW c \in Clients
    PROVE  InStep(c)'
<1> DEFINE P == Stream(c)
           m == DueMessage'
<1>1. UNCHANGED <<store, buffer, inbox, fetch, cache, missed, since>> /\ InStep(c)
  BY DEF ServerStep, feedVars, DriftInv
<1>2. P \in Seq(SoundMessages)
  BY StreamType
<1>3. \A k \in DOMAIN P : /\ P[k].id \in DOMAIN trades
                          /\ P[k].type = "TRADE_CANCELLED" => trades[P[k].id]["status"] = "CANCELLED"
  BY <1>2 DEF SoundMessages
<1>4. Answer(c)' \/ cache'[c].loaded => Stocked /\ Stocked'
  BY <1>1, StaysStocked DEF InStep, Answer, BlotterNext
<1>5. CASE Unseen /\ Stream(c)' = P
  BY <1>1, <1>5, OtherStaysInStep DEF Unseen
<1>6. CASE Commits(m) /\ Stream(c)' = Append(P, m)
  <2>1. CommitOf(trades, trades', P, m)
    <3>1. DOMAIN trades' = DOMAIN trades \cup {m.id}
      BY <1>6 DEF Commits
    <3> HIDE DEF P, m
    <3> QED
      BY <1>3, <1>6, <3>1 DEF Commits, CommitOf, TradeMessage, CancelMessage
  <2>2. /\ buffer[c] \in Seq(SoundTrades) /\ store[c] \in Seq(SoundTrades)
        /\ Answer(c) => fetch[c].response.data \in Seq(SoundTrades)
    <3>1. fetch[c] \in Fetches
      BY DEF FeedInv
    <3>2. Answer(c) => fetch[c].response \in Responses
      BY <3>1 DEF Answer, Fetches, NoFetch, Sent
    <3> QED
      BY <3>2 DEF FeedInv, Windows, Responses
  <2>3. \A s \in Seq(SoundTrades) : ids(s) \subseteq DOMAIN trades
    BY DEF ids, SoundTrades
  <2>4. CancelIsLast(P) /\ LastAmendFits(trades, P, Len(inbox[c]), missed[c])
    BY <1>1 DEF InStep
  <2> HIDE DEF P, m
  <2>5. CancelIsLast(Append(P, m))
    BY <1>2, <2>1, <2>4, CommitKeepsOrder
  <2>6. LastAmendFits(trades', Append(P, m), Len(inbox[c]), missed[c])
    BY <1>2, <2>1, <2>4, CommitKeepsAmend
  <2>7. cache[c].loaded => Covered(trades', Append(P, m), buffer[c], store[c], missed[c])
    <3>1. cache[c].loaded => Covered(trades, P, buffer[c], store[c], missed[c])
      BY <1>1 DEF InStep, P
    <3> QED
      BY <1>2, <2>1, <2>2, <2>3, <2>4, <3>1, CoveredByCommit
  <2>8. Answer(c) => Covered(trades', Append(P, m), buffer[c], fetch[c].response.data, since[c])
    <3>1. Answer(c) => Covered(trades, P, buffer[c], fetch[c].response.data, since[c])
      BY <1>1 DEF InStep, P
    <3> QED
      BY <1>2, <2>1, <2>2, <2>3, <2>4, <3>1, CoveredByCommit
  <2> QED
    BY <1>1, <1>4, <1>6, <2>5, <2>6, <2>7, <2>8 DEF InStep, Answer
<1>7. CASE Seeds /\ Stream(c)' = P
  <2>1. DOMAIN P = {}
    BY <1>3, <1>7 DEF Seeds
  <2>2. Answer(c)' \/ cache'[c].loaded => DOMAIN trades' = {}
    BY <1>4, <1>7 DEF Seeds, Stocked
  <2>3. CancelIsLast(Stream(c)') /\ LastAmendFits(trades', Stream(c)', Len(inbox'[c]), missed'[c])
    BY <1>7, <2>1 DEF CancelIsLast, LastAmendFits
  <2>4. Answer(c)' \/ cache'[c].loaded =>
          \A s, flags : Covered(trades', Stream(c)', buffer'[c], s, flags)
    BY <2>2 DEF Covered
  <2> QED
    BY <1>4, <2>3, <2>4 DEF InStep
<1> QED
  BY <1>5, <1>6, <1>7, ServerStepStream

\* Nothing is loaded at first.
LEMMA DriftInvInit == BlotterInit => DriftInv
<1> SUFFICES ASSUME BlotterInit PROVE DriftInv
  OBVIOUS
<1>1. ~up
  BY DEF BlotterInit, Init
<1>2. \A c \in Clients : Stream(c) = <<>> /\ ~Answer(c) /\ ~cache[c].loaded
  BY DEF BlotterInit, Init, FeedInit, Idle, Due, Stream, Answer, NoFetch, NoData
<1>3. DOMAIN <<>> = {}
  OBVIOUS
<1> QED
  BY <1>1, <1>2, <1>3 DEF DriftInv, InStep, CancelIsLast, LastAmendFits

\* No step of the whole puts a browser out of step unflagged.
LEMMA DriftInvStep == ServiceInv /\ FeedInv /\ DriftInv /\ [BlotterNext]_blotterVars => DriftInv'
<1> SUFFICES ASSUME ServiceInv, FeedInv, DriftInv, [BlotterNext]_blotterVars
             PROVE  DriftInv'
  OBVIOUS
<1>1. CASE UNCHANGED blotterVars
  <2>1. UNCHANGED <<trades, up, store, buffer, inbox, fetch, cache, missed, since>>
    BY <1>1 DEF blotterVars, vars, repoVars, serviceVars, feedVars
  <2>2. \A c \in Clients : Stream(c)' = Stream(c)
    BY <1>1, <2>1, SoundUnchanged DEF Stream, blotterVars
  <2> QED
    BY <2>1, <2>2, OtherStaysInStep DEF DriftInv, Stocked
<1>2. CASE \E c \in Clients : \/ Connect(c) \/ Cut(c) \/ NoticeClose(c) \/ LeavePage(c)
                              \/ AnswerFetch(c) \/ FailFetch(c) \/ ClientStep(c)
  <2>1. UNCHANGED vars
    BY <1>2 DEF Connect, Cut, NoticeClose, LeavePage, AnswerFetch, FailFetch, ClientStep
  <2>2. UNCHANGED <<trades, up>>
    BY <2>1 DEF vars, repoVars, serviceVars
  <2> QED
    BY <1>2, <2>1, <2>2, ClientKeepsStep DEF DriftInv, Stocked
<1>3. CASE Broadcast
  <2>1. UNCHANGED <<trades, up>>
    BY <1>3 DEF Broadcast, Publish, repoVars
  <2> QED
    BY <1>3, <2>1, BroadcastKeepsStep DEF DriftInv, Stocked
<1>4. CASE ServerCrash \/ ServerReadBackFails
  <2>1. UNCHANGED trades /\ (up' = FALSE \/ UNCHANGED up)
    BY <1>4, GivesUp DEF ServerCrash, Crash, Die, ServerReadBackFails, ReadBackFails, Refuse, Throw
  <2> QED
    BY <1>4, <2>1, GivingUpKeepsStep DEF DriftInv, Stocked
<1>5. CASE ServerStep
  BY <1>5, ServerKeepsStep, StaysStocked DEF DriftInv
<1> QED
  BY <1>1, <1>2, <1>3, <1>4, <1>5 DEF BlotterNext

\* So it holds of every reachable state.
LEMMA DriftInvariant == BlotterSpec => []DriftInv
BY DriftInvInit, DriftInvStep, FeedIsSound, ServiceInvariant, PTL DEF BlotterSpec

\* Once nothing is under way, a browser shows the table, but for the trades
\* that one of the five named causes accounts for: for every number of clients,
\* of trades and of messages, whatever fails.
THEOREM OnlyNamedCausesDrift == BlotterSpec => []DriftHasACause
<1>1. FeedInv /\ DriftInv => DriftHasACause
  <2> SUFFICES ASSUME FeedInv, DriftInv, NEW c \in Clients, Quiet(c),
                      NEW i \in DOMAIN trades, ~Flagged(c, i)
               PROVE  Shows(c, i)
    BY DEF DriftHasACause
  <2>1. Stream(c) = <<>> /\ buffer[c] = <<>> /\ cache[c].loaded
    BY DEF Quiet, Stream, Idle, Due
  <2>2. DOMAIN <<>> = {}
    OBVIOUS
  <2>3. Accounted(trades, Stream(c), buffer[c], store[c], i)
    BY <2>1, <2>2 DEF DriftInv, InStep, Covered, Flagged, Flag, Has
  <2>4. i \in ids(store[c])
    BY <2>1, <2>2, <2>3 DEF Accounted, Has, ids
  <2>5. PICK k \in DOMAIN store[c] : store[c][k].id = i
    BY <2>4 DEF ids
  <2>6. store[c][k].row = trades[i]
    BY <2>1, <2>2, <2>3, <2>5 DEF Accounted, Fits, Has
  <2>7. store[c][k] \in [id : DOMAIN trades, row : Rows]
    <3>1. store[c] \in Seq(SoundTrades)
      BY DEF FeedInv, Windows
    <3> QED
      BY <3>1, <2>5 DEF SoundTrades
  <2>8. store[c][k] = Shown(i, trades[i])
    BY <2>5, <2>6, <2>7 DEF Shown
  <2> QED
    BY <2>8 DEF Shows
<1> QED
  BY <1>1, FeedIsSound, DriftInvariant, PTL

-----------------------------------------------------------------------------
(* The buffer *)

\* Pausing and pacing discard nothing: as long as the page stays open, a trade
\* leaves the buffer in a drain tick only, which no timer runs while paused, and
\* the same step shows it or finds the window full.
THEOREM BufferIsLossless == BlotterSpec => BufferLosesNothing
<1>1. ASSUME ServiceInv, FeedInv, [BlotterNext]_blotterVars,
             NEW c \in Clients, ~LeavePage(c), NEW i \in ids(buffer[c]) \ ids(buffer'[c])
      PROVE  ~paused[c] /\ (i \in ids(store'[c]) \/ <<"capped", i>> \in missed'[c])
  <2>1. buffer'[c] # buffer[c]
    BY <1>1
  <2>2. CASE Receive(c)
    <3>1. buffer[c] \in Seq(SoundTrades)
      BY <1>1 DEF FeedInv
    <3>2. Head(inbox[c]).type = "TRADE_CREATED"
      <4>1. CASE Head(inbox[c]).type # "TRADE_CREATED"
        BY <2>1, <2>2, <4>1 DEF Receive, onPatch
      <4> QED
        BY <4>1
    <3>3. buffer'[c] = Append(buffer[c], Shown(Head(inbox[c]).id, Head(inbox[c]).payload))
      BY <1>1, <2>2, <3>2 DEF Receive, onCreated, FeedInv
    <3>4. \A k \in DOMAIN buffer[c] : k \in DOMAIN buffer'[c] /\ buffer'[c][k] = buffer[c][k]
      BY <3>1, <3>3, AppendShape
    <3> QED
      BY <1>1, <3>4 DEF ids
  <2>3. CASE drainTick(c)
    <3>1. PICK slice \in Seq(SoundTrades), rest \in Seq(SoundTrades), n \in Nat :
             /\ ids(buffer[c]) \subseteq ids(slice) \cup ids(rest)
             /\ buffer' = [buffer EXCEPT ![c] = rest]
             /\ store' = [store EXCEPT ![c] = addTradesBatch(store[c], slice)]
             /\ Note(c, {<<"capped", j>> : j \in
                          Dropped(store[c], slice, addTradesBatch(store[c], slice))}
                          \cup UNION {Applied(c, j) : j \in ids(slice)})
      BY <1>1, <2>3, DrainShape
    <3>2. /\ buffer'[c] = rest /\ store'[c] = addTradesBatch(store[c], slice)
          /\ {<<"capped", j>> : j \in
                          Dropped(store[c], slice, addTradesBatch(store[c], slice))} \subseteq missed'[c]
      BY <1>1, <3>1 DEF FeedInv, Note
    <3>3. i \in ids(slice)
      BY <1>1, <3>1, <3>2
    <3>4. ~paused[c]
      BY <2>3 DEF drainTick
    <3>5. store[c] \in Seq(SoundTrades)
      BY <1>1 DEF FeedInv, Windows
    <3>6. i \in ids(store'[c])
          \/ i \in Dropped(store[c], slice, addTradesBatch(store[c], slice))
      BY <3>2, <3>3, <3>5, BatchFits
    <3> QED
      BY <3>2, <3>4, <3>6
  <2>4. CASE ~Receive(c) /\ ~drainTick(c)
    <3>1. \A d \in Clients \ {c} : Receive(d) \/ drainTick(d) => buffer'[c] = buffer[c]
      <4> SUFFICES ASSUME NEW d \in Clients, d # c, Receive(d) \/ drainTick(d)
                   PROVE  buffer'[c] = buffer[c]
        OBVIOUS
      <4>1. CASE drainTick(d)
        BY <1>1, <4>1 DEF drainTick, FeedInv
      <4>2. CASE Receive(d) /\ Head(inbox[d]).type = "TRADE_CREATED"
        BY <1>1, <4>2 DEF Receive, onCreated, FeedInv
      <4>3. CASE Receive(d) /\ Head(inbox[d]).type # "TRADE_CREATED"
        BY <4>3 DEF Receive, onPatch
      <4> QED
        BY <4>1, <4>2, <4>3
    <3>2. \A d \in Clients : Connect(d) \/ Cut(d) \/ NoticeClose(d)
                             \/ AnswerFetch(d) \/ FailFetch(d) \/ setStreamPaused(d)
                             \/ startFetch(d) \/ Load(d) => UNCHANGED buffer
      BY DEF Connect, Reopen, Cut, feedVars, NoticeClose, Close, AnswerFetch, Answered,
         FailFetch, FetchFails, setStreamPaused, startFetch, Load
    <3>3. Broadcast \/ ServerStep \/ ServerCrash \/ ServerReadBackFails
          \/ UNCHANGED blotterVars => UNCHANGED buffer
      BY DEF Broadcast, ServerStep, ServerCrash, ServerReadBackFails, Silent, blotterVars,
         feedVars
    <3>4. PICK d \in Clients : \/ Connect(d) \/ Cut(d) \/ NoticeClose(d) \/ LeavePage(d)
                              \/ AnswerFetch(d) \/ FailFetch(d) \/ ClientStep(d)
      BY <1>1, <2>1, <3>3 DEF BlotterNext
    <3>5. buffer' # buffer
      BY <2>1
    <3>6. ~LeavePage(d)
      <4>1. LeavePage(d) => d # c /\ buffer'[c] = buffer[c]
        BY <1>1 DEF LeavePage, Leave, FeedInv
      <4> QED
        BY <2>1, <4>1
    <3>7. Receive(d) \/ drainTick(d)
      BY <3>2, <3>4, <3>5, <3>6 DEF ClientStep
    <3> QED
      BY <2>1, <2>4, <3>1, <3>7
  <2> QED
    BY <2>2, <2>3, <2>4
<1>2. ServiceInv /\ FeedInv /\ [BlotterNext]_blotterVars
        => \A c \in Clients : ~LeavePage(c) =>
             \A i \in ids(buffer[c]) \ ids(buffer'[c]) :
                 /\ ~paused[c]
                 /\ i \in ids(store'[c]) \/ <<"capped", i>> \in missed'[c]
  BY <1>1
<1>3. ServiceInv /\ FeedInv /\ [BlotterNext]_blotterVars
        => [\A c \in Clients : ~LeavePage(c) =>
              \A i \in ids(buffer[c]) \ ids(buffer'[c]) :
                 /\ ~paused[c]
                 /\ i \in ids(store'[c]) \/ <<"capped", i>> \in missed'[c]]_blotterVars
  BY <1>2
<1> QED
  BY <1>3, FeedIsSound, ServiceInvariant, PTL DEF BlotterSpec, BufferLosesNothing
=============================================================================
