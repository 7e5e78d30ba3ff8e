------------------------- MODULE TradeServiceProofs -------------------------
(***************************************************************************)
(* Proofs about TradeService, for every set of columns and values, every   *)
(* start sequence and every bound. The last section shows that the backend *)
(* implements TradeLifecycle.                                              *)
(***************************************************************************)
EXTENDS TradeService, ListingProofs

-----------------------------------------------------------------------------
(* Lemmas about the operators of the model *)

\* The text order of ids is total on natural numbers.
LEMMA TextOrderTotal ==
    ASSUME NEW m \in Nat, NEW n \in Nat, m # n
    PROVE  TextLess(m, n) \/ TextLess(n, m)
BY SequenceAssumption DEF TextLess, TextKey

\* A bounded, nonempty set of ids has a greatest one in text order, the one
\* SELECT MAX(id) returns.
LEMMA GreatestText ==
    ASSUME NEW S \in SUBSET Nat, S # {},
           NEW b \in Nat, \A i \in S : i < b
    PROVE  \E i \in S : \A j \in S \ {i} : TextLess(j, i)
<1> DEFINE Bounds == {k \in Nat : \A i \in S : TextKey(i) <= k}
<1>1. ASSUME NEW i \in S PROVE TextKey(i) \in Nat /\ TextKey(i) <= 10 * b
  BY SequenceAssumption DEF TextKey
<1>2. 10 * b \in Bounds
  BY <1>1
<1>3. PICK k \in Bounds : \A l \in Bounds : k <= l
  <2>1. Bounds \in SUBSET Nat
    OBVIOUS
  <2> QED
    BY <2>1, <1>2, LeastNatural
<1>4. PICK i \in S : TextKey(i) = k
  <2> SUFFICES ASSUME \A i \in S : TextKey(i) # k PROVE FALSE
    OBVIOUS
  <2>1. \A i \in S : TextKey(i) <= k - 1 /\ k - 1 >= 0
    BY <1>1, <1>3
  <2>2. k \in Nat /\ k - 1 \in Nat
    <3>1. PICK i \in S : TRUE
      OBVIOUS
    <3>2. k \in Nat /\ k - 1 >= 0
      BY <2>1, <3>1, <1>3
    <3> QED
      BY <3>2
  <2>3. k - 1 \in Bounds
    BY <2>1, <2>2
  <2> QED
    BY <2>2, <2>3, <1>3
<1>5. PICK h \in S : TextKey(h) = k /\ \A j \in S : TextKey(j) = k => j <= h
  <2>1. ASSUME NEW j \in S, TextKey(j) = k, j # i
        PROVE  \A l \in S : TextKey(l) = k => l = i \/ l = j
    BY <2>1, <1>4, SequenceAssumption DEF TextKey
  <2>2. CASE \E j \in S : TextKey(j) = k /\ j > i
    BY <2>1, <2>2
  <2>3. CASE ~\E j \in S : TextKey(j) = k /\ j > i
    BY <2>3, <1>4
  <2> QED
    BY <2>2, <2>3
<1>6. ASSUME NEW j \in S \ {h} PROVE TextLess(j, h)
  <2>1. TextKey(j) <= k /\ (TextKey(j) = k => j < h)
    BY <1>3, <1>5
  <2> QED
    BY <2>1, <1>1, <1>5 DEF TextLess
<1> QED
  BY <1>5, <1>6

\* A status column exists, and a row has one of two statuses in it.
LEMMA StatusIsAField == "status" \in Fields
BY FieldsAssumption DEF Fields

\* What the validation of a request body leaves of it.
LEMMA AmendRequestShape ==
    ASSUME NEW dto \in AmendRequests
    PROVE  /\ DOMAIN dto \in SUBSET Fields
           /\ \A f \in DOMAIN dto : dto[f] \in FieldValues(f)
           /\ \A f \in DOMAIN dto : dto[f] \in Values \cup Statuses
<1>1. PICK S \in (SUBSET Fields) \ {{}} : dto \in [S -> Values \cup Statuses]
  BY DEF AmendRequests
<1> QED
  BY <1>1 DEF AmendRequests

\* A cancellation is an amendment of the status column alone.
LEMMA CancelRequestShape == ToCancelled \in AmendRequests
<1>1. ToCancelled \in [{"status"} -> Values \cup Statuses]
  BY DEF ToCancelled, Statuses
<1>2. {"status"} \in (SUBSET Fields) \ {{}}
  BY StatusIsAField
<1>3. ToCancelled["status"] \in FieldValues("status")
  BY DEF ToCancelled, FieldValues, Statuses
<1> QED
  BY <1>1, <1>2, <1>3 DEF AmendRequests

\* The UPDATE of a row yields a row.
LEMMA WithColumnsIsARow ==
    ASSUME NEW row \in Rows, NEW dto \in AmendRequests
    PROVE  WithColumns(row, dto) \in Rows
BY AmendRequestShape DEF WithColumns, Rows

\* A new trade is a row, and it is active.
LEMMA NewTradeIsARow ==
    ASSUME NEW dto \in CreateRequests
    PROVE  NewTrade(dto) \in Rows /\ NewTrade(dto)["status"] = "ACTIVE"
<1>1. \A f \in Fields : NewTrade(dto)[f] \in FieldValues(f)
  BY DEF CreateRequests, NewTrade, FieldValues, Statuses
<1>2. \A f \in Fields : FieldValues(f) \subseteq Values \cup Statuses
  BY DEF FieldValues
<1>3. NewTrade(dto) \in [Fields -> Values \cup Statuses]
  BY <1>1, <1>2 DEF NewTrade
<1> QED
  BY <1>1, <1>3, StatusIsAField DEF Rows, NewTrade

\* What diffTrade returns are audit entries of the trade, one per field of the
\* request whose text differs.
LEMMA DiffTradeShape ==
    ASSUME NEW i \in Nat, i \in DOMAIN trades, trades[i] \in Rows,
           NEW dto \in AmendRequests
    PROVE  diffTrade(i, dto) \subseteq AuditEntries
<1> SUFFICES ASSUME NEW f \in DOMAIN dto
             PROVE  AuditEntry(i, f, trades[i][f], dto[f]) \in AuditEntries
  BY DEF diffTrade
<1>1. f \in Fields /\ dto[f] \in Values \cup Statuses
  BY AmendRequestShape
<1>2. trades[i][f] \in Values \cup Statuses
  BY <1>1 DEF Rows
<1> QED
  BY <1>1, <1>2 DEF AuditEntry, AuditEntries

\* The entry of a cancellation is an audit entry.
LEMMA CancelEntryShape ==
    ASSUME NEW i \in Nat, trades[i] \in Rows
    PROVE  AuditEntry(i, "status", trades[i]["status"], "CANCELLED") \in AuditEntries
<1>1. trades[i]["status"] \in Values \cup Statuses
  BY StatusIsAField DEF Rows
<1>2. "CANCELLED" \in Values \cup Statuses
  BY DEF Statuses
<1> QED
  BY <1>1, <1>2, StatusIsAField DEF AuditEntry, AuditEntries

-----------------------------------------------------------------------------
(* The inductive invariant *)

\* There is a bound on the ids in use, so that SELECT MAX(id) has an answer.
IdsBounded == \E b \in Nat : \A i \in DOMAIN trades : i < b

OpenTransactions ==
    [open : {TRUE}, id : DOMAIN trades, fields : AmendRequests, updated : BOOLEAN,
     entries : SUBSET AuditEntries, trades : [DOMAIN trades -> Rows],
     trade_audit : Seq(AuditEntries)]

\* A transaction is open exactly while its handler runs; it revises one row, of
\* an active trade, and its working copy holds every other row unchanged.
TransactionOK ==
    IF job.phase = "transaction"
    THEN /\ tx \in OpenTransactions
         /\ trades[tx.id]["status"] = "ACTIVE"
         /\ \A j \in DOMAIN trades \ {tx.id} : tx.trades[j] = trades[j]
    ELSE tx = NoTransaction

TypeInv ==
    /\ DOMAIN trades \subseteq Nat
    /\ IdsBounded
    /\ trades \in [DOMAIN trades -> Rows]
    /\ trade_date \in [DOMAIN trades -> Nat]
    /\ trade_audit \in Seq(AuditEntries)
    /\ nextSequence \in Nat
    /\ now \in Nat
    /\ up \in BOOLEAN
    /\ job.phase \in {"idle", "loop", "transaction", "readback", "publish", "thrown"}
    /\ TransactionOK

\* The steps that read a row: to check it, or back after its commit.
Reads == ReadFails \/ ReadBack \/ ReadBackFails

\* A process that is down handles no request.
DownIsIdle == up \/ job = Idle

\* The invariant says all the property says.
LEMMA TypeInvGivesTypeOK == TypeInv => TypeOK
<1> SUFFICES ASSUME TypeInv PROVE tx.open <=> job.phase = "transaction"
  BY DEF TypeInv, TypeOK
<1>1. CASE job.phase = "transaction"
  BY <1>1 DEF TypeInv, TransactionOK, OpenTransactions
<1>2. CASE job.phase # "transaction"
  BY <1>2 DEF TypeInv, TransactionOK, NoTransaction
<1> QED
  BY <1>1, <1>2

\* The tables are empty and no handler runs before the first start.
LEMMA TypeInvInit == Init => TypeInv
<1> SUFFICES ASSUME Init PROVE TypeInv
  OBVIOUS
<1>1. DOMAIN trades = {} /\ trades = <<>> /\ trade_date = <<>> /\ trade_audit = <<>>
  BY DEF Init, RepoInit
<1>2. trades \in [DOMAIN trades -> Rows] /\ trade_date \in [DOMAIN trades -> Nat]
  BY <1>1
<1>3. IdsBounded
  BY <1>1 DEF IdsBounded
<1>4. TransactionOK
  BY DEF Init, RepoInit, TransactionOK, Idle
<1>5. trade_audit \in Seq(AuditEntries)
  BY <1>1
<1>6. nextSequence \in Nat /\ now \in Nat /\ up \in BOOLEAN /\ job.phase = "idle"
  BY DEF Init, RepoInit, Idle
<1> QED
  BY <1>1, <1>2, <1>3, <1>4, <1>5, <1>6 DEF TypeInv

\* createTrade keeps the invariant: the number it spends is new to the table,
\* or the INSERT fails and only the number is gone.
LEMMA CreateKeepsTypes ==
    ASSUME TypeInv, job.phase # "transaction",
           NEW dto \in CreateRequests, NEW left, createTrade(dto, left)
    PROVE  TypeInv'
<1> USE DEF TypeInv
<1> USE DEF Committed
<1>1. CASE Insert(NewTrade(dto)) /\ Committed("TRADE_CREATED", nextSequence, left - 1)
  <2>1. DOMAIN trades' = DOMAIN trades \cup {nextSequence}
    BY <1>1 DEF Insert
  <2>2. trades' \in [DOMAIN trades' -> Rows]
    BY <1>1, <2>1, NewTradeIsARow DEF Insert
  <2>3. trade_date' \in [DOMAIN trades' -> Nat]
    BY <1>1, <2>1 DEF Insert
  <2>4. IdsBounded'
    <3>1. PICK b \in Nat : \A i \in DOMAIN trades : i < b
      BY DEF IdsBounded
    <3>2. \A i \in DOMAIN trades' : i < b + nextSequence + 1
      BY <3>1, <2>1
    <3>3. b + nextSequence + 1 \in Nat
      OBVIOUS
    <3> QED
      BY <3>2, <3>3 DEF IdsBounded
  <2>5. TransactionOK'
    BY <1>1 DEF Insert, TransactionOK, NoTransaction
  <2> QED
    BY <1>1, <2>1, <2>2, <2>3, <2>4, <2>5 DEF Insert
<1>2. CASE InsertFails /\ Throw("SqliteError")
  BY <1>2 DEF InsertFails, Throw, tables, IdsBounded, TransactionOK, NoTransaction
<1> QED
  BY <1>1, <1>2 DEF createTrade

\* Steps that leave the repository alone and open no transaction.
LEMMA QuietStepKeepsTypes ==
    ASSUME TypeInv, job.phase # "transaction", UNCHANGED <<repoVars, up>>,
           job'.phase \in {"idle", "loop", "readback", "publish", "thrown"}
    PROVE  TypeInv'
BY DEF TypeInv, repoVars, TransactionOK, NoTransaction, IdsBounded

\* A handler that opens a transaction has a row of an active trade in hand.
LEMMA TransactKeepsTypes ==
    ASSUME TypeInv, NEW type, NEW i \in DOMAIN trades,
           trades[i]["status"] = "ACTIVE",
           NEW dto \in AmendRequests, NEW entries \in SUBSET AuditEntries,
           update(i, dto, entries), Transact(type, i)
    PROVE  TypeInv'
<1>1. tx' \in OpenTransactions
  BY DEF TypeInv, update, OpenTransactions
<1>2. TransactionOK'
  BY <1>1 DEF TypeInv, TransactionOK, update, Transact, tables, OpenTransactions
<1> QED
  BY <1>2 DEF TypeInv, Transact, tables, IdsBounded

\* The statements of a transaction touch the working copy only.
LEMMA StatementKeepsTypes ==
    ASSUME TypeInv, RunStatement
    PROVE  TypeInv'
<1>1. tx.open /\ job.phase = "transaction" /\ tx \in OpenTransactions
  BY TypeInvGivesTypeOK DEF TypeInv, TypeOK, TransactionOK, RunStatement, UpdateRow,
     InsertAuditRow
<1>2. CASE UpdateRow
  <2>1. WithColumns(tx.trades[tx.id], tx.fields) \in Rows
    BY <1>1, WithColumnsIsARow DEF OpenTransactions
  <2> DEFINE copy == [tx.trades EXCEPT ![tx.id] = WithColumns(tx.trades[tx.id], tx.fields)]
  <2>a. copy \in [DOMAIN trades -> Rows]
    BY <1>1, <2>1 DEF OpenTransactions
  <2>b. tx' = [tx EXCEPT !.updated = TRUE, !.trades = copy]
    BY <1>1, <1>2 DEF UpdateRow, OpenTransactions
  <2>2. tx' \in OpenTransactions
    <3> HIDE DEF copy
    <3> QED
      BY <1>1, <2>a, <2>b DEF OpenTransactions
  <2>3. tx'.id = tx.id /\ \A j \in DOMAIN trades \ {tx.id} : tx'.trades[j] = tx.trades[j]
    BY <1>1, <1>2 DEF UpdateRow, OpenTransactions
  <2> QED
    BY <1>1, <1>2, <2>2, <2>3
    DEF RunStatement, UpdateRow, TypeInv, TransactionOK, tables, serviceVars,
        IdsBounded, OpenTransactions
<1>3. CASE InsertAuditRow
  <2>1. PICK e \in tx.entries : tx' = [tx EXCEPT !.entries = @ \ {e},
                                                 !.trade_audit = Append(@, e)]
    BY <1>3 DEF InsertAuditRow
  <2> DEFINE rest == tx.entries \ {e}
             audit == Append(tx.trade_audit, e)
  <2>a. rest \in SUBSET AuditEntries /\ audit \in Seq(AuditEntries)
    BY <1>1, <2>1 DEF OpenTransactions
  <2>b. tx' = [tx EXCEPT !.entries = rest, !.trade_audit = audit]
    BY <2>1
  <2>2. tx' \in OpenTransactions
    <3> HIDE DEF rest, audit
    <3> QED
      BY <1>1, <2>a, <2>b DEF OpenTransactions
  <2>3. tx'.id = tx.id /\ tx'.trades = tx.trades
    BY <1>1, <2>1 DEF OpenTransactions
  <2> QED
    BY <1>1, <1>3, <2>2, <2>3
    DEF RunStatement, InsertAuditRow, TypeInv, TransactionOK, tables, serviceVars,
        IdsBounded, OpenTransactions
<1> QED
  BY <1>2, <1>3 DEF RunStatement

\* A commit installs the working copy and closes the transaction.
LEMMA FinishKeepsTypes ==
    ASSUME TypeInv, Finish
    PROVE  TypeInv'
<1>1. tx.open /\ job.phase = "transaction" /\ tx \in OpenTransactions
  BY TypeInvGivesTypeOK DEF TypeInv, TypeOK, TransactionOK, Finish, Commit
<1>2. DOMAIN trades' = DOMAIN trades /\ trades' \in [DOMAIN trades -> Rows]
  BY <1>1 DEF Finish, Commit, OpenTransactions
<1>3. trade_audit' \in Seq(AuditEntries)
  BY <1>1 DEF Finish, Commit, OpenTransactions
<1>4. job'.phase = "readback"
  BY DEF Finish, Committed
<1>5. TransactionOK'
  BY <1>4 DEF Finish, Commit, TransactionOK, NoTransaction
<1> QED
  BY <1>2, <1>3, <1>4, <1>5 DEF Finish, Commit, Committed, TypeInv, IdsBounded

\* A failed statement closes the transaction and leaves the tables alone.
LEMMA AbortKeepsTypes ==
    ASSUME TypeInv, Abort
    PROVE  TypeInv'
<1>1. job'.phase = "thrown"
  BY DEF Abort, Throw
<1>2. TransactionOK'
  BY <1>1 DEF Abort, Rollback, TransactionOK, NoTransaction
<1> QED
  BY <1>1, <1>2 DEF Abort, Rollback, Throw, tables, TypeInv, IdsBounded

\* A crash forgets memory and the open transaction.
LEMMA CrashKeepsTypes ==
    ASSUME TypeInv, Crash
    PROVE  TypeInv'
<1>1. job'.phase = "idle"
  BY DEF Crash, Idle
<1>2. TransactionOK'
  BY <1>1 DEF Crash, Die, TransactionOK, NoTransaction
<1> QED
  BY <1>1, <1>2 DEF Crash, Die, tables, TypeInv, IdsBounded

\* SELECT MAX(id) answers with the greatest id in text order, and the number to
\* resume at is a natural number.
MaxIdIsGreatest ==
    (DOMAIN trades \subseteq Nat /\ IdsBounded) =>
        /\ computeStartSequence \in Nat
        /\ DOMAIN trades # {} =>
             /\ MaxId \in DOMAIN trades
             /\ \A j \in DOMAIN trades \ {MaxId} : TextLess(j, MaxId)

\* The text order has a greatest id among those of a nonempty table.
LEMMA MaxIdExists == MaxIdIsGreatest
<1> SUFFICES ASSUME DOMAIN trades \subseteq Nat, IdsBounded
             PROVE  /\ computeStartSequence \in Nat
                    /\ DOMAIN trades # {} =>
                         /\ MaxId \in DOMAIN trades
                         /\ \A j \in DOMAIN trades \ {MaxId} : TextLess(j, MaxId)
  BY DEF MaxIdIsGreatest
<1>1. CASE DOMAIN trades = {}
  BY <1>1, SequenceAssumption DEF computeStartSequence
<1>2. CASE DOMAIN trades # {}
  <2>1. PICK b \in Nat : \A i \in DOMAIN trades : i < b
    BY DEF IdsBounded
  <2>2. \E i \in DOMAIN trades : \A j \in DOMAIN trades \ {i} : TextLess(j, i)
    BY <1>2, <2>1, GreatestText
  <2>3. /\ MaxId \in DOMAIN trades
        /\ \A j \in DOMAIN trades \ {MaxId} : TextLess(j, MaxId)
    BY <2>2 DEF MaxId
  <2> QED
    BY <1>2, <2>3 DEF computeStartSequence
<1> QED
  BY <1>1, <1>2

\* Start-up seeds an empty table and resumes the sequence.
LEMMA StartKeepsTypes ==
    ASSUME TypeInv, job.phase # "transaction", Start
    PROVE  TypeInv'
<1>1. /\ DOMAIN trades' \subseteq Nat
      /\ trades' \in [DOMAIN trades' -> Rows]
      /\ trade_date' \in [DOMAIN trades' -> Nat]
      /\ trade_audit' = trade_audit
      /\ IdsBounded'
  <2>1. CASE DOMAIN trades # {}
    BY <2>1 DEF TypeInv, Start, Open, seedIfEmpty, tables, IdsBounded
  <2>2. CASE DOMAIN trades = {}
    <3>1. /\ trades' \in [SeedIds -> Rows]
          /\ trade_date' \in [SeedIds -> 0 .. now]
          /\ trade_audit' = trade_audit
      BY <2>2 DEF Start, Open, seedIfEmpty
    <3>2. SeedIds \subseteq Nat /\ \A i \in SeedIds : i < StartSequence + SeedCount
      BY SequenceAssumption DEF SeedIds
    <3>3. 0 .. now \subseteq Nat
      BY DEF TypeInv
    <3>4. StartSequence + SeedCount \in Nat
      BY SequenceAssumption
    <3> QED
      BY <3>1, <3>2, <3>3, <3>4 DEF IdsBounded
  <2> QED
    BY <2>1, <2>2
<1>2. computeStartSequence' \in Nat
  <2>1. MaxIdIsGreatest'
    BY MaxIdExists, PTL
  <2> QED
    BY <1>1, <2>1 DEF MaxIdIsGreatest
<1>3. TransactionOK'
  BY DEF TypeInv, Start, Open, TransactionOK, NoTransaction
<1> QED
  BY <1>1, <1>2, <1>3 DEF TypeInv, Start, Open

\* Every step of the backend keeps the invariant.
LEMMA TypeInvStep == TypeInv /\ DownIsIdle /\ [Next]_vars => TypeInv'
<1> SUFFICES ASSUME TypeInv, DownIsIdle, [Next]_vars PROVE TypeInv'
  OBVIOUS
<1>1. CASE PostTrade
  <2>1. job.phase = "idle"
    BY <1>1 DEF PostTrade, idle, Idle
  <2> QED
    BY <1>1, <2>1, CreateKeepsTypes DEF PostTrade
<1>2. CASE PostRandomTrades
  <2>1. job.phase = "idle"
    BY <1>2 DEF PostRandomTrades, idle, Idle
  <2> QED
    BY <1>2, <2>1, CreateKeepsTypes DEF PostRandomTrades
<1>3. CASE NextRandomTrade
  BY <1>3, CreateKeepsTypes DEF NextRandomTrade
<1>4. CASE PatchTrade
  <2>1. PICK i \in DOMAIN trades, dto \in AmendRequests : amendTrade(i, dto)
    BY <1>4 DEF PatchTrade
  <2>2. job.phase = "idle" /\ trades[i] \in Rows /\ i \in Nat
    BY <1>4, <2>1 DEF PatchTrade, idle, Idle, TypeInv
  <2>3. CASE Refuse("TRADE_CANCELLED")
    BY <2>2, <2>3, QuietStepKeepsTypes DEF Refuse, Throw
  <2>4. CASE /\ trades[i]["status"] # "CANCELLED"
             /\ update(i, dto, diffTrade(i, dto))
             /\ Transact("TRADE_AMENDED", i)
    <3>1. trades[i]["status"] = "ACTIVE"
      BY <2>2, <2>4, StatusIsAField DEF Rows, FieldValues, Statuses
    <3>2. diffTrade(i, dto) \in SUBSET AuditEntries
      BY <2>2, DiffTradeShape
    <3> QED
      BY <2>4, <3>1, <3>2, TransactKeepsTypes
  <2> QED
    BY <2>1, <2>3, <2>4 DEF amendTrade
<1>5. CASE DeleteTrade
  <2>1. PICK i \in DOMAIN trades : cancelTrade(i)
    BY <1>5 DEF DeleteTrade
  <2>2. job.phase = "idle" /\ trades[i] \in Rows /\ i \in Nat
    BY <1>5, <2>1 DEF DeleteTrade, idle, Idle, TypeInv
  <2>3. CASE Refuse("TRADE_ALREADY_CANCELLED")
    BY <2>2, <2>3, QuietStepKeepsTypes DEF Refuse, Throw
  <2>4. CASE /\ trades[i]["status"] # "CANCELLED"
             /\ cancel(i)
             /\ Transact("TRADE_CANCELLED", i)
    <3>1. trades[i]["status"] = "ACTIVE"
      BY <2>2, <2>4, StatusIsAField DEF Rows, FieldValues, Statuses
    <3>2. {AuditEntry(i, "status", trades[i]["status"], "CANCELLED")}
            \in SUBSET AuditEntries
      BY <2>2, CancelEntryShape
    <3> QED
      BY <2>4, <3>1, <3>2, TransactKeepsTypes, CancelRequestShape DEF cancel
  <2> QED
    BY <2>1, <2>3, <2>4 DEF cancelTrade
<1>6. CASE RefuseUnknown
  BY <1>6, QuietStepKeepsTypes DEF RefuseUnknown, idle, Idle, Refuse, Throw
<1>7. CASE RunStatement
  BY <1>7, StatementKeepsTypes
<1>8. CASE Finish
  BY <1>8, FinishKeepsTypes
<1>9. CASE Abort
  BY <1>9, AbortKeepsTypes
<1>10. CASE Publish
  BY <1>10, QuietStepKeepsTypes DEF Publish, Idle
<1>11. CASE ErrorHandler
  BY <1>11, QuietStepKeepsTypes DEF ErrorHandler, Idle
<1>12. CASE Crash
  BY <1>12, CrashKeepsTypes
<1>13. CASE Start
  <2>1. job.phase # "transaction"
    BY <1>13 DEF Start, DownIsIdle, Idle
  <2> QED
    BY <1>13, <2>1, StartKeepsTypes
<1>14. CASE AdvanceClock
  <2>1. UNCHANGED <<trades, trade_date, trade_audit, tx, nextSequence, up, job>>
    BY <1>14 DEF AdvanceClock, Tick, tables, serviceVars
  <2>2. TransactionOK' /\ IdsBounded'
    BY <2>1 DEF TypeInv, TransactionOK, NoTransaction, OpenTransactions, IdsBounded
  <2>3. now' \in Nat
    BY <1>14 DEF AdvanceClock, Tick, TypeInv
  <2> QED
    BY <2>1, <2>2, <2>3 DEF TypeInv
<1>15. CASE Reads
  BY <1>15, QuietStepKeepsTypes
  DEF Reads, ReadFails, ReadBack, ReadBackFails, idle, Idle, Refuse, Throw
<1>16. CASE UNCHANGED vars
  BY <1>16 DEF vars, repoVars, serviceVars, TypeInv, TransactionOK,
     NoTransaction, OpenTransactions, IdsBounded
<1> QED
  BY <1>1, <1>2, <1>3, <1>4, <1>5, <1>6, <1>7, <1>8, <1>9, <1>10, <1>11, <1>12,
     <1>13, <1>14, <1>15, <1>16 DEF Next, Request, Handler, Reads

\* Only a crash takes the process down, and it ends every handler.
LEMMA DownIsIdleStep == TypeInv /\ DownIsIdle /\ [Next]_vars => DownIsIdle'
<1> SUFFICES ASSUME TypeInv, DownIsIdle, [Next]_vars PROVE DownIsIdle'
  OBVIOUS
<1>1. CASE Request
  BY <1>1 DEF Request, PostTrade, PostRandomTrades, PatchTrade, DeleteTrade,
     RefuseUnknown, ReadFails, idle, createTrade, Committed, amendTrade, cancelTrade,
     Transact, Refuse, Throw, DownIsIdle
<1>2. CASE Handler
  <2>1. CASE RunStatement
    BY <2>1 DEF RunStatement, serviceVars, DownIsIdle
  <2>2. CASE NextRandomTrade
    BY <2>2 DEF NextRandomTrade, createTrade, Committed, Throw, DownIsIdle, Idle
  <2>3. CASE Finish \/ Abort
    <3>1. job.phase = "transaction"
      BY <2>3, TypeInvGivesTypeOK
      DEF TypeOK, Finish, Commit, Abort, Rollback
    <3> QED
      BY <2>3, <3>1 DEF Finish, Committed, Abort, Throw, DownIsIdle, Idle
  <2>4. CASE ReadBack \/ ReadBackFails \/ Publish \/ ErrorHandler
    BY <2>4 DEF ReadBack, ReadBackFails, Refuse, Throw, Publish, ErrorHandler,
       DownIsIdle, Idle
  <2> QED
    BY <1>2, <2>1, <2>2, <2>3, <2>4 DEF Handler
<1>3. CASE Crash \/ Start \/ AdvanceClock \/ UNCHANGED vars
  BY <1>3 DEF Crash, Start, AdvanceClock, vars, serviceVars, DownIsIdle
<1> QED
  BY <1>1, <1>2, <1>3 DEF Next

-----------------------------------------------------------------------------
(* Theorems *)

\* The inductive invariant holds of every reachable state.
THEOREM TypeInvariant == Spec => [](TypeInv /\ DownIsIdle)
<1>1. Init => TypeInv /\ DownIsIdle
  BY TypeInvInit DEF Init, DownIsIdle
<1>2. (TypeInv /\ DownIsIdle) /\ [Next]_vars => (TypeInv /\ DownIsIdle)'
  BY TypeInvStep, DownIsIdleStep
<1> QED
  BY <1>1, <1>2, PTL DEF Spec

\* Every variable of the backend stays within its type, a transaction is open
\* exactly while its handler runs, and ids and sequence stay numbers, for every
\* set of columns, every seed and whatever fails or crashes (the tables and the
\* handlers of trade.repository.ts and trade.service.ts).
THEOREM TypeCorrectness == Spec => []TypeOK
BY TypeInvariant, TypeInvGivesTypeOK, PTL

\* No step deletes a trade or changes one that is cancelled.
LEMMA CancelledIsFinalStep ==
    ASSUME TypeInv, DownIsIdle, [Next]_vars, NEW i \in DOMAIN trades
    PROVE  /\ i \in DOMAIN trades'
           /\ trades[i]["status"] = "CANCELLED" => trades'[i] = trades[i]
<1>1. CASE \E dto \in CreateRequests : \E left : createTrade(dto, left)
  BY <1>1 DEF createTrade, Insert, InsertFails, tables
<1>2. CASE Finish
  <2>1. job.phase = "transaction" /\ tx \in OpenTransactions
    BY <1>2, TypeInvGivesTypeOK DEF TypeInv, TypeOK, TransactionOK, Finish, Commit
  <2>2. trades' = tx.trades /\ DOMAIN trades' = DOMAIN trades
    BY <1>2, <2>1 DEF Finish, Commit, OpenTransactions
  <2>3. trades[i]["status"] = "CANCELLED" => i # tx.id
    BY <2>1 DEF TypeInv, TransactionOK
  <2> QED
    BY <2>1, <2>2, <2>3 DEF TypeInv, TransactionOK
<1>3. CASE Start
  BY <1>3 DEF Start, Open, seedIfEmpty, tables
<1>4. CASE PatchTrade \/ DeleteTrade \/ RefuseUnknown \/ Reads \/ RunStatement \/ Abort
        \/ Publish \/ ErrorHandler \/ Crash \/ AdvanceClock \/ UNCHANGED vars
  <2>1. UNCHANGED trades
    BY <1>4 DEF PatchTrade, amendTrade, DeleteTrade, cancelTrade, Refuse, Transact,
       RefuseUnknown, Reads, ReadFails, ReadBack, ReadBackFails, RunStatement,
       UpdateRow, InsertAuditRow, Abort, Rollback,
       Publish, ErrorHandler, Crash, Die, AdvanceClock, Tick, vars, repoVars, tables
  <2> QED
    BY <2>1
<1>5. CASE PostTrade \/ PostRandomTrades \/ NextRandomTrade
  BY <1>1, <1>5 DEF PostTrade, PostRandomTrades, NextRandomTrade
<1> QED
  BY <1>2, <1>3, <1>4, <1>5 DEF Next, Request, Handler, Reads

\* A cancelled trade never changes again and no trade is ever deleted: the
\* guards of amendTrade and cancelTrade hold when the transaction they open
\* commits, because no other handler runs in between.
THEOREM CancelledStaysFinal == Spec => CancelledIsFinal
<1>1. TypeInv /\ DownIsIdle /\ [Next]_vars =>
        [\A i \in DOMAIN trades :
            /\ i \in DOMAIN trades'
            /\ trades[i]["status"] = "CANCELLED" => trades'[i] = trades[i]]_vars
  BY CancelledIsFinalStep
<1> QED
  BY <1>1, TypeInvariant, PTL DEF Spec, CancelledIsFinal

\* A number is spent before its row is there, and a start resumes above them all.
LEMMA FreshSequenceStep ==
    TypeInv /\ DownIsIdle /\ FreshSequence /\ [Next]_vars => FreshSequence'
<1> SUFFICES ASSUME TypeInv, DownIsIdle, FreshSequence, [Next]_vars, up',
                    \A i \in DOMAIN trades' : i < Rollover
             PROVE  \A i \in DOMAIN trades' : i < nextSequence'
  BY DEF FreshSequence
<1>1. CASE \E dto \in CreateRequests : \E left : createTrade(dto, left)
  <2>1. up
    BY <1>1 DEF createTrade, Committed, Throw
  <2>2. nextSequence' = nextSequence + 1 /\ nextSequence \in Nat
    BY <1>1 DEF createTrade, Insert, InsertFails, TypeInv
  <2>3. /\ DOMAIN trades \subseteq DOMAIN trades'
        /\ DOMAIN trades' \subseteq DOMAIN trades \cup {nextSequence}
    BY <1>1 DEF createTrade, Insert, InsertFails, tables
  <2>4. \A i \in DOMAIN trades : i < nextSequence
    BY <2>1, <2>3 DEF FreshSequence
  <2>5. DOMAIN trades \subseteq Nat
    BY DEF TypeInv
  <2>6. ASSUME NEW i \in DOMAIN trades' PROVE i < nextSequence + 1
    <3>1. CASE i \in DOMAIN trades
      BY <3>1, <2>2, <2>4, <2>5
    <3>2. CASE i = nextSequence
      BY <3>2, <2>2
    <3> QED
      BY <3>1, <3>2, <2>3
  <2> QED
    BY <2>2, <2>6
<1>2. CASE Start
  <2>1. TypeInv'
    BY <1>2, StartKeepsTypes DEF DownIsIdle, Start, Idle
  <2>2. MaxIdIsGreatest'
    BY MaxIdExists, PTL
  <2>3. DOMAIN trades' \subseteq Nat /\ IdsBounded'
    BY <2>1 DEF TypeInv
  <2>4. ASSUME NEW i \in DOMAIN trades' PROVE i < MaxId' + 1
    <3>1. MaxId' \in DOMAIN trades' /\ (i # MaxId' => TextLess(i, MaxId'))
      BY <2>2, <2>3 DEF MaxIdIsGreatest
    <3>2. i \in Nat /\ MaxId' \in Nat /\ i < Rollover /\ MaxId' < Rollover
      BY <3>1, <2>3
    <3> QED
      BY <3>1, <3>2, SequenceAssumption DEF TextLess, TextKey
  <2>5. nextSequence' = computeStartSequence'
    BY <1>2 DEF Start, Open
  <2> QED
    BY <2>4, <2>5 DEF computeStartSequence
<1>3. CASE \/ Finish
           \/ PatchTrade \/ DeleteTrade \/ RefuseUnknown \/ Reads \/ RunStatement \/ Abort
           \/ Publish \/ ErrorHandler \/ AdvanceClock \/ UNCHANGED vars
  <2>1. DOMAIN trades' = DOMAIN trades /\ UNCHANGED <<nextSequence, up>>
    <3>1. CASE Finish
      <4>1. tx \in OpenTransactions
        BY <3>1, TypeInvGivesTypeOK DEF TypeInv, TypeOK, TransactionOK, Finish, Commit
      <4> QED
        BY <3>1, <4>1 DEF Finish, Commit, Committed, OpenTransactions
    <3>2. CASE ~Finish
      BY <1>3, <3>2 DEF PatchTrade, amendTrade, DeleteTrade, cancelTrade, update,
         cancel, Refuse, Throw, Transact, RefuseUnknown, Reads, ReadFails, ReadBack,
         ReadBackFails, Committed, RunStatement, UpdateRow,
         InsertAuditRow, Abort, Rollback, Publish, ErrorHandler, AdvanceClock, Tick,
         vars, repoVars, serviceVars, tables
    <3> QED
      BY <3>1, <3>2
  <2> QED
    BY <2>1 DEF FreshSequence
<1>4. CASE Crash
  BY <1>4 DEF Crash
<1>5. CASE PostTrade \/ PostRandomTrades \/ NextRandomTrade
  BY <1>1, <1>5 DEF PostTrade, PostRandomTrades, NextRandomTrade
<1> QED
  BY <1>2, <1>3, <1>4, <1>5 DEF Next, Request, Handler, Reads

\* While ids keep SEQUENCE_WIDTH digits, text order is numeric order, so the
\* number computeStartSequence resumes at, and every number after it, is new.
THEOREM SequenceStaysFresh == Spec => []FreshSequence
<1>1. Init => FreshSequence
  BY DEF Init, FreshSequence
<1>2. (TypeInv /\ DownIsIdle) /\ FreshSequence /\ [Next]_vars => FreshSequence'
  BY FreshSequenceStep
<1> QED
  BY <1>1, <1>2, TypeInvariant, PTL DEF Spec

-----------------------------------------------------------------------------
(* The audit trail: that it is a chain from value to value in every         *)
(* reachable state, and that it says at most once that a trade was          *)
(* cancelled.  The invariant looks into an open transaction: there the      *)
(* trail of the working copy ends at the values the entries still to be     *)
(* written start from.                                                      *)

\* What the trail of a column of the working copy ends at: the new value once
\* no entry about it is left to write, the committed value until then.
TrailEnd(i, f) ==
    IF i = tx.id /\ f \in DOMAIN tx.fields /\ \A d \in tx.entries : d.field # f
    THEN String(tx.fields[f]) ELSE Text(i, f)

KnownTrades(audit) == \A k \in DOMAIN audit : audit[k].tradeId \in DOMAIN trades

\* An entry about the status records a cancellation.
IsCancellation(e) == e.oldValue = String("ACTIVE") /\ e.newValue = String("CANCELLED")
Cancellations(audit) ==
    \A k \in DOMAIN audit : audit[k].field = "status" => IsCancellation(audit[k])

\* The entries still to be written lead from the committed row to the new one,
\* one for each column.
EntriesOK ==
    /\ \A d \in tx.entries :
         /\ d.tradeId = tx.id
         /\ d.field \in DOMAIN tx.fields
         /\ d.oldValue = Text(tx.id, d.field)
         /\ d.newValue = String(tx.fields[d.field])
         /\ d.oldValue # d.newValue
         /\ d.field = "status" => IsCancellation(d)
    /\ \A d, e \in tx.entries : d.field = e.field => d = e

WorkingCopyOK ==
    /\ EntriesOK
    /\ tx.trades[tx.id] = IF tx.updated THEN WithColumns(trades[tx.id], tx.fields)
                          ELSE trades[tx.id]
    /\ KnownTrades(tx.trade_audit)
    /\ Cancellations(tx.trade_audit)
    /\ Chained(tx.trade_audit, TrailEnd)

AuditInv ==
    /\ KnownTrades(trade_audit)
    /\ Cancellations(trade_audit)
    /\ AuditChain
    /\ job.phase = "transaction" => WorkingCopyOK

-----------------------------------------------------------------------------

\* Steps that leave the rows of the audited trades and the trail alone, outside
\* a transaction.
LEMMA NoRevisionKeepsAudit ==
    ASSUME TypeInv, AuditInv, job'.phase # "transaction",
           UNCHANGED trade_audit, DOMAIN trades \subseteq DOMAIN trades',
           \A i \in DOMAIN trades : trades'[i] = trades[i]
    PROVE  AuditInv'
<1>1. KnownTrades(trade_audit)' /\ Cancellations(trade_audit)'
  BY DEF AuditInv, KnownTrades, Cancellations
<1>2. AuditChain'
  BY DEF AuditInv, AuditChain, Chained, Later, SameColumn, KnownTrades, Text
<1> QED
  BY <1>1, <1>2 DEF AuditInv

\* A request whose entries lead from the row to its new columns opens a
\* transaction whose trail ends where the committed one does.
LEMMA TransactKeepsAudit ==
    ASSUME TypeInv, AuditInv, NEW type, NEW i \in DOMAIN trades,
           trades[i]["status"] = "ACTIVE",
           NEW dto \in AmendRequests, NEW entries \in SUBSET AuditEntries,
           \A d \in entries :
               /\ d.tradeId = i
               /\ d.field \in DOMAIN dto
               /\ d.oldValue = Text(i, d.field)
               /\ d.newValue = String(dto[d.field])
               /\ d.oldValue # d.newValue,
           \A d, e \in entries : d.field = e.field => d = e,
           \A f \in DOMAIN dto :
               Text(i, f) # String(dto[f]) => \E d \in entries : d.field = f,
           update(i, dto, entries), Transact(type, i)
    PROVE  AuditInv'
<1>1. /\ tx'.id = i /\ tx'.fields = dto /\ tx'.entries = entries
      /\ tx'.updated = FALSE /\ tx'.trade_audit = trade_audit
      /\ UNCHANGED <<trades, trade_audit>> /\ job'.phase = "transaction"
  BY DEF update, Transact, tables
<1>2. ASSUME NEW d \in entries, d.field = "status" PROVE IsCancellation(d)
  <2>1. dto["status"] \in {"ACTIVE", "CANCELLED"}
    BY <1>2, AmendRequestShape DEF FieldValues, Statuses
  <2>2. d.oldValue = String("ACTIVE")
    BY <1>2 DEF Text
  <2> QED
    BY <1>2, <2>1, <2>2 DEF IsCancellation
<1>3. EntriesOK'
  BY <1>1, <1>2 DEF EntriesOK, Text, IsCancellation
<1>4. \A j, f : TrailEnd(j, f)' = Text(j, f)
  BY <1>1 DEF TrailEnd, Text
<1>5. Chained(tx.trade_audit, TrailEnd)'
  BY <1>1, <1>4 DEF Chained, Later, SameColumn, AuditInv, AuditChain
<1>6. KnownTrades(tx.trade_audit)' /\ Cancellations(tx.trade_audit)'
  BY <1>1 DEF AuditInv, KnownTrades, Cancellations
<1>7. AuditChain'
  BY <1>1 DEF AuditInv, AuditChain, Chained, Later, SameColumn, Text
<1>8. tx'.trades[tx'.id] = trades'[tx'.id]
  BY <1>1 DEF update
<1> QED
  BY <1>1, <1>3, <1>5, <1>6, <1>7, <1>8
  DEF AuditInv, WorkingCopyOK, KnownTrades, Cancellations

\* diffTrade yields such entries.
LEMMA DiffTradeLeads ==
    ASSUME NEW i \in Nat, NEW dto \in AmendRequests
    PROVE  /\ \A d \in diffTrade(i, dto) :
                /\ d.tradeId = i
                /\ d.field \in DOMAIN dto
                /\ d.oldValue = Text(i, d.field)
                /\ d.newValue = String(dto[d.field])
                /\ d.oldValue # d.newValue
           /\ \A d, e \in diffTrade(i, dto) : d.field = e.field => d = e
           /\ \A f \in DOMAIN dto :
                Text(i, f) # String(dto[f]) => \E d \in diffTrade(i, dto) : d.field = f
<1>1. ASSUME NEW d \in diffTrade(i, dto)
      PROVE  \E f \in DOMAIN dto : /\ Text(i, f) # String(dto[f])
                                   /\ d = AuditEntry(i, f, trades[i][f], dto[f])
  BY DEF diffTrade, Text
<1>2. ASSUME NEW f \in DOMAIN dto, Text(i, f) # String(dto[f])
      PROVE  AuditEntry(i, f, trades[i][f], dto[f]) \in diffTrade(i, dto)
  BY <1>2 DEF diffTrade, Text
<1>3. \A f : LET d == AuditEntry(i, f, trades[i][f], dto[f])
             IN  /\ d.tradeId = i /\ d.field = f
                 /\ d.oldValue = Text(i, f) /\ d.newValue = String(dto[f])
  BY DEF AuditEntry, Text
<1>4. \A d, e \in diffTrade(i, dto) : d.field = e.field => d = e
  BY <1>1, <1>3
<1> QED
  BY <1>1, <1>2, <1>3, <1>4

\* The UPDATE changes neither what is written nor what is to be written.
LEMMA UpdateRowKeepsAudit ==
    ASSUME TypeInv, AuditInv, UpdateRow, UNCHANGED job
    PROVE  AuditInv'
<1>1. job.phase = "transaction" /\ tx \in OpenTransactions
  BY TypeInvGivesTypeOK DEF TypeInv, TypeOK, TransactionOK, UpdateRow
<1>2. /\ tx'.id = tx.id /\ tx'.fields = tx.fields /\ tx'.entries = tx.entries
      /\ tx'.trade_audit = tx.trade_audit
      /\ UNCHANGED <<trades, trade_audit>>
  BY <1>1 DEF UpdateRow, OpenTransactions, tables
<1>3. tx'.trades[tx.id] = WithColumns(tx.trades[tx.id], tx.fields)
  BY <1>1 DEF UpdateRow, OpenTransactions
<1>4. tx.trades[tx.id] = trades[tx.id] /\ tx'.updated
  BY <1>1 DEF AuditInv, WorkingCopyOK, UpdateRow, OpenTransactions
<1>5. EntriesOK'
  BY <1>1, <1>2 DEF AuditInv, WorkingCopyOK, EntriesOK, Text, IsCancellation
<1>6. \A i, f : TrailEnd(i, f)' = TrailEnd(i, f)
  BY <1>2 DEF TrailEnd, Text
<1>7. /\ Chained(tx.trade_audit, TrailEnd)'
      /\ KnownTrades(tx.trade_audit)' /\ Cancellations(tx.trade_audit)'
  BY <1>1, <1>2, <1>6 DEF AuditInv, WorkingCopyOK, Chained, Later, SameColumn,
     KnownTrades, Cancellations
<1>8. KnownTrades(trade_audit)' /\ Cancellations(trade_audit)' /\ AuditChain'
  BY <1>2 DEF AuditInv, AuditChain, Chained, Later, SameColumn, Text,
     KnownTrades, Cancellations
<1>9. WorkingCopyOK'
  BY <1>2, <1>3, <1>4, <1>5, <1>7 DEF WorkingCopyOK
<1> QED
  BY <1>8, <1>9 DEF AuditInv

\* Writing an entry extends the chain: it starts from what the trail of its
\* column ended at, and the trail of that column then ends at its new value.
LEMMA InsertAuditRowKeepsAudit ==
    ASSUME TypeInv, AuditInv, InsertAuditRow, UNCHANGED job
    PROVE  AuditInv'
<1>1. job.phase = "transaction" /\ tx \in OpenTransactions /\ WorkingCopyOK
  BY TypeInvGivesTypeOK DEF TypeInv, TypeOK, TransactionOK, InsertAuditRow, AuditInv
<1>2. PICK e \in tx.entries : tx' = [tx EXCEPT !.entries = @ \ {e},
                                               !.trade_audit = Append(@, e)]
  BY DEF InsertAuditRow
<1>3. /\ tx'.id = tx.id /\ tx'.fields = tx.fields /\ tx'.trades = tx.trades
      /\ tx'.updated = tx.updated
      /\ tx'.entries = tx.entries \ {e}
      /\ tx'.trade_audit = Append(tx.trade_audit, e)
      /\ UNCHANGED <<trades, trade_audit>>
  BY <1>1, <1>2 DEF InsertAuditRow, OpenTransactions, tables
<1> DEFINE a == tx.trade_audit
           b == Append(a, e)
           n == Len(a) + 1
<1>4. /\ a \in Seq(AuditEntries) /\ Len(a) \in Nat
      /\ DOMAIN a = 1 .. Len(a) /\ DOMAIN b = 1 .. n
      /\ \A k \in 1 .. Len(a) : b[k] = a[k]
      /\ b[n] = e
  BY <1>1, <1>2 DEF OpenTransactions
<1>5. /\ e.tradeId = tx.id
      /\ e.field \in DOMAIN tx.fields
      /\ e.oldValue = Text(tx.id, e.field)
      /\ e.newValue = String(tx.fields[e.field])
      /\ e.oldValue # e.newValue
      /\ e.field = "status" => IsCancellation(e)
      /\ \A d \in tx.entries : d.field = e.field => d = e
  BY <1>1, <1>2 DEF WorkingCopyOK, EntriesOK
<1>6. TrailEnd(tx.id, e.field) = e.oldValue
  BY <1>5 DEF TrailEnd
<1>7. \A i, f : (i = tx.id /\ f = e.field) => TrailEnd(i, f)' = e.newValue
  BY <1>3, <1>5 DEF TrailEnd
<1>8. \A i, f : ~(i = tx.id /\ f = e.field) => TrailEnd(i, f)' = TrailEnd(i, f)
  BY <1>3 DEF TrailEnd, Text
<1>9. Chained(a, TrailEnd)
  BY <1>1 DEF WorkingCopyOK
<1>10. Chained(tx.trade_audit, TrailEnd)'
  <2>1. ASSUME NEW k \in DOMAIN b
        PROVE  /\ b[k].oldValue # b[k].newValue
               /\ Later(b, k) = {} =>
                    \A i, f : (i = b[k].tradeId /\ f = b[k].field) =>
                                b[k].newValue = TrailEnd(i, f)'
               /\ \A m \in Later(b, k) :
                    (\A p \in Later(b, k) : m <= p) => b[m].oldValue = b[k].newValue
    <3> HIDE DEF a, b, n
    <3>0. n = Len(a) + 1
      BY DEF n
    <3>1. CASE k = n
      <4>1. Later(b, k) = {}
        BY <1>4, <3>0, <3>1 DEF Later
      <4> QED
        BY <1>4, <1>5, <1>7, <3>1, <4>1
    <3>2. CASE k \in 1 .. Len(a) /\ ~SameColumn(e, a[k])
      <4>1. Later(b, k) = Later(a, k)
        BY <1>4, <3>0, <3>2 DEF Later
      <4>2. b[k] = a[k] /\ \A m \in Later(a, k) : b[m] = a[m]
        BY <1>4, <3>2 DEF Later
      <4>3. \A i, f : (i = b[k].tradeId /\ f = b[k].field) =>
                TrailEnd(i, f)' = TrailEnd(a[k].tradeId, a[k].field)
        BY <4>2, <1>5, <1>8, <3>2 DEF SameColumn
      <4> QED
        BY <1>4, <1>9, <3>2, <4>1, <4>2, <4>3 DEF Chained
    <3>3. CASE k \in 1 .. Len(a) /\ SameColumn(e, a[k])
      <4>1. Later(b, k) = Later(a, k) \cup {n}
        BY <1>4, <3>0, <3>3 DEF Later, SameColumn
      <4>2. b[k] = a[k] /\ \A m \in Later(a, k) : b[m] = a[m] /\ m < n /\ m \in Nat
        BY <1>4, <3>0, <3>3 DEF Later
      <4>3. ASSUME NEW m \in Later(b, k), \A p \in Later(b, k) : m <= p
            PROVE  b[m].oldValue = b[k].newValue
        <5>1. CASE m \in Later(a, k)
          BY <1>4, <1>9, <3>3, <4>1, <4>2, <4>3, <5>1 DEF Chained
        <5>2. CASE m = n
          <6>1. Later(a, k) = {}
            BY <1>4, <3>0, <4>1, <4>2, <4>3, <5>2
          <6>2. a[k].newValue = TrailEnd(a[k].tradeId, a[k].field)
            BY <1>4, <1>9, <3>3, <6>1 DEF Chained
          <6> QED
            BY <1>4, <1>5, <1>6, <3>3, <4>2, <5>2, <6>2 DEF SameColumn
        <5> QED
          BY <4>1, <5>1, <5>2
      <4> QED
        BY <1>4, <1>9, <3>3, <4>1, <4>2, <4>3 DEF Chained
    <3> QED
      BY <1>4, <3>0, <3>1, <3>2, <3>3
  <2> QED
    <3> HIDE DEF b
    <3>1. tx'.trade_audit = b
      BY <1>3 DEF b
    <3> QED
      BY <2>1, <3>1 DEF Chained, Later, SameColumn
<1>11. KnownTrades(tx.trade_audit)' /\ Cancellations(tx.trade_audit)'
  <2>1. tx.id \in DOMAIN trades
    BY <1>1 DEF OpenTransactions
  <2>2. ASSUME NEW k \in DOMAIN b
        PROVE  b[k].tradeId \in DOMAIN trades /\ (b[k].field = "status" => IsCancellation(b[k]))
    <3> HIDE DEF a, b
    <3>1. CASE k = n
      BY <1>4, <1>5, <2>1, <3>1
    <3>2. CASE k \in 1 .. Len(a)
      <4>1. KnownTrades(a) /\ Cancellations(a)
        BY <1>1 DEF WorkingCopyOK, a
      <4> QED
        BY <1>4, <3>2, <4>1 DEF KnownTrades, Cancellations
    <3> QED
      BY <1>4, <3>1, <3>2
  <2> QED
    BY <1>3, <2>2 DEF KnownTrades, Cancellations
<1>12. EntriesOK'
  BY <1>1, <1>3 DEF WorkingCopyOK, EntriesOK, Text, IsCancellation
<1>13. KnownTrades(trade_audit)' /\ Cancellations(trade_audit)' /\ AuditChain'
  BY <1>3 DEF AuditInv, AuditChain, Chained, Later, SameColumn, Text,
     KnownTrades, Cancellations
<1>14. WorkingCopyOK'
  BY <1>1, <1>3, <1>10, <1>11, <1>12 DEF WorkingCopyOK
<1> QED
  BY <1>13, <1>14 DEF AuditInv

\* At the commit nothing is left to write, so the trail of the working copy
\* ends at the columns of its row.
LEMMA FinishKeepsAudit ==
    ASSUME TypeInv, AuditInv, Finish
    PROVE  AuditInv'
<1>1. job.phase = "transaction" /\ tx \in OpenTransactions /\ WorkingCopyOK
  BY TypeInvGivesTypeOK DEF TypeInv, TypeOK, TransactionOK, Finish, Commit, AuditInv
<1>2. /\ trades' = tx.trades /\ trade_audit' = tx.trade_audit
      /\ tx.entries = {} /\ tx.updated
      /\ job'.phase = "readback"
      /\ DOMAIN tx.trades = DOMAIN trades
  BY <1>1 DEF Finish, Commit, Committed, OpenTransactions
<1>3. tx.id \in DOMAIN trades
  BY <1>1 DEF OpenTransactions
<1>4. ASSUME NEW i \in DOMAIN trades, NEW f \in Fields
      PROVE  TrailEnd(i, f) = Text(i, f)'
  <2>1. CASE i = tx.id
    <3>1. trades'[i] = WithColumns(trades[i], tx.fields)
      BY <1>1, <1>2, <2>1 DEF WorkingCopyOK
    <3>2. trades'[i][f] = IF f \in DOMAIN tx.fields THEN tx.fields[f] ELSE trades[i][f]
      BY <3>1 DEF WithColumns
    <3> QED
      BY <1>2, <2>1, <3>2 DEF TrailEnd, Text
  <2>2. CASE i # tx.id
    BY <1>1, <1>2, <2>2 DEF TypeInv, TransactionOK, TrailEnd, Text
  <2> QED
    BY <2>1, <2>2
<1>5. KnownTrades(trade_audit)' /\ Cancellations(trade_audit)'
  BY <1>1, <1>2 DEF WorkingCopyOK, KnownTrades, Cancellations
<1>6. \A k \in DOMAIN tx.trade_audit : /\ tx.trade_audit[k].tradeId \in DOMAIN trades
                                       /\ tx.trade_audit[k].field \in Fields
  <2>1. \A k \in DOMAIN tx.trade_audit : tx.trade_audit[k] \in AuditEntries
    BY <1>1 DEF OpenTransactions
  <2> QED
    BY <1>1, <2>1 DEF WorkingCopyOK, KnownTrades, AuditEntries
<1>7. Chained(tx.trade_audit, TrailEnd)
  BY <1>1 DEF WorkingCopyOK
<1>8. AuditChain'
  BY <1>2, <1>4, <1>6, <1>7 DEF AuditChain, Chained, Later, SameColumn
<1> QED
  BY <1>2, <1>5, <1>8 DEF AuditInv

\* Every step of the backend keeps the audit invariant.
LEMMA AuditInvStep == TypeInv /\ DownIsIdle /\ AuditInv /\ [Next]_vars => AuditInv'
<1> SUFFICES ASSUME TypeInv, DownIsIdle, AuditInv, [Next]_vars PROVE AuditInv'
  OBVIOUS
<1>1. CASE \E dto \in CreateRequests : \E left : createTrade(dto, left)
  <2>1. job'.phase # "transaction" /\ UNCHANGED trade_audit
    BY <1>1 DEF createTrade, Committed, Insert, InsertFails, Throw, tables
  <2>2. DOMAIN trades \subseteq DOMAIN trades' /\ \A i \in DOMAIN trades : trades'[i] = trades[i]
    BY <1>1 DEF createTrade, Insert, InsertFails, tables
  <2> QED
    BY <2>1, <2>2, NoRevisionKeepsAudit
<1>2. CASE PatchTrade
  <2>1. PICK i \in DOMAIN trades, dto \in AmendRequests : amendTrade(i, dto)
    BY <1>2 DEF PatchTrade
  <2>2. trades[i] \in Rows /\ i \in Nat
    BY <2>1 DEF TypeInv
  <2>3. CASE Refuse("TRADE_CANCELLED")
    BY <2>3, NoRevisionKeepsAudit DEF Refuse, Throw, repoVars
  <2>4. CASE /\ trades[i]["status"] # "CANCELLED"
             /\ update(i, dto, diffTrade(i, dto))
             /\ Transact("TRADE_AMENDED", i)
    <3>1. trades[i]["status"] = "ACTIVE"
      BY <2>2, <2>4, StatusIsAField DEF Rows, FieldValues, Statuses
    <3>2. diffTrade(i, dto) \in SUBSET AuditEntries
      BY <2>2, DiffTradeShape
    <3>3. PICK entries \in SUBSET AuditEntries : entries = diffTrade(i, dto)
      BY <3>2
    <3> QED
      BY <2>2, <2>4, <3>1, <3>3, DiffTradeLeads, TransactKeepsAudit
  <2> QED
    BY <2>1, <2>3, <2>4 DEF amendTrade
<1>3. CASE DeleteTrade
  <2>1. PICK i \in DOMAIN trades : cancelTrade(i)
    BY <1>3 DEF DeleteTrade
  <2>2. trades[i] \in Rows /\ i \in Nat
    BY <2>1 DEF TypeInv
  <2>3. CASE Refuse("TRADE_ALREADY_CANCELLED")
    BY <2>3, NoRevisionKeepsAudit DEF Refuse, Throw, repoVars
  <2>4. CASE /\ trades[i]["status"] # "CANCELLED"
             /\ cancel(i)
             /\ Transact("TRADE_CANCELLED", i)
    <3>1. trades[i]["status"] = "ACTIVE"
      BY <2>2, <2>4, StatusIsAField DEF Rows, FieldValues, Statuses
    <3> DEFINE entry == AuditEntry(i, "status", trades[i]["status"], "CANCELLED")
    <3>2. entry \in AuditEntries
      BY <2>2, CancelEntryShape
    <3>3. /\ entry.tradeId = i /\ entry.field = "status"
          /\ entry.oldValue = Text(i, "status")
          /\ entry.newValue = String(ToCancelled["status"])
          /\ entry.oldValue # entry.newValue
          /\ DOMAIN ToCancelled = {"status"}
      BY <3>1 DEF AuditEntry, Text, ToCancelled, String
    <3>4. PICK entries \in SUBSET AuditEntries : entries = {entry}
      BY <3>2
    <3>5. update(i, ToCancelled, entries)
      BY <2>4, <3>4 DEF cancel
    <3> HIDE DEF entry
    <3> QED
      BY <2>4, <3>1, <3>3, <3>4, <3>5, TransactKeepsAudit, CancelRequestShape
  <2> QED
    BY <2>1, <2>3, <2>4 DEF cancelTrade
<1>4. CASE RunStatement
  BY <1>4, UpdateRowKeepsAudit, InsertAuditRowKeepsAudit DEF RunStatement, serviceVars
<1>5. CASE Finish
  BY <1>5, FinishKeepsAudit
<1>6. CASE Start
  <2>1. /\ DOMAIN trades \subseteq DOMAIN trades'
        /\ \A i \in DOMAIN trades : trades'[i] = trades[i]
        /\ UNCHANGED trade_audit
    BY <1>6 DEF Start, Open, seedIfEmpty, tables
  <2>2. job'.phase # "transaction"
    BY <1>6 DEF Start, DownIsIdle, Idle
  <2> QED
    BY <2>1, <2>2, NoRevisionKeepsAudit
<1>7. CASE RefuseUnknown \/ Reads \/ Abort \/ Publish \/ ErrorHandler \/ Crash
  BY <1>7, NoRevisionKeepsAudit
  DEF RefuseUnknown, Reads, ReadFails, ReadBack, ReadBackFails, Refuse, Throw, Abort, Rollback, Publish, ErrorHandler, Crash,
      Die, Idle, repoVars, tables
<1>8. CASE AdvanceClock \/ UNCHANGED vars
  <2>1. UNCHANGED <<trades, trade_audit, tx, job>>
    BY <1>8 DEF AdvanceClock, Tick, tables, serviceVars, vars, repoVars
  <2>2. \A i, f : TrailEnd(i, f)' = TrailEnd(i, f) /\ Text(i, f)' = Text(i, f)
    BY <2>1 DEF TrailEnd, Text
  <2>3. WorkingCopyOK => WorkingCopyOK'
    BY <2>1, <2>2 DEF WorkingCopyOK, EntriesOK, Text, IsCancellation, KnownTrades,
       Cancellations, Chained, Later, SameColumn
  <2> QED
    BY <2>1, <2>2, <2>3 DEF AuditInv, AuditChain, Chained, Later, SameColumn,
       KnownTrades, Cancellations
<1>9. CASE PostTrade \/ PostRandomTrades \/ NextRandomTrade
  BY <1>1, <1>9 DEF PostTrade, PostRandomTrades, NextRandomTrade
<1> QED
  BY <1>2, <1>3, <1>4, <1>5, <1>6, <1>7, <1>8, <1>9 DEF Next, Request, Handler, Reads

\* In a chained trail of cancellations a trade is cancelled once: a second entry
\* about its status would have to start from CANCELLED.
LEMMA ChainGivesCancelledOnce ==
    ASSUME TypeInv, AuditInv
    PROVE  CancelledOnce
<1> SUFFICES ASSUME NEW k \in DOMAIN trade_audit, trade_audit[k].field = "status"
             PROVE  /\ trades[trade_audit[k].tradeId]["status"] = "CANCELLED"
                    /\ Later(trade_audit, k) = {}
  BY DEF CancelledOnce
<1>1. trade_audit[k].newValue = String("CANCELLED")
  BY DEF AuditInv, Cancellations, IsCancellation
<1>2. Later(trade_audit, k) = {}
  <2> SUFFICES ASSUME Later(trade_audit, k) # {} PROVE FALSE
    OBVIOUS
  <2>1. Later(trade_audit, k) \in SUBSET Nat
    BY DEF TypeInv, Later
  <2>2. PICK m \in Later(trade_audit, k) : \A p \in Later(trade_audit, k) : m <= p
    BY <2>1, LeastNatural
  <2>3. trade_audit[m].oldValue = String("CANCELLED")
    BY <1>1, <2>2 DEF AuditInv, AuditChain, Chained
  <2>4. trade_audit[m].oldValue = String("ACTIVE")
    BY <2>2 DEF AuditInv, Cancellations, IsCancellation, Later, SameColumn
  <2> QED
    BY <2>3, <2>4 DEF String
<1>3. String(trades[trade_audit[k].tradeId]["status"]) = String("CANCELLED")
  BY <1>1, <1>2 DEF AuditInv, AuditChain, Chained, Text
<1> QED
  BY <1>2, <1>3 DEF String

-----------------------------------------------------------------------------
(* Theorems *)

\* The audit invariant holds of every reachable state.
THEOREM AuditInvariant == Spec => []AuditInv
<1>1. Init => AuditInv
  BY DEF Init, RepoInit, AuditInv, KnownTrades, Cancellations, AuditChain, Chained, Idle
<1>2. (TypeInv /\ DownIsIdle) /\ AuditInv /\ [Next]_vars => AuditInv'
  BY AuditInvStep
<1> QED
  BY <1>1, <1>2, TypeInvariant, PTL DEF Spec

\* The audit trail of every column is an unbroken chain that ends at the value
\* the column holds, whatever statement fails and wherever the process dies
\* (the transactions of update and cancel in trade.repository.ts).
THEOREM AuditIsAChain == Spec => []AuditChain
BY AuditInvariant, PTL DEF AuditInv

\* A trade is cancelled at most once, through DELETE or PATCH, and the audit
\* says so once (the guards of amendTrade and cancelTrade).
THEOREM TradeIsCancelledOnce == Spec => []CancelledOnce
<1>1. TypeInv /\ AuditInv => CancelledOnce
  BY ChainGivesCancelledOnce
<1> QED
  BY <1>1, TypeInvariant, AuditInvariant, PTL

-----------------------------------------------------------------------------
(* That the change a handler commits is the change it is left with to       *)
(* broadcast.  The message is built from what the handler remembers across  *)
(* its transaction (the id and the kind of change) and the row read back    *)
(* after it, so the invariant ties the two together.                        *)

\* The running handler and its open transaction are about the same trade, and
\* the transaction of cancelTrade sets the status and nothing else.
JobMatchesTransaction ==
    job.phase = "transaction" =>
        /\ job.id = tx.id
        /\ job.type \in {"TRADE_AMENDED", "TRADE_CANCELLED"}
        /\ job.type = "TRADE_CANCELLED" => tx.fields = ToCancelled

\* A handler opens its transaction on its own trade, and nothing else changes it.
LEMMA JobMatchesStep ==
    TypeInv /\ DownIsIdle /\ JobMatchesTransaction /\ [Next]_vars
        => JobMatchesTransaction'
<1> SUFFICES ASSUME TypeInv, DownIsIdle, JobMatchesTransaction, [Next]_vars
             PROVE  JobMatchesTransaction'
  OBVIOUS
<1>1. CASE PatchTrade
  BY <1>1 DEF PatchTrade, amendTrade, update, Transact, Refuse, Throw,
     JobMatchesTransaction
<1>2. CASE DeleteTrade
  BY <1>2 DEF DeleteTrade, cancelTrade, cancel, update, Transact, Refuse, Throw,
     JobMatchesTransaction
<1>3. CASE RunStatement
  <2>1. tx.open /\ job.phase = "transaction" /\ tx \in OpenTransactions
    BY <1>3, TypeInvGivesTypeOK
    DEF TypeInv, TypeOK, TransactionOK, RunStatement, UpdateRow, InsertAuditRow
  <2>2. tx'.id = tx.id /\ tx'.fields = tx.fields
    BY <1>3, <2>1 DEF RunStatement, UpdateRow, InsertAuditRow, OpenTransactions
  <2> QED
    BY <1>3, <2>1, <2>2 DEF RunStatement, serviceVars, JobMatchesTransaction
<1>4. CASE \/ PostTrade \/ PostRandomTrades \/ NextRandomTrade \/ RefuseUnknown \/ Reads
           \/ Finish \/ Abort \/ Publish \/ ErrorHandler \/ Crash
  BY <1>4 DEF PostTrade, PostRandomTrades, NextRandomTrade, createTrade, Committed,
     RefuseUnknown, Reads, ReadFails, ReadBack, ReadBackFails, Refuse, Throw, Finish, Abort, Publish, ErrorHandler, Crash, Idle,
     JobMatchesTransaction
<1>5. CASE Start \/ AdvanceClock \/ UNCHANGED vars
  BY <1>5 DEF Start, Open, AdvanceClock, Tick, serviceVars, vars, repoVars,
     JobMatchesTransaction
<1> QED
  BY <1>1, <1>2, <1>3, <1>4, <1>5 DEF Next, Request, Handler, Reads

\* A change of a row, and what the handler that made it goes on with.
Announces(i) ==
    /\ job'.phase = "readback"
    /\ job'.id = i
    /\ job'.type = "TRADE_CREATED" <=> i \notin DOMAIN trades
    /\ job'.type = "TRADE_CANCELLED" =>
         trades'[i] = [trades[i] EXCEPT !["status"] = "CANCELLED"]

\* The trade a transaction changes is the one its handler goes on to read, and
\* a cancellation changed its status alone.
LEMMA FinishAnnounces ==
    ASSUME TypeInv, AuditInv, JobMatchesTransaction, Finish,
           NEW i \in DOMAIN trades', NewOrChanged(i)
    PROVE  Announces(i)
<1>1. job.phase = "transaction" /\ tx \in OpenTransactions /\ WorkingCopyOK
  BY TypeInvGivesTypeOK DEF TypeInv, TypeOK, TransactionOK, Finish, Commit, AuditInv
<1>2. /\ trades' = tx.trades /\ tx.updated
      /\ DOMAIN tx.trades = DOMAIN trades
  BY <1>1 DEF Finish, Commit, OpenTransactions
<1>3. i = tx.id /\ i = job.id /\ i \in DOMAIN trades
  BY <1>1, <1>2 DEF TypeInv, TransactionOK, JobMatchesTransaction, NewOrChanged
<1>4. trades'[i] = WithColumns(trades[i], tx.fields)
  BY <1>1, <1>2, <1>3 DEF WorkingCopyOK
<1>5. job'.phase = "readback" /\ job'.id = i /\ job'.type = job.type
  BY <1>3 DEF Finish, Committed
<1>6. job.type # "TRADE_CREATED"
  BY <1>1 DEF JobMatchesTransaction
<1>7. ASSUME job.type = "TRADE_CANCELLED"
      PROVE  trades'[i] = [trades[i] EXCEPT !["status"] = "CANCELLED"]
  <2>1. trades[i] \in Rows
    BY <1>3 DEF TypeInv
  <2>2. WithColumns(trades[i], ToCancelled) = [trades[i] EXCEPT !["status"] = "CANCELLED"]
    BY <2>1 DEF WithColumns, ToCancelled, Rows
  <2> QED
    BY <1>1, <1>4, <1>7, <2>2 DEF JobMatchesTransaction
<1> QED
  BY <1>3, <1>5, <1>6, <1>7 DEF Announces

\* The trade an INSERT adds is the one its handler goes on to read.
LEMMA CreateAnnounces ==
    ASSUME TypeInv, NEW dto \in CreateRequests, NEW left, createTrade(dto, left),
           NEW i \in DOMAIN trades', NewOrChanged(i)
    PROVE  Announces(i)
<1>1. CASE InsertFails
  BY <1>1 DEF InsertFails, tables, NewOrChanged
<1>2. CASE Insert(NewTrade(dto)) /\ Committed("TRADE_CREATED", nextSequence, left - 1)
  <2>1. i = nextSequence /\ nextSequence \notin DOMAIN trades
    BY <1>2 DEF Insert, NewOrChanged
  <2> QED
    BY <1>2, <2>1 DEF Committed, Announces
<1> QED
  BY <1>1, <1>2 DEF createTrade

\* Reading back leads to a broadcast or to an error answer.
ReadBackLeads ==
    (job.phase = "readback" /\ job' # job /\ up')
        => job'.phase \in {"publish", "thrown"}

\* A broadcast is of the row read back, under the type of what was done to it.
BroadcastIsOfTheRow ==
    (job'.phase = "publish" /\ job' # job) =>
        /\ job.phase = "readback"
        /\ job'.message = Announcement(job.type, job.id)
        /\ trades' = trades

\* From the commit of a row a handler goes nowhere but to the broadcast of it or
\* to an error answer.
LEMMA ReadBackStep ==
    ASSUME TypeInv, DownIsIdle, Next
    PROVE  ReadBackLeads /\ BroadcastIsOfTheRow
<1> USE DEF ReadBackLeads, BroadcastIsOfTheRow
<1>1. CASE Request
  <2>1. job = Idle
    BY <1>1 DEF Request, PostTrade, PostRandomTrades, PatchTrade, DeleteTrade,
       RefuseUnknown, ReadFails, idle
  <2>2. job'.phase # "publish"
    BY <1>1 DEF Request, PostTrade, PostRandomTrades, PatchTrade, DeleteTrade,
       RefuseUnknown, ReadFails, createTrade, Committed, amendTrade, cancelTrade,
       Transact, Refuse, Throw
  <2> QED
    BY <2>1, <2>2 DEF Idle
<1>2. CASE ReadBack
  BY <1>2 DEF ReadBack, repoVars, tables
<1>3. CASE ReadBackFails
  BY <1>3 DEF ReadBackFails, Refuse, Throw
<1>4. CASE Finish \/ Abort
  <2>1. job.phase = "transaction"
    BY <1>4, TypeInvGivesTypeOK DEF TypeOK, Finish, Commit, Abort, Rollback
  <2> QED
    BY <1>4, <2>1 DEF Finish, Committed, Abort, Throw
<1>5. CASE NextRandomTrade \/ Publish \/ ErrorHandler
  BY <1>5 DEF NextRandomTrade, createTrade, Committed, Throw, Publish, ErrorHandler, Idle
<1>6. CASE Crash \/ Start
  BY <1>6 DEF Crash, Start, Idle
<1>7. CASE RunStatement \/ AdvanceClock
  BY <1>7 DEF RunStatement, AdvanceClock, serviceVars
<1> QED
  BY <1>1, <1>2, <1>3, <1>4, <1>5, <1>6, <1>7 DEF Next, Handler

-----------------------------------------------------------------------------
(* Theorem *)

\* Whatever a handler commits, an insert, an amendment or a cancellation, it goes
\* on to read back, and then it broadcasts exactly the committed row or answers
\* with an error; nothing else is ever broadcast (createTrade, amendTrade and
\* cancelTrade in trade.service.ts over the read-backs of trade.repository.ts).
THEOREM CommitsAreAnnounced == Spec => EveryCommitIsAnnouncedOrFails
<1> DEFINE Told == \A i \in DOMAIN trades' : (up /\ NewOrChanged(i)) => Announces(i)
<1>1. Init => JobMatchesTransaction
  BY DEF Init, Idle, JobMatchesTransaction
<1>2. TypeInv /\ DownIsIdle /\ AuditInv /\ JobMatchesTransaction /\ [Next]_vars
        => [Told /\ ReadBackLeads /\ BroadcastIsOfTheRow]_vars
  <2> SUFFICES ASSUME TypeInv, DownIsIdle, AuditInv, JobMatchesTransaction, Next
               PROVE  Told /\ ReadBackLeads /\ BroadcastIsOfTheRow
    OBVIOUS
  <2>1. ASSUME up, NEW i \in DOMAIN trades', NewOrChanged(i) PROVE Announces(i)
    <3>1. CASE \E dto \in CreateRequests : \E left : createTrade(dto, left)
      BY <2>1, <3>1, CreateAnnounces
    <3>2. CASE PostTrade \/ PostRandomTrades \/ NextRandomTrade
      BY <3>1, <3>2 DEF PostTrade, PostRandomTrades, NextRandomTrade
    <3>3. CASE Finish
      BY <2>1, <3>3, FinishAnnounces
    <3>4. CASE \/ PatchTrade \/ DeleteTrade \/ RefuseUnknown \/ Reads \/ RunStatement
               \/ Abort \/ Publish \/ ErrorHandler \/ Crash \/ AdvanceClock
      <4>1. UNCHANGED trades
        BY <3>4 DEF PatchTrade, amendTrade, DeleteTrade, cancelTrade, Refuse, Transact,
           RefuseUnknown, Reads, ReadFails, ReadBack, ReadBackFails, RunStatement,
           UpdateRow, InsertAuditRow, Abort, Rollback, Publish, ErrorHandler, Crash,
           Die, AdvanceClock, Tick, repoVars, tables
      <4> QED
        BY <2>1, <4>1 DEF NewOrChanged
    <3>5. CASE Start
      BY <2>1, <3>5 DEF Start
    <3> QED
      BY <3>2, <3>3, <3>4, <3>5 DEF Next, Request, Handler, Reads
  <2> QED
    BY <2>1, ReadBackStep
<1>3. [Told /\ ReadBackLeads /\ BroadcastIsOfTheRow]_vars =>
        [/\ \A i \in DOMAIN trades' : up /\ NewOrChanged(i) =>
            /\ job'.phase = "readback" /\ job'.id = i
            /\ job'.type = "TRADE_CREATED" <=> i \notin DOMAIN trades
            /\ job'.type = "TRADE_CANCELLED" =>
                 trades'[i] = [trades[i] EXCEPT !["status"] = "CANCELLED"]
         /\ job.phase = "readback" /\ job' # job /\ up' =>
              job'.phase \in {"publish", "thrown"}
         /\ job'.phase = "publish" /\ job' # job =>
              /\ job.phase = "readback"
              /\ job'.message = Announcement(job.type, job.id)
              /\ trades' = trades]_vars
  BY DEF Announces, ReadBackLeads, BroadcastIsOfTheRow
<1>4. Spec => []JobMatchesTransaction
  BY <1>1, JobMatchesStep, TypeInvariant, PTL DEF Spec
<1> HIDE DEF Told
<1> QED
  BY <1>2, <1>3, <1>4, TypeInvariant, AuditInvariant, PTL
  DEF Spec, EveryCommitIsAnnouncedOrFails

-----------------------------------------------------------------------------
(* The journals of the columns, and the refinement of TradeLifecycle *)

\* What one more audit row adds to the journals.
LEMMA JournalOfAppend ==
    ASSUME NEW audit \in Seq(AuditEntries), NEW e \in AuditEntries, NEW i, NEW f
    PROVE  Journal(Append(audit, e), i, f) =
             IF e.tradeId = i /\ e.field = f
             THEN Append(Journal(audit, i, f), <<e.oldValue, e.newValue>>)
             ELSE Journal(audit, i, f)
<1> DEFINE About(s) == {k \in DOMAIN s : s[k].tradeId = i /\ s[k].field = f}
           P == About(audit)
           b == Append(audit, e)
           r == Kept(audit, P)
           Texts(s) == [k \in DOMAIN s |-> <<s[k].oldValue, s[k].newValue>>]
<1> DEFINE pair == <<e.oldValue, e.newValue>>
           D == {<<d.oldValue, d.newValue>> : d \in AuditEntries}
<1>1. PICK l \in Nat, n \in Nat : l = Len(audit) /\ n = l + 1
  OBVIOUS
<1>2. /\ DOMAIN audit = 1 .. l
      /\ DOMAIN b = 1 .. n
      /\ b[n] = e /\ \A k \in 1 .. l : b[k] = audit[k]
  BY <1>1
<1>3. P \in SUBSET (1 .. l)
  BY <1>2
<1>4. PICK c \in Nat :
        /\ r \in Seq(AuditEntries)
        /\ DOMAIN r = 1 .. c
        /\ Kept(b, P) = r
        /\ Kept(b, P \cup {n}) = [k \in 1 .. c + 1 |-> IF k = c + 1 THEN e ELSE r[k]]
  <2>1. r \in Seq(AuditEntries)
    BY <1>2, <1>3, KeptIsTheFilter
  <2>2. n = l + 1 /\ \A k \in 1 .. l : b[k] = audit[k]
    BY <1>1, <1>2
  <2> HIDE DEF b, P
  <2>3. Kept(b, P) = Kept(audit, P) /\ Followed(Kept(b, P \cup {n}), Kept(audit, P), b[n])
    BY <1>1, <1>3, <2>2, KeptOfLonger
  <2> QED
    BY <1>2, <2>1, <2>3 DEF Followed
<1>5. About(b) = IF e.tradeId = i /\ e.field = f THEN P \cup {n} ELSE P
  BY <1>1, <1>2
<1>6. Texts(Kept(b, P \cup {n})) = Append(Texts(r), pair)
  <2> HIDE DEF r, b, P
  <2>1. DOMAIN r = 1 .. c /\ \A k \in 1 .. c : r[k] \in AuditEntries
    BY <1>4
  <2>2. pair \in D /\ Texts(r) \in Seq(D) /\ Len(Texts(r)) = c
    <3>1. pair \in D /\ \A k \in 1 .. c : <<r[k].oldValue, r[k].newValue>> \in D
      BY <2>1
    <3>2. Texts(r) = [k \in 1 .. c |-> <<r[k].oldValue, r[k].newValue>>]
      BY <2>1
    <3> HIDE DEF D, pair, Texts
    <3>3. Texts(r) \in [1 .. c -> D]
      BY <3>1, <3>2
    <3> QED
      BY <1>4, <3>1, <3>3
  <2>3. Append(Texts(r), pair) =
          [k \in 1 .. c + 1 |-> IF k = c + 1 THEN pair ELSE Texts(r)[k]]
    <3> HIDE DEF Texts, pair, D
    <3> QED
      BY <2>2, AppendIsAFunction
  <2>4. \A k \in 1 .. c + 1 : k = c + 1 \/ k \in 1 .. c
    BY <1>4
  <2>5. \A k \in 1 .. c : Texts(r)[k] = <<r[k].oldValue, r[k].newValue>>
    BY <2>1
  <2>6. DOMAIN Kept(b, P \cup {n}) = 1 .. c + 1
    BY <1>4
  <2>7. \A k \in 1 .. c + 1 :
          <<Kept(b, P \cup {n})[k].oldValue, Kept(b, P \cup {n})[k].newValue>> =
             IF k = c + 1 THEN pair ELSE Texts(r)[k]
    <3> HIDE DEF Texts
    <3> QED
      BY <1>4, <2>4, <2>5
  <2>8. Texts(Kept(b, P \cup {n})) =
          [k \in 1 .. c + 1 |-> IF k = c + 1 THEN pair ELSE Texts(r)[k]]
    BY <2>6, <2>7
  <2> QED
    BY <2>3, <2>8
<1>7. Journal(audit, i, f) = Texts(r) /\ Journal(b, i, f) = Texts(Kept(b, About(b)))
  BY DEF Journal
<1> HIDE DEF Texts, r, P, About
<1> QED
  BY <1>4, <1>5, <1>6, <1>7

\* A trade no audit row is about has empty journals.
LEMMA JournalOfNobody ==
    ASSUME NEW audit \in Seq(AuditEntries), NEW i, NEW f,
           \A k \in DOMAIN audit : audit[k].tradeId # i
    PROVE  Journal(audit, i, f) = <<>>
<1> DEFINE P == {k \in DOMAIN audit : audit[k].tradeId = i /\ audit[k].field = f}
<1>1. P = {}
  OBVIOUS
<1>2. Cardinality({}) = 0
  BY FS_EmptySet
<1>3. Kept(audit, P) = [n \in 1 .. 0 |-> audit[Listed({}, Rising({}))[n]]]
  BY <1>1, <1>2 DEF Kept
<1>4. DOMAIN Kept(audit, P) = {}
  BY <1>3
<1>5. Journal(audit, i, f) = [k \in {} |-> <<Kept(audit, P)[k].oldValue,
                                              Kept(audit, P)[k].newValue>>]
  BY <1>4 DEF Journal
<1> QED
  BY <1>5

\* The columns of the open transaction whose entry is written already.
Written(i, f) ==
    /\ i = tx.id
    /\ f \in DOMAIN tx.fields
    /\ String(tx.fields[f]) # Text(i, f)
    /\ \A d \in tx.entries : d.field # f

\* In the working copy the journal of such a column is one change longer than
\* the committed one, and every other journal is the committed one.
JournalsOK ==
    \A i \in DOMAIN trades, f \in Fields :
        Journal(tx.trade_audit, i, f) =
            IF Written(i, f)
            THEN Append(Journal(trade_audit, i, f), <<Text(i, f), String(tx.fields[f])>>)
            ELSE Journal(trade_audit, i, f)

JournalInv == job.phase = "transaction" => JournalsOK

\* A transaction that has just begun has written no entry.
LEMMA TransactKeepsJournals ==
    ASSUME NEW type, NEW i, NEW dto, NEW entries,
           \A f \in DOMAIN dto :
               Text(i, f) # String(dto[f]) => \E d \in entries : d.field = f,
           update(i, dto, entries), Transact(type, i)
    PROVE  JournalInv'
<1>1. /\ tx'.id = i /\ tx'.fields = dto /\ tx'.entries = entries
      /\ tx'.trade_audit = trade_audit
      /\ UNCHANGED <<trades, trade_audit>>
  BY DEF update, Transact, tables
<1>2. \A j, f : Written(j, f)' = FALSE
  BY <1>1 DEF Written, Text
<1> QED
  BY <1>1, <1>2 DEF JournalInv, JournalsOK

\* Steps that write no entry leave the journals alone.
LEMMA SteadyTransactionKeepsJournals ==
    ASSUME JournalInv, UNCHANGED <<trades, trade_audit, job>>,
           job.phase = "transaction" =>
               /\ tx'.id = tx.id /\ tx'.fields = tx.fields /\ tx'.entries = tx.entries
               /\ tx'.trade_audit = tx.trade_audit
    PROVE  JournalInv'
<1> SUFFICES ASSUME job.phase = "transaction" PROVE JournalsOK'
  BY DEF JournalInv
<1>1. \A i, f : Written(i, f)' = Written(i, f) /\ Text(i, f)' = Text(i, f)
  BY DEF Written, Text
<1> QED
  BY <1>1 DEF JournalInv, JournalsOK

\* One INSERT into trade_audit adds its change to the journal of its column, and
\* to no other.
LEMMA InsertAuditRowKeepsJournals ==
    ASSUME TypeInv, AuditInv, JournalInv, InsertAuditRow, UNCHANGED job
    PROVE  JournalInv'
<1>1. job.phase = "transaction" /\ tx \in OpenTransactions /\ WorkingCopyOK /\ JournalsOK
  BY TypeInvGivesTypeOK
  DEF TypeInv, TypeOK, TransactionOK, InsertAuditRow, AuditInv, JournalInv
<1>2. PICK e \in tx.entries : tx' = [tx EXCEPT !.entries = @ \ {e},
                                               !.trade_audit = Append(@, e)]
  BY DEF InsertAuditRow
<1>3. /\ tx'.id = tx.id /\ tx'.fields = tx.fields
      /\ tx'.entries = tx.entries \ {e}
      /\ tx'.trade_audit = Append(tx.trade_audit, e)
      /\ UNCHANGED <<trades, trade_audit>>
  BY <1>1, <1>2 DEF InsertAuditRow, OpenTransactions, tables
<1>4. /\ e.tradeId = tx.id
      /\ e.field \in DOMAIN tx.fields
      /\ e.oldValue = Text(tx.id, e.field)
      /\ e.newValue = String(tx.fields[e.field])
      /\ e.oldValue # e.newValue
      /\ \A d \in tx.entries : d.field = e.field => d = e
  BY <1>1, <1>2 DEF WorkingCopyOK, EntriesOK
<1>5. tx.trade_audit \in Seq(AuditEntries) /\ e \in AuditEntries
  BY <1>1, <1>2 DEF OpenTransactions
<1>6. ASSUME NEW i \in DOMAIN trades, NEW f \in Fields
      PROVE  Journal(tx'.trade_audit, i, f) =
               IF Written(i, f)'
               THEN Append(Journal(trade_audit, i, f), <<Text(i, f), String(tx.fields[f])>>)
               ELSE Journal(trade_audit, i, f)
  <2>1. CASE i = e.tradeId /\ f = e.field
    <3>1. ~Written(i, f)
      BY <1>2, <2>1 DEF Written
    <3>2. Written(i, f)'
      BY <1>3, <1>4, <2>1 DEF Written, Text
    <3>3. Journal(tx.trade_audit, i, f) = Journal(trade_audit, i, f)
      BY <1>1, <3>1 DEF JournalsOK
    <3>4. Journal(Append(tx.trade_audit, e), i, f) =
             Append(Journal(tx.trade_audit, i, f), <<e.oldValue, e.newValue>>)
      BY <1>5, <2>1, JournalOfAppend
    <3> QED
      BY <1>3, <1>4, <2>1, <3>2, <3>3, <3>4
  <2>2. CASE ~(i = e.tradeId /\ f = e.field)
    <3>1. Written(i, f)' = Written(i, f)
      BY <1>3, <1>4, <2>2 DEF Written, Text
    <3>2. Journal(Append(tx.trade_audit, e), i, f) = Journal(tx.trade_audit, i, f)
      BY <1>5, <2>2, JournalOfAppend
    <3> QED
      BY <1>1, <1>3, <3>1, <3>2 DEF JournalsOK
  <2> QED
    BY <2>1, <2>2
<1>7. \A i, f : Text(i, f)' = Text(i, f)
  BY <1>3 DEF Text
<1>8. JournalsOK'
  BY <1>3, <1>6, <1>7 DEF JournalsOK
<1> QED
  BY <1>8 DEF JournalInv

\* Every step of the backend keeps what is known of the journals.
LEMMA JournalInvStep ==
    TypeInv /\ DownIsIdle /\ AuditInv /\ JournalInv /\ [Next]_vars => JournalInv'
<1> SUFFICES ASSUME TypeInv, DownIsIdle, AuditInv, JournalInv, [Next]_vars
             PROVE  JournalInv'
  OBVIOUS
<1>1. CASE PatchTrade
  <2>1. PICK i \in DOMAIN trades, dto \in AmendRequests : amendTrade(i, dto)
    BY <1>1 DEF PatchTrade
  <2>2. CASE Refuse("TRADE_CANCELLED")
    BY <2>2 DEF Refuse, Throw, JournalInv
  <2>3. CASE update(i, dto, diffTrade(i, dto)) /\ Transact("TRADE_AMENDED", i)
    <3>1. i \in Nat
      BY DEF TypeInv
    <3>2. PICK entries : entries = diffTrade(i, dto)
      OBVIOUS
    <3> QED
      BY <2>3, <3>1, <3>2, DiffTradeLeads, TransactKeepsJournals
  <2> QED
    BY <2>1, <2>2, <2>3 DEF amendTrade
<1>2. CASE DeleteTrade
  <2>1. PICK i \in DOMAIN trades : cancelTrade(i)
    BY <1>2 DEF DeleteTrade
  <2>2. CASE Refuse("TRADE_ALREADY_CANCELLED")
    BY <2>2 DEF Refuse, Throw, JournalInv
  <2>3. CASE cancel(i) /\ Transact("TRADE_CANCELLED", i)
    <3>1. PICK entries :
            entries = {AuditEntry(i, "status", trades[i]["status"], "CANCELLED")}
      OBVIOUS
    <3>2. \A f \in DOMAIN ToCancelled : \E d \in entries : d.field = f
      BY <3>1 DEF ToCancelled, AuditEntry
    <3>3. update(i, ToCancelled, entries)
      BY <2>3, <3>1 DEF cancel
    <3> QED
      BY <2>3, <3>2, <3>3, TransactKeepsJournals
  <2> QED
    BY <2>1, <2>2, <2>3 DEF cancelTrade
<1>3. CASE RunStatement
  <2>1. CASE UpdateRow
    <3>1. tx.open /\ tx \in OpenTransactions
      BY <2>1, TypeInvGivesTypeOK DEF TypeInv, TypeOK, TransactionOK, UpdateRow
    <3>2. /\ tx'.id = tx.id /\ tx'.fields = tx.fields /\ tx'.entries = tx.entries
          /\ tx'.trade_audit = tx.trade_audit
      BY <2>1, <3>1 DEF UpdateRow, OpenTransactions
    <3> QED
      BY <1>3, <2>1, <3>2, SteadyTransactionKeepsJournals
      DEF RunStatement, UpdateRow, tables, serviceVars
  <2> QED
    BY <1>3, <2>1, InsertAuditRowKeepsJournals DEF RunStatement, serviceVars
<1>4. CASE \/ PostTrade \/ PostRandomTrades \/ NextRandomTrade \/ RefuseUnknown \/ Reads
           \/ Finish \/ Abort \/ Publish \/ ErrorHandler \/ Crash
  BY <1>4 DEF PostTrade, PostRandomTrades, NextRandomTrade, createTrade, Committed,
     RefuseUnknown, Reads, ReadFails, ReadBack, ReadBackFails, Refuse, Throw, Finish, Abort, Publish, ErrorHandler, Crash, Idle, JournalInv
<1>5. CASE Start
  BY <1>5 DEF Start, DownIsIdle, Idle, JournalInv
<1>6. CASE AdvanceClock \/ UNCHANGED vars
  BY <1>6, SteadyTransactionKeepsJournals
  DEF AdvanceClock, Tick, tables, serviceVars, vars, repoVars
<1> QED
  BY <1>1, <1>2, <1>3, <1>4, <1>5, <1>6 DEF Next, Request, Handler, Reads

\* The journals TradeLifecycle speaks of, of given tables.
Journals(rows, audit) ==
    [i \in DOMAIN rows |-> [f \in Fields |-> Journal(audit, i, f)]]

\* The empty tables are an empty book.
LEMMA LifecycleInit == Init => Lifecycle!Init
<1> SUFFICES ASSUME Init PROVE Lifecycle!Init
  OBVIOUS
<1>1. trades = <<>> /\ DOMAIN trades = {}
  BY DEF Init, RepoInit
<1>2. Journals(trades, trade_audit) = <<>>
  BY <1>1 DEF Journals
<1> QED
  BY <1>1, <1>2 DEF Lifecycle!Init, Journals

\* A number that was never in the table has no journal.
LEMMA NoJournalOfUnknown ==
    ASSUME TypeInv, AuditInv, NEW i, i \notin DOMAIN trades, NEW f
    PROVE  Journal(trade_audit, i, f) = <<>>
<1>1. PICK audit : audit = trade_audit
  OBVIOUS
<1>2. \A k \in DOMAIN audit : audit[k].tradeId # i
  BY <1>1 DEF AuditInv, KnownTrades
<1>3. audit \in Seq(AuditEntries)
  BY <1>1 DEF TypeInv, TypeOK
<1>4. Journal(audit, i, f) = <<>>
  BY <1>2, <1>3, JournalOfNobody
<1> QED
  BY <1>1, <1>4

\* An INSERT into trades enters a trade with an empty journal, or fails and
\* changes nothing.
LEMMA CreateEnters ==
    ASSUME TypeInv, AuditInv, NEW dto \in CreateRequests, NEW left,
           createTrade(dto, left)
    PROVE  [Lifecycle!Next]_(Lifecycle!vars)
<1>1. CASE Insert(NewTrade(dto))
  <2>1. PICK i \in Nat : i = nextSequence /\ i \notin DOMAIN trades
    BY <1>1 DEF TypeInv, Insert
  <2>2. /\ trades' = [j \in DOMAIN trades \cup {i} |->
                        IF j = i THEN NewTrade(dto) ELSE trades[j]]
        /\ trade_audit' = trade_audit
    BY <1>1, <2>1 DEF Insert
  <2>3. DOMAIN trades' = DOMAIN trades \cup {i} /\ i \in DOMAIN trades'
    BY <2>2
  <2>4. trades'[i]["status"] = "ACTIVE" /\ \A j \in DOMAIN trades : trades'[j] = trades[j]
    BY <2>1, <2>2, NewTradeIsARow
  <2>5. \A f : Journal(trade_audit, i, f) = <<>>
    BY <2>1, NoJournalOfUnknown
  <2>6. Journals(trades', trade_audit') =
          [j \in DOMAIN trades \cup {i} |->
             IF j = i THEN [f \in Fields |-> <<>>] ELSE Journals(trades, trade_audit)[j]]
    BY <2>1, <2>2, <2>3, <2>5 DEF Journals
  <2>7. Lifecycle!Enter(i)
    BY <2>1, <2>3, <2>4, <2>6 DEF Lifecycle!Enter, Lifecycle!EmptyJournal, Journals
  <2> QED
    BY <2>3, <2>7 DEF Lifecycle!Next
<1>2. CASE InsertFails
  BY <1>2 DEF InsertFails, tables, Lifecycle!vars
<1> QED
  BY <1>1, <1>2 DEF createTrade

\* A commit revises its trade, in the row and in every journal it should.
LEMMA FinishRevises ==
    ASSUME TypeInv, AuditInv, JournalInv, Finish
    PROVE  Lifecycle!Next
<1>1. /\ job.phase = "transaction" /\ tx \in OpenTransactions /\ WorkingCopyOK
      /\ JournalsOK
      /\ trades[tx.id]["status"] = "ACTIVE"
      /\ \A j \in DOMAIN trades \ {tx.id} : tx.trades[j] = trades[j]
  BY TypeInvGivesTypeOK
  DEF TypeInv, TypeOK, TransactionOK, Finish, Commit, AuditInv, JournalInv
<1>2. /\ trades' = tx.trades /\ trade_audit' = tx.trade_audit
      /\ tx.entries = {} /\ tx.updated
      /\ DOMAIN trades' = DOMAIN trades
  BY <1>1 DEF Finish, Commit, OpenTransactions
<1>3. PICK i \in DOMAIN trades : i = tx.id
  BY <1>1 DEF OpenTransactions
<1>4. trades'[i] = WithColumns(trades[i], tx.fields)
  BY <1>1, <1>2, <1>3 DEF WorkingCopyOK
<1>5. \A f \in Fields : trades'[i][f] = IF f \in DOMAIN tx.fields THEN tx.fields[f]
                                        ELSE trades[i][f]
  BY <1>4 DEF WithColumns
<1>6. ASSUME NEW j \in DOMAIN trades, NEW f \in Fields
      PROVE  Journal(trade_audit', j, f) =
               IF j # i \/ String(trades'[j][f]) = String(trades[j][f])
               THEN Journal(trade_audit, j, f)
               ELSE Append(Journal(trade_audit, j, f),
                           <<String(trades[j][f]), String(trades'[j][f])>>)
  <2>1. Written(j, f) <=> j = i /\ String(trades'[j][f]) # String(trades[j][f])
    BY <1>2, <1>3, <1>5 DEF Written, Text
  <2>2. Written(j, f) => tx.fields[f] = trades'[j][f]
    BY <1>3, <1>5 DEF Written
  <2> QED
    BY <1>1, <1>2, <2>1, <2>2 DEF JournalsOK, Text
<1> DEFINE old == Journals(trades, trade_audit)
           new == Journals(trades', trade_audit')
           revised == [f \in Fields |->
                         IF String(trades'[i][f]) = String(trades[i][f]) THEN old[i][f]
                         ELSE Append(old[i][f], <<String(trades[i][f]), String(trades'[i][f])>>)]
<1>7. new[i] = revised /\ \A j \in DOMAIN trades \ {i} : new[j] = old[j]
  BY <1>2, <1>6 DEF Journals
<1>8. new = [old EXCEPT ![i] = revised]
  <2>1. /\ new = [j \in DOMAIN trades |-> new[j]]
        /\ old = [j \in DOMAIN trades |-> old[j]]
    BY <1>2 DEF Journals
  <2> HIDE DEF new, old, revised
  <2> QED
    BY <1>7, <2>1
<1>9. Lifecycle!Revise(i)
  BY <1>1, <1>2, <1>3, <1>8 DEF Lifecycle!Revise, Journals
<1> QED
  BY <1>9 DEF Lifecycle!Next

\* Seeding opens an empty book; a later start changes no table.
LEMMA StartOpens ==
    ASSUME TypeInv, AuditInv, Start
    PROVE  [Lifecycle!Next]_(Lifecycle!vars)
<1>1. CASE DOMAIN trades # {}
  BY <1>1 DEF Start, Open, seedIfEmpty, tables, Lifecycle!vars
<1>2. CASE DOMAIN trades = {}
  <2>1. trades' \in [SeedIds -> Rows] /\ trade_audit' = trade_audit
    BY <1>2 DEF Start, Open, seedIfEmpty
  <2>2. trades = <<>>
    BY <1>2 DEF TypeInv
  <2>3. \A i, f : Journal(trade_audit, i, f) = <<>>
    BY <1>2, NoJournalOfUnknown
  <2>4. Journals(trades', trade_audit') = [i \in SeedIds |-> [f \in Fields |-> <<>>]]
    BY <2>1, <2>3 DEF Journals
  <2>5. Lifecycle!Open(DOMAIN trades')
    BY <2>1, <2>2, <2>4 DEF Lifecycle!Open, Lifecycle!EmptyJournal, Journals
  <2> QED
    BY <2>5 DEF Lifecycle!Next
<1> QED
  BY <1>1, <1>2

\* Every step of the backend is one of the life cycle, or none.
LEMMA LifecycleStep ==
    TypeInv /\ DownIsIdle /\ AuditInv /\ JournalInv /\ [Next]_vars
        => [Lifecycle!Next]_(Lifecycle!vars)
<1> SUFFICES ASSUME TypeInv, DownIsIdle, AuditInv, JournalInv, [Next]_vars
             PROVE  [Lifecycle!Next]_(Lifecycle!vars)
  OBVIOUS
<1>1. CASE PostTrade \/ PostRandomTrades \/ NextRandomTrade
  BY <1>1, CreateEnters DEF PostTrade, PostRandomTrades, NextRandomTrade
<1>2. CASE Finish
  BY <1>2, FinishRevises
<1>3. CASE Start
  BY <1>3, StartOpens
<1>4. CASE \/ PatchTrade \/ DeleteTrade \/ RefuseUnknown \/ Reads \/ RunStatement \/ Abort
           \/ Publish \/ ErrorHandler \/ Crash \/ AdvanceClock \/ UNCHANGED vars
  <2>1. UNCHANGED <<trades, trade_audit>>
    BY <1>4 DEF PatchTrade, amendTrade, DeleteTrade, cancelTrade, Refuse, Transact,
       RefuseUnknown, Reads, ReadFails, ReadBack, ReadBackFails, RunStatement,
       UpdateRow, InsertAuditRow, Abort, Rollback,
       Publish, ErrorHandler, Crash, Die, AdvanceClock, Tick, repoVars, tables, vars
  <2> QED
    BY <2>1 DEF Lifecycle!vars
<1> QED
  BY <1>1, <1>2, <1>3, <1>4 DEF Next, Request, Handler, Reads

\* The backend implements the life cycle of a trade.
THEOREM BackendImplementsLifecycle == Spec => LifecycleSpec
<1>1. Init => JournalInv
  BY DEF Init, Idle, JournalInv
<1>2. Spec => []JournalInv
  BY <1>1, JournalInvStep, TypeInvariant, AuditInvariant, PTL DEF Spec
<1> QED
  BY <1>2, LifecycleInit, LifecycleStep, TypeInvariant, AuditInvariant, PTL
  DEF Spec, LifecycleSpec, Lifecycle!Spec
=============================================================================
