---------------------------- MODULE TradeService ----------------------------
(***************************************************************************)
(* The HTTP request handlers of the backend over the repository: create,   *)
(* random batch, amend (PATCH) and cancel (DELETE).  Every handler runs to *)
(* its end on the single Node thread, so a request starts only when the    *)
(* thread is idle.  But each one commits first, then reads the row back by *)
(* a statement of its own, and broadcasts what it read: between the three  *)
(* the process may die, and the read may fail after the commit.            *)
(***************************************************************************)
EXTENDS TradeRepository

CONSTANTS
    MAX_RANDOM_TRADES,  \* most rows of one POST /trades/random
    DiskFails,          \* whether a statement may fail for a reason outside the code
    MaxSequence,        \* bound: sequence numbers the model spends
    MaxAudit,           \* bound: rows of trade_audit
    MaxClock            \* bound: readings of the wall clock

ASSUME ServiceAssumption ==
    /\ MAX_RANDOM_TRADES \in Nat \ {0}
    /\ DiskFails \in BOOLEAN
    /\ {MaxSequence, MaxAudit, MaxClock} \subseteq Nat

VARIABLES
    up,    \* whether the server process runs
    job    \* the request the thread is handling

serviceVars == <<up, job>>
vars == <<repoVars, serviceVars>>

Idle == [phase |-> "idle"]
idle == up /\ job = Idle

CreateRequests == [Fields \ {"status"} -> Values]
AmendRequests ==
    {dto \in UNION {[S -> Values \cup Statuses] : S \in (SUBSET Fields) \ {{}}} :
         \A f \in DOMAIN dto : dto[f] \in FieldValues(f)}

NewTrade(dto) == [f \in Fields |-> IF f = "status" THEN "ACTIVE" ELSE dto[f]]

TradeMessage(type, i, row) == [type |-> type, id |-> i, payload |-> row]
CancelMessage(i) == [type |-> "TRADE_CANCELLED", id |-> i]
Announcement(type, i) ==
    IF type = "TRADE_CANCELLED" THEN CancelMessage(i)
    ELSE TradeMessage(type, i, trades[i])

\* One entry per supplied field whose text differs.
diffTrade(i, dto) ==
    {AuditEntry(i, f, trades[i][f], dto[f]) :
        f \in {g \in DOMAIN dto : String(trades[i][g]) # String(dto[g])}}

\* AppErrors by their code, and the one error that is none.
AppErrors == {"TRADE_NOT_FOUND", "TRADE_CANCELLED", "TRADE_ALREADY_CANCELLED"}
Throw(error) == job' = [phase |-> "thrown", error |-> error] /\ UNCHANGED up
Refuse(code) == Throw(code) /\ UNCHANGED repoVars

\* The row is committed; the handler goes on to read it back.
Committed(type, i, left) ==
    /\ job' = [phase |-> "readback", type |-> type, id |-> i, left |-> left]
    /\ UNCHANGED up

-----------------------------------------------------------------------------
(* createTrade: left counts the rows of the request still to be made, this *)
(* one included.                                                           *)
\* Faulty variant: a failed INSERT is swallowed and the request broadcast.
CreateUnchecked(dto, left) ==
    /\ Insert(NewTrade(dto)) \/ InsertFails
    /\ job' = [phase |-> "publish", left |-> left - 1,
               message |-> TradeMessage("TRADE_CREATED", nextSequence, NewTrade(dto))]
    /\ UNCHANGED up

createTrade(dto, left) ==
    \/ Insert(NewTrade(dto)) /\ Committed("TRADE_CREATED", nextSequence, left - 1)
    \/ /\ nextSequence \in DOMAIN trades \/ DiskFails
       /\ InsertFails
       /\ Throw("SqliteError")

PostTrade ==
    /\ idle
    /\ nextSequence < MaxSequence
    /\ \E dto \in CreateRequests : createTrade(dto, 1)

\* createRandomTrades: a loop of createTrade with no transaction around it.
PostRandomTrades ==
    /\ idle
    /\ nextSequence < MaxSequence
    /\ \E count \in 1 .. MAX_RANDOM_TRADES, dto \in CreateRequests :
           nextSequence + count <= MaxSequence /\ createTrade(dto, count)

\* Faulty variant: the loop stops one row early and never returns.
LoopOffByOne ==
    /\ job.phase = "loop"
    /\ job.left > 1
    /\ \E dto \in CreateRequests : createTrade(dto, job.left)

NextRandomTrade ==
    /\ job.phase = "loop"
    /\ \E dto \in CreateRequests : createTrade(dto, job.left)

Transact(type, i) ==
    /\ job' = [phase |-> "transaction", type |-> type, id |-> i]
    /\ UNCHANGED <<tables, nextSequence, now, up>>

\* Faulty variant: the check for a cancelled trade is missing.
AmendAnything(i, dto) ==
    LET entries == diffTrade(i, dto) IN
    /\ Len(trade_audit) + Cardinality(entries) <= MaxAudit
    /\ update(i, dto, entries)
    /\ Transact("TRADE_AMENDED", i)

\* amendTrade: a no-op amendment still runs its UPDATE and is broadcast.
amendTrade(i, dto) ==
    LET entries == diffTrade(i, dto) IN
    \/ trades[i]["status"] = "CANCELLED" /\ Refuse("TRADE_CANCELLED")
    \/ /\ trades[i]["status"] # "CANCELLED"
       /\ Len(trade_audit) + Cardinality(entries) <= MaxAudit
       /\ update(i, dto, entries)
       /\ Transact("TRADE_AMENDED", i)

\* Faulty variant: a second DELETE cancels again.
CancelAgain(i) ==
    /\ Len(trade_audit) < MaxAudit
    /\ cancel(i)
    /\ Transact("TRADE_CANCELLED", i)

cancelTrade(i) ==
    \/ trades[i]["status"] = "CANCELLED" /\ Refuse("TRADE_ALREADY_CANCELLED")
    \/ /\ trades[i]["status"] # "CANCELLED"
       /\ Len(trade_audit) < MaxAudit
       /\ cancel(i)
       /\ Transact("TRADE_CANCELLED", i)

PatchTrade ==
    /\ idle
    /\ \E i \in DOMAIN trades, dto \in AmendRequests : amendTrade(i, dto)

DeleteTrade ==
    /\ idle
    /\ \E i \in DOMAIN trades : cancelTrade(i)

\* requireTrade: a PATCH, a DELETE or a GET of an id that has no row.
RefuseUnknown == idle /\ Refuse("TRADE_NOT_FOUND")

\* The SELECT of requireTrade, or of a GET, throws.
ReadFails == idle /\ DiskFails /\ Refuse("SqliteError")

RunStatement == (UpdateRow \/ InsertAuditRow) /\ UNCHANGED serviceVars

Finish == Commit /\ Committed(job.type, job.id, 0)

\* The handler has what it needs for the broadcast.
ReadBack ==
    /\ job.phase = "readback"
    /\ job' = [phase |-> "publish", left |-> job.left,
               message |-> Announcement(job.type, job.id)]
    /\ UNCHANGED <<repoVars, up>>

\* Faulty variant: the error is swallowed and the request ends as a success.
ReadBackSwallowed ==
    /\ DiskFails
    /\ job.phase = "readback"
    /\ job' = Idle
    /\ UNCHANGED <<repoVars, up>>

\* The read throws: the change stays, the request fails, nothing is broadcast.
ReadBackFails ==
    /\ DiskFails
    /\ job.phase = "readback"
    /\ Refuse("SqliteError")

\* Faulty variant: the failure is swallowed and nothing is answered.
AbortSilently == DiskFails /\ Rollback /\ UNCHANGED serviceVars

\* Faulty variant: the broadcast goes out although the transaction failed.
AbortButBroadcast ==
    /\ DiskFails
    /\ Rollback
    /\ job' = [phase |-> "publish", left |-> 0,
               message |-> Announcement(job.type, job.id)]
    /\ UNCHANGED up

Abort ==
    /\ DiskFails
    /\ Rollback
    /\ Throw("SqliteError")

\* safeBroadcast, then the answer or the next turn of the random loop.
Publish ==
    /\ job.phase = "publish"
    /\ job' = IF job.left > 0 THEN [phase |-> "loop", left |-> job.left] ELSE Idle
    /\ UNCHANGED <<repoVars, up>>

\* setErrorHandler answers what a handler threw.
ErrorHandler ==
    /\ job.phase = "thrown"
    /\ job' = Idle
    /\ UNCHANGED <<repoVars, up>>

Crash ==
    /\ up
    /\ Die
    /\ up' = FALSE
    /\ job' = Idle

Start ==
    /\ ~up
    /\ Open
    /\ up' = TRUE
    /\ UNCHANGED job

AdvanceClock ==
    /\ now < MaxClock
    /\ Tick
    /\ UNCHANGED serviceVars

Init ==
    /\ RepoInit
    /\ up = FALSE
    /\ job = Idle

Request == \/ PostTrade \/ PostRandomTrades \/ PatchTrade \/ DeleteTrade
           \/ RefuseUnknown \/ ReadFails
Handler == \/ NextRandomTrade \/ RunStatement \/ Finish \/ Abort
           \/ ReadBack \/ ReadBackFails \/ Publish \/ ErrorHandler
Next == Request \/ Handler \/ Crash \/ Start \/ AdvanceClock

Spec == Init /\ [][Next]_vars
\* The thread runs a handler to its end; nobody promises requests or restarts.
FairSpec == Spec /\ WF_vars(Handler)

-----------------------------------------------------------------------------
(* Properties *)

\* Every variable stays within its type.
TypeOK ==
    /\ DOMAIN trades \subseteq Nat
    /\ trades \in [DOMAIN trades -> Rows]
    /\ trade_date \in [DOMAIN trades -> Nat]
    /\ trade_audit \in Seq(AuditEntries)
    /\ nextSequence \in Nat
    /\ now \in Nat
    /\ tx.open <=> job.phase = "transaction"
    /\ up \in BOOLEAN
    /\ job.phase \in {"idle", "loop", "transaction", "readback", "publish", "thrown"}

SameColumn(d, e) == d.tradeId = e.tradeId /\ d.field = e.field

\* The audit entries about the column of entry k that were written after it.
Later(audit, k) ==
    {m \in DOMAIN audit : m > k /\ SameColumn(audit[m], audit[k])}

\* In audit, every entry records a change, and the next entry about the same
\* column starts from the text it left; after the last one that is current.
Chained(audit, current(_, _)) ==
    \A k \in DOMAIN audit :
        /\ audit[k].oldValue # audit[k].newValue
        /\ Later(audit, k) = {} =>
             audit[k].newValue = current(audit[k].tradeId, audit[k].field)
        /\ \A m \in Later(audit, k) :
             (\A n \in Later(audit, k) : m <= n) =>
                 audit[m].oldValue = audit[k].newValue

Text(i, f) == String(trades[i][f])

\* The audit trail of a column is an unbroken chain that ends at the value
\* the column holds, whatever failed or crashed on the way: row and audit
\* entries are one transaction in update and cancel.
AuditChain == Chained(trade_audit, Text)

\* A trade is cancelled at most once, through DELETE or through a PATCH of
\* its status, and the audit says so once: the guards of both handlers.
CancelledOnce ==
    \A k \in DOMAIN trade_audit :
        trade_audit[k].field = "status" =>
            /\ trades[trade_audit[k].tradeId]["status"] = "CANCELLED"
            /\ Later(trade_audit, k) = {}

\* A cancelled trade never changes again and no trade is ever deleted: what
\* the 409 answers of amendTrade and cancelTrade are for.
CancelledIsFinal ==
    [][\A i \in DOMAIN trades :
          /\ i \in DOMAIN trades'
          /\ trades[i]["status"] = "CANCELLED" => trades'[i] = trades[i]]_vars

\* While ids keep SEQUENCE_WIDTH digits, the next number is above every id in
\* the table, after failed inserts and restarts too (computeStartSequence).
FreshSequence ==
    (up /\ \A i \in DOMAIN trades : i < Rollover)
        => \A i \in DOMAIN trades : i < nextSequence

NewOrChanged(i) == i \in DOMAIN trades => trades'[i] # trades[i]

\* What a handler of a running process commits is never passed over in silence:
\* the handler goes from the commit to reading that row back, and from there to
\* a broadcast of exactly the committed row, under the type of what was done to
\* it, or to an error answer.  Nothing else is ever broadcast.
EveryCommitIsAnnouncedOrFails ==
    [][/\ \A i \in DOMAIN trades' : up /\ NewOrChanged(i) =>
            /\ job'.phase = "readback" /\ job'.id = i
            /\ job'.type = "TRADE_CREATED" <=> i \notin DOMAIN trades
            /\ job'.type = "TRADE_CANCELLED" =>
                 trades'[i] = [trades[i] EXCEPT !["status"] = "CANCELLED"]
       /\ job.phase = "readback" /\ job' # job /\ up' =>
            job'.phase \in {"publish", "thrown"}
       /\ job'.phase = "publish" /\ job' # job =>
            /\ job.phase = "readback"
            /\ job'.message = Announcement(job.type, job.id)
            /\ trades' = trades]_vars

\* Every request is answered, unless the process dies: no handler waits.
RequestsAreAnswered == up /\ job # Idle ~> job = Idle

\* errors.ts: every error thrown from the service and repository layers is an
\* AppError; here with a sound disk, so that only the code's own errors count.
EveryErrorIsAnAppError == job.phase = "thrown" => job.error \in AppErrors

\* What an audit tells of one column of a trade: the texts it went through.
Journal(audit, i, f) ==
    LET mine == Kept(audit, {k \in DOMAIN audit :
                       audit[k].tradeId = i /\ audit[k].field = f})
    IN [k \in DOMAIN mine |-> <<mine[k].oldValue, mine[k].newValue>>]

\* The backend implements the life cycle of a trade: book and audit move
\* together, at once, and only while the trade is active.
Lifecycle ==
    INSTANCE TradeLifecycle WITH
        book <- trades,
        journal <- [i \in DOMAIN trades |-> [f \in Fields |-> Journal(trade_audit, i, f)]]
LifecycleSpec == Lifecycle!Spec
=============================================================================
