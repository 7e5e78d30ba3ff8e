--------------------------- MODULE TradeRepository ---------------------------
(***************************************************************************)
(* The persistence layer: the tables trades and trade_audit of the SQLite  *)
(* file, the TradeRepository object that owns every statement run against  *)
(* them, and the start-up code that seeds an empty database.               *)
(*                                                                         *)
(* better-sqlite3 is synchronous and the server is one thread, so at most  *)
(* one transaction is ever open.  A transaction is still not a single      *)
(* step: its statements run one after the other on a working copy, any of  *)
(* them may fail, and the process may die between two of them.             *)
(*                                                                         *)
(* A trade id TRD-n is its sequence number n.  Ids are compared as text by *)
(* the database, which is modelled by TextLess.                            *)
(***************************************************************************)
EXTENDS Listing

CONSTANTS
    AUDITABLE_FIELDS,  \* the amendable columns, in the order diffTrade visits them
    Values,            \* what a column other than status may hold
    StartSequence,     \* first sequence number (100001 in the code)
    Rollover,          \* first number with one more digit than SEQUENCE_WIDTH (10^6)
    SeedCount          \* rows inserted into an empty database (SEED_COUNT)

ASSUME SequenceAssumption ==
    /\ StartSequence \in Nat \ {0}
    /\ Rollover \in Nat
    /\ StartSequence < Rollover
    /\ SeedCount \in Nat

ASSUME FieldsAssumption ==
    /\ AUDITABLE_FIELDS \in Seq(STRING)
    /\ \E k \in DOMAIN AUDITABLE_FIELDS : AUDITABLE_FIELDS[k] = "status"
    /\ Values # {}

VARIABLES
    trades,        \* committed rows of trades: id -> amendable columns
    trade_date,    \* id -> time of insertion
    trade_audit,   \* committed rows of trade_audit, in AUTOINCREMENT order
    tx,            \* the transaction in progress, if any
    nextSequence,  \* TradeRepository.nextSequence
    now            \* the wall clock

tables == <<trades, trade_date, trade_audit>>
repoVars == <<trades, trade_date, trade_audit, tx, nextSequence, now>>

Statuses == {"ACTIVE", "CANCELLED"}
Fields == {AUDITABLE_FIELDS[k] : k \in DOMAIN AUDITABLE_FIELDS}
FieldValues(f) == IF f = "status" THEN Statuses ELSE Values
Rows == {r \in [Fields -> Values \cup Statuses] :
             \A f \in Fields : r[f] \in FieldValues(f)}

\* A column value as trade_audit stores it: text, whatever the column holds.
String(v) == [text |-> v]
AuditEntries == [tradeId : Nat, field : Fields,
                 oldValue : {String(v) : v \in Values \cup Statuses},
                 newValue : {String(v) : v \in Values \cup Statuses}]

-----------------------------------------------------------------------------
(* Identifiers: zero-padded to SEQUENCE_WIDTH digits, one digit longer from *)
(* Rollover on.  Text order compares the shorter id with the prefix of the  *)
(* longer one, and a proper prefix comes first.  Exact below 10 * Rollover. *)

TextKey(n) == IF n < Rollover THEN 10 * n ELSE n
TextLess(m, n) == \/ TextKey(m) < TextKey(n)
                  \/ TextKey(m) = TextKey(n) /\ m < n

\* SELECT MAX(id) FROM trades
MaxId == CHOOSE i \in DOMAIN trades :
             \A j \in DOMAIN trades \ {i} : TextLess(j, i)

\* Faulty variant: resumes at the last id taken.
ResumeAtLastId == IF DOMAIN trades = {} THEN StartSequence ELSE MaxId

computeStartSequence ==
    IF DOMAIN trades = {} THEN StartSequence ELSE MaxId + 1

-----------------------------------------------------------------------------
(* A transaction: the UPDATE of one row, then one INSERT per audit entry,   *)
(* on a working copy of both tables.                                       *)

NoTransaction == [open |-> FALSE]

AuditEntry(i, field, old, new) ==
    [tradeId |-> i, field |-> field, oldValue |-> String(old), newValue |-> String(new)]

WithColumns(row, fields) ==
    [f \in Fields |-> IF f \in DOMAIN fields THEN fields[f] ELSE row[f]]

update(i, fields, entries) ==
    tx' = [open |-> TRUE, id |-> i, fields |-> fields, updated |-> FALSE,
           entries |-> entries, trades |-> trades, trade_audit |-> trade_audit]

ToCancelled == [f \in {"status"} |-> "CANCELLED"]

\* Faulty variant: a cancellation without its audit row.
CancelUnaudited(i) == update(i, ToCancelled, {})

\* cancel: the same shape, the status column and its one audit row.
cancel(i) ==
    update(i, ToCancelled,
           {AuditEntry(i, "status", trades[i]["status"], "CANCELLED")})

UpdateRow ==
    /\ tx.open
    /\ ~tx.updated
    /\ tx' = [tx EXCEPT !.updated = TRUE,
                        !.trades[tx.id] = WithColumns(@, tx.fields)]
    /\ UNCHANGED <<tables, nextSequence, now>>

\* The entries go in the order of AUDITABLE_FIELDS.
Before(f, g) ==
    \E k, m \in DOMAIN AUDITABLE_FIELDS :
        k < m /\ AUDITABLE_FIELDS[k] = f /\ AUDITABLE_FIELDS[m] = g

InsertAuditRow ==
    /\ tx.open
    /\ tx.updated
    /\ \E e \in tx.entries :
         /\ \A d \in tx.entries : ~Before(d.field, e.field)
         /\ tx' = [tx EXCEPT !.entries = @ \ {e},
                             !.trade_audit = Append(@, e)]
    /\ UNCHANGED <<tables, nextSequence, now>>

Commit ==
    /\ tx.open
    /\ tx.updated
    /\ tx.entries = {}
    /\ trades' = tx.trades
    /\ trade_audit' = tx.trade_audit
    /\ tx' = NoTransaction
    /\ UNCHANGED <<trade_date, nextSequence, now>>

\* Faulty variant: no transaction, the statements that ran stay.
KeepPartialWrites ==
    /\ tx.open
    /\ trades' = tx.trades
    /\ trade_audit' = tx.trade_audit
    /\ tx' = NoTransaction
    /\ UNCHANGED <<trade_date, nextSequence, now>>

\* A statement, or the COMMIT, fails: the library rolls back and rethrows.
Rollback ==
    /\ tx.open
    /\ tx' = NoTransaction
    /\ UNCHANGED <<tables, nextSequence, now>>

\* create: one autocommitted INSERT.  The sequence advances first.
Insert(row) ==
    /\ nextSequence \notin DOMAIN trades
    /\ nextSequence' = nextSequence + 1
    /\ trades' = [i \in DOMAIN trades \cup {nextSequence} |->
                    IF i = nextSequence THEN row ELSE trades[i]]
    /\ trade_date' = [i \in DOMAIN trades \cup {nextSequence} |->
                    IF i = nextSequence THEN now ELSE trade_date[i]]
    /\ UNCHANGED <<trade_audit, tx, now>>

\* The INSERT throws (a PRIMARY KEY conflict, a full disk); the number is spent.
InsertFails ==
    /\ nextSequence' = nextSequence + 1
    /\ UNCHANGED <<tables, tx, now>>

-----------------------------------------------------------------------------
(* Start-up and process death *)

RepoInit ==
    /\ trades = <<>>
    /\ trade_date = <<>>
    /\ trade_audit = <<>>
    /\ tx = NoTransaction
    /\ nextSequence = 0
    /\ now = 1

SeedIds == StartSequence .. StartSequence + SeedCount - 1

\* seedIfEmpty: one transaction; statuses and dates in the past are random.
seedIfEmpty ==
    IF DOMAIN trades # {}
    THEN UNCHANGED tables
    ELSE /\ trades' \in [SeedIds -> Rows]
         /\ trade_date' \in [SeedIds -> 0 .. now]
         /\ UNCHANGED trade_audit

\* start(): seed, then construct the repository over the seeded tables.
Open ==
    /\ seedIfEmpty
    /\ nextSequence' = computeStartSequence'
    /\ UNCHANGED <<tx, now>>

\* The process dies: memory and the uncommitted working copy are gone.
Die ==
    /\ tx' = NoTransaction
    /\ nextSequence' = 0
    /\ UNCHANGED <<tables, now>>

Tick ==
    /\ now' = now + 1
    /\ UNCHANGED <<tables, tx, nextSequence>>
=============================================================================
