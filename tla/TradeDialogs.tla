---------------------------- MODULE TradeDialogs ----------------------------
(***************************************************************************)
(* One browser's dialogs, the mutations they start and the toasts that     *)
(* tell how those ended (App.tsx, the modals, useCreateTrade,              *)
(* useAmendTrade, useCancelTrade, toast.store.ts), against a book that     *)
(* other users change at the same time.                                    *)
(*                                                                         *)
(* A dialog opens on the row the grid shows, which may lag behind the      *)
(* book.  It can be dismissed at any time, also while its request is under *)
(* way; the hooks outlive it, so an answer may find another dialog open.   *)
(* What the user types matters at the moment of submission only, and is    *)
(* chosen there.                                                           *)
(***************************************************************************)
EXTENDS TradeForm, Sequences, FiniteSets

CONSTANTS
    StartRow,     \* a trade, as the opening stock and random batches hold it
    StartTrades,  \* how many trades there are at the start
    Edits,        \* columns users type in
    MAX_RANDOM,   \* most trades of one random batch
    Failures,     \* which of "error", "network" the environment may cause
    MaxTrades,    \* bound: trades in the book
    MaxToasts     \* bound: toasts ever shown

ASSUME DialogAssumption ==
    /\ WellFormed(StartRow) /\ StartRow["status"] = "ACTIVE"
    /\ Edits \subseteq Columns
    /\ Failures \subseteq {"error", "network"}
    /\ {MAX_RANDOM, MaxTrades, MaxToasts} \subseteq Nat
    /\ StartTrades \in 0 .. MaxTrades

VARIABLES
    book,         \* the server's trades: id -> row
    shown,        \* the rows of the grid: id -> row
    dialog,       \* the open dialog
    call,         \* mutation -> the request under way
    conflict,     \* conflictMessage, as the trade it is about
    randomError,  \* whether the random dialog holds an error message
    toasts,       \* the toasts on the screen
    nextId,       \* the toasts' id source
    entered       \* history: what came of the create form opened last

screenVars == <<shown, dialog, conflict, randomError, toasts, nextId>>
dialogVars == <<book, call, entered, screenVars>>

Mutations == {"create", "amend", "cancel", "random"}
NoDialog == [kind |-> "none"]
NoCall == [phase |-> "idle"]
NoConflict == 0
NothingEntered == [made |-> 0, lost |-> 0]

isPending(k) == call[k] # NoCall

-----------------------------------------------------------------------------
(* The server: each request is one transaction, or a row of them.          *)

Enter(rows) ==
    book' = [i \in 1 .. Cardinality(DOMAIN book) + Len(rows) |->
               IF i \in DOMAIN book THEN book[i]
               ELSE rows[i - Cardinality(DOMAIN book)]]

Revise(i, body) ==
    book' = [book EXCEPT ![i] =
               [c \in Columns |-> IF c \in DOMAIN body THEN body[c] ELSE book[i][c]]]

\* Of the request, what its callbacks still use is kept.
Answer(k, code) ==
    call' = [call EXCEPT ![k] =
        [f \in {"phase", "code"} \cup (DOMAIN call[k] \cap {"id", "own", "count"}) |->
            CASE f = "phase" -> "answered" [] f = "code" -> code [] OTHER -> call[k][f]]]

Refuse(k, code) == Answer(k, code) /\ UNCHANGED <<book, entered>>

\* How a change that is committed is answered: the row is read back first, and
\* the request fails when that read throws.
AfterCommit == {"OK"} \cup (IF "error" \in Failures THEN {"INTERNAL_ERROR"} ELSE {})

\* The form opened last has one more trade, told as a success or not.
CountEntry(code) ==
    entered' = IF call["create"].own
               THEN [made |-> entered.made + 1,
                     lost |-> entered.lost + (IF code = "OK" THEN 0 ELSE 1)]
               ELSE entered

ServeCreate ==
    LET body == call["create"].body IN
    \/ /\ createTradeBodySchema(body)
       /\ Enter(<<[c \in Columns |-> IF c = "status" THEN "ACTIVE" ELSE body[c]]>>)
       /\ \E code \in AfterCommit : Answer("create", code) /\ CountEntry(code)
    \/ ~createTradeBodySchema(body) /\ Refuse("create", "VALIDATION_ERROR")

ServeAmend ==
    LET request == call["amend"]
        valid == amendTradeBodySchema(request.body)
        cancelled == book[request.id]["status"] = "CANCELLED"
    IN \/ ~valid /\ Refuse("amend", "VALIDATION_ERROR")
       \/ valid /\ cancelled /\ Refuse("amend", "TRADE_CANCELLED")
       \/ /\ valid /\ ~cancelled
          /\ Revise(request.id, request.body)
          /\ \E code \in AfterCommit : Answer("amend", code)
          /\ UNCHANGED entered

ServeCancel ==
    LET i == call["cancel"].id IN
    \/ book[i]["status"] = "CANCELLED" /\ Refuse("cancel", "TRADE_ALREADY_CANCELLED")
    \/ /\ book[i]["status"] # "CANCELLED"
       /\ Revise(i, [status |-> "CANCELLED"])
       /\ \E code \in AfterCommit : Answer("cancel", code)
       /\ UNCHANGED entered

\* The batch has no transaction around it: an error leaves the trades before it.
ServeRandom ==
    LET count == call["random"].count IN
    \E made \in 0 .. count, code \in AfterCommit :
       /\ made < count => code # "OK"
       /\ Enter([n \in 1 .. made |-> StartRow])
       /\ Answer("random", code)
       /\ UNCHANGED entered

Serve(k) ==
    /\ call[k].phase = "sent"
    /\ \/ k = "create" /\ ServeCreate
       \/ k = "amend" /\ ServeAmend
       \/ k = "cancel" /\ ServeCancel
       \/ k = "random" /\ ServeRandom
       \/ "error" \in Failures /\ Refuse(k, "INTERNAL_ERROR")
    /\ UNCHANGED screenVars

\* fetch rejects: no response arrives, whether the request was handled or not.
NetworkFails(k) ==
    /\ "network" \in Failures
    /\ isPending(k)
    /\ call[k].code # "NETWORK_ERROR"
    /\ Answer(k, "NETWORK_ERROR")
    /\ entered' = IF k = "create" /\ call[k].code = "OK" /\ call[k].own
                  THEN [entered EXCEPT !.lost = @ + 1] ELSE entered
    /\ UNCHANGED <<book, screenVars>>

\* Another user amends or cancels a trade.
OthersRevise ==
    /\ \E i \in DOMAIN book, c \in Edits \cup {"status"} :
          /\ book[i]["status"] = "ACTIVE"
          /\ \E v \in Admitted(c) \ {book[i][c]} : Revise(i, [d \in {c} |-> v])
    /\ UNCHANGED <<call, entered, screenVars>>

\* The grid comes to show a trade as the server holds it.
GridUpdate ==
    /\ \E i \in DOMAIN book :
          shown' = [j \in DOMAIN shown \cup {i} |-> IF j = i THEN book[i] ELSE shown[j]]
    /\ UNCHANGED <<book, call, entered, dialog, conflict, randomError, toasts, nextId>>

-----------------------------------------------------------------------------
(* The dialogs *)

Open(d) ==
    /\ dialog = NoDialog
    /\ dialog' = d
    /\ UNCHANGED <<book, shown, conflict, randomError, toasts, nextId>>

\* A new create form, of which nothing has come yet.
OpenCreate ==
    /\ Open([kind |-> "create"])
    /\ entered' = NothingEntered
    /\ call' = IF isPending("create") THEN [call EXCEPT !["create"].own = FALSE] ELSE call

OpenRandom == Open([kind |-> "random"]) /\ UNCHANGED <<call, entered>>

\* A row offers Amend and Cancel unless it shows a cancelled trade.
OpenOnRow ==
    /\ \E i \in DOMAIN shown :
          /\ shown[i]["status"] # "CANCELLED"
          /\ \/ Open([kind |-> "amend", id |-> i, trade |-> shown[i]])
             \/ Open([kind |-> "cancel", id |-> i])
    /\ UNCHANGED <<call, entered>>

\* Escape, the backdrop and the close button work while a request is pending.
Dismiss ==
    /\ dialog # NoDialog
    /\ dialog' = NoDialog
    /\ UNCHANGED <<book, call, entered, shown, conflict, randomError, toasts, nextId>>

-----------------------------------------------------------------------------
(* Submissions *)

\* The form as the user leaves it.
Filled(form) ==
    LET typed == {t \in [Edits \cap DOMAIN form -> UNION {Inputs(c) : c \in Edits}] :
                     \A c \in DOMAIN t : t[c] \in Inputs(c)}
    IN {[c \in DOMAIN form |-> IF c \in DOMAIN t THEN t[c] ELSE form[c]] : t \in typed}

\* Trades that the book has room for, requests under way included.
Room == MaxTrades - Cardinality(DOMAIN book)
                  - (IF isPending("create") THEN 1 ELSE 0)
                  - (IF isPending("random") THEN call["random"].count ELSE 0)

\* One request at a time from each dialog.
Send(k, request) ==
    /\ dialog.kind = k
    /\ ~isPending(k)
    /\ nextId + Cardinality({j \in Mutations : isPending(j)}) <= MaxToasts
    /\ call' = [call EXCEPT ![k] = request]
    /\ UNCHANGED <<book, entered, shown, dialog, toasts, nextId>>

\* The columns nobody edits hold what StartRow holds.
SubmitCreate ==
    /\ Room > 0
    /\ \E form \in Filled([c \in CreateColumns |-> toDefaults(StartRow)[c]]) :
          /\ createTradeSchema(form)
          /\ Send("create", [phase |-> "sent", code |-> "NONE",
                            body |-> Body(form), own |-> TRUE])
    /\ UNCHANGED <<conflict, randomError>>

\* The whole form is sent; onMutate clears the conflict message.
SubmitAmend ==
    /\ dialog.kind = "amend"
    /\ \E form \in Filled(toDefaults(dialog.trade)) :
          /\ amendTradeSchema(form)
          /\ Send("amend", [phase |-> "sent", code |-> "NONE",
                           id |-> dialog.id, body |-> Body(form), form |-> form,
                           opened |-> dialog.trade])
    /\ conflict' = NoConflict
    /\ UNCHANGED randomError

ConfirmCancel ==
    /\ dialog.kind = "cancel"
    /\ Send("cancel", [phase |-> "sent", code |-> "NONE", id |-> dialog.id])
    /\ UNCHANGED <<conflict, randomError>>

SubmitRandom ==
    /\ \E count \in 1 .. MAX_RANDOM :
          /\ count <= Room
          /\ Send("random", [phase |-> "sent", code |-> "NONE", count |-> count])
    /\ randomError' = FALSE
    /\ UNCHANGED conflict

-----------------------------------------------------------------------------
(* Answers and toasts *)

\* "Trade cancelled." and "This trade has already been cancelled."
CancelCodes == {"OK", "TRADE_ALREADY_CANCELLED"}
saidCancelled(k) ==
    IF k = "cancel" /\ call[k].code \in CancelCodes THEN {call[k].id} ELSE {}

Toast(k, ok) ==
    /\ toasts' = toasts \cup {[id |-> nextId, ok |-> ok, cancelled |-> saidCancelled(k)]}
    /\ nextId' = nextId + 1

\* Faulty variant: the dialog stays open after a success.
SucceedAndStay(k) ==
    /\ call[k].code = "OK"
    /\ Toast(k, TRUE)
    /\ UNCHANGED <<dialog, conflict, randomError>>

\* onSuccess closes the dialog of this mutation that is open by now.
Succeed(k) ==
    /\ call[k].code = "OK"
    /\ Toast(k, TRUE)
    /\ dialog' = IF dialog.kind = k THEN NoDialog ELSE dialog
    /\ UNCHANGED <<conflict, randomError>>

isConflict(k) == k = "amend" /\ call[k].code = "TRADE_CANCELLED"

\* Faulty variant: every refused amendment is taken for a conflict.
AnyErrorConflicts(k) ==
    /\ k = "amend" /\ call[k].code # "OK"
    /\ conflict' = call[k].id
    /\ UNCHANGED <<dialog, randomError, toasts, nextId>>

\* A 409 on amend is told inside the form, and by no toast.
TellConflict(k) ==
    /\ isConflict(k)
    /\ conflict' = call[k].id
    /\ UNCHANGED <<dialog, randomError, toasts, nextId>>

Fail(k) ==
    /\ call[k].code # "OK"
    /\ ~isConflict(k)
    /\ Toast(k, FALSE)
    /\ randomError' = (randomError \/ k = "random")
    /\ UNCHANGED <<dialog, conflict>>

\* Faulty variant: an answer is dropped once its dialog is gone.
SettleIfOpen(k) ==
    /\ call[k].phase = "answered"
    /\ dialog.kind = k
    /\ Succeed(k) \/ TellConflict(k) \/ Fail(k)
    /\ call' = [call EXCEPT ![k] = NoCall]
    /\ UNCHANGED <<book, entered, shown>>

\* The mutation's callbacks run, whether or not its dialog is still there.
Settle(k) ==
    /\ call[k].phase = "answered"
    /\ Succeed(k) \/ TellConflict(k) \/ Fail(k)
    /\ call' = [call EXCEPT ![k] = NoCall]
    /\ UNCHANGED <<book, entered, shown>>

\* TOAST_AUTO_DISMISS_MS have passed, or the user has clicked.
DismissToast(n) ==
    /\ \E t \in toasts : t.id = n /\ toasts' = toasts \ {t}
    /\ UNCHANGED <<book, call, entered, shown, dialog, conflict, randomError, nextId>>

-----------------------------------------------------------------------------
DialogsInit ==
    /\ book = [i \in 1 .. StartTrades |-> StartRow]
    /\ shown = book
    /\ dialog = NoDialog
    /\ call = [k \in Mutations |-> NoCall]
    /\ conflict = NoConflict
    /\ randomError = FALSE
    /\ toasts = {}
    /\ nextId = 1
    /\ entered = NothingEntered

User == \/ OpenCreate \/ OpenRandom \/ OpenOnRow \/ Dismiss
        \/ SubmitCreate \/ SubmitAmend \/ ConfirmCancel \/ SubmitRandom

Request(k) == Serve(k) \/ NetworkFails(k) \/ Settle(k)

DialogsNext ==
    \/ User
    \/ \E k \in Mutations : Request(k)
    \/ \E n \in 1 .. MaxToasts : DismissToast(n)
    \/ OthersRevise
    \/ GridUpdate

\* A request is answered or fails, and its callbacks run: the browser is online,
\* or comes back online, for react-query holds mutations back while it is not.
\* Nothing is promised about the users, or about their dismissing anything.
DialogsSpec ==
    /\ DialogsInit /\ [][DialogsNext]_dialogVars
    /\ \A k \in Mutations : WF_dialogVars(Request(k))

-----------------------------------------------------------------------------
(* Properties *)

\* What the forms let through, the edge validation admits; only an amendment
\* with every control cleared is sent without a column and refused: two
\* grammars of the same columns, in tradeSchema.ts and in routes/trades.ts.
EdgeAdmitsEveryForm ==
    /\ call["create"].phase = "sent" => createTradeBodySchema(call["create"].body)
    /\ call["amend"].phase = "sent" =>
          LET body == call["amend"].body IN body = <<>> \/ amendTradeBodySchema(body)

\* The amend form sends every column, also those other users have changed
\* since it was opened.  Even so a column ends up only with what was typed
\* into it or with what it held when the form was opened, and a cleared
\* control changes nothing.
AmendsWhatWasTyped ==
    [][(call["amend"].phase = "sent" /\ call'["amend"].phase = "answered")
         => LET request == call["amend"]
                typed(c) == request.form[c] # toDefaults(request.opened)[c]
            IN \A i \in DOMAIN book, c \in Columns :
                 book'[i][c] # book[i][c] =>
                   /\ i = request.id
                   /\ trimInput(request.form[c]).text # ""
                   /\ typed(c) \/ book'[i][c] = request.opened[c]]_dialogVars

\* One filled form enters one trade, and one more for every entry that was not
\* answered as a success (the answer was lost, or the row could not be read
\* back), after which the form is still open for another submission: isPending
\* while it is under way, onClose on success.
DuplicatesNeedALostAnswer == entered.made <= entered.lost + 1

\* "Trade cancelled.", "already been cancelled" and the conflict message are only
\* said of a trade that is cancelled, however stale the dialog and the grid were.
WhatIsToldIsTrue ==
    /\ conflict # NoConflict => book[conflict]["status"] = "CANCELLED"
    /\ \A t \in toasts : \A i \in t.cancelled : book[i]["status"] = "CANCELLED"

\* Every submission comes to its end and frees its button, also when the dialog
\* it came from was dismissed in the meantime.
AnswersComeBack == \A k \in Mutations : isPending(k) ~> ~isPending(k)

\* AmendTradeModal.tsx:13: on a 409 the conflict message is rendered inline, in
\* the form of the trade it is about.
ConflictIsAboutTheTrade ==
    dialog.kind = "amend" /\ conflict # NoConflict => dialog.id = conflict
=============================================================================
