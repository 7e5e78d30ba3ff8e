-------------------------- MODULE TradeDialogsProofs --------------------------
(***************************************************************************)
(* Proofs about the forms and the dialogs, whatever their controls hold    *)
(* and whatever the server answers.                                        *)
(*                                                                         *)
(* The routes admit what the forms let through: the two grammars of a      *)
(* trade's columns, tradeSchema.ts in the browser and routes/trades.ts in  *)
(* the server, agree where they must.                                      *)
(*                                                                         *)
(* What the screen tells is true because a row once cancelled is never     *)
(* revised: an answer that says so stays true while it is on its way, and  *)
(* so does the toast or the message made of it, whatever other users do.   *)
(***************************************************************************)
EXTENDS TradeDialogs, FiniteSetTheorems, TLAPS

-----------------------------------------------------------------------------
(* The two grammars *)

\* A control is coerced to one value at most, and to none if it is empty.
LEMMA OneValue ==
    ASSUME NEW c, NEW input, NEW v \in Coerced(c, input)
    PROVE  /\ input.text # ""
           /\ v = IF c \in Numeric THEN Numeral[input.text] ELSE input.text
<1>1. trimInput(input).text = input.text
  BY DEF trimInput, Input
<1>2. Coerced(c, input) = IF input.text = "" THEN {}
                          ELSE IF c \in Numeric THEN {Numeral[input.text]}
                          ELSE {input.text}
  BY <1>1, Zenon DEF Coerced
<1>3. input.text # ""
  BY <1>2
<1> QED
  BY <1>2, <1>3

\* What a control is coerced to and its rule lets through, the edge admits.
LEMMA ValidIsAdmitted ==
    ASSUME NEW c \in Columns, NEW input \in Inputs(c), NEW v \in Coerced(c, input),
           Valid(c, v)
    PROVE  v \in Admitted(c)
<1>1. input.text # "" /\ v = IF c \in Numeric THEN Numeral[input.text] ELSE input.text
  BY OneValue
<1>2. CASE c \in Numeric
  <2>1. input.text \in DOMAIN Numeral
    <3>1. input.text \in DOMAIN Numeral \cup {""}
      BY <1>2 DEF Inputs, Numeric
    <3> QED
      BY <1>1, <3>1
  <2>2. v \in Numbers
    BY <1>1, <1>2, <2>1 DEF Numbers
  <2> QED
    BY <1>2, <2>2 DEF Numeric, Valid, Admitted
<1>3. CASE c \notin Numeric
  <2>1. c # "quantity" /\ c # "price"
    BY <1>3 DEF Numeric
  <2>2. CASE c \in {"symbol", "side", "status"}
    BY <2>1, <2>2 DEF Valid, Admitted
  <2>3. CASE c \notin {"symbol", "side", "status"}
    <3>1. input.text \in Texts
      <4>1. input.text \in Texts \cup {""}
        BY <1>3, <2>3 DEF Inputs
      <4> QED
        BY <1>1, <4>1
    <3> QED
      BY <1>1, <1>3, <2>1, <2>3, <3>1 DEF Admitted
  <2> QED
    BY <2>2, <2>3
<1> QED
  BY <1>2, <1>3

\* A column of the body carries the value its control is coerced to.
LEMMA BodyCarries ==
    ASSUME NEW form, NEW c \in DOMAIN Body(form)
    PROVE  c \in DOMAIN form /\ Body(form)[c] \in Coerced(c, form[c])
<1>1. c \in DOMAIN form /\ Coerced(c, form[c]) # {}
  BY DEF Body
<1>2. Body(form)[c] = CHOOSE v \in Coerced(c, form[c]) : TRUE
  BY DEF Body
<1> QED
  BY <1>1, <1>2

\* Whatever a create form holds when its rules let it through, its body is one
\* the edge validation takes, for all columns, texts and numerals.
THEOREM CreateFormsAreAdmitted ==
    ASSUME NEW form, DOMAIN form = CreateColumns,
           \A c \in CreateColumns : form[c] \in Inputs(c),
           createTradeSchema(form)
    PROVE  createTradeBodySchema(Body(form))
<1>1. DOMAIN Body(form) = CreateColumns
  BY DEF Body, createTradeSchema
<1>2. ASSUME NEW c \in CreateColumns
      PROVE  Body(form)[c] \in Admitted(c)
  <2>1. Body(form)[c] \in Coerced(c, form[c])
    BY <1>1, BodyCarries
  <2>2. PICK v \in Coerced(c, form[c]) : Valid(c, v)
    BY DEF createTradeSchema
  <2>3. Body(form)[c] = v
    BY <2>1, <2>2, OneValue
  <2>4. c \in Columns
    BY DEF CreateColumns
  <2> QED
    BY <2>2, <2>3, <2>4, ValidIsAdmitted
<1> QED
  BY <1>1, <1>2 DEF createTradeBodySchema

\* And so is that of an amend form, unless every control of it was cleared:
\* then no column is left to send, and the edge refuses the empty body.
THEOREM AmendFormsAreAdmitted ==
    ASSUME NEW form, DOMAIN form = Columns,
           \A c \in Columns : form[c] \in Inputs(c),
           amendTradeSchema(form), DOMAIN Body(form) # {}
    PROVE  amendTradeBodySchema(Body(form))
<1>1. DOMAIN Body(form) \subseteq Columns
  BY DEF Body
<1>2. ASSUME NEW c \in DOMAIN Body(form)
      PROVE  Body(form)[c] \in Admitted(c)
  <2>1. c \in Columns /\ Body(form)[c] \in Coerced(c, form[c])
    BY <1>1, <1>2, BodyCarries
  <2> QED
    BY <2>1, ValidIsAdmitted DEF amendTradeSchema
<1> QED
  BY <1>1, <1>2 DEF amendTradeBodySchema

\* The controls of a form opened on a trade are controls as the user could
\* have left them, and show what the trade holds.
LEMMA DefaultsAreInputs ==
    ASSUME NEW row, WellFormed(row), NEW c \in Columns
    PROVE  /\ toDefaults(row)[c] \in Inputs(c)
           /\ toDefaults(row)[c].text # ""
           /\ Coerced(c, toDefaults(row)[c]) = {row[c]}
<1>1. row[c] \in Admitted(c)
  BY DEF WellFormed
<1>2. CASE c \in Numeric
  <2>1. row[c] \in Numbers
    BY <1>1, <1>2 DEF Admitted, Numeric
  <2>2. PICK s \in DOMAIN Numeral : s = CHOOSE t \in DOMAIN Numeral : Numeral[t] = row[c]
    BY <2>1 DEF Numbers
  <2>3. Numeral[s] = row[c] /\ s # ""
    BY <2>1, <2>2, FormAssumption DEF Numbers
  <2>4. toDefaults(row)[c] = [text |-> s, padded |-> FALSE]
    BY <1>2, <2>2 DEF toDefaults, Input
  <2>5. Inputs(c) = [text : DOMAIN Numeral \cup {""}, padded : {FALSE}]
    BY <1>2 DEF Inputs, Numeric
  <2>6. toDefaults(row)[c].text = s
    BY <2>4
  <2>7. Coerced(c, toDefaults(row)[c]) = {row[c]}
    BY <1>2, <2>3, <2>6 DEF Coerced, trimInput, Input
  <2>8. toDefaults(row)[c] \in Inputs(c)
    BY <2>2, <2>4, <2>5
  <2> QED
    BY <2>3, <2>6, <2>7, <2>8
<1>3. CASE c \notin Numeric
  <2>1. toDefaults(row)[c] = [text |-> row[c], padded |-> FALSE]
    BY <1>3 DEF toDefaults, Input
  <2>2. c # "quantity" /\ c # "price"
    BY <1>3 DEF Numeric
  <2>3. row[c] # ""
    BY <1>1, <2>2, FormAssumption DEF Admitted, Texts, Sides, Statuses
  <2>4. toDefaults(row)[c] \in Inputs(c)
    <3>1. CASE c = "side"
      <4>1. row[c] \in Sides
        BY <1>1, <3>1 DEF Admitted
      <4>2. Inputs(c) = [text : Sides \cup {""}, padded : {FALSE}]
        BY <1>3, <3>1 DEF Inputs
      <4> QED
        BY <2>1, <4>1, <4>2
    <3>2. CASE c = "status"
      <4>1. row[c] \in Statuses
        BY <1>1, <3>2 DEF Admitted
      <4>2. Inputs(c) = [text : Statuses \cup {""}, padded : {FALSE}]
        BY <1>3, <3>2 DEF Inputs
      <4> QED
        BY <2>1, <4>1, <4>2
    <3>3. CASE c # "side" /\ c # "status"
      <4>1. row[c] \in Texts
        BY <1>1, <2>2, <3>3 DEF Admitted, Texts
      <4>2. Inputs(c) = [text : Texts \cup {""}, padded : BOOLEAN]
        BY <1>3, <3>3 DEF Inputs
      <4> QED
        BY <2>1, <4>1, <4>2
    <3> QED
      BY <3>1, <3>2, <3>3
  <2>5. toDefaults(row)[c].text = row[c]
    BY <2>1
  <2>6. Coerced(c, toDefaults(row)[c]) = {row[c]}
    BY <1>3, <2>3, <2>5 DEF Coerced, trimInput, Input
  <2> QED
    BY <2>3, <2>4, <2>5, <2>6
<1> QED
  BY <1>2, <1>3

\* However the user edits a form, every control of it holds what such a control
\* can hold.
LEMMA FilledForms ==
    ASSUME NEW start, \A c \in DOMAIN start : start[c] \in Inputs(c),
           NEW form \in Filled(start)
    PROVE  DOMAIN form = DOMAIN start /\ \A c \in DOMAIN start : form[c] \in Inputs(c)
<1>1. PICK t : /\ DOMAIN t = Edits \cap DOMAIN start
               /\ \A c \in DOMAIN t : t[c] \in Inputs(c)
               /\ form = [c \in DOMAIN start |-> IF c \in DOMAIN t THEN t[c] ELSE start[c]]
  BY DEF Filled
<1> QED
  BY <1>1

-----------------------------------------------------------------------------
(* The book: every trade stays, and a cancelled one stays as it is *)

Cancelled(i) == book[i]["status"] = "CANCELLED"

BookInv ==
    /\ \E n \in Nat : DOMAIN book = 1 .. n
    /\ \A i \in DOMAIN book : WellFormed(book[i])
    /\ DOMAIN shown \subseteq DOMAIN book
    /\ \A i \in DOMAIN shown : WellFormed(shown[i])

\* What any step may do to the book.
BookStep ==
    /\ DOMAIN book \subseteq DOMAIN book'
    /\ \A i \in DOMAIN book : Cancelled(i) => book'[i] = book[i]

\* New trades go after those there are.
LEMMA EnterSteps ==
    ASSUME BookInv, NEW rows, NEW m \in Nat, rows \in Seq({rows[n] : n \in 1 .. m}),
           Len(rows) = m, \A n \in 1 .. m : WellFormed(rows[n]),
           Enter(rows), UNCHANGED shown
    PROVE  /\ BookStep /\ BookInv'
           /\ \A i \in DOMAIN book : book'[i] = book[i]
<1>1. PICK n \in Nat : DOMAIN book = 1 .. n
  BY DEF BookInv
<1>2. Cardinality(DOMAIN book) = n
  BY <1>1, FS_Interval
<1>3. book' = [i \in 1 .. n + m |-> IF i \in 1 .. n THEN book[i] ELSE rows[i - n]]
  BY <1>1, <1>2 DEF Enter
<1>4. DOMAIN book' = 1 .. n + m /\ n + m \in Nat /\ DOMAIN book \subseteq DOMAIN book'
  BY <1>1, <1>3
<1>5. \A i \in DOMAIN book : book'[i] = book[i]
  BY <1>1, <1>3
<1>6. ASSUME NEW i \in DOMAIN book' PROVE WellFormed(book'[i])
  <2>1. CASE i \in 1 .. n
    BY <1>1, <1>5, <2>1 DEF BookInv
  <2>2. CASE i \notin 1 .. n
    <3>1. i - n \in 1 .. m /\ book'[i] = rows[i - n]
      BY <1>3, <1>4, <2>2
    <3> QED
      BY <3>1
  <2> QED
    BY <2>1, <2>2
<1> QED
  BY <1>4, <1>5, <1>6 DEF BookStep, BookInv

\* A revision concerns one trade that is not cancelled, and sets what it says.
LEMMA ReviseSteps ==
    ASSUME BookInv, NEW i \in DOMAIN book, ~Cancelled(i),
           NEW body, \A c \in DOMAIN body : body[c] \in Admitted(c),
           Revise(i, body), UNCHANGED shown
    PROVE  /\ BookStep /\ BookInv'
           /\ DOMAIN book' = DOMAIN book
           /\ \A j \in DOMAIN book \ {i} : book'[j] = book[j]
           /\ \A c \in Columns :
                 book'[i][c] = IF c \in DOMAIN body THEN body[c] ELSE book[i][c]
<1>1. /\ DOMAIN book' = DOMAIN book
      /\ \A j \in DOMAIN book \ {i} : book'[j] = book[j]
      /\ book'[i] = [c \in Columns |-> IF c \in DOMAIN body THEN body[c] ELSE book[i][c]]
  BY DEF Revise
<1>2. \A c \in Columns :
         book'[i][c] = IF c \in DOMAIN body THEN body[c] ELSE book[i][c]
  BY <1>1
<1>3. WellFormed(book'[i])
  BY <1>1, <1>2 DEF BookInv, WellFormed
<1>4. \A j \in DOMAIN book' : WellFormed(book'[j])
  BY <1>1, <1>3 DEF BookInv
<1>5. BookStep
  BY <1>1 DEF BookStep, Cancelled
<1> QED
  BY <1>1, <1>2, <1>4, <1>5 DEF BookInv

-----------------------------------------------------------------------------
(* The requests *)

\* A request not answered yet carries what the form it came from let through.
Asked ==
    /\ call["create"].phase = "sent" =>
          "body" \in DOMAIN call["create"] /\ createTradeBodySchema(call["create"].body)
    /\ call["random"].phase = "sent" => call["random"].count \in Nat
    /\ call["amend"].phase = "sent" =>
          LET request == call["amend"] IN
          /\ WellFormed(request.opened)
          /\ DOMAIN request.form = Columns
          /\ request.body = Body(request.form)
          /\ \A c \in DOMAIN request.body : request.body[c] \in Admitted(c)
          /\ request.body = <<>> \/ amendTradeBodySchema(request.body)

CallInv ==
    /\ DOMAIN call = Mutations
    /\ \A k \in Mutations : isPending(k) => call[k].phase \in {"sent", "answered"}
    /\ \A k \in {"amend", "cancel"} : isPending(k) =>
          "id" \in DOMAIN call[k] /\ call[k].id \in DOMAIN book
    /\ isPending("create") => {"phase", "code", "own"} \subseteq DOMAIN call["create"]
    /\ Asked

DialogInv ==
    /\ dialog.kind \in {"amend", "cancel"} => dialog.id \in DOMAIN book
    /\ dialog.kind = "amend" => WellFormed(dialog.trade)

\* An answer keeps of its request what the callbacks use.
LEMMA AnswerShape ==
    ASSUME DOMAIN call = Mutations, NEW k \in Mutations, NEW code, Answer(k, code)
    PROVE  /\ DOMAIN call' = Mutations
           /\ \A j \in Mutations \ {k} : call'[j] = call[j]
           /\ {"phase", "code"} \subseteq DOMAIN call'[k]
           /\ call'[k].phase = "answered" /\ call'[k].code = code
           /\ \A f \in {"id", "own", "count"} \cap DOMAIN call[k] :
                 f \in DOMAIN call'[k] /\ call'[k][f] = call[k][f]
<1> DEFINE S == {"phase", "code"} \cup (DOMAIN call[k] \cap {"id", "own", "count"})
<1>1. PICK a : a = [f \in S |-> CASE f = "phase" -> "answered"
                                  [] f = "code" -> code [] OTHER -> call[k][f]]
  OBVIOUS
<1>2. call' = [call EXCEPT ![k] = a]
  BY <1>1 DEF Answer
<1>3. DOMAIN a = S /\ "phase" \in S /\ "code" \in S
  BY <1>1
<1>4. a["phase"] = "answered" /\ a["code"] = code
  BY <1>1, <1>3
<1>5. \A f \in {"id", "own", "count"} \cap DOMAIN call[k] : f \in S /\ a[f] = call[k][f]
  BY <1>1
<1> QED
  BY <1>2, <1>3, <1>4, <1>5

\* A call that is idle, sent or answered, as its phase says.
LEMMA PhaseTells ==
    ASSUME NEW k, call[k].phase \in {"sent", "answered"}
    PROVE  isPending(k)
BY DEF isPending, NoCall

-----------------------------------------------------------------------------
(* The server's steps *)

\* The answer to a form of the dialog that is open by now counts one more entry.
Counted(code) == call["create"].own /\ CountEntry(code)

\* A row as createTrade stores it.
LEMMA ServeCreateSteps ==
    ASSUME BookInv, CallInv, call["create"].phase = "sent", ServeCreate,
           UNCHANGED shown
    PROVE  /\ BookStep /\ BookInv'
           /\ \E code : /\ Answer("create", code)
                        /\ UNCHANGED entered \/ Counted(code)
<1>1. CASE createTradeBodySchema(call["create"].body)
  <2> DEFINE body == call["create"].body
             row == [c \in Columns |-> IF c = "status" THEN "ACTIVE" ELSE body[c]]
             rows == <<row>>
  <2>1. Enter(rows) /\ \E code : Answer("create", code) /\ CountEntry(code)
    BY <1>1 DEF ServeCreate
  <2>2. WellFormed(row)
    BY <1>1, FormAssumption
    DEF createTradeBodySchema, WellFormed, CreateColumns, Admitted, Statuses
  <2>3. DOMAIN row = Columns
    OBVIOUS
  <2> HIDE DEF row
  <2>4. rows \in Seq({rows[n] : n \in 1 .. 1}) /\ Len(rows) = 1 /\ rows[1] = row
    OBVIOUS
  <2>5. \A n \in 1 .. 1 : WellFormed(rows[n])
    BY <2>2, <2>4
  <2> HIDE DEF rows
  <2>6. BookStep /\ BookInv'
    BY <2>1, <2>4, <2>5, EnterSteps
  <2>7. \A code : CountEntry(code) => UNCHANGED entered \/ Counted(code)
    BY DEF CountEntry, Counted
  <2> QED
    BY <2>1, <2>6, <2>7
<1>2. CASE UNCHANGED <<book, entered>> /\ Answer("create", "VALIDATION_ERROR")
  BY <1>2 DEF BookStep, BookInv
<1> QED
  BY <1>1, <1>2 DEF ServeCreate, Refuse

\* The batch of one request.
LEMMA ServeRandomSteps ==
    ASSUME BookInv, CallInv, call["random"].phase = "sent", ServeRandom,
           UNCHANGED shown
    PROVE  BookStep /\ BookInv' /\ UNCHANGED entered /\ \E code : Answer("random", code)
<1>1. call["random"].count \in Nat
  BY DEF CallInv, Asked
<1>2. PICK made \in 0 .. call["random"].count :
         /\ Enter([n \in 1 .. made |-> StartRow])
         /\ \E code : Answer("random", code)
         /\ UNCHANGED entered
  BY DEF ServeRandom
<1>3. /\ made \in Nat
      /\ Enter([n \in 1 .. made |-> StartRow])
      /\ \E code : Answer("random", code)
      /\ UNCHANGED entered
  BY <1>2, <1>1
<1> DEFINE rows == [n \in 1 .. made |-> StartRow]
<1>4. /\ rows \in Seq({rows[n] : n \in 1 .. made}) /\ Len(rows) = made
      /\ \A n \in 1 .. made : rows[n] = StartRow
  OBVIOUS
<1>5. \A n \in 1 .. made : WellFormed(rows[n])
  BY <1>4, DialogAssumption
<1>6. Enter(rows)
  BY <1>3
<1> HIDE DEF rows
<1>7. BookStep /\ BookInv'
  BY <1>3, <1>4, <1>5, <1>6, EnterSteps
<1> QED
  BY <1>3, <1>7

\* amendTrade refuses a cancelled trade and says so; else it sets the columns.
LEMMA ServeAmendSteps ==
    ASSUME BookInv, CallInv, call["amend"].phase = "sent", ServeAmend,
           UNCHANGED shown
    PROVE  /\ BookStep /\ BookInv' /\ UNCHANGED entered
           /\ \E code : /\ Answer("amend", code)
                        /\ code = "TRADE_CANCELLED" => Cancelled(call["amend"].id)
<1> DEFINE i == call["amend"].id
           body == call["amend"].body
<1>1. i \in DOMAIN book /\ \A c \in DOMAIN body : body[c] \in Admitted(c)
  BY PhaseTells DEF CallInv, Asked
<1>2. CASE UNCHANGED <<book, entered>> /\ Answer("amend", "VALIDATION_ERROR")
  BY <1>2 DEF BookStep, BookInv
<1>3. CASE UNCHANGED <<book, entered>> /\ Answer("amend", "TRADE_CANCELLED") /\ Cancelled(i)
  BY <1>3 DEF BookStep, BookInv
<1>4. CASE /\ Revise(i, body) /\ UNCHANGED entered /\ ~Cancelled(i)
           /\ \E code \in AfterCommit : Answer("amend", code)
  <2>1. BookStep /\ BookInv'
    <3> HIDE DEF i, body
    <3> QED
      BY <1>1, <1>4, ReviseSteps
  <2>2. \A code \in AfterCommit : code # "TRADE_CANCELLED"
    BY DEF AfterCommit
  <2> QED
    BY <1>4, <2>1, <2>2
<1> QED
  BY <1>2, <1>3, <1>4 DEF ServeAmend, Refuse, Cancelled

\* cancelTrade leaves its trade cancelled if it succeeds, and finds it so if it says so.
LEMMA ServeCancelSteps ==
    ASSUME BookInv, CallInv, call["cancel"].phase = "sent", ServeCancel,
           UNCHANGED shown
    PROVE  /\ BookStep /\ BookInv' /\ UNCHANGED entered
           /\ \E code : /\ Answer("cancel", code)
                        /\ code \in CancelCodes =>
                             book'[call["cancel"].id]["status"] = "CANCELLED"
<1> DEFINE i == call["cancel"].id
<1>1. i \in DOMAIN book
  BY PhaseTells DEF CallInv
<1>2. CASE UNCHANGED <<book, entered>> /\ Answer("cancel", "TRADE_ALREADY_CANCELLED")
           /\ Cancelled(i)
  BY <1>2 DEF BookStep, BookInv, Cancelled
<1>3. CASE /\ Revise(i, [status |-> "CANCELLED"])
           /\ \E code \in AfterCommit : Answer("cancel", code)
           /\ UNCHANGED entered /\ ~Cancelled(i)
  <2> DEFINE body == [status |-> "CANCELLED"]
  <2>1. /\ DOMAIN body = {"status"} /\ body["status"] = "CANCELLED"
        /\ \A c \in DOMAIN body : body[c] \in Admitted(c)
    BY DEF Admitted, Statuses
  <2>2. Revise(i, body)
    BY <1>3
  <2> HIDE DEF i, body
  <2>3. BookStep /\ BookInv'
    BY <1>1, <1>3, <2>1, <2>2, ReviseSteps
  <2>4. book'[i]["status"] = body["status"]
    BY <1>1, <1>3, <2>1, <2>2, ReviseSteps, FormAssumption
  <2> QED
    BY <1>3, <2>1, <2>3, <2>4 DEF i
<1> QED
  BY <1>2, <1>3 DEF ServeCancel, Refuse, Cancelled

\* Another user's change.
LEMMA OthersReviseSteps ==
    ASSUME BookInv, OthersRevise
    PROVE  BookStep /\ BookInv'
<1>1. PICK i \in DOMAIN book, c \in Edits \cup {"status"} :
         /\ book[i]["status"] = "ACTIVE"
         /\ \E v \in Admitted(c) \ {book[i][c]} : Revise(i, [d \in {c} |-> v])
  BY DEF OthersRevise
<1>2. PICK v \in Admitted(c) : Revise(i, [d \in {c} |-> v])
  BY <1>1
<1> DEFINE body == [d \in {c} |-> v]
<1>3. Revise(i, body) /\ \A d \in DOMAIN body : body[d] \in Admitted(d)
  BY <1>2
<1>4. ~Cancelled(i) /\ UNCHANGED shown
  BY <1>1 DEF Cancelled, OthersRevise, screenVars
<1> HIDE DEF body
<1> QED
  BY <1>3, <1>4, ReviseSteps

\* Whatever the server does with a request, it is answered by it.
LEMMA ServeSteps ==
    ASSUME BookInv, CallInv, NEW k \in Mutations, Serve(k)
    PROVE  /\ BookStep /\ BookInv' /\ UNCHANGED screenVars
           /\ call[k].phase = "sent"
           /\ \E code :
                 /\ Answer(k, code)
                 /\ k = "amend" /\ code = "TRADE_CANCELLED" => Cancelled(call[k].id)
                 /\ k = "cancel" /\ code \in CancelCodes =>
                       book'[call[k].id]["status"] = "CANCELLED"
                 /\ UNCHANGED entered \/ (k = "create" /\ Counted(code))
<1>1. call[k].phase = "sent" /\ UNCHANGED screenVars /\ UNCHANGED shown
  BY DEF Serve, screenVars
<1>2. CASE k = "create" /\ ServeCreate
  BY <1>1, <1>2, ServeCreateSteps
<1>3. CASE k = "amend" /\ ServeAmend
  BY <1>1, <1>3, ServeAmendSteps
<1>4. CASE k = "cancel" /\ ServeCancel
  BY <1>1, <1>4, ServeCancelSteps
<1>5. CASE k = "random" /\ ServeRandom
  BY <1>1, <1>5, ServeRandomSteps
<1>6. CASE Refuse(k, "INTERNAL_ERROR")
  BY <1>1, <1>6 DEF Refuse, BookStep, BookInv, CancelCodes
<1> QED
  BY <1>1, <1>2, <1>3, <1>4, <1>5, <1>6 DEF Serve

-----------------------------------------------------------------------------
(* What the screen tells *)

\* What has been told, and what the answers under way will tell.
TruthInv ==
    /\ conflict # NoConflict => conflict \in DOMAIN book /\ Cancelled(conflict)
    /\ call["amend"].phase = "answered" /\ call["amend"].code = "TRADE_CANCELLED" =>
          Cancelled(call["amend"].id)
    /\ call["cancel"].phase = "answered" /\ call["cancel"].code \in CancelCodes =>
          Cancelled(call["cancel"].id)
    /\ \A t \in toasts : \A i \in t.cancelled : i \in DOMAIN book /\ Cancelled(i)

ScreenInv == BookInv /\ CallInv /\ DialogInv /\ TruthInv

\* An answer that tells the truth keeps it.
LEMMA AnswerKeeps ==
    ASSUME ScreenInv, BookStep, BookInv', UNCHANGED screenVars,
           NEW k \in Mutations, isPending(k), NEW code, Answer(k, code),
           k = "amend" /\ code = "TRADE_CANCELLED" => Cancelled(call[k].id),
           k = "cancel" /\ code \in CancelCodes => book'[call[k].id]["status"] = "CANCELLED"
    PROVE  ScreenInv'
<1>1. /\ DOMAIN call' = Mutations
      /\ \A j \in Mutations \ {k} : call'[j] = call[j]
      /\ {"phase", "code"} \subseteq DOMAIN call'[k]
      /\ call'[k].phase = "answered" /\ call'[k].code = code
      /\ \A f \in {"id", "own", "count"} \cap DOMAIN call[k] :
            f \in DOMAIN call'[k] /\ call'[k][f] = call[k][f]
  BY AnswerShape DEF ScreenInv, CallInv
<1>2. \A j \in {"amend", "cancel"} : isPending(j) =>
         "id" \in DOMAIN call[j] /\ call[j].id \in DOMAIN book
  BY DEF ScreenInv, CallInv
<1>3. \A j \in {"amend", "cancel"} : isPending(j)' =>
         /\ isPending(j)
         /\ "id" \in DOMAIN call'[j] /\ call'[j].id = call[j].id
  <2>1. ASSUME NEW j \in {"amend", "cancel"}, isPending(j)'
        PROVE  /\ isPending(j)
               /\ "id" \in DOMAIN call'[j] /\ call'[j]["id"] = call[j]["id"]
    <3>1. CASE j = k
      <4>1. "id" \in DOMAIN call[k]
        BY <1>2, <3>1
      <4> QED
        BY <1>1, <3>1, <4>1
    <3>2. CASE j # k
      <4>1. call'[j] = call[j] /\ isPending(j)
        BY <1>1, <2>1, <3>2 DEF isPending, Mutations
      <4> QED
        BY <1>2, <4>1
    <3> QED
      BY <3>1, <3>2
  <2> QED
    BY <2>1
<1>4. CallInv'
  <2>1. \A j \in Mutations : isPending(j)' => call'[j].phase \in {"sent", "answered"}
    BY <1>1 DEF isPending, ScreenInv, CallInv
  <2>2. isPending("create")' => {"phase", "code", "own"} \subseteq DOMAIN call'["create"]
    <3>1. CASE k = "create"
      <4>1. "own" \in DOMAIN call[k]
        BY <3>1 DEF ScreenInv, CallInv
      <4> QED
        BY <1>1, <3>1, <4>1
    <3>2. CASE k # "create"
      <4>1. call'["create"] = call["create"]
        BY <1>1, <3>2 DEF Mutations
      <4> QED
        BY <4>1 DEF isPending, ScreenInv, CallInv
    <3> QED
      BY <3>1, <3>2
  <2>3. Asked'
    <3>1. \A j \in Mutations : call'[j].phase = "sent" => call'[j] = call[j]
      BY <1>1
    <3> QED
      BY <3>1 DEF Asked, ScreenInv, CallInv, Mutations
  <2> QED
    BY <1>1, <1>2, <1>3, <2>1, <2>2, <2>3 DEF CallInv, BookStep
<1>5. DialogInv'
  BY DEF DialogInv, ScreenInv, BookStep, screenVars
<1>6. TruthInv'
  <2>1. \A i \in DOMAIN book : Cancelled(i) => i \in DOMAIN book' /\ Cancelled(i)'
    BY DEF BookStep, Cancelled
  <2>2. /\ conflict' # NoConflict => conflict' \in DOMAIN book' /\ Cancelled(conflict)'
        /\ \A t \in toasts' : \A i \in t.cancelled : i \in DOMAIN book' /\ Cancelled(i)'
    BY <2>1 DEF ScreenInv, TruthInv, screenVars, Cancelled
  <2>3. call'["amend"].phase = "answered" /\ call'["amend"].code = "TRADE_CANCELLED" =>
          book'[call'["amend"].id]["status"] = "CANCELLED"
    <3>1. CASE k = "amend"
      BY <1>1, <1>2, <2>1, <3>1 DEF Cancelled
    <3>2. CASE k # "amend"
      <4>1. call'["amend"] = call["amend"]
        BY <1>1, <3>2 DEF Mutations
      <4> QED
        BY <1>2, <2>1, <4>1, PhaseTells DEF ScreenInv, TruthInv, Cancelled
    <3> QED
      BY <3>1, <3>2
  <2>4. call'["cancel"].phase = "answered" /\ call'["cancel"].code \in CancelCodes =>
          book'[call'["cancel"].id]["status"] = "CANCELLED"
    <3>1. CASE k = "cancel"
      BY <1>1, <1>2, <2>1, <3>1 DEF Cancelled
    <3>2. CASE k # "cancel"
      <4>1. call'["cancel"] = call["cancel"]
        BY <1>1, <3>2 DEF Mutations
      <4> QED
        BY <1>2, <2>1, <4>1, PhaseTells DEF ScreenInv, TruthInv, Cancelled
    <3> QED
      BY <3>1, <3>2
  <2> QED
    BY <2>2, <2>3, <2>4 DEF TruthInv, Cancelled
<1> QED
  BY <1>4, <1>5, <1>6 DEF ScreenInv

\* A step that leaves the requests alone keeps all of it, if the screen tells
\* nothing new.
LEMMA BookStepKeeps ==
    ASSUME ScreenInv, BookStep, BookInv', UNCHANGED <<call, conflict>>,
           toasts' \subseteq toasts,
           dialog'.kind \in {"amend", "cancel"} => dialog'.id \in DOMAIN book',
           dialog'.kind = "amend" => WellFormed(dialog'.trade)
    PROVE  ScreenInv'
<1>1. \A i \in DOMAIN book : Cancelled(i) => i \in DOMAIN book' /\ Cancelled(i)'
  BY DEF BookStep, Cancelled
<1>2. Asked'
  BY DEF ScreenInv, CallInv, Asked
<1>3. CallInv'
  BY <1>2 DEF ScreenInv, CallInv, BookStep, isPending
<1>4. DialogInv'
  BY DEF DialogInv
<1>5. \A k \in {"amend", "cancel"} : call[k].phase = "answered" => call[k].id \in DOMAIN book
  BY PhaseTells DEF ScreenInv, CallInv
<1>6. TruthInv'
  <2>1. /\ conflict' # NoConflict => conflict' \in DOMAIN book' /\ Cancelled(conflict)'
        /\ \A t \in toasts' : \A i \in t.cancelled : i \in DOMAIN book' /\ Cancelled(i)'
    BY <1>1 DEF ScreenInv, TruthInv, Cancelled
  <2>2. call["amend"].phase = "answered" /\ call["amend"].code = "TRADE_CANCELLED" =>
          book'[call["amend"].id]["status"] = "CANCELLED"
    BY <1>1, <1>5 DEF ScreenInv, TruthInv, Cancelled
  <2>3. call["cancel"].phase = "answered" /\ call["cancel"].code \in CancelCodes =>
          book'[call["cancel"].id]["status"] = "CANCELLED"
    BY <1>1, <1>5 DEF ScreenInv, TruthInv, Cancelled
  <2> QED
    BY <2>1, <2>2, <2>3 DEF TruthInv, Cancelled
<1> QED
  BY <1>3, <1>4, <1>6 DEF ScreenInv

-----------------------------------------------------------------------------
(* The user's steps *)

\* Opening, closing and looking on.
LEMMA LookingKeeps ==
    ASSUME ScreenInv,
           \/ OpenRandom \/ OpenOnRow \/ Dismiss \/ OthersRevise \/ GridUpdate
           \/ \E n \in 1 .. MaxToasts : DismissToast(n)
    PROVE  ScreenInv'
<1>1. BookInv /\ DOMAIN shown \subseteq DOMAIN book
  BY DEF ScreenInv, BookInv
<1>2. UNCHANGED book => BookStep
  BY DEF BookStep
<1>3. UNCHANGED <<book, shown>> => BookInv'
  BY DEF ScreenInv, BookInv
<1>4. CASE OpenRandom
  <2>1. dialog'.kind = "random" /\ UNCHANGED <<book, shown, call, conflict, toasts>>
    BY <1>4 DEF OpenRandom, Open
  <2> QED
    BY <1>2, <1>3, <2>1, BookStepKeeps
<1>5. CASE OpenOnRow
  <2>1. PICK i \in DOMAIN shown :
           \/ Open([kind |-> "amend", id |-> i, trade |-> shown[i]])
           \/ Open([kind |-> "cancel", id |-> i])
    BY <1>5 DEF OpenOnRow
  <2>2. /\ dialog'.kind \in {"amend", "cancel"}
        /\ dialog'.id = i /\ (dialog'.kind = "amend" => dialog'.trade = shown[i])
        /\ UNCHANGED <<book, shown, call, conflict, toasts>>
    BY <1>5, <2>1 DEF Open, OpenOnRow
  <2>3. dialog'.id \in DOMAIN book' /\ (dialog'.kind = "amend" => WellFormed(dialog'.trade))
    BY <1>1, <2>1, <2>2 DEF BookInv
  <2> QED
    BY <1>2, <1>3, <2>2, <2>3, BookStepKeeps
<1>6. CASE Dismiss
  <2>1. dialog'.kind = "none" /\ UNCHANGED <<book, shown, call, conflict, toasts>>
    BY <1>6 DEF Dismiss, NoDialog
  <2> QED
    BY <1>2, <1>3, <2>1, BookStepKeeps
<1>7. CASE OthersRevise
  <2>1. BookStep /\ BookInv' /\ UNCHANGED <<call, dialog, conflict, toasts>>
    BY <1>1, <1>7, OthersReviseSteps DEF OthersRevise, screenVars
  <2>2. /\ dialog'.kind \in {"amend", "cancel"} => dialog'.id \in DOMAIN book'
        /\ dialog'.kind = "amend" => WellFormed(dialog'.trade)
    BY <2>1 DEF ScreenInv, DialogInv, BookStep
  <2> QED
    BY <2>1, <2>2, BookStepKeeps
<1>8. CASE GridUpdate
  <2>1. PICK i \in DOMAIN book :
          shown' = [j \in DOMAIN shown \cup {i} |-> IF j = i THEN book[i] ELSE shown[j]]
    BY <1>8 DEF GridUpdate
  <2>2. UNCHANGED <<book, call, dialog, conflict, toasts>>
    BY <1>8 DEF GridUpdate
  <2>3. BookInv'
    BY <1>1, <2>1, <2>2 DEF BookInv
  <2>4. /\ dialog'.kind \in {"amend", "cancel"} => dialog'.id \in DOMAIN book'
        /\ dialog'.kind = "amend" => WellFormed(dialog'.trade)
    BY <2>2 DEF ScreenInv, DialogInv
  <2> QED
    BY <1>2, <2>2, <2>3, <2>4, BookStepKeeps
<1>9. CASE \E n \in 1 .. MaxToasts : DismissToast(n)
  <2>1. UNCHANGED <<book, shown, call, dialog, conflict>> /\ toasts' \subseteq toasts
    BY <1>9 DEF DismissToast
  <2>2. /\ dialog'.kind \in {"amend", "cancel"} => dialog'.id \in DOMAIN book'
        /\ dialog'.kind = "amend" => WellFormed(dialog'.trade)
    BY <2>1 DEF ScreenInv, DialogInv
  <2> QED
    BY <1>2, <1>3, <2>1, <2>2, BookStepKeeps
<1> QED
  BY <1>4, <1>5, <1>6, <1>7, <1>8, <1>9

\* A new form disowns the request of an older one.
LEMMA OpenCreateShape ==
    ASSUME CallInv, OpenCreate
    PROVE  /\ DOMAIN call' = Mutations
           /\ \A k \in Mutations \ {"create"} : call'[k] = call[k]
           /\ isPending("create") =>
                 /\ DOMAIN call'["create"] = DOMAIN call["create"]
                 /\ ~call'["create"].own
                 /\ \A f \in DOMAIN call["create"] \ {"own"} :
                       call'["create"][f] = call["create"][f]
           /\ ~isPending("create") => call'["create"] = call["create"]
<1>1. CASE isPending("create")
  <2>1. PICK c : c = [call["create"] EXCEPT !.own = FALSE]
    OBVIOUS
  <2>2. call' = [call EXCEPT !["create"] = c]
    BY <1>1, <2>1 DEF OpenCreate
  <2>3. "own" \in DOMAIN call["create"] /\ DOMAIN call = Mutations
    BY <1>1 DEF CallInv
  <2>4. /\ DOMAIN c = DOMAIN call["create"] /\ c["own"] = FALSE
        /\ \A f \in DOMAIN call["create"] \ {"own"} : c[f] = call["create"][f]
    BY <2>1, <2>3
  <2> QED
    BY <1>1, <2>2, <2>3, <2>4 DEF Mutations
<1>2. CASE ~isPending("create")
  BY <1>2 DEF OpenCreate, CallInv
<1> QED
  BY <1>1, <1>2

\* And says nothing about any trade.
LEMMA OpenCreateKeeps ==
    ASSUME ScreenInv, OpenCreate
    PROVE  ScreenInv'
<1>1. /\ DOMAIN call' = Mutations
      /\ \A k \in Mutations \ {"create"} : call'[k] = call[k]
      /\ isPending("create") =>
            /\ DOMAIN call'["create"] = DOMAIN call["create"]
            /\ \A f \in DOMAIN call["create"] \ {"own"} :
                  call'["create"][f] = call["create"][f]
      /\ ~isPending("create") => call'["create"] = call["create"]
  BY OpenCreateShape DEF ScreenInv
<1>2. /\ UNCHANGED <<book, shown, conflict, toasts>>
      /\ dialog'.kind = "create"
  BY DEF OpenCreate, Open
<1>3. /\ call'["amend"] = call["amend"] /\ call'["cancel"] = call["cancel"]
      /\ call'["random"] = call["random"]
  BY <1>1 DEF Mutations
<1>4. isPending("create") => call'["create"].phase = call["create"].phase
  BY <1>1 DEF ScreenInv, CallInv
<1>5. isPending("create")' => isPending("create")
  BY <1>1 DEF isPending
<1>6. Asked'
  <2>1. call'["create"].phase = "sent" =>
          "body" \in DOMAIN call'["create"] /\ createTradeBodySchema(call'["create"].body)
    <3> SUFFICES ASSUME call'["create"].phase = "sent"
                 PROVE  /\ "body" \in DOMAIN call'["create"]
                        /\ createTradeBodySchema(call'["create"].body)
      OBVIOUS
    <3>1. call["create"].phase = "sent"
      BY <1>1, <1>4
    <3>2. isPending("create") /\ "body" \in DOMAIN call["create"]
          /\ createTradeBodySchema(call["create"].body)
      BY <3>1, PhaseTells DEF ScreenInv, CallInv, Asked
    <3>3. call'["create"]["body"] = call["create"]["body"]
      BY <1>1, <3>2
    <3> QED
      BY <1>1, <3>2, <3>3
  <2> QED
    BY <1>3, <2>1 DEF ScreenInv, CallInv, Asked
<1>7. CallInv'
  <2>1. \A k \in Mutations : isPending(k)' => call'[k].phase \in {"sent", "answered"}
    BY <1>1, <1>4 DEF isPending, ScreenInv, CallInv
  <2>2. isPending("create")' => {"phase", "code", "own"} \subseteq DOMAIN call'["create"]
    BY <1>1, <1>5 DEF ScreenInv, CallInv
  <2> QED
    BY <1>1, <1>2, <1>3, <1>6, <2>1, <2>2 DEF ScreenInv, CallInv, isPending
<1>8. BookInv' /\ DialogInv'
  BY <1>2 DEF ScreenInv, BookInv, DialogInv
<1>9. TruthInv'
  BY <1>2, <1>3 DEF ScreenInv, TruthInv, Cancelled
<1> QED
  BY <1>7, <1>8, <1>9 DEF ScreenInv

\* What is sent is what the form let through, and says nothing yet.
LEMMA SendKeeps ==
    ASSUME ScreenInv, NEW k \in Mutations, NEW request, Send(k, request),
           request.phase = "sent", request.code = "NONE",
           k \in {"amend", "cancel"} => "id" \in DOMAIN request /\ request.id \in DOMAIN book,
           k = "create" => {"phase", "code", "own"} \subseteq DOMAIN request,
           conflict' \in {conflict, NoConflict},
           Asked'
    PROVE  ScreenInv'
<1>1. /\ DOMAIN call' = Mutations /\ call'[k] = request
      /\ \A j \in Mutations \ {k} : call'[j] = call[j]
  BY DEF Send, ScreenInv, CallInv
<1>2. UNCHANGED <<book, shown, dialog, toasts>>
  BY DEF Send
<1>3. CallInv'
  <2>1. ASSUME NEW j \in Mutations, isPending(j)'
        PROVE  /\ call'[j].phase \in {"sent", "answered"}
               /\ j \in {"amend", "cancel"} =>
                     "id" \in DOMAIN call'[j] /\ call'[j].id \in DOMAIN book
               /\ j = "create" => {"phase", "code", "own"} \subseteq DOMAIN call'[j]
    <3>1. CASE j = k
      BY <1>1, <3>1
    <3>2. CASE j # k
      <4>1. call'[j] = call[j]
        BY <1>1, <3>2
      <4>2. isPending(j)
        BY <2>1, <4>1 DEF isPending
      <4> QED
        BY <4>1, <4>2 DEF ScreenInv, CallInv
    <3> QED
      BY <3>1, <3>2
  <2> QED
    BY <1>1, <1>2, <2>1 DEF CallInv, Mutations
<1>4. BookInv' /\ DialogInv'
  BY <1>2 DEF ScreenInv, BookInv, DialogInv
<1>5. TruthInv'
  <2>1. \A j \in Mutations : call'[j].phase = "answered" => call'[j] = call[j]
    BY <1>1
  <2> QED
    BY <1>2, <2>1 DEF ScreenInv, TruthInv, Cancelled, Mutations
<1> QED
  BY <1>3, <1>4, <1>5 DEF ScreenInv

\* What a dialog submits when its rules let it through.
LEMMA SubmitKeeps ==
    ASSUME ScreenInv, SubmitCreate \/ SubmitAmend \/ ConfirmCancel \/ SubmitRandom
    PROVE  ScreenInv'
<1>1. \A k \in Mutations : \A request : Send(k, request) =>
         /\ call'[k] = request
         /\ \A j \in Mutations \ {k} : call'[j] = call[j]
  BY DEF Send, ScreenInv, CallInv
<1>2. Asked
  BY DEF ScreenInv, CallInv
<1>3. CASE SubmitCreate
  <2> DEFINE start == [c \in CreateColumns |-> toDefaults(StartRow)[c]]
  <2>1. PICK form \in Filled(start) :
          /\ createTradeSchema(form)
          /\ Send("create", [phase |-> "sent", code |-> "NONE",
                             body |-> Body(form), own |-> TRUE])
    BY <1>3 DEF SubmitCreate
  <2>2. DOMAIN start = CreateColumns /\ \A c \in DOMAIN start : start[c] \in Inputs(c)
    BY DefaultsAreInputs, DialogAssumption DEF CreateColumns
  <2> HIDE DEF start
  <2>3. DOMAIN form = CreateColumns /\ \A c \in CreateColumns : form[c] \in Inputs(c)
    BY <2>2, FilledForms
  <2>4. createTradeBodySchema(Body(form))
    BY <2>1, <2>3, CreateFormsAreAdmitted
  <2>5. PICK request : request = [phase |-> "sent", code |-> "NONE",
                                  body |-> Body(form), own |-> TRUE]
    OBVIOUS
  <2>6. /\ request.phase = "sent" /\ request.code = "NONE" /\ request.body = Body(form)
        /\ {"phase", "code", "own"} \subseteq DOMAIN request
        /\ "body" \in DOMAIN request
        /\ Send("create", request)
    BY <2>1, <2>5
  <2>7. Asked'
    BY <1>1, <1>2, <2>4, <2>6 DEF Asked, Mutations
  <2> QED
    BY <1>3, <2>6, <2>7, SendKeeps DEF SubmitCreate, Mutations
<1>4. CASE SubmitAmend
  <2> DEFINE start == toDefaults(dialog.trade)
  <2>1. PICK form \in Filled(start) :
          /\ amendTradeSchema(form)
          /\ Send("amend", [phase |-> "sent", code |-> "NONE",
                            id |-> dialog.id, body |-> Body(form), form |-> form,
                            opened |-> dialog.trade])
    BY <1>4 DEF SubmitAmend
  <2>2. WellFormed(dialog.trade) /\ dialog.id \in DOMAIN book
    BY <1>4 DEF SubmitAmend, ScreenInv, DialogInv
  <2>3. DOMAIN start = Columns
    BY DEF toDefaults
  <2>4. \A c \in DOMAIN start : start[c] \in Inputs(c)
    BY <2>2, <2>3, DefaultsAreInputs
  <2> HIDE DEF start
  <2>5. DOMAIN form = Columns /\ \A c \in Columns : form[c] \in Inputs(c)
    BY <2>3, <2>4, FilledForms
  <2>6. Body(form) = <<>> \/ amendTradeBodySchema(Body(form))
    <3>1. CASE DOMAIN Body(form) = {}
      <4>1. Body(form) = [c \in {} |-> CHOOSE v \in Coerced(c, form[c]) : TRUE]
        BY <3>1 DEF Body
      <4> QED
        BY <4>1
    <3>2. CASE DOMAIN Body(form) # {}
      BY <2>1, <2>5, <3>2, AmendFormsAreAdmitted
    <3> QED
      BY <3>1, <3>2
  <2>7. PICK request : request = [phase |-> "sent", code |-> "NONE",
                                  id |-> dialog.id, body |-> Body(form), form |-> form,
                                  opened |-> dialog.trade]
    OBVIOUS
  <2>8. /\ request.phase = "sent" /\ request.code = "NONE"
        /\ "id" \in DOMAIN request /\ request.id = dialog.id
        /\ request.body = Body(form) /\ request.form = form
        /\ request.opened = dialog.trade
        /\ Send("amend", request)
    BY <2>1, <2>7
  <2>9. \A c \in DOMAIN Body(form) : Body(form)[c] \in Admitted(c)
    BY <2>6 DEF amendTradeBodySchema
  <2>10. Asked'
    <3>1. call'["amend"] = request /\ call'["create"] = call["create"]
          /\ call'["random"] = call["random"]
      BY <1>1, <2>8 DEF Mutations
    <3> QED
      BY <1>2, <2>2, <2>5, <2>6, <2>8, <2>9, <3>1 DEF Asked
  <2> QED
    BY <1>4, <2>2, <2>8, <2>10, SendKeeps DEF SubmitAmend, Mutations
<1>5. CASE ConfirmCancel
  <2>1. PICK request : request = [phase |-> "sent", code |-> "NONE", id |-> dialog.id]
    OBVIOUS
  <2>2. /\ request.phase = "sent" /\ request.code = "NONE"
        /\ "id" \in DOMAIN request /\ request.id = dialog.id
        /\ Send("cancel", request)
    BY <1>5, <2>1 DEF ConfirmCancel
  <2>3. dialog.id \in DOMAIN book
    BY <1>5 DEF ConfirmCancel, ScreenInv, DialogInv
  <2>4. Asked'
    BY <1>1, <1>2, <2>2 DEF Asked, Mutations
  <2> QED
    BY <1>5, <2>2, <2>3, <2>4, SendKeeps DEF ConfirmCancel, Mutations
<1>6. CASE SubmitRandom
  <2>1. PICK count \in 1 .. MAX_RANDOM :
          Send("random", [phase |-> "sent", code |-> "NONE", count |-> count])
    BY <1>6 DEF SubmitRandom
  <2>2. PICK request : request = [phase |-> "sent", code |-> "NONE", count |-> count]
    OBVIOUS
  <2>3. /\ request.phase = "sent" /\ request.code = "NONE" /\ request.count = count
        /\ Send("random", request) /\ count \in Nat
    BY <2>1, <2>2, DialogAssumption
  <2>4. Asked'
    BY <1>1, <1>2, <2>3 DEF Asked, Mutations
  <2> QED
    BY <1>6, <2>3, <2>4, SendKeeps DEF SubmitRandom, Mutations
<1> QED
  BY <1>3, <1>4, <1>5, <1>6

-----------------------------------------------------------------------------
(* Every step *)

\* A settled request is gone, and what it told is true.
LEMMA SettleKeeps ==
    ASSUME ScreenInv, NEW k \in Mutations, Settle(k)
    PROVE  ScreenInv'
<1>1. /\ call[k].phase = "answered" /\ UNCHANGED <<book, shown>>
      /\ DOMAIN call' = Mutations /\ call'[k] = NoCall
      /\ \A j \in Mutations \ {k} : call'[j] = call[j]
  BY DEF Settle, ScreenInv, CallInv
<1>2. isPending(k)
  BY <1>1, PhaseTells
<1>3. \A j \in Mutations : isPending(j)' => call'[j] = call[j] /\ isPending(j)
  BY <1>1 DEF isPending
<1>4. \A j \in Mutations : call'[j].phase \in {"sent", "answered"} => call'[j] = call[j]
  BY <1>1 DEF NoCall
<1>5. Asked'
  BY <1>4 DEF ScreenInv, CallInv, Asked, Mutations
<1>6. CallInv'
  <2>1. \A j \in Mutations : isPending(j)' => call'[j].phase \in {"sent", "answered"}
    BY <1>3 DEF ScreenInv, CallInv
  <2>2. \A j \in {"amend", "cancel"} : isPending(j)' =>
          "id" \in DOMAIN call'[j] /\ call'[j].id \in DOMAIN book'
    BY <1>1, <1>3 DEF ScreenInv, CallInv, Mutations
  <2>3. isPending("create")' => {"phase", "code", "own"} \subseteq DOMAIN call'["create"]
    BY <1>3 DEF ScreenInv, CallInv, Mutations
  <2> QED
    BY <1>1, <1>5, <2>1, <2>2, <2>3 DEF CallInv
<1>7. BookInv'
  BY <1>1 DEF ScreenInv, BookInv
<1>8. DialogInv'
  <2>1. dialog' \in {dialog, NoDialog}
    BY DEF Settle, Succeed, TellConflict, Fail
  <2> QED
    BY <1>1, <2>1 DEF ScreenInv, DialogInv, NoDialog
<1>9. \A j \in {"amend", "cancel"} :
         isPending(j) => call[j].id \in DOMAIN book
  BY DEF ScreenInv, CallInv
<1>10. conflict' # NoConflict => conflict' \in DOMAIN book /\ Cancelled(conflict')
  <2>1. CASE TellConflict(k)
    <3>1. k = "amend" /\ call[k].code = "TRADE_CANCELLED" /\ conflict' = call[k].id
      BY <2>1 DEF TellConflict, isConflict
    <3> QED
      BY <1>1, <1>2, <1>9, <3>1 DEF ScreenInv, TruthInv
  <2>2. CASE UNCHANGED conflict
    BY <2>2 DEF ScreenInv, TruthInv
  <2> QED
    BY <2>1, <2>2 DEF Settle, Succeed, Fail
<1>11. \A t \in toasts' : \A i \in t.cancelled : i \in DOMAIN book /\ Cancelled(i)
  <2>1. ASSUME NEW ok, Toast(k, ok)
        PROVE  \A t \in toasts' : \A i \in t.cancelled : i \in DOMAIN book /\ Cancelled(i)
    <3>1. PICK new : /\ new = [id |-> nextId, ok |-> ok, cancelled |-> saidCancelled(k)]
                     /\ toasts' = toasts \cup {new}
      BY <2>1 DEF Toast
    <3>2. new.cancelled = saidCancelled(k)
      BY <3>1
    <3>3. \A i \in saidCancelled(k) : i \in DOMAIN book /\ Cancelled(i)
      BY <1>1, <1>2, <1>9 DEF saidCancelled, ScreenInv, TruthInv
    <3> QED
      BY <3>1, <3>2, <3>3 DEF ScreenInv, TruthInv
  <2>2. CASE TellConflict(k)
    BY <2>2 DEF TellConflict, ScreenInv, TruthInv
  <2>3. CASE Succeed(k) \/ Fail(k)
    BY <2>1, <2>3 DEF Succeed, Fail
  <2> QED
    BY <2>2, <2>3 DEF Settle
<1>12. TruthInv'
  <2>1. /\ call'["amend"].phase = "answered" => call'["amend"] = call["amend"]
        /\ call'["cancel"].phase = "answered" => call'["cancel"] = call["cancel"]
    BY <1>4 DEF Mutations
  <2> QED
    BY <1>1, <1>10, <1>11, <2>1 DEF ScreenInv, TruthInv, Cancelled
<1> QED
  BY <1>6, <1>7, <1>8, <1>12 DEF ScreenInv

\* Every step keeps what the screen tells true.
LEMMA ScreenInvStep == ScreenInv /\ [DialogsNext]_dialogVars => ScreenInv'
<1> SUFFICES ASSUME ScreenInv, [DialogsNext]_dialogVars PROVE ScreenInv'
  OBVIOUS
<1>1. CASE User
  BY <1>1, LookingKeeps, OpenCreateKeeps, SubmitKeeps DEF User
<1>2. ASSUME NEW k \in Mutations, Request(k) PROVE ScreenInv'
  <2>1. CASE Serve(k)
    <3>1. /\ BookStep /\ BookInv' /\ UNCHANGED screenVars /\ isPending(k)
          /\ \E code :
                 /\ Answer(k, code)
                 /\ k = "amend" /\ code = "TRADE_CANCELLED" => Cancelled(call[k].id)
                 /\ k = "cancel" /\ code \in CancelCodes =>
                       book'[call[k].id]["status"] = "CANCELLED"
      BY <2>1, ServeSteps, PhaseTells DEF ScreenInv
    <3> QED
      BY <3>1, AnswerKeeps
  <2>2. CASE NetworkFails(k)
    <3>1. /\ UNCHANGED <<book, screenVars>> /\ isPending(k)
          /\ Answer(k, "NETWORK_ERROR")
      BY <2>2 DEF NetworkFails
    <3>2. BookStep /\ BookInv'
      BY <3>1 DEF BookStep, ScreenInv, BookInv, screenVars
    <3> QED
      BY <3>1, <3>2, AnswerKeeps DEF CancelCodes
  <2>3. CASE Settle(k)
    BY <2>3, SettleKeeps
  <2> QED
    BY <1>2, <2>1, <2>2, <2>3 DEF Request
<1>3. CASE OthersRevise \/ GridUpdate \/ \E n \in 1 .. MaxToasts : DismissToast(n)
  BY <1>3, LookingKeeps
<1>4. CASE UNCHANGED dialogVars
  <2>1. BookStep /\ BookInv'
    BY <1>4 DEF dialogVars, screenVars, BookStep, ScreenInv, BookInv
  <2>2. UNCHANGED <<call, dialog, conflict, toasts, book>>
    BY <1>4 DEF dialogVars, screenVars
  <2> QED
    BY <2>1, <2>2, BookStepKeeps DEF ScreenInv, DialogInv
<1> QED
  BY <1>1, <1>2, <1>3, <1>4 DEF DialogsNext

\* It holds before anything is told.
LEMMA ScreenInvInit == DialogsInit => ScreenInv
<1> SUFFICES ASSUME DialogsInit PROVE ScreenInv
  OBVIOUS
<1>1. /\ DOMAIN book = 1 .. StartTrades /\ StartTrades \in Nat
      /\ \A i \in DOMAIN book : WellFormed(book[i])
      /\ shown = book
  BY DialogAssumption DEF DialogsInit
<1>2. BookInv
  <2>1. \E n \in Nat : DOMAIN book = 1 .. n
    BY <1>1
  <2>2. \A i \in DOMAIN shown : WellFormed(shown[i])
    BY <1>1
  <2> QED
    BY <1>1, <2>1, <2>2 DEF BookInv
<1>3. /\ DOMAIN call = Mutations /\ \A k \in Mutations : call[k] = NoCall
      /\ \A k \in Mutations : call[k].phase = "idle"
  BY DEF DialogsInit, NoCall
<1>4. call["create"].phase = "idle" /\ call["amend"].phase = "idle"
      /\ call["random"].phase = "idle" /\ call["cancel"].phase = "idle"
  BY <1>3 DEF Mutations
<1>5. CallInv
  BY <1>3, <1>4 DEF CallInv, Asked, isPending, Mutations
<1>6. TruthInv /\ DialogInv
  BY <1>4 DEF DialogsInit, TruthInv, DialogInv, NoDialog
<1> QED
  BY <1>2, <1>5, <1>6 DEF ScreenInv

\* It holds of every reachable state.
LEMMA ScreenInvariant == DialogsSpec => []ScreenInv
BY ScreenInvInit, ScreenInvStep, PTL DEF DialogsSpec

\* "Trade cancelled.", "already been cancelled" and the conflict message are only
\* said of a cancelled trade (useCancelTrade.ts, onError of useAmendTrade.ts).
THEOREM WhatIsToldIsTrueAlways == DialogsSpec => []WhatIsToldIsTrue
<1>1. ScreenInv => WhatIsToldIsTrue
  BY DEF ScreenInv, TruthInv, WhatIsToldIsTrue, Cancelled
<1> QED
  BY <1>1, ScreenInvariant, PTL

\* The edge validation takes every body the dialogs send, but for that of an
\* amend form with every control cleared (tradeSchema.ts, routes/trades.ts).
THEOREM EdgeAdmitsEveryBody == DialogsSpec => []EdgeAdmitsEveryForm
<1>1. ScreenInv => EdgeAdmitsEveryForm
  BY DEF ScreenInv, CallInv, Asked, EdgeAdmitsEveryForm
<1> QED
  BY <1>1, ScreenInvariant, PTL

-----------------------------------------------------------------------------
(* Duplicates *)

\* The form opened last has entered no more trades than were told as no success
\* while it is open or its request is not handled yet.
FormInv ==
    /\ entered \in [made : Nat, lost : Nat]
    /\ entered.made <= entered.lost + 1
    /\ \/ entered.made <= entered.lost
       \/ dialog.kind # "create" /\ ~(call["create"].phase = "sent" /\ call["create"].own)
       \/ call["create"].phase = "answered" /\ call["create"].code = "OK"
          /\ call["create"].own

\* Every step keeps that.
LEMMA FormInvStep == ScreenInv /\ FormInv /\ [DialogsNext]_dialogVars => FormInv'
<1> SUFFICES ASSUME ScreenInv, FormInv, [DialogsNext]_dialogVars PROVE FormInv'
  OBVIOUS
<1>1. CASE OpenCreate
  <2>1. entered' = [made |-> 0, lost |-> 0]
    BY <1>1 DEF OpenCreate, NothingEntered
  <2> QED
    BY <2>1 DEF FormInv
<1>2. CASE /\ OpenRandom \/ OpenOnRow \/ Dismiss \/ OthersRevise \/ GridUpdate
              \/ (\E n \in 1 .. MaxToasts : DismissToast(n)) \/ UNCHANGED dialogVars
  <2>1. UNCHANGED <<call, entered>>
    BY <1>2 DEF OpenRandom, OpenOnRow, Dismiss, OthersRevise, GridUpdate, DismissToast,
       dialogVars
  <2>2. dialog'.kind # "create" \/ dialog' = dialog
    BY <1>2 DEF OpenRandom, OpenOnRow, Open, Dismiss, OthersRevise, GridUpdate,
       DismissToast, dialogVars, screenVars, NoDialog
  <2> QED
    BY <2>1, <2>2 DEF FormInv
<1>3. CASE SubmitCreate
  <2>1. PICK request : request.phase = "sent" /\ Send("create", request)
    BY <1>3 DEF SubmitCreate
  <2>2. /\ dialog.kind = "create" /\ ~isPending("create")
        /\ UNCHANGED <<entered, dialog>>
    BY <2>1 DEF Send
  <2>3. entered.made <= entered.lost
    BY <2>2, PhaseTells DEF FormInv
  <2> QED
    BY <2>2, <2>3 DEF FormInv
<1>4. CASE SubmitAmend \/ ConfirmCancel \/ SubmitRandom
  <2>1. PICK k \in Mutations \ {"create"} : \E request : Send(k, request)
    BY <1>4 DEF SubmitAmend, ConfirmCancel, SubmitRandom, Mutations
  <2>2. UNCHANGED <<entered, dialog>> /\ call'["create"] = call["create"]
    BY <2>1 DEF Send, ScreenInv, CallInv, Mutations
  <2> QED
    BY <2>2 DEF FormInv
<1>5. ASSUME NEW k \in Mutations, Serve(k) PROVE FormInv'
  <2>1. /\ UNCHANGED dialog /\ call[k].phase = "sent"
        /\ \E code :
              /\ Answer(k, code)
              /\ UNCHANGED entered \/ (k = "create" /\ Counted(code))
    BY <1>5, ServeSteps DEF ScreenInv, screenVars
  <2>2. PICK code :
           /\ Answer(k, code)
           /\ UNCHANGED entered \/ (k = "create" /\ Counted(code))
    BY <2>1
  <2>3. /\ \A j \in Mutations \ {k} : call'[j] = call[j]
        /\ call'[k].phase = "answered" /\ call'[k].code = code
        /\ "own" \in DOMAIN call[k] => call'[k]["own"] = call[k]["own"]
    BY <2>2, AnswerShape DEF ScreenInv, CallInv
  <2>4. CASE k = "create"
    <3>1. call'["create"]["own"] = call["create"]["own"]
      BY <2>1, <2>3, <2>4, PhaseTells DEF ScreenInv, CallInv
    <3>2. CASE UNCHANGED entered
      BY <2>1, <2>3, <2>4, <3>1, <3>2 DEF FormInv
    <3>3. CASE Counted(code)
      <4>1. entered.made <= entered.lost
        BY <2>1, <2>4, <3>3 DEF FormInv, Counted
      <4>2. /\ call["create"].own
            /\ entered' = [made |-> entered.made + 1,
                           lost |-> entered.lost + (IF code = "OK" THEN 0 ELSE 1)]
        BY <3>3 DEF Counted, CountEntry
      <4>3. CASE code = "OK"
        <5>1. entered' = [made |-> entered.made + 1, lost |-> entered.lost]
          BY <4>2, <4>3 DEF FormInv
        <5> QED
          BY <2>3, <2>4, <3>1, <4>1, <4>2, <4>3, <5>1 DEF FormInv
      <4>4. CASE code # "OK"
        <5>1. entered' = [made |-> entered.made + 1, lost |-> entered.lost + 1]
          BY <4>2, <4>4
        <5> QED
          BY <4>1, <5>1 DEF FormInv
      <4> QED
        BY <4>3, <4>4
    <3> QED
      BY <2>2, <3>2, <3>3
  <2>5. CASE k # "create"
    <3>1. UNCHANGED entered /\ call'["create"] = call["create"]
      BY <2>2, <2>3, <2>5 DEF Mutations
    <3> QED
      BY <2>1, <3>1 DEF FormInv
  <2> QED
    BY <2>4, <2>5
<1>6. ASSUME NEW k \in Mutations, NetworkFails(k) PROVE FormInv'
  <2>1. /\ UNCHANGED dialog /\ Answer(k, "NETWORK_ERROR") /\ isPending(k)
        /\ entered' = IF k = "create" /\ call[k].code = "OK" /\ call[k].own
                      THEN [entered EXCEPT !.lost = @ + 1] ELSE entered
    BY <1>6 DEF NetworkFails, screenVars
  <2>2. /\ \A j \in Mutations \ {k} : call'[j] = call[j]
        /\ call'[k].phase = "answered"
    BY <2>1, AnswerShape DEF ScreenInv, CallInv
  <2>3. CASE k = "create" /\ call[k].code = "OK" /\ call[k].own
    <3>1. entered' = [entered EXCEPT !.lost = @ + 1]
      BY <2>1, <2>3
    <3> QED
      BY <3>1 DEF FormInv
  <2>4. CASE k = "create" /\ ~(call[k].code = "OK" /\ call[k].own)
    <3>1. UNCHANGED entered
      BY <2>1, <2>4
    <3> QED
      BY <2>1, <2>2, <2>4, <3>1 DEF FormInv
  <2>5. CASE k # "create"
    <3>1. UNCHANGED entered /\ call'["create"] = call["create"]
      BY <2>1, <2>2, <2>5 DEF Mutations
    <3> QED
      BY <2>1, <3>1 DEF FormInv
  <2> QED
    BY <2>3, <2>4, <2>5
<1>7. ASSUME NEW k \in Mutations, Settle(k) PROVE FormInv'
  <2>1. /\ UNCHANGED entered /\ call'[k] = NoCall
        /\ \A j \in Mutations \ {k} : call'[j] = call[j]
        /\ Succeed(k) \/ TellConflict(k) \/ Fail(k)
    BY <1>7 DEF Settle, ScreenInv, CallInv
  <2>2. dialog' = dialog \/ dialog'.kind = "none"
    <3>1. dialog' = dialog \/ dialog' = NoDialog
      BY <2>1 DEF Succeed, TellConflict, Fail
    <3> QED
      BY <3>1 DEF NoDialog
  <2>3. CASE k = "create"
    <3>1. call'["create"].phase = "idle"
      BY <2>1, <2>3 DEF NoCall
    <3>2. CASE call["create"].code = "OK"
      <4>1. dialog'.kind # "create"
        BY <2>1, <2>3, <3>2 DEF Succeed, TellConflict, Fail, isConflict, NoDialog
      <4> QED
        BY <2>1, <3>1, <4>1 DEF FormInv
    <3>3. CASE call["create"].code # "OK"
      BY <2>1, <2>2, <3>1, <3>3 DEF FormInv
    <3> QED
      BY <3>2, <3>3
  <2>4. CASE k # "create"
    <3>1. call'["create"] = call["create"]
      BY <2>1, <2>4 DEF Mutations
    <3> QED
      BY <2>1, <2>2, <3>1 DEF FormInv
  <2> QED
    BY <2>3, <2>4
<1> QED
  BY <1>1, <1>2, <1>3, <1>4, <1>5, <1>6, <1>7 DEF DialogsNext, User, Request

\* One filled form enters one trade, and one more for each entry that was not
\* answered as a success (isPending and onClose in useCreateTrade.ts, CreateTradeModal.tsx).
THEOREM OneFormOneTrade == DialogsSpec => []DuplicatesNeedALostAnswer
<1>1. DialogsInit => FormInv
  BY DEF DialogsInit, NothingEntered, FormInv
<1>2. DialogsSpec => []FormInv
  BY <1>1, FormInvStep, ScreenInvariant, PTL DEF DialogsSpec
<1>3. FormInv => DuplicatesNeedALostAnswer
  BY DEF FormInv, DuplicatesNeedALostAnswer
<1> QED
  BY <1>2, <1>3, PTL

-----------------------------------------------------------------------------
(* What an amendment changes *)

\* A column of an amendment's body was filled in, and if it was not typed into,
\* it carries what the trade held when the form was opened.
LEMMA BodyOfForm ==
    ASSUME NEW opened, WellFormed(opened), NEW form, DOMAIN form = Columns,
           NEW c \in DOMAIN Body(form)
    PROVE  /\ c \in Columns /\ trimInput(form[c]).text # ""
           /\ form[c] = toDefaults(opened)[c] => Body(form)[c] = opened[c]
<1>1. c \in Columns /\ Body(form)[c] \in Coerced(c, form[c])
  BY BodyCarries
<1>2. form[c].text # ""
  BY <1>1, OneValue
<1>3. trimInput(form[c]).text = form[c].text
  BY DEF trimInput, Input
<1>4. ASSUME form[c] = toDefaults(opened)[c] PROVE Body(form)[c] = opened[c]
  <2>1. Coerced(c, form[c]) = {opened[c]}
    BY <1>1, <1>4, DefaultsAreInputs
  <2> QED
    BY <1>1, <2>1
<1> QED
  BY <1>1, <1>2, <1>3, <1>4

\* The amend form sends every column, but a trade's columns end up only with
\* what was typed into them or what they held when the form was opened
\* (toDefaults in AmendTradeModal.tsx, trimInput in tradeSchema.ts).
THEOREM AmendmentsAreTyped == DialogsSpec => AmendsWhatWasTyped
<1> DEFINE A == (call["amend"].phase = "sent" /\ call'["amend"].phase = "answered")
                  => LET request == call["amend"]
                         typed(c) == request.form[c] # toDefaults(request.opened)[c]
                     IN \A i \in DOMAIN book, c \in Columns :
                          book'[i][c] # book[i][c] =>
                            /\ i = request.id
                            /\ trimInput(request.form[c]).text # ""
                            /\ typed(c) \/ book'[i][c] = request.opened[c]
<1>1. ScreenInv /\ [DialogsNext]_dialogVars => [A]_dialogVars
  <2> SUFFICES ASSUME ScreenInv, DialogsNext,
                      call["amend"].phase = "sent", call'["amend"].phase = "answered"
               PROVE  A
    OBVIOUS
  <2> DEFINE request == call["amend"]
  <2>1. \/ Serve("amend")
        \/ UNCHANGED book
    <3>1. CASE User
      BY <3>1 DEF User, OpenCreate, OpenRandom, OpenOnRow, Dismiss, Open, SubmitCreate,
         SubmitAmend, ConfirmCancel, SubmitRandom, Send
    <3>2. CASE OthersRevise
      BY <3>2 DEF OthersRevise
    <3>3. CASE GridUpdate \/ \E n \in 1 .. MaxToasts : DismissToast(n)
      BY <3>3 DEF GridUpdate, DismissToast
    <3>4. ASSUME NEW k \in Mutations, Request(k)
          PROVE  Serve("amend") \/ UNCHANGED book
      <4>1. CASE NetworkFails(k) \/ Settle(k)
        BY <4>1 DEF NetworkFails, Settle
      <4>2. CASE Serve(k) /\ k # "amend"
        <5>1. \A j \in Mutations \ {k} : call'[j] = call[j]
          BY <4>2, ServeSteps, AnswerShape DEF ScreenInv, CallInv
        <5> QED
          BY <4>2, <5>1 DEF Mutations
      <4> QED
        BY <3>4, <4>1, <4>2 DEF Request
    <3> QED
      BY <3>1, <3>2, <3>3, <3>4 DEF DialogsNext
  <2>2. CASE UNCHANGED book
    BY <2>2
  <2>3. CASE Serve("amend") /\ ~(UNCHANGED book)
    <3>1. /\ Revise(request.id, request.body) /\ UNCHANGED shown
          /\ ~Cancelled(request.id)
      BY <2>3 DEF Serve, ServeAmend, Refuse, screenVars, Cancelled
    <3>2. /\ WellFormed(request.opened) /\ DOMAIN request.form = Columns
          /\ request.body = Body(request.form)
          /\ \A c \in DOMAIN request.body : request.body[c] \in Admitted(c)
      BY DEF ScreenInv, CallInv, Asked
    <3>3. request.id \in DOMAIN book /\ BookInv
      BY PhaseTells DEF ScreenInv, CallInv
    <3> HIDE DEF request
    <3>4. /\ \A j \in DOMAIN book \ {request.id} : book'[j] = book[j]
          /\ \A c \in Columns :
               book'[request.id][c] = IF c \in DOMAIN request.body THEN request.body[c]
                                      ELSE book[request.id][c]
      BY <3>1, <3>2, <3>3, ReviseSteps
    <3>5. ASSUME NEW c \in DOMAIN request.body
          PROVE  /\ trimInput(request.form[c]).text # ""
                 /\ request.form[c] = toDefaults(request.opened)[c] =>
                      request.body[c] = request.opened[c]
      <4>1. PICK form, opened : form = request.form /\ opened = request.opened
        OBVIOUS
      <4>2. c \in DOMAIN Body(form) /\ WellFormed(opened) /\ DOMAIN form = Columns
        BY <3>2, <4>1
      <4>3. /\ trimInput(form[c]).text # ""
            /\ form[c] = toDefaults(opened)[c] => Body(form)[c] = opened[c]
        BY <4>2, BodyOfForm
      <4> QED
        BY <3>2, <4>1, <4>3
    <3>6. \A i \in DOMAIN book, c \in Columns :
             book'[i][c] # book[i][c] =>
               /\ i = request.id
               /\ trimInput(request.form[c]).text # ""
               /\ \/ request.form[c] # toDefaults(request.opened)[c]
                  \/ book'[i][c] = request.opened[c]
      BY <3>4, <3>5
    <3> QED
      BY <3>6 DEF request
  <2> QED
    BY <2>1, <2>2, <2>3
<1> QED
  BY <1>1, ScreenInvariant, PTL DEF DialogsSpec, AmendsWhatWasTyped
=============================================================================
