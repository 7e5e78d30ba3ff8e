------------------------------ MODULE TradeForm ------------------------------
(***************************************************************************)
(* What the create and amend forms make of what their controls hold        *)
(* (TradeForm.tsx, tradeSchema.ts, the modals' handleSubmit), and what the *)
(* routes admit (routes/trades.ts).                                        *)
(*                                                                         *)
(* A control holds a text and perhaps blanks around it.  A number is       *)
(* counted in halves, so that 2 is the number one and 1 is no whole one;   *)
(* Numeral gives the number of each spelling a number control can hold.    *)
(***************************************************************************)
EXTENDS Integers

CONSTANTS
    Columns,   \* the columns shown in the forms, with "status"
    Symbols,   \* texts of capital letters
    Names,     \* other texts that are not empty
    Numeral    \* spelling -> number

Statuses == {"ACTIVE", "CANCELLED"}
Sides == {"BUY", "SELL"}
Texts == Symbols \cup Names
Numbers == {Numeral[s] : s \in DOMAIN Numeral}

ASSUME FormAssumption ==
    /\ Columns \subseteq {"symbol", "quantity", "price", "side", "trader",
                          "book", "counterparty", "status"}
    /\ "status" \in Columns
    /\ Numbers \subseteq Int
    /\ "" \notin Texts \cup DOMAIN Numeral

CreateColumns == Columns \ {"status"}
Numeric == {"quantity", "price"} \cap Columns

-----------------------------------------------------------------------------
(* The routes *)

\* fieldSchemas: what the edge validation takes for one column.
Admitted(c) == CASE c = "symbol" -> Symbols
                 [] c = "quantity" -> {n \in Numbers : n % 2 = 0 /\ n >= 2}
                 [] c = "price" -> {n \in Numbers : n > 0}
                 [] c = "side" -> Sides
                 [] c = "status" -> Statuses
                 [] OTHER -> Texts

createTradeBodySchema(dto) ==
    /\ DOMAIN dto = CreateColumns
    /\ \A c \in CreateColumns : dto[c] \in Admitted(c)

amendTradeBodySchema(dto) ==
    /\ DOMAIN dto # {}
    /\ DOMAIN dto \subseteq Columns
    /\ \A c \in DOMAIN dto : dto[c] \in Admitted(c)

WellFormed(row) ==
    DOMAIN row = Columns /\ \A c \in Columns : row[c] \in Admitted(c)

-----------------------------------------------------------------------------
(* The forms *)

Input(text, padded) == [text |-> text, padded |-> padded]

\* What a control can hold: the toggle and the list hold no blanks, and a
\* number control holds a numeral or nothing.
Inputs(c) ==
    CASE c \in Numeric -> [text : DOMAIN Numeral \cup {""}, padded : {FALSE}]
      [] c = "side"    -> [text : Sides \cup {""}, padded : {FALSE}]
      [] c = "status"  -> [text : Statuses \cup {""}, padded : {FALSE}]
      [] OTHER         -> [text : Texts \cup {""}, padded : BOOLEAN]

\* trimInput: blanks around a text are dropped, so that a text of blanks is empty.
trimInput(input) == Input(input.text, FALSE)

\* The value a control is coerced to, or none (undefined): an empty control is
\* missing, never 0.
Coerced(c, input) ==
    LET text == trimInput(input).text IN
    IF text = "" THEN {} ELSE IF c \in Numeric THEN {Numeral[text]} ELSE {text}

\* Faulty variant: the whole-number rule is missing.
ValidUnlessNegative(c, v) ==
    IF c \in Numeric THEN v > 0 ELSE v \in Admitted(c)

\* The rule of one column once a value is there.
Valid(c, v) == CASE c = "quantity" -> v % 2 = 0 /\ v >= 2
                 [] c = "price" -> v > 0
                 [] c = "symbol" -> v \in Symbols
                 [] c = "side" -> v \in Sides
                 [] c = "status" -> v \in Statuses
                 [] OTHER -> v # ""

\* Every column required in one, every column optional in the other.
createTradeSchema(form) ==
    \A c \in CreateColumns : \E v \in Coerced(c, form[c]) : Valid(c, v)
amendTradeSchema(form) ==
    \A c \in Columns : \A v \in Coerced(c, form[c]) : Valid(c, v)

\* handleSubmit: the body carries the columns that have a value.
Body(form) ==
    [c \in {d \in DOMAIN form : Coerced(d, form[d]) # {}} |->
        CHOOSE v \in Coerced(c, form[c]) : TRUE]

\* Faulty variant: two columns are swapped on the way to the controls.
DefaultsSwapped(row) ==
    [c \in Columns |->
        IF c \in Numeric
        THEN Input(CHOOSE s \in DOMAIN Numeral : Numeral[s] = row[c], FALSE)
        ELSE IF c = "book" THEN Input(row["trader"], FALSE)
        ELSE IF c = "trader" THEN Input(row["book"], FALSE)
        ELSE Input(row[c], FALSE)]

\* toDefaults: the controls of an amend form show the trade it was opened with.
toDefaults(row) ==
    [c \in Columns |->
        IF c \in Numeric
        THEN Input(CHOOSE s \in DOMAIN Numeral : Numeral[s] = row[c], FALSE)
        ELSE Input(row[c], FALSE)]
=============================================================================
