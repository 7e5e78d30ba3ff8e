--------------------------- MODULE TradeLifecycle ---------------------------
(***************************************************************************)
(* What the backend promises about a trade, with no transaction, crash or  *)
(* message in sight: it is entered active under a number nobody had, is    *)
(* revised only while it is active, and every revision enters the journal  *)
(* of each column it changes in the same instant.                          *)
(***************************************************************************)
EXTENDS Naturals, Sequences

CONSTANTS Fields, Rows, String(_)

VARIABLES
    book,     \* id -> row
    journal   \* id -> column -> sequence of <<old text, new text>>

vars == <<book, journal>>

EmptyJournal == [f \in Fields |-> <<>>]

Init == book = <<>> /\ journal = <<>>

\* The opening stock of an empty book; its rows may be cancelled already.
Open(ids) ==
    /\ book = <<>>
    /\ book' \in [ids -> Rows]
    /\ journal' = [i \in ids |-> EmptyJournal]

Enter(i) ==
    /\ i \notin DOMAIN book
    /\ DOMAIN book' = DOMAIN book \cup {i}
    /\ book'[i]["status"] = "ACTIVE"
    /\ \A j \in DOMAIN book : book'[j] = book[j]
    /\ journal' = [j \in DOMAIN book \cup {i} |->
                     IF j = i THEN EmptyJournal ELSE journal[j]]

Revise(i) ==
    /\ book[i]["status"] = "ACTIVE"
    /\ DOMAIN book' = DOMAIN book
    /\ \A j \in DOMAIN book \ {i} : book'[j] = book[j]
    /\ journal' = [journal EXCEPT ![i] = [f \in Fields |->
                     IF String(book'[i][f]) = String(book[i][f]) THEN @[f]
                     ELSE Append(@[f], <<String(book[i][f]), String(book'[i][f])>>)]]

Next == \/ Open(DOMAIN book')
        \/ \E i \in DOMAIN book' : Enter(i)
        \/ \E i \in DOMAIN book : Revise(i)

Spec == Init /\ [][Next]_vars
=============================================================================
