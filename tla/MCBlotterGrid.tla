--------------------------- MODULE MCBlotterGrid ---------------------------
\* Instances of BlotterGrid for TLC.
EXTENDS BlotterGrid, TLC

AAPL == [symbol |-> "AAPL", price |-> 1]
BAC == [symbol |-> "BAC", price |-> 2]

\* Three trades, the last two of one millisecond, as a stream and its
\* amendments and a shorter answer of GET /trades leave them.
SomeStores ==
    {<<AAPL>>, <<AAPL, BAC, AAPL>>, <<BAC, BAC, AAPL>>}
SomeDates == <<1, 2, 2>>
SymbolTexts == [s \in {"AAPL", "BAC"} |-> IF s = "AAPL" THEN {"A"} ELSE {"A", "B"}]
SomeNumeral == "1" :> 1 @@ "2" :> 2
=============================================================================
