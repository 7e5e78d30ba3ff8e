--------------------------- MODULE MCTradeDialogs ---------------------------
\* Instances of TradeDialogs for TLC.
EXTENDS TradeDialogs, TLC

FormColumns == {"quantity", "trader", "book", "status"}
SomeNumeral == ("0.5" :> 1) @@ ("1" :> 2) @@ ("2" :> 4)
FirstRow == [quantity |-> 2, trader |-> "ann", book |-> "FX", status |-> "ACTIVE"]
=============================================================================
