---------------------------- MODULE MCPriceFeed ----------------------------
\* Instance of PriceFeed for TLC: one symbol bought and sold at 0.4 cents and at
\* 2.52 (ten units a cent), in quantities that leave it long, short and flat, and
\* a second one.
EXTENDS PriceFeed

Ticket(symbol, side, quantity, price) ==
    [symbol |-> symbol, side |-> side, quantity |-> quantity, price |-> price]

SomeTickets == {Ticket("ABC", "BUY", 1, 2520), Ticket("ABC", "SELL", 3, 4),
                Ticket("ABC", "SELL", 1, 2520), Ticket("XYZ", "SELL", 3, 2520)}
=============================================================================
