------------------------------ MODULE Positions ------------------------------
(***************************************************************************)
(* The figures derived from a set of trades: the market prices' seed       *)
(* (computeVwap), the server's summaries (getPositionSummary,              *)
(* getPnlSummary) and the browser's (computePositions).                    *)
(*                                                                         *)
(* Prices are counted in a unit of which Cent make one cent, so that an    *)
(* average needs rounding, and arithmetic is exact.  A book is a sequence  *)
(* of trades with symbol, side, quantity, price and status.                *)
(***************************************************************************)
EXTENDS Integers, Sequences, FiniteSetsExt

CONSTANT Cent

ASSUME CentAssumption == Cent \in Nat \ {0}

\* round2 of numerator / denominator: to whole cents, halves upwards.
round2(numerator, denominator) ==
    Cent * ((2 * numerator + denominator * Cent) \div (2 * denominator * Cent))

Active(book) == {i \in DOMAIN book : book[i].status # "CANCELLED"}
ActiveSymbols(book) == {book[i].symbol : i \in Active(book)}
OfSide(book, s, side) ==
    {i \in Active(book) : book[i].symbol = s /\ book[i].side = side}

\* The sum of the numbers of a sequence, as a loop adds them up.
Total(numbers) ==
    LET sum[n \in 0 .. Len(numbers)] == IF n = 0 THEN 0 ELSE sum[n - 1] + numbers[n]
    IN  sum[Len(numbers)]

Quantity(book, trades) ==
    Total([i \in DOMAIN book |-> IF i \in trades THEN book[i].quantity ELSE 0])
Notional(book, trades) ==
    Total([i \in DOMAIN book |->
              IF i \in trades THEN book[i].price * book[i].quantity ELSE 0])

\* Faulty variant: the average is not rounded to cents.
VwapUnrounded(book) ==
    [s \in ActiveSymbols(book) |->
        LET trades == {i \in Active(book) : book[i].symbol = s}
        IN  Notional(book, trades) \div Quantity(book, trades)]

computeVwap(book) ==
    [s \in ActiveSymbols(book) |->
        LET trades == {i \in Active(book) : book[i].symbol = s}
        IN  round2(Notional(book, trades), Quantity(book, trades))]

-----------------------------------------------------------------------------
(* The server *)

getPositionSummary(book) ==
    [s \in ActiveSymbols(book) |->
        LET buys == OfSide(book, s, "BUY")
            sells == OfSide(book, s, "SELL")
        IN  [buyQuantity |-> Quantity(book, buys),
             sellQuantity |-> Quantity(book, sells),
             netQuantity |-> Quantity(book, buys) - Quantity(book, sells),
             tradeCount |-> Cardinality(buys \cup sells)]]

getPnlSummary(book) ==
    [s \in ActiveSymbols(book) |->
        LET buys == OfSide(book, s, "BUY")
            sells == OfSide(book, s, "SELL")
        IN  [realizedPnl |-> round2(Notional(book, sells) - Notional(book, buys), 1),
             netQuantity |-> Quantity(book, buys) - Quantity(book, sells)]]

-----------------------------------------------------------------------------
(* The browser *)

\* A divisor that is zero stands for the average 0.
Divisor(quantity) == IF quantity = 0 THEN 1 ELSE quantity

\* Faulty variant: the average entry is always that of the buys.
PositionOnBuys(buyQty, sellQty, buyCost, sellCost, marketPrice) ==
    LET netQty == buyQty - sellQty
        scale == Divisor(buyQty) * Divisor(sellQty)
        avgBuy == buyCost * Divisor(sellQty)
        avgSell == sellCost * Divisor(buyQty)
        unrealisedPnl == netQty * (marketPrice * scale - avgBuy)
        realisedPnl == Min({buyQty, sellQty}) * (avgSell - avgBuy)
    IN  [netQty |-> netQty,
         avgPrice |-> round2(avgBuy, scale),
         unrealisedPnl |-> round2(unrealisedPnl, scale),
         realisedPnl |-> round2(realisedPnl, scale),
         totalPnl |-> round2(unrealisedPnl + realisedPnl, scale)]

\* One row of the view.  Averages and P&L are over the common denominator scale.
Position(buyQty, sellQty, buyCost, sellCost, marketPrice) ==
    LET netQty == buyQty - sellQty
        scale == Divisor(buyQty) * Divisor(sellQty)
        avgBuy == buyCost * Divisor(sellQty)
        avgSell == sellCost * Divisor(buyQty)
        avgPrice == IF netQty > 0 THEN avgBuy ELSE avgSell
        unrealisedPnl == netQty * (marketPrice * scale - avgPrice)
        realisedPnl == Min({buyQty, sellQty}) * (avgSell - avgBuy)
    IN  [netQty |-> netQty,
         avgPrice |-> round2(avgPrice, scale),
         unrealisedPnl |-> round2(unrealisedPnl, scale),
         realisedPnl |-> round2(realisedPnl, scale),
         totalPnl |-> round2(unrealisedPnl + realisedPnl, scale)]

\* A symbol without a market price is marked at 0, a flat one is left out.
computePositions(book, marketPrices) ==
    LET bought(s) == OfSide(book, s, "BUY")
        sold(s) == OfSide(book, s, "SELL")
    IN  [s \in {t \in ActiveSymbols(book) :
                    Quantity(book, bought(t)) # Quantity(book, sold(t))} |->
            Position(Quantity(book, bought(s)), Quantity(book, sold(s)),
                     Notional(book, bought(s)), Notional(book, sold(s)),
                     IF s \in DOMAIN marketPrices THEN marketPrices[s] ELSE 0)]
=============================================================================
