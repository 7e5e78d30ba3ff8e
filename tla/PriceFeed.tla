------------------------------ MODULE PriceFeed ------------------------------
(***************************************************************************)
(* The simulated market (marketdata/priceFeed.ts), wired in server.ts: an  *)
(* interval takes in the symbols of new trades, lets every price drift and *)
(* broadcasts them; a browser replaces its prices by each PRICE_TICK.  The *)
(* book changes as the backend commits; browsers are assumed to show it.   *)
(***************************************************************************)
EXTENDS Positions

CONSTANTS
    Tickets,         \* what a trade may be: symbol, side, quantity, price
    MaxTrades,       \* bound: trades in the book
    MaxPrice         \* bound: highest price the walk may reach

ASSUME FeedBounds == {MaxTrades, MaxPrice} \subseteq Nat

ASSUME TicketAssumption ==
    \A t \in Tickets : /\ t.side \in {"BUY", "SELL"}
                       /\ {t.quantity, t.price} \subseteq Nat \ {0}

VARIABLES
    book,          \* the committed trades, in the order of their ids
    prices,        \* PriceFeed.prices, lost with the process
    marketPrices   \* what a browser shows

feedVars == <<book, prices, marketPrices>>

Row(ticket, status) == [symbol |-> ticket.symbol, side |-> ticket.side,
    quantity |-> ticket.quantity, price |-> ticket.price, status |-> status]

-----------------------------------------------------------------------------
(* The book *)

createTrade ==
    /\ Len(book) < MaxTrades
    /\ \E t \in Tickets : book' = Append(book, Row(t, "ACTIVE"))
    /\ UNCHANGED <<prices, marketPrices>>

\* A PATCH may change every column, the status included.
amendTrade ==
    /\ \E i \in Active(book), t \in Tickets, status \in {"ACTIVE", "CANCELLED"} :
           book' = [book EXCEPT ![i] = Row(t, status)]
    /\ UNCHANGED <<prices, marketPrices>>

cancelTrade ==
    /\ \E i \in Active(book) : book' = [book EXCEPT ![i].status = "CANCELLED"]
    /\ UNCHANGED <<prices, marketPrices>>

-----------------------------------------------------------------------------
(* The feed *)

\* Faulty variant: the base price replaces the live one.
SeedAgain(base) ==
    [s \in DOMAIN prices \cup {t \in DOMAIN base : base[t] > 0} |->
        IF s \in DOMAIN base /\ base[s] > 0 THEN base[s] ELSE prices[s]]

\* Faulty variant: symbols join at start-up only.
NeverJoin(base) == prices

\* Symbols not yet tracked join at their base price, if it is positive.
ensureSymbols(base) ==
    [s \in DOMAIN prices \cup {t \in DOMAIN base : base[t] > 0} |->
        IF s \in DOMAIN prices THEN prices[s] ELSE round2(base[s], 1)]

\* The cents that price * (1 + d), -0.2% <= d < 0.2%, may be rounded to.
Rounded(price) ==
    {p \in {Cent * k : k \in (998 * price) \div (1000 * Cent)
                              .. (1002 * price) \div (1000 * Cent) + 1} :
        /\ 1000 * p - 500 * Cent < 1002 * price
        /\ 1000 * p + 500 * Cent > 998 * price}

\* Faulty variant: no floor.
DriftToZero(price) == Rounded(price)

Drift(price) == {Max({Cent, p}) : p \in Rounded(price)}

\* tick() from the prices base, and its broadcast.
tick(base) ==
    /\ prices' \in {f \in [DOMAIN base -> UNION {Drift(base[s]) : s \in DOMAIN base}] :
                        \A s \in DOMAIN base : f[s] \in Drift(base[s]) /\ f[s] <= MaxPrice}
    /\ marketPrices' = prices'
    /\ UNCHANGED book

\* One firing of the interval.
Interval == \E base \in {ensureSymbols(computeVwap(book))} : tick(base)

\* The query for the active trades throws: caught, and the prices drift on.
IntervalWithoutBook == tick(prices)

\* The process starts again and seeds the feed from the book.
Restart ==
    /\ prices' = computeVwap(book)
    /\ UNCHANGED <<book, marketPrices>>

FeedInit == book = <<>> /\ prices = <<>> /\ marketPrices = <<>>

FeedNext == \/ createTrade \/ amendTrade \/ cancelTrade
            \/ Interval \/ IntervalWithoutBook \/ Restart

\* The interval keeps firing, and the book can be read now and then.
FeedSpec == FeedInit /\ [][FeedNext]_feedVars /\ SF_feedVars(Interval)

-----------------------------------------------------------------------------
(* Properties *)

\* Prices are whole cents, in the feed and in the browser.
FeedTypeOK ==
    /\ \A s \in DOMAIN prices : prices[s] \in Nat /\ prices[s] % Cent = 0
    /\ \A s \in DOMAIN marketPrices : marketPrices[s] % Cent = 0

\* priceFeed.test.ts: a price stays positive.  A symbol whose average is under
\* half a cent is seeded at 0 by a restart, and must not be shown so.
ShownPricesArePositive == \A s \in DOMAIN marketPrices : marketPrices[s] >= Cent

Unpriced(s) == /\ s \in ActiveSymbols(book) \ DOMAIN marketPrices
               /\ computeVwap(book)[s] > 0

\* A symbol that comes in with a trade after start-up gets a market price, if
\* its average is half a cent or more, although reads of the book may fail and
\* the server may restart: until then the browser marks it at 0.
NewSymbolsGetAPrice ==
    \A s \in {t.symbol : t \in Tickets} : Unpriced(s) ~> ~Unpriced(s)

\* Only the walk moves a live price: no trade, however priced, and no failed
\* read makes a tick change it by more than 0.2% and the rounding.
TicksAreSmall ==
    [][marketPrices' # marketPrices =>
          \A s \in DOMAIN prices :
              /\ s \in DOMAIN prices'
              /\ 1000 * prices'[s] <= 1002 * Max({prices[s], Cent}) + 500 * Cent
              /\ 1000 * prices'[s] >= 998 * prices[s] - 500 * Cent]_feedVars

\* The browser's figures and the server's are two ways to the same numbers: the
\* net quantities agree, and the browser's total is the server's cash balance
\* plus the position at the market price, long or short, with or without trades
\* on the other side (computePositions.ts, trade.service.ts).
BrowserAgreesWithServer ==
    LET positions == computePositions(book, marketPrices)
        summary == getPositionSummary(book)
        pnl == getPnlSummary(book)
        Market(s) == IF s \in DOMAIN marketPrices THEN marketPrices[s] ELSE 0
    IN  /\ DOMAIN positions = {s \in DOMAIN summary : summary[s].netQuantity # 0}
        /\ \A s \in DOMAIN positions :
             /\ positions[s].netQty = summary[s].netQuantity
             /\ positions[s].netQty = pnl[s].netQuantity
             /\ positions[s].totalPnl =
                  pnl[s].realizedPnl + positions[s].netQty * Market(s)
=============================================================================
