\* Two trades in two symbols, and a walk over three cents.
CONSTANTS
    Cent = 10
    Tickets <- SomeTickets
    MaxTrades = 2
    MaxPrice = 2530
SPECIFICATION FeedSpec
INVARIANTS FeedTypeOK ShownPricesArePositive BrowserAgreesWithServer
PROPERTIES TicksAreSmall NewSymbolsGetAPrice
