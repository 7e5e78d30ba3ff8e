\* Two trades and the feed, every failure of a request, and outages.
CONSTANTS
    Trades <- TwoTrades
    Clicked = {"t1"}
    MAX_FIELDS = 2
    FEED_LIMIT = 1
    Outages = TRUE
    MaxEntries = 2
SPECIFICATION AuditSpec
INVARIANTS SettledViewsAreCurrent WhatIsShownWasTold
PROPERTIES ViewsNeverLoseEntries LoadingEnds
CHECK_DEADLOCK FALSE
