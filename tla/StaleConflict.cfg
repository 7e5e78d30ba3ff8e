\* Two trades and no failure of a request but the server's own refusals.
CONSTANTS
    Columns <- FormColumns
    Symbols = {}
    Names = {"ann", "FX"}
    Numeral <- SomeNumeral
    StartRow <- FirstRow
    StartTrades = 2
    Edits = {"quantity"}
    MAX_RANDOM = 1
    Failures = {}
    MaxTrades = 2
    MaxToasts = 1
SPECIFICATION DialogsSpec
INVARIANTS ConflictIsAboutTheTrade
