\* Up to three trades on pages of one or two; one text to search and filter for.
CONSTANTS
    Stores <- SomeStores
    tradeDate <- SomeDates
    Included <- SymbolTexts
    Texts = {"B"}
    Numeral <- SomeNumeral
    PageSizes = {1, 2}
    DEFAULT_PAGE_SIZE = 1
SPECIFICATION GridSpec
INVARIANTS GridTypeOK LiveAtTop SummaryIsTrue
PROPERTIES StreamNeverMovesRows SearchSettles
