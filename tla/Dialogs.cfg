\* One browser, two trades at most, every failure of a request.
CONSTANTS
    Columns <- FormColumns
    Symbols = {}
    Names = {"ann", "FX"}
    Numeral <- SomeNumeral
    StartRow <- FirstRow
    StartTrades = 0
    Edits = {"quantity"}
    MAX_RANDOM = 1
    Failures = {"error", "network"}
    MaxTrades = 2
    MaxToasts = 2
SPECIFICATION DialogsSpec
INVARIANTS EdgeAdmitsEveryForm DuplicatesNeedALostAnswer WhatIsToldIsTrue
PROPERTIES AmendsWhatWasTyped AnswersComeBack
