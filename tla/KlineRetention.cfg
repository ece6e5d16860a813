SPECIFICATION KlineLive
CONSTANTS
    b = b
    Symbols = {b}
    DefaultSymbols = {}
    Okex = {}
    Holes = {3}
    Waiters = {w1}
    Queries <- MCQueries
    Minute = 1
    Retain = 2
    Block = 2
    Page = 2
    OkexPage = 1
    Concurrency = 1
    Budget = 10
    Pauses = {}
    StartClock = 4
    MaxClock = 5
PROPERTY BackfillEnds
CHECK_DEADLOCK FALSE
