SPECIFICATION Spec
CONSTANTS
    b = b
    o = o
    KlineSymbols = {b, o}
    DefaultSymbols = {b}
    Okex = {o}
    Holes = {3}
    Waiters = {w1}
    Queries <- MCKlineQueries
    Minute = 1
    Retain = 2
    Block = 2
    Page = 2
    OkexPage = 1
    Concurrency = 1
    Budget = 2
    Pauses = {3}
    StartClock = 4
    MaxClock = 5
    IncomeSymbols = {b, o}
    Incomes <- MCIncomes
    FirstOrders = {1, 2}
    Replay = 2
    Window = 3
    Retention = 5
    IncomeRefresh = 1
    Addresses = {"ip1", "ip2"}
    MaxIncomeTime = 6
    RateSymbols = {b}
    RateDefaults = {b}
    RateTimes = {1, 2, 4}
    Overlap = 2
    Retained = 3
    RateRefresh = 2
    Backoff = 1
    MaxRateTime = 4
    EarnAccounts = {"account"}
    EarnIps <- MCEarnIps
    EarnSettings <- MCEarnSettings
    EarnFunds = 5
    Headrooms = {0, 4}
    Quotas = {0, 2}
    Weights = {4300}
    EarnMinute = 2
    EarnPause = 1
    MaxEarnTime = 2
    MaxRounds = 2
    MaxResumes = 1
    MaxEarnRestarts = 1
    Venues = {"venue"}
    MarketSymbols = {"s"}
    Feeds <- MCFeeds
    Orders <- MCOrders
    Views <- MCViews
    Books <- MCBooks
    MarketStale = 1
    OrderStale = 1
    PositionStale = 2
    NotReady = 0
    Grace = 1
    Repeat = 1
    Tolerance = 1
    Residual = 1
    Interval = 2
    Quiet = {2}
    MaxMonitorTime = 3
    MaxChanges = 1
    Users = {"ann", "bob"}
    Cookies = {"c"}
    Tokens = {"k"}
    Strategies = {"s"}
    Templates = {"t"}
    Accounts = {"x"}
    Fees = {0, 1}
    Viewers <- MCViewers
    MaxEdits = 2
    MaxPublishes = 1
    AccountKinds = {"binance", "binance_pm", "okex", "bybit", "bitget", "rapidx"}
    Callers = {"c1", "c2"}
    Leverages = {0, 1, 2}
    Groups = {"g1", "g2"}
    Charge <- MCCharge
    NoGroup = "none"
    MaxCalls = 2
    MaxEvents = 1
    Forms <- MCForms
    OrderSymbols = {"perp", "spot"}
    Markets = {"main", "cash"}
    MarketOf <- MCMarketOf
    Main = "main"
    MaxWrites = 3
    MaxOrderEdits = 1
    MaxSaves = 1
    MaxFaults = 1
    Hosts <- MCHosts
    Worlds <- MCWorlds
    QuoteOf <- MCQuoteOf
    Mappings <- MCMappings
    Inputs <- MCInputs
    RuleInterval = 1
    MaxRuleAge = 0
    MaxRuleTime = 2
    MaxRulePushes = 1
    MaxRuleEvents = 1
    TheoryBackends <- MCTheoryBackends
    TheorySamples <- MCTheorySamples
    TheoryWorld <- MCTheoryWorld
    TheoryRates <- MCTheoryRates
    TheoryMinute = 2
    Quarter = 1
    MaxPoints = 6
    TheoryTrades <- MCTheoryTrades
    MaxReference = 4
    PageSize = 1
    Updates <- MCUpdates
    Questions <- MCQuestions
    TheoryQueries = {q1, q2}
    Together <- MCTogether
    Lag = 6
    LateKept = 1
    CurveSlots = 1
    TheoryStart = 13
    TheoryEnd = 14
    MaxAsks = 2
    MaxFailures = 1
    Day = 2
    FreshFor = 1
    KeepDays = 1
    SpanDays = 1
    RebuildDays = 1
    MaxAnchorAge = 2
    AlertAfter = 2
    Deposit = 100
    Gains <- MCGains
    NavFrom = 0
    Misallocated = 7
    GenerationTime = 1
    OverviewStart = 1
    OverviewEnd = 4
    MaxSamples = 2
    MaxMishaps = 1
    CurveStep = 2
    OwnSource = "own"
    FarSource = "far"
    FirstPoint <- MCFirstPoint
    Booked <- MCBooked
    Allocated = 100
    Paid = 1000
    ReadTime = 1
    CurveStart = 3
    CurveEnd = 5
    MaxUpsets = 1
INVARIANTS TypeOK ReadyIsCovered  OneRoundOut TrackedAsTold DirectoryHolds AnswersWereTrue OrdersAsAsked RulesHold  OverviewHolds
CHECK_DEADLOCK FALSE
