SPECIFICATION NavSpec
CONSTANTS
    s1 = s1
    s2 = s2
    o1 = o1
    o3 = o3
    o4 = o4
    Strategies <- MCStrategies
    InitialPosition = InitialPosition
    SystemClose = SystemClose
    Unallocated = Unallocated
    Hour = 40
    Minute = 10
    Records <- MCRecords
    Updates <- MCUpdates
    Executions <- MCExecutions
    Inputs <- MCInputs
    Corrections <- MCCorrections
    Queries <- MCQueries
    Overlap = 30
    MaxResets = 1
INVARIANTS NavTypeOK HistoryComplete CacheMatchesRebuild OneAnswer StrategiesAddUp
CHECK_DEADLOCK FALSE
