SPECIFICATION MCSpec
CONSTANTS
    Tasks <- MCTasks
    Positions <- MCPositions
    Marks <- MCMarks
    Results <- MCResults
    Equities <- MCEquities
    BalanceUnit = 10
    StartBalance = 10
    LossLimit = 20
    DrawdownLimit = 20
    MaxOps = 3
    MaxFaults = 1
    Feeds <- MCFeeds
    Fallback <- MCFallback
    Starts = {1, 2}
    MaxRefreshes = 3
    MaxDays = 1
    SampleRules <- MCRules
    SampleContexts <- MCContexts
    SampleSpecs <- MCSpecs
    SampleOverrides <- MCOverrides
    SampleEvents <- MCEvents
    SampleSymbols <- MCSymbols
    Times <- MCTimes
    ConfirmationBars = 2
    WarmupBars = 2
    SlotsPerDay = 5
    SampleConfigs <- MCConfigs
    BarsOf <- MCBars
    StartPrice = 10
    Balances = {7}
    MaxLots = 3
    MaxTime = 6
INVARIANTS DailyPnlKept BreachHandled RulesSound EntriesJustified
PROPERTIES CallsReturn CalendarSound RiskShrinks
CHECK_DEADLOCK FALSE
