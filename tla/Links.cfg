SPECIFICATION MCSpec
CONSTANTS
    a = a
    b = b
    o1 = o1
    o2 = o2
    o3 = o3
    Nothing = Nothing
    EAs <- MCEAs
    Orders <- MCOrders
    Account <- MCAccount
    Capacity = 2
    Lossy = TRUE
    a1 = a1
    a2 = a2
    NoAccount = NoAccount
    Accounts <- MCAccounts
    MaxOpen = 1
    MaxStops = 2
    Alerts = {"m1", "m2"}
    MaxRetries = 2
    MaxCuts = 1
    TvSessions = {"s1", "s2"}
    MaxMessages = 2
    MaxReconnects = 1
    BackoffSteps = 2
    MaxOutages = 2
    Reconnectors = {"g1", "g2"}
    Acks = {"r1"}
    MaxPacketErrors = 2
    LastTime = 4
    FetchBatch = 1
    MaxBatches = 5
    TokenBuffer = 2
    Tickets = {"t1"}
    MaxAdapters = 3
    MaxLinkFaults = 2
    BarChannels = {"c1", "c2"}
    MaxAttempts = 2
    MaxBars = 2
    MaxFeedLosses = 2
    MaxFeedCalls = 1
INVARIANTS EachInOnePlace LinksOwned EveryAccountHandled AlertsAccounted SentInOrder ChartSound FeedServed
PROPERTIES QueuedDelivered StopAnswered QueueDrains FetchSound
CHECK_DEADLOCK FALSE
