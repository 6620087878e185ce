SPECIFICATION MCSpec
CONSTANTS
    Orders = {"o1", "o2", "o3", "o4"}
    Entries = {"o1", "o2", "o3", "o4"}
    BatchSize = 2
    Keyed = TRUE
    MaxBuffer = 2
    Flushers = {"f1", "f2"}
    MaxFailures = 1
    AuditEntries = {"e1", "e2", "e3", "e4"}
    QueueSize = 2
    AuditBatch = 2
    MaxInsertErrors = 1
    DayAccounts = {"d1", "d2"}
    SessionOf <- MCSessionOf
    DefaultSession <- MCDefaultSession
    DayLength = 3
    Horizon = 9
    MaxTrades = 1
    MaxSaves = 4
    ChannelSize = 2
    StoreBatch = 2
    MaxFlushErrors = 1
INVARIANTS FillsAccounted AuditAccounted DaysRecorded CandlesAccounted
PROPERTIES RowsWritten ImplementsStore
CHECK_DEADLOCK FALSE
