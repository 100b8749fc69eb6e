SPECIFICATION FairSpec
CONSTANTS
    Events = {w1, s1}
    Debug = {}
    Info = {}
    Sync = {s1}
    Invalid = {}
    Rejected = {s1}
    Oversized = {{w1, s1}}
    Flushers = {f1}
    Closers = {}
    Worker = worker
    BufferSize = 2
    BatchSize = 2
    RetryAttempts = 1
    UseOutbox = TRUE
    MaxCount = 0
    MaxFaults = 1
    MaxCrashes = 1
INVARIANTS OutboxKeepsUntilAnswered FlushOkLeavesNothing
PROPERTIES PersistedEventuallyAnswered
