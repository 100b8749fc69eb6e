SPECIFICATION FairSpec
CONSTANTS
    Events = {w1, w2}
    Debug = {}
    Info = {}
    Sync = {}
    Invalid = {}
    Rejected = {}
    Oversized = {{w1, w2}}
    Flushers = {}
    Closers = {}
    Worker = worker
    BufferSize = 2
    BatchSize = 2
    RetryAttempts = 0
    UseOutbox = TRUE
    MaxCount = 0
    MaxFaults = 1
    MaxCrashes = 0
PROPERTIES FittingEventuallyAnswered
