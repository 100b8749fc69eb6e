SPECIFICATION FairSpec
CONSTANTS
    Events = {w1}
    Debug = {}
    Info = {}
    Sync = {}
    Invalid = {}
    Rejected = {}
    Oversized = {}
    Flushers = {f1}
    Closers = {c1}
    Worker = worker
    BufferSize = 2
    BatchSize = 2
    RetryAttempts = 0
    UseOutbox = TRUE
    MaxCount = 0
    MaxFaults = 1
    MaxCrashes = 1
PROPERTIES BufferedEventuallyTaken FlushEventuallyReturns CloseEventuallyReturns
