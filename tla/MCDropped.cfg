SPECIFICATION Spec
CONSTANTS
    Events = {w1, w2}
    Debug = {}
    Info = {}
    Sync = {}
    Invalid = {}
    Rejected = {}
    Oversized = {}
    Flushers = {}
    Closers = {}
    Worker = worker
    BufferSize = 1
    BatchSize = 1
    RetryAttempts = 1
    UseOutbox = TRUE
    MaxCount = 9
    MaxFaults = 0
    MaxCrashes = 0
INVARIANTS FalseMeansDiscarded
