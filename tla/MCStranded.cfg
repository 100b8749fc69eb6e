SPECIFICATION Spec
CONSTANTS
    Events = {w1}
    Debug = {}
    Info = {}
    Sync = {}
    Invalid = {}
    Rejected = {}
    Oversized = {}
    Flushers = {f1}
    Closers = {c1}
    Worker = worker
    BufferSize = 2
    BatchSize = 2
    RetryAttempts = 1
    UseOutbox = FALSE
    MaxCount = 9
    MaxFaults = 0
    MaxCrashes = 0
INVARIANTS FlushNilSendsAll
