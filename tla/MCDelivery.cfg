SPECIFICATION Spec
CONSTANTS
    Events = {d1, w1, w2}
    Debug = {d1}
    Info = {}
    Sync = {}
    Invalid = {}
    Rejected = {}
    Oversized = {}
    Flushers = {f1}
    Closers = {c1}
    Worker = worker
    BufferSize = 2
    BatchSize = 2
    RetryAttempts = 1
    UseOutbox = FALSE
    MaxCount = 9
    MaxFaults = 1
    MaxCrashes = 0
SYMMETRY Interchangeable
INVARIANTS TypeOK DroppedNeverSent RepeatedOnlyAfterLostAnswer EveryCallCounted NoLostWakeup CloseLeavesNothing
