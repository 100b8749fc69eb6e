SPECIFICATION Spec
CONSTANTS
    Callers = {"c1", "c2", "c3"}
    Worker = "worker"
    Content <- MCContent
    Scenarios <- MCScenarios
    BufferSize = 2
    BatchSize = 2
    None = "none"
    MaxStringBytes = 6
    MaxMetadataBytes = 18
    MaxDataBytes = 21
    MaxAuditValueBytes = 7
    MaxEventBytes = 40
    MaxJSONValueBytes = 20
    TamperEvidence = TRUE
    MaxInt64 = 9
    DefaultMax = 2
INVARIANTS TypeOK ErrorIsCounted EventsWithinBatches FailureDegradesHealth HooksOutsideTheMutex AcceptedFits KeyedSecretsGone KeyDecidesEvent BodyKept
