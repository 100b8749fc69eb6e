SPECIFICATION Spec
CONSTANTS
    Events = {e1, e2}
    BatchSize = 1
    MaxCuts = 0
    MaxFaults = 0
    MaxCrashes = 1
INVARIANTS AppendedStays
CHECK_DEADLOCK FALSE
