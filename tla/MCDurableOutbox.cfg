SPECIFICATION FairSpec
CONSTANTS
    Events = {e1, e2, e3}
    BatchSize = 2
    MaxCuts = 2
    MaxFaults = 2
    MaxCrashes = 1
INVARIANTS TypeOK CutCostsOneEvent RemovedStaysRemoved
PROPERTIES AckedEventuallySent
CHECK_DEADLOCK FALSE
