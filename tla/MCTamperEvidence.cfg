SPECIFICATION Spec
CONSTANTS
    Events = {e1, e2, e3, e4}
    None = None
    UseState = TRUE
    MaxFaults = 2
    MaxCrashes = 2
SYMMETRY Interchangeable
INVARIANTS TypeOK ChainHoldsInProcess ChainHoldsAcrossRestarts StateCoversEmitted
CHECK_DEADLOCK FALSE
