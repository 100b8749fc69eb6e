SPECIFICATION Spec
CONSTANTS
    Request = r
    Calls = {h1, h2}
    None = None
    Headers <- MCHeaders
    Given <- MCGiven
    MaxByHand = 1
    MaxSteps = 1
SYMMETRY Interchangeable
INVARIANTS TypeOK FinishedOnce OneTrace ParentIsNearestSpan StatusIsSent
CHECK_DEADLOCK FALSE
