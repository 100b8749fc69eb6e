SPECIFICATION Spec
CONSTANTS
    Events = {d1, i1, i2, w1, w2, w3}
    Debug = {d1}
    Info = {i1, i2}
    BufferSize = 2
    MaxDrain = 2
INVARIANTS TypeOK EveryPushAccounted ImportantLostOnlyByOverload OrderKept
PROPERTIES InfoReplacedLast ImplementsPromise
CHECK_DEADLOCK FALSE
