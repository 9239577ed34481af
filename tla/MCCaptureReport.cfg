SPECIFICATION FairSpec
CONSTANTS
    r1 = r1
    Streams = {a, b, c}
    Requests = {r1}
    Frames <- ContinuousFrames
    Times = {1, 2}
ACTION_CONSTRAINT OneWakeUp
INVARIANTS
    InStep
    GroupWhole
PROPERTY CompleteReported
CHECK_DEADLOCK FALSE
