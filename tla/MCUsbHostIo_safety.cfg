CONSTANTS
    Requests = {r1, r2}
    Sync = {r1}
    Timed = {r1}
    Control = {r1}
    NoRequest = NoRequest
SPECIFICATION Spec
INVARIANTS CompletedMeansReleased OnePlace WakeupForEachQueued CancelledWhileQueued
CHECK_DEADLOCK FALSE
