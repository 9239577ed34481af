CONSTANTS
    Callers = {c1, c2}
    Daemons = {d1, d2}
    Callbacks = {cb1, cb2}
    Names = {n1}
    MaxEvents = 1
    NoThread = NoThread
    NoCallback = NoCallback
SPECIFICATION FairSpec
INVARIANTS OneDaemon SuspendExclusion
PROPERTIES FrozenDuringStateWrite StopEventuallyQuiet SuspendCallbackPaired
