SPECIFICATION FairSpec
CONSTANTS
    r1 = r1
    r2 = r2
    b1 = b1
    b2 = b2
    Requests = {r1, r2}
    Continuous = {}
    Buffers = {b1}
    NoRequest = NoRequest
    NoBuffer = NoBuffer
    RestModulus = 16
    SurfaceFails = FALSE
    MaxTransit = 3
CONSTRAINT Running
PROPERTY WaitingServed
CHECK_DEADLOCK FALSE
