SPECIFICATION Spec
CONSTANTS
    r1 = r1
    r2 = r2
    b1 = b1
    b2 = b2
    Requests = {r1, r2}
    Continuous = {}
    Buffers = {b1, b2}
    NoRequest = NoRequest
    NoBuffer = NoBuffer
    RestModulus = 16
    SurfaceFails = TRUE
    MaxTransit = 3
SYMMETRY StreamSymmetry
INVARIANTS
    RestBuffersExact
    AllBuffersReturned
    SingleEndsOnce
CHECK_DEADLOCK FALSE
