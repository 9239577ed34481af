SPECIFICATION Spec
CONSTANTS
    r1 = r1
    r2 = r2
    b1 = b1
    b2 = b2
    Requests = {r1}
    Continuous = {r1}
    Buffers = {b1, b2}
    NoRequest = NoRequest
    NoBuffer = NoBuffer
    RestModulus = 16
    SurfaceFails = FALSE
    MaxTransit = 3
SYMMETRY StreamSymmetry
CONSTRAINT TransitBound
INVARIANTS
    NoLostWakeup
    StopQuiesces
CHECK_DEADLOCK FALSE
