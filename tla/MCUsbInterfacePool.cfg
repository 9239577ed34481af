CONSTANTS
    Clients = {c1, c2}
    Ifaces = {i1, i2}
    PoolIds = {p1, p2}
    DevIds = {d1, d2}
    NoPool = NoPool
    NoDev = NoDev
    NoIface = NoIface
    MaxCount = 3
SPECIFICATION Spec
SYMMETRY PoolSymmetry
INVARIANTS
    CountedPoolStays ClaimsCounted NoUseAfterFree DeviceStaysOpen  NothingLeftBehind
PROPERTY KeepsContract
CHECK_DEADLOCK FALSE
