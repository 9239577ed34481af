SPECIFICATION Spec
CONSTANTS
    ProxyTables <- MCCalls
    StubTables <- MCHandlers
INVARIANTS
    ArgumentsArriveIntact
    SuccessIsFounded
    NoLossIsHidden
    HealthyCallIsServed
    NoBufferIsKept
