SPECIFICATION Spec
CONSTANTS
    RxThreads = {r1, r2, r3}
    SvcCalls = {"suspend", "resume", "stop"}
    MaxRetries = 2
    PipeCap = 2
    None = None
SYMMETRY Symmetry
CHECK_DEADLOCK FALSE
INVARIANT TypeOK
INVARIANT ConnectedHasReader
INVARIANT OneReader
