SPECIFICATION FairSpec
CONSTANTS
    RxThreads = {r1, r2}
    SvcCalls = {"stop"}
    MaxRetries = 2
    PipeCap = 1
    None = None
CHECK_DEADLOCK FALSE
INVARIANT FlagMeansStopped
INVARIANT EndedIsReported
PROPERTY GivesUp
PROPERTY StopReachesSelect
