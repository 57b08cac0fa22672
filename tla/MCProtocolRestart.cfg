SPECIFICATION Spec
CONSTANTS
    Ports = {p1}
    LocalAddrs = {l1}
    RemoteAddrs = {}
    Requests = {a}
    Fds = {1, 2}
    RxThreads = {r1, r2}
    SvcThreads = {}
    MaxWindow = 1
    BufSize = 1
    Grants = {0}
    MaxCredit = 0
    MaxFailed = 0
    PipeCap = 1
    None = None
SYMMETRY Symmetry
CHECK_DEADLOCK FALSE
INVARIANT FdsOwned
INVARIANT ChannelsPointToRequests
PROPERTY RequestFreedUnused
