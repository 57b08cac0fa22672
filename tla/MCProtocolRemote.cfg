SPECIFICATION Spec
CONSTANTS
    Ports = {p1, p2}
    LocalAddrs = {l1}
    RemoteAddrs = {x1}
    Requests = {a, b}
    Fds = {1, 2}
    RxThreads = {r1}
    SvcThreads = {}
    MaxWindow = 1
    BufSize = 1
    Grants = {0}
    MaxCredit = 0
    MaxFailed = 1
    PipeCap = 1
    None = None
SYMMETRY Symmetry
CHECK_DEADLOCK FALSE
INVARIANT FdsOwned
INVARIANT CancelledRequestsGoAway
INVARIANT CountCoversChannels
