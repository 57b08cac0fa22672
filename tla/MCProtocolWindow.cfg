SPECIFICATION Spec
CONSTANTS
    Ports = {p1}
    LocalAddrs = {l1}
    RemoteAddrs = {}
    Requests = {a}
    Fds = {1, 2}
    RxThreads = {r1}
    SvcThreads = {}
    MaxWindow = 2
    BufSize = 2
    Grants = {0, 2}
    MaxCredit = 3
    MaxFailed = 0
    PipeCap = 1
    None = None
SYMMETRY Symmetry
CHECK_DEADLOCK FALSE
INVARIANT TypeOK
INVARIANT WindowNotOverdrawn
INVARIANT SelectWatchesAll
PROPERTY ChannelsAsPromised
