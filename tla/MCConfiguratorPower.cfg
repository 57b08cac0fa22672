SPECIFICATION FairSpec
CONSTANTS
    Manageability = TRUE
    DeferResume = TRUE
    Changes <- NoChanges
    MayFail = {}
    Overlap = FALSE
    PresentAtStart = {TRUE}
    ScanResults = {"ok", "error"}
    NumRetries = 1
    MaxChanges = 0
    MaxPfw = 0
    MaxPower = 3
    MaxDevice = 2
    MaxVisits = 80
    None = None
CHECK_DEADLOCK FALSE
INVARIANT TypeOK
INVARIANT DependenciesActive
INVARIANT LockedIsAnswered
INVARIANT SleepsWhenSuspended
PROPERTY AwakeAgain
PROPERTY ScanEnds
