SPECIFICATION FairSpec
CONSTANTS
    Manageability = TRUE
    DeferResume = FALSE
    Changes <- TogglesAndAmt
    MayFail = {}
    Overlap = FALSE
    PresentAtStart = {TRUE, FALSE}
    ScanResults = {"ok"}
    NumRetries = 1
    MaxChanges = 2
    MaxPfw = 3
    MaxPower = 0
    MaxDevice = 0
    MaxVisits = 80
    None = None
CHECK_DEADLOCK FALSE
INVARIANT DependenciesLoaded
INVARIANT LockedIsAnswered
INVARIANT WaitingIsWoken
INVARIANT EndedIsClean
PROPERTY SequentialTasks
PROPERTY StopEnds
