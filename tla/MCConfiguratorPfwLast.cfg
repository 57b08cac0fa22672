SPECIFICATION FairSpec
CONSTANTS
    Manageability = TRUE
    DeferResume = FALSE
    Changes <- AmtEnabled
    MayFail = {}
    Overlap = FALSE
    PresentAtStart = {TRUE}
    ScanResults = {"ok"}
    NumRetries = 1
    MaxChanges = 1
    MaxPfw = 3
    MaxPower = 0
    MaxDevice = 0
    MaxVisits = 80
    None = None
CHECK_DEADLOCK FALSE
PROPERTY TasksEnd
