SPECIFICATION Spec
CONSTANTS
    Features = {"AMT", "SOL", "SYSDEF", "PROV", "TIME_SYNC"}
    MayFail = {"AMT", "SYSDEF"}
    MaxChanges = 2
    MaxLives = 1
    MaxLinks = 2
    None = None
CHECK_DEADLOCK FALSE
INVARIANT TypeOK
INVARIANT QuietAgrees
INVARIANT ConfiguredAlternates
INVARIANT StartedIsCurrent
