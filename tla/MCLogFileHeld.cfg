\* Beside programs that open logs without letting them be renamed.
CONSTANTS
    Paths = {home, elsewhere, nowhere}
    BadPaths = {nowhere}
    Home = home
    MaxFiles = 3
    MaxRetries = 2
    MaxLogs = 6
    Holds <- Sharing
SPECIFICATION FairSpec
INVARIANTS StreamIsCurrent
PROPERTIES NewestSurvive BackgroundReturns
\* The logs created are bounded.
CHECK_DEADLOCK FALSE
