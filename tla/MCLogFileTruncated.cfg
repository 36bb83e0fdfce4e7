\* Beside a program that opens logs for itself alone, for a while.
CONSTANTS
    Paths = {home}
    BadPaths <- Nothing
    Home = home
    MaxFiles = 2
    MaxRetries = 1
    MaxLogs = 5
    Holds <- Excluding
SPECIFICATION Spec
PROPERTIES ExistingLogIsAppended
\* The logs created are bounded.
CHECK_DEADLOCK FALSE
