\* Alone on the disk, with crashes and a directory that does not exist.
CONSTANTS
    Paths = {home, elsewhere, nowhere}
    BadPaths = {nowhere}
    Home = home
    MaxFiles = 3
    MaxRetries = 2
    MaxLogs = 7
    Holds <- Nothing
SPECIFICATION Spec
INVARIANT BoundedBySize
PROPERTIES ImplementsRotatedLogs
\* The logs created are bounded.
CHECK_DEADLOCK FALSE
