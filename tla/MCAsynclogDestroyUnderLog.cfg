\* The worker destroyed while other threads log.
CONSTANTS
    Clients = {c1, c2}
    Quit = quit
    NoJob = none
    MaxCalls = 2
    Usages <- DestroyedUnderLog
SPECIFICATION Spec
INVARIANT NoLogToGoneWorker
\* Calls are bounded, and the program may end.
CHECK_DEADLOCK FALSE
