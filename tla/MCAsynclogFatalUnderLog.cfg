\* LOG(FATAL) while another thread logs.
CONSTANTS
    Clients = {c1, c2}
    Quit = quit
    NoJob = none
    MaxCalls = 2
    Usages <- FatalUnderLog
SPECIFICATION Spec
INVARIANT UninitializedLogDoesNotCrash
\* Calls are bounded, and the program may end.
CHECK_DEADLOCK FALSE
