\* LOG(FATAL) while another thread logs and changes the log file.
CONSTANTS
    Clients = {c1, c2}
    Quit = quit
    NoJob = none
    MaxCalls = 2
    Usages <- FatalUnderChange
SPECIFICATION Spec
INVARIANT FatalIsLast
\* Calls are bounded, and the program may end.
CHECK_DEADLOCK FALSE
