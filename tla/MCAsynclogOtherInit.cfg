\* A worker destroyed while another is initialized.
CONSTANTS
    Clients = {c1, c2}
    Quit = quit
    NoJob = none
    MaxCalls = 2
    Usages <- DestroyedUnderInit
SPECIFICATION Spec
PROPERTY OtherStaysActive
\* Calls are bounded, and the program may end.
CHECK_DEADLOCK FALSE
