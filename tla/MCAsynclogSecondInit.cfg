\* initializeLogging when already initialized.
CONSTANTS
    Clients = {c1, c2}
    Quit = quit
    NoJob = none
    MaxCalls = 2
    Usages <- InitializedTwice
SPECIFICATION FairSpec
PROPERTY FatalHandled
\* Calls are bounded, and the program may end.
CHECK_DEADLOCK FALSE
