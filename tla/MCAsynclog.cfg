\* Ways of using the library; the properties say which they are about.
CONSTANTS
    Clients = {c1, c2}
    Quit = quit
    NoJob = none
    MaxCalls = 3
    Usages <- AllUsages
SPECIFICATION FairSpec
INVARIANTS NoFault AcceptedIsWritten FileInOrder FileStopsAtFatal FatalFlushes
PROPERTIES FatalHandled DestructorReturns
\* Calls are bounded, and the program may end.
CHECK_DEADLOCK FALSE
