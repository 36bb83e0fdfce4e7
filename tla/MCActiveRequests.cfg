\* The worker destroyed with requests in its queue.
CONSTANTS
    Jobs = {f, name, entry}
    Plain = {entry}
    Members = {name}
    Quit = quit
    NoJob = none
    MaxSends = 3
SPECIFICATION FuturesSpec
INVARIANT RequestsAreProcessed
\* After the destructor nothing is left to happen.
CHECK_DEADLOCK FALSE
