\* Two producers, two consumers that loop on wait_infitine_and_pop and one
\* that makes timed calls; four jobs of an active object; two threads that use
\* a hash container.
CONSTANTS
    Items = {a, b}
    Producers = {p1, p2}
    Consumers = {c1, c2}
    TimedConsumers = {d1}
    MaxPushes = 3
    Jobs = {f, g, name, entry}
    Plain = {entry}
    Members = {name}
    Quit = quit
    NoJob = none
    MaxSends = 4
    Threads = {t1, t2}
    k1 = k1
    k2 = k2
    k3 = k3
    Keys = {k1, k2, k3}
    Hash <- MCHashOf
    Bits = 4
    InitialBuckets = {1, 3}
    MaxBucketSize = 1
    Filling <- MCFilling
    MaxCalls = 5
    NoKey = NoKey
    Null = Null
SPECIFICATION MCSpec
INVARIANTS NoStrandedItem FlushedAtJoin AnswersAreTrue WellFormed FindsWhatIsThere
PROPERTIES ImplementsFifo ItemsAreTaken
           ImplementsExecutor DestructorReturns FuturesResolve
           ImplementsSet CallsReturn
\* After the destructor nothing is left to happen, and the calls of the hash
\* container are bounded.
CHECK_DEADLOCK FALSE
