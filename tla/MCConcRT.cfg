CONSTANTS
    Items = {x, y}
    Producers = {p1, p2}
    Consumers = {c1}
    TimedConsumers = {d1}
    maxItems = 2
    Participants = {t1, t2, t3}
    Inputs = {1, 2}
    MaxRounds = 3
    _MAX_NUM_TASKS_PER_CORE = 4
    _FINE_GRAIN_CHUNK_SIZE = 8
    _SORT_MAX_RECURSION_DEPTH = 3
    SmallSize = 8
    MergeThreshold = 2
    Base = 2
    BatchSize = 2
    Calls <- AllCalls
SPECIFICATION MCSpec
INVARIANTS PermitsConserved NodesAlive RoundsInStep
           AnswersAgree ParamDeletedOnce
           SortsInput MergesAll FoldsInOrder VisitsAll
PROPERTIES ImplementsBoundedFifo CallsReturn ImplementsRendezvous EverybodyLeaves
           ImplementsWhenSettled ReturnedSettles ValueReachesTasks
\* The rounds of the barrier are bounded, the tasks are a fixed number, and an
\* algorithm is called once.
CHECK_DEADLOCK FALSE
