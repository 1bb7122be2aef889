\* Two tasks, one process that may end once, one failed update, a batch smaller than the queue.
SPECIFICATION FairSpec
CONSTANTS
    Task = {t1, t2}
    Process = {p1}
    Remedy = {"restart_pod"}
    ROUND_OFFSETS <- Offsets
    BatchLimit = 1
    LastEnqueue = 1
    MaxTime = 6
    MaxExits = 1
    MaxFails = 1
INVARIANT TypeOK
PROPERTIES
    TimeoutIsEarned
    ImplementsPromise
    EveryTaskCloses
