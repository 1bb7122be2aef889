\* Two alerts one after the other: a pod with two faults, a pod without a controller.
\* A unit of time is the rate limit's window, and longer than an entry of the memory lives.
SPECIFICATION FairSpec
CONSTANTS
    Alert <- Mixed
    Proposal <- Restarting
    Environment <- AnySetting
    Key <- Keys
    Window = 1
    MaxPerHour <- Tight
    MaxRetries = 2
    TTL = 0
    DatabaseFails = TRUE
    MaxTime = 1
    MaxAlerts = 2
INVARIANTS
    BoundedRuns
    EffectsArePaid
PROPERTIES
    EffectsAreSafe
    ReuseIsEarned
    EveryAlertLeaves
\* The bound on alerts stops the pipeline.
CHECK_DEADLOCK FALSE
