SPECIFICATION Spec
CONSTANTS
    Alert <- One
    Proposal <- RestartOnly
    Environment <- Sync
    Key <- Keys
    Window = 1
    MaxPerHour <- Default
    MaxRetries = 2
    TTL = 1
    DatabaseFails = FALSE
    MaxTime = 0
    MaxAlerts = 2
INVARIANT FailedReplayIsReplaced
CHECK_DEADLOCK FALSE
