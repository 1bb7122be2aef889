SPECIFICATION FairSpec
CONSTANTS
    n1 = n1
    n2 = n2
    Node <- Nodes
    ToolCall <- ToolCalls
    Environment <- Environments
    Key <- Keys
    MaxPerHour <- Limits
    Window = 0
    CacheTTL = 1
    MaxSteps = 2
    LightSteps = 1
    DatabaseFails = TRUE
    ApiFails = TRUE
    MaxCalls = 2
    MaxTime = 1
    MaxChanges = 1
    MaxDiagnoses = 2
    MaxGrants = 1
INVARIANTS
    TypeOK
    ActsAreRated
    NothingRunsThrice
    ConclusionsAreGrounded
PROPERTIES
    NodesAreKnown
    EveryDiagnosisEnds
CHECK_DEADLOCK FALSE
