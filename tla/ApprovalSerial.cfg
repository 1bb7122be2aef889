SPECIFICATION FairSpec
CONSTANTS
    Diagnostic = {d1, d2}
    Remediation = {m1}
    Reviewer = {r1}
    AutoApprove = FALSE
    TTL = 0
    LastSubmit = 0
    MaxTime = 1
    MaxCrashes = 1
    MaxLost = 1
    BatchLimit = 1
    Main = main
    NoApproval = none
PROPERTIES
    ImplementsLifecycle
    DeniedNeverRuns
    ApprovedCommandSettles
    UndecidedCommandExpires
