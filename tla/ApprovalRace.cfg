SPECIFICATION Spec
CONSTANTS
    Diagnostic = {d1}
    Remediation = {m1}
    Reviewer = {r1, r2}
    AutoApprove = TRUE
    TTL = 0
    LastSubmit = 0
    MaxTime = 1
    MaxCrashes = 1
    MaxLost = 1
    BatchLimit = 1
    Main = main
    NoApproval = none
SYMMETRY Symmetry
INVARIANTS
    TypeOK
    RunsAreGranted
    OneRunPerLoss
    HistoryIsReal
    RunsPerGrant
