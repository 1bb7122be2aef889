SPECIFICATION Spec
CONSTANTS
    Diagnostic = {d1}
    Remediation = {}
    Reviewer = {r1, r2}
    AutoApprove = FALSE
    TTL = 2
    LastSubmit = 0
    MaxTime = 0
    MaxCrashes = 0
    MaxLost = 0
    BatchLimit = 1
    Main = main
    NoApproval = none
PROPERTY DeniedNeverRuns
