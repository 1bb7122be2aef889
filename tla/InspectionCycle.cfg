SPECIFICATION FairSpec
CONSTANTS
    web1 = web1
    web2 = web2
    bare = bare
    node = node
    cluster = cluster
    Pod = {web1, web2, bare}
    Node = {node}
    Cluster = cluster
    Label <- Labels
    Condition <- Conditions
    Rule <- Rules
    Policy <- Policies
    Setting <- Settings
    MaxSeries = 2
    MaxChanges = 1
    MaxAborts = 1
INVARIANTS
    TypeOK
    NothingIsForgotten
    CutsAreLesser
    AlertsAreReal
    PolicyIsFresh
PROPERTY PersistentFaultIsDiagnosed
