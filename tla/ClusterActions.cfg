SPECIFICATION Spec
CONSTANTS
    Actor = {pipeline, cli}
    Request <- Requests
    Version <- Versions
    MaxDelta = 1
    MaxReplicas = 3
    MaxCalls = 3
    MaxEvents = 2
SYMMETRY Symmetry
INVARIANT TypeOK
PROPERTIES
    ImplementsAtomic
    DeletionsAreWarranted
    
\* The bounds on calls and events stop the model.
CHECK_DEADLOCK FALSE
