CONSTANTS
    Stages <- TwoStages
    MaxTime = 3
    MaxConnections = 1
    MaxRequeues = 0
SPECIFICATION Spec
CHECK_DEADLOCK FALSE
INVARIANTS ConnectedSeesAll
