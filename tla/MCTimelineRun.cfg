CONSTANTS
    Stages <- TwoStages
    MaxTime = 3
    MaxConnections = 2
    MaxRequeues = 1
SPECIFICATION FairSpec
CHECK_DEADLOCK FALSE
INVARIANTS Inv LateStreamIsWhole QuietCloseIsWhole
PROPERTIES StreamCloses
