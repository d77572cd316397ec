SPECIFICATION Spec
CONSTANTS
    b1 = b1
    b2 = b2
    b3 = b3
    w1 = w1
    w2 = w2
    r1 = r1
    r2 = r2
    o1 = o1
    Briefs = {b1, b2, b3}
    StagesOf <- SiteAndDemand
    Workers = {w1, w2}
    Operators = {o1}
    MaxRevisions = 1
    Attempts = 2
    RunBudget = 4
    TokenLimit = 16
    MaxTrouble = 1
    Requests = {r1, r2}
    Ceiling = 1
INVARIANTS Inv OvershootBounded RejectedStaysShut CeilingBoundsRuns
PROPERTIES StagesRunDown
SYMMETRY Interchangeable
CHECK_DEADLOCK FALSE
