CONSTANTS
    deploy = deploy  product = product  arming = arming  plan = plan  site = site  money = money  resume1 = resume1  resume2 = resume2
    w1 = w1  w2 = w2  c1 = c1  c2 = c2  retry = retry
    Keys = {product, arming}
    ApprovalKeys = {arming}
    DeferredKeys = {}
    ResultKeys = {}
    DocKeys = {}
    Requires <- NoRequirement
    MaxVerifyAttempts = 2
    FlakyWorld = FALSE
    Tasks = {plan, money, resume1, resume2}
    Roots = {plan}
    DependsOn <- Nothing
    Spawns <- PlanSpawnsMoney
    Releases <- TheStage
    Workers = {w1}
    AttemptsCap = 2
    PunctualWorkers = TRUE
    MaxCrashes = 2
    MaxRetries = 1
    ActionOf <- TheActions
    Clicks = {c1, c2}
    Retrier = retry
    ResumeOf <- OneResumeEach
    PatientOperator = TRUE
    WebDies = FALSE
SPECIFICATION FairSpec
INVARIANTS DecisionIsCarried StageTellsTheTruth ReclaimedIsNotRefused
PROPERTIES VerdictSticks DecisionLands InFlightLands EveryCallReturns
CHECK_DEADLOCK FALSE
