CONSTANTS
    deploy = deploy  product = product  arming = arming  plan = plan  site = site  money = money  resume1 = resume1  resume2 = resume2
    w1 = w1  w2 = w2  c1 = c1  c2 = c2  retry = retry
    Keys = {deploy}
    ApprovalKeys = {deploy}
    DeferredKeys = {}
    ResultKeys = {}
    DocKeys = {deploy}
    Requires <- NoRequirement
    MaxVerifyAttempts = 1
    FlakyWorld = TRUE
    Tasks = {site, resume1, resume2}
    Roots = {site}
    DependsOn <- Nothing
    Spawns <- Nothing
    Releases <- TheStage
    Workers = {w1, w2}
    AttemptsCap = 1
    PunctualWorkers = TRUE
    MaxCrashes = 1
    MaxRetries = 0
    ActionOf <- TheActions
    Clicks = {c1, c2}
    Retrier = retry
    ResumeOf <- OneResumeEach
    PatientOperator = TRUE
    WebDies = TRUE
SPECIFICATION Spec
SYMMETRY WorkerSymmetry
INVARIANTS DoneIsProved EffectAtMostOnce
PROPERTIES DeniedNeverExecutes
CHECK_DEADLOCK FALSE
