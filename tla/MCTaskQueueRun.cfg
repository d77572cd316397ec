CONSTANTS
    copy = copy  site = site  resume = resume  w1 = w1  w2 = w2  o1 = o1
    Tasks = {copy, site, resume}
    Roots = {copy, site}
    DependsOn <- PipelineDependsOn
    Spawns <- None
    Releases <- PipelineReleases
    Workers = {w1, w2}
    Operators = {o1}
    AttemptsCap = 1
    PunctualWorkers = TRUE
    MaxCrashes = 2
    MaxRetries = 1
SPECIFICATION FairSpec
INVARIANTS OneWorkerPerTask SettledIsQuiet UncrashedRunSettles
PROPERTIES HaltYieldsToReopenOnly ParkedWaitsForRelease ClaimedLands
CHECK_DEADLOCK FALSE
