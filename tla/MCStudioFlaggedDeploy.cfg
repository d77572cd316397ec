CONSTANTS
    Selections <- SiteAlone
    Slots = 1
    MaxRevisions = 0
    Packs <- SomePacks
    Workers = 2
    Rerunnable = {"copy", "site", "demand", "video", "publish"}
    MaxEdits = 1
    MaxReruns = 1
    MaxCrashes = 1
SPECIFICATION Spec
CHECK_DEADLOCK FALSE
INVARIANTS FlaggedStaysHome
