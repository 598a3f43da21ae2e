SPECIFICATION FairSpec
CONSTANTS
    Jobs = {j1}
    Runs = {r1}
    Calls = {c1}
    NoRun = NoRun
    NoJob = NoJob
    Analyzers <- OneStage
    PairAnalyzers <- NoStage
    Rank <- MCRank
    Classes <- OneClass
    MaxConcurrentJobs = 1
    RoleAll = TRUE
    MaxFaults = 0
    MaxHalts = 1
PROPERTY RunningJobEnds
PROPERTY CancelTakesEffect
CHECK_DEADLOCK FALSE
