SPECIFICATION Spec
CONSTANTS
    Jobs = {j1, j2}
    Runs = {r1, r2}
    Calls = {c1, c2}
    NoRun = NoRun
    NoJob = NoJob
    Analyzers <- OneStage
    PairAnalyzers <- NoStage
    Rank <- MCRank
    Classes <- TwoClasses
    MaxConcurrentJobs = 1
    RoleAll = FALSE
    MaxFaults = 1
    MaxHalts = 1
SYMMETRY Symmetry
CONSTRAINT Within
INVARIANT RunsExclusive
INVARIANT CancelOrComplete
INVARIANT EndedHasNoRunningStage
INVARIANT CompletedHasResults
PROPERTY CompletedIsFinal
CHECK_DEADLOCK FALSE
