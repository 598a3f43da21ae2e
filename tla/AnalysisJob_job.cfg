SPECIFICATION Spec
CONSTANTS
    Models <- MCModels
    EmbedModels <- MCEmbedModels
    SamplesPerModel = 1
    ConsensusThreshold <- MCThreshold
    MaxErrorRate <- MCErrorRate
    ConfidenceWeight <- MCWeights
    FuzzyThreshold <- MCFuzzy
    Control <- MCControl
    Generator <- MCGenerator
    Cosine <- MCCosine
    Bm25 <- MCBm25
    Foundational <- MCFoundational
    MaxPerSource = 2
    MinCoverage <- MCCoverage
    IDOrder <- MCIDOrder
    Viability <- MCViability
    ConfidenceThreshold <- MCConfidence
    MaxMappings = 0
    Assessment <- MCAssessment
    ActionableTypes <- MCActionable
    NameOrder <- MCNameOrder
    Registry <- MCRegistry
    Scenarios <- MCScenarios
    Keys = {"k1", "k2"}
    MaxRuns = 4
INVARIANTS
    RankedRowsAreStored
    CompletedIsAttested
PROPERTY PanelVerdicts
CHECK_DEADLOCK FALSE
