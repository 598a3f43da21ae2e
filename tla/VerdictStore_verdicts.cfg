SPECIFICATION Spec
CONSTANTS
    Pairs = {p1}
    Runs = {r1, r2}
    Nobody = Nobody
    MaxAttempts = 2
    MaxClock = 2
    MaxVersion = 2
    Bounds <- RaceBounds
INVARIANTS
    AppliedIsInGraph
PROPERTIES
    KeepsAuthority
    EndedEdgesKeepTheirEnd
    VerdictsReachTheGraph
