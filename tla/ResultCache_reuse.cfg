SPECIFICATION Spec
CONSTANTS
    j1 = j1  j2 = j2  a1 = a1  a2 = a2  b1 = b1  t1 = t1  t2 = t2  k1 = k1  k2 = k2
    Jobs = {j1, j2}
    Attempts = {a1, a2, b1}
    JobOf <- TwoJobs
    Tasks = {t1, t2}
    Keys = {k1, k2}
    KeyOf <- TwoKeys
    BatchSize = 1
    None = None
    Altered = Altered
    Bounds <- CacheBounds
INVARIANTS
    ReusedAnswersAreGenuine
    NoFalseCorrupt
    SealedRecordStands
    ShownIsWhatHappened
CHECK_DEADLOCK FALSE
SYMMETRY Alike
