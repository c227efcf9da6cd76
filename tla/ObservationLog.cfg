CONSTANTS
    None = None
    Cycles = {c1, c2, c3}
    Writers = {w1, w2}
    BatchLimit = 2
    MaxCrashes = 2
    DirectoryThere = TRUE
SPECIFICATION FairSpec
INVARIANTS
    AmbiguityIsMarked
    ConsumedStays
    AckedSurvives
PROPERTY
    AckedIsConsumed
