CONSTANTS
    None = None
    Cycles = {c1, c2, c3}
    Writers = {w1, w2}
    BatchLimit = 2
    MaxCrashes = 1
    DirectoryThere = FALSE
SPECIFICATION Spec
SYMMETRY Symmetry
INVARIANT AckedSurvives
