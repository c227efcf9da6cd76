CONSTANTS
    a1 = a1
    a2 = a2
    f1 = f1
    f2 = f2
    g1 = g1
    lev = lev
    c1 = c1
    None = None
    Actions = {a1, a2}
    Fingerprints = {f1, f2, g1}
    Times = {t1}
    Scans = {s1}
    Lineages = {l1}
    Reasons = {r1}
    Leverages = {lev}
    ClientIds = {c1}
    EventIds = {1, 2, 3}
    Readers = {p1}
    ActionOf <- MCActionOf
    LeverageOf <- MCLeverageOf
    ClientIdOf <- MCClientIdOf
SPECIFICATION MCSpec
INVARIANT ReadReportsNoCorruption
