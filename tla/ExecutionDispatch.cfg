CONSTANTS
    a1 = a1
    f1 = f1
    f2 = f2
    lev = lev
    c1 = c1
    None = None
    Actions = {a1}
    Fingerprints = {f1, f2}
    Times = {t1}
    Scans = {s1}
    Lineages = {l1}
    Reasons = {r1}
    Leverages = {lev}
    ClientIds = {c1}
    EventIds = {1, 2, 3, 4, 5, 6, 7, 8}
    Readers = {}
    Dispatchers = {d1, d2}
    ActionOf <- MCActionOf
    LeverageOf <- MCLeverageOf
    ClientIdOf <- MCClientIdOf
SPECIFICATION MCSpec
SYMMETRY Symmetry
INVARIANTS
    AtMostOneTransport
    StateTellsWhatWasSent
    SentRevisionStaysSelected
CHECK_DEADLOCK FALSE
