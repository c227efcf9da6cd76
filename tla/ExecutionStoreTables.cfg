CONSTANTS
    a1 = a1
    a2 = a2
    f1 = f1
    f2 = f2
    g1 = g1
    lev = lev
    c1 = c1
    None = None
    Actions = {a1, a2}
    Fingerprints = {f1, f2, g1}
    Times = {t1}
    Scans = {s1, s2}
    Lineages = {l1}
    Reasons = {r1, r2}
    Leverages = {lev}
    ClientIds = {c1}
    EventIds = {1, 2, 3, 4, 5}
    Readers = {p1}
    ActionOf <- MCActionOf
    LeverageOf <- MCLeverageOf
    ClientIdOf <- MCClientIdOf
SPECIFICATION MCSpec
INVARIANTS
    TypeOK
    StoreConsistent
    AuditReplaysTables
    OneLiveCancelPerLineage
    ClientOrderIdsDistinct
    ReservedAnswerNeverStale
PROPERTY
    ImplementsFence
