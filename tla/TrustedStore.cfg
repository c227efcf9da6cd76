SPECIFICATION Spec
CONSTANTS
    Refreshers = {f1, f2}
    Readers = {r1}
    Generations = {g1, g2, g3}
    Times = 5
    MonthLength = 2
    Listings = {1, 2}
    DaysChoices = {2}
    MaxShortfall = 2
    Correctable = {2}
    MaxFaults = 1
    None = None
INVARIANTS
    PublishedStayReadable
    ClosedMonthsAreComplete
    RepresentationsAgree
PROPERTY ImplementsRegister
CHECK_DEADLOCK FALSE
SYMMETRY Interchangeable
CONSTRAINT Budget
