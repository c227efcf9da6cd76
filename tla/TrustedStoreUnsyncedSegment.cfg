SPECIFICATION Spec
CONSTANTS
    Refreshers = {f1, f2}
    Readers = {r1}
    Generations = {g1, g2, g3}
    Times = 5
    MonthLength = 2
    Listings = {1, 2}
    DaysChoices = {2}
    MaxShortfall = 2
    Correctable = {}
    MaxFaults = 2
    None = None
INVARIANT CommittedSlicesDurable
CHECK_DEADLOCK FALSE
