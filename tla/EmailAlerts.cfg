SPECIFICATION Spec
CONSTANTS
    Signals = {s1, s2}
    MaxRuns = 2
    MaxTime = 2
    MaxFaults = 1
    EventLimit = 2
    Budget = 1
    Review = 2
    RetryWindow = 1
    Sender = Sender
    NoAction = NoAction
    Blocked = Blocked
    None = None
SYMMETRY SignalSymmetry
INVARIANTS
    WorkersAlone
    AcceptedIsActiveOrWithdrawn
    NoEventIsSkipped
PROPERTIES
    SentEntryIsCurrent
    ReadyIsEndorsed
CONSTRAINT RunsAndCycles
CHECK_DEADLOCK FALSE
