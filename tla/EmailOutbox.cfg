CONSTANTS
    None = None
    Senders = {s1, s2}
    RowCount = 2
    MaxAttempts = 3
    MaxDeferrals = 1
    UnreadableReply = FALSE
SPECIFICATION FairSpec
INVARIANTS
    AcceptedAtMostOnce
    StateTellsWhatWasAccepted
    AttemptsCoverBodies
PROPERTIES
    SuppressedIsNotSent
    NoRowWaitsForEver
CHECK_DEADLOCK FALSE
