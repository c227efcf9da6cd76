CONSTANTS
    None = None
    Senders = {s1}
    RowCount = 1
    MaxAttempts = 3
    MaxDeferrals = 1
    UnreadableReply = TRUE
SPECIFICATION Spec
INVARIANT StateTellsWhatWasAccepted
CHECK_DEADLOCK FALSE
