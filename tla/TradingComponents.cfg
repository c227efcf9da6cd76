SPECIFICATION ComponentsSpec
CONSTANTS
    \* ArtifactPublication
    Publishers = {j1, j2}
    Readers = {r1}
    Contents = {j1, j2}
    MaxFaults = 2
    Legacy = Legacy
    None = None
    \* ManualLedger
    Positions = {j1, j2}
    Requests = {i1, i2, i3, i4}
    FillForms <- MCFillForms
    StateForms <- MCStateForms
    MaxStage = 2
    \* DemoTrading
    Symbols = {i1, i2, i3}
    Signals = {j1, j2}
    MaxOpenPositions = 2
    MaxRegained = 0
    \* EntryOrders
    Levels = {1, 2}
    Lows = {1, 2}
    Tolerance = 1
    WaitBars = 2
    LookbackBars = 3
    MaxBars = 5
    \* BacktestPosition
    Prices = {780, 1000, 1040, 1080}
    EntryPrices = {1000}
    HigherLows = {1020, 1060}
    Regimes = {"yellow", "green"}
    Rules <- MCRules
    MarginSteps <- MCMarginSteps
    AddThresholds <- MCAddThresholds
    Leverage = 5
    ActualLeverages = {4, 5, 6}
    ConfirmedStops = {1000}
    InitialStop = 2
    StopBuffer = 0
    WideBuffer = 1
    TransitionBars = 1
    Scale = 100000
    \* StrategyReleases
    Users = {"bob", "eve"}
    PullAuthor = "bob"
    Commits = {"c1", "c2"}
    Authors <- MCAuthors
    Generations <- MCGenerations
    Windowings <- MCWindowings
    Outcomes <- MCOutcomes
    ReviewIds = {1}
    MaxEdits = 1
    MaxReleases = 1
INVARIANTS
    NeverLegacyShape
    WitnessProvesFinal
    FormsCountOnce
    ReviewedAsShown
    CountedExposureWithinLimit
    OneOrderPerSymbol
    ScanAgreesWithBacktest
    ReviewNeverEarlier
    ShadowIsExactBeforeAdds
    ResolvedWasReviewed
PROPERTIES
    ImplementsWriteOnce
    RecoveryRefusesOnlyConflicts
CHECK_DEADLOCK FALSE
SYMMETRY Interchangeable
