SPECIFICATION DemoSpec
CONSTANTS
    Symbols = {a, b, c}
    Signals = {g1, g2}
    MaxOpenPositions = 2
    MaxRegained = 1
INVARIANT SeenExposureWithinLimit
