CONSTANTS
    Timings <- MCTimings
    SourceFrames <- MCSourceFrames
    Accuracies <- MCAccuracies
    BufferBits = 4096
    Rates <- MCRates
    MaxCommands = 1
SPECIFICATION AlsaSpec
INVARIANT HighAccuracyKeepsShape
CHECK_DEADLOCK FALSE
