CONSTANTS
    Timings <- MCTimings
    SourceFrames <- MCSourceFrames
    Accuracies <- MCAccuracies
    BufferBits = 4096
    Rates <- MCRates
    MaxCommands = 2
SPECIFICATION AlsaSpec
INVARIANTS TypeOK ConversionSafe ExactIsGcd SameShape SamplesInBounds PlayedOnTime SuitsDrivers
CHECK_DEADLOCK FALSE
