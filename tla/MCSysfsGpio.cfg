CONSTANTS
    Procs = {p1, p2}
    Configs <- MCConfigs
    BitStrings <- MCBits
    KillAllowed = TRUE
SPECIFICATION Spec
INVARIANTS TypeOK SignalAsConfigured OffWhenGivenBack ReleasedInTheEnd
CHECK_DEADLOCK FALSE
