CONSTANTS
    p1 = p1
    p2 = p2
    Procs = {p1, p2}
    Commands <- MCCommands
SPECIFICATION Spec
INVARIANTS TypeOK FrameTextFits
PROPERTY TransmitsWhatIsMeant
CHECK_DEADLOCK FALSE
