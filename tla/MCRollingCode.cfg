CONSTANTS
    Procs = {p1, p2}
    Keys = {k1, k2}
    Receivers = {k1, k2}
    ReceiverOf <- MCOwnReceiver
    M = 3
    Readable = 5
    WriteMayFail = TRUE
    MaxLost = 2
SPECIFICATION Spec
INVARIANTS TypeOK IndexInBounds
PROPERTIES SendsSuccessor ImplementsCounter
CHECK_DEADLOCK FALSE
