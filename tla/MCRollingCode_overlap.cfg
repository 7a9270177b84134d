CONSTANTS
    Procs = {p1, p2}
    Keys = {k1}
    Receivers = {k1}
    ReceiverOf <- MCOwnReceiver
    M = 5
    Readable = 7
    WriteMayFail = FALSE
    MaxLost = 3
SPECIFICATION Spec
INVARIANT CurrentCodeIsOwn
CHECK_DEADLOCK FALSE
