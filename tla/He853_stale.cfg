CONSTANTS
    Frames = {f1, f2, bad}
    Acceptable = {f1, f2}
    MAX_HID_WRITE_ATTEMPT = 5
SPECIFICATION Spec
INVARIANT NothingStaleTransmitted
