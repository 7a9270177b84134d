CONSTANTS
    otax_frame = otax_frame
    dio_frame = dio_frame
    he_frame = he_frame
    idk_frame = idk_frame
    auchan_frame = auchan_frame
    sumtech_frame = sumtech_frame
    Content <- MCContent
    Frames = {otax_frame, dio_frame, he_frame, idk_frame, auchan_frame, sumtech_frame}
    Acceptable = {otax_frame, dio_frame, he_frame, idk_frame, auchan_frame}
    MAX_HID_WRITE_ATTEMPT = 5
SPECIFICATION Spec
INVARIANTS TypeOK TransmitsFrame SuccessMeansTransmitted BoundedRepeats DongleUnderstands
