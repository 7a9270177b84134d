CONSTANTS
    NumProtos = 3
    NumHw = 3
    RF_CMD_MAX = 2
    U32 = 4
    NeededParams <- MCNeededParams
    HwArgs <- MCHwArgs
    ProtoArgs <- MCProtoArgs
    CommandArgs <- MCCommandArgs
    CodeArgs <- MCCodeArgs
    NframeArgs <- MCNframeArgs
    AccuracyArgs <- MCAccuracyArgs
    GpioArgs <- MCGpioArgs
    RemoteMax <- MCRemoteMax
    DeviceMax <- MCDeviceMax
    BitFmt <- MCBitFmt
    DefaultFrames <- MCDefaultFrames
    Formattable <- MCFormattable
    SupportedFmts <- MCSupportedFmts
    NeededHwParams <- MCNeededHwParams
    Probeable = {0}
    ChecksFmt = {0}
    MayLose = {1, 2}
SPECIFICATION FairSpec
INVARIANTS TypeOK DefinedArgs NeededWereProvided OnAirFormat FramesForced ScanCovers ForcedValues
           ClosedAtExit 
PROPERTY Terminates
CHECK_DEADLOCK FALSE
