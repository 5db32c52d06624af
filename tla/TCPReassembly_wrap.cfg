\* The instance of TCPReassembly_any: does an orderly capture get through?
CONSTANTS
    SeqMod = 8
    ISN = 6
    StreamLen = 6
    Segments <- AnySegments
    MaxPush = 4
SPECIFICATION Spec
INVARIANT OrderedCaptureIsComplete
CHECK_DEADLOCK FALSE
