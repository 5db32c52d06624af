\* A stream of 6 bytes, the last four beyond the end of a sequence space of 8;
\* any segmentation, loss, duplication and reordering.
CONSTANTS
    SeqMod = 8
    ISN = 6
    StreamLen = 6
    Segments <- AnySegments
    MaxPush = 4
SPECIFICATION Spec
INVARIANTS ByteExact DrainsUnlessRecut
PROPERTY ImplementsByteStream
CHECK_DEADLOCK FALSE
