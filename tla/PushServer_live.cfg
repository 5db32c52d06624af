\* Two served clients that may stop reading and one frame.
CONSTANTS
    Clients = {c1, c2}
    Authorized = {c1, c2}
    Backfill = 1
    MaxFrames = 1
    MaxTicks = 0
SPECIFICATION FairSpec
PROPERTIES ClosedAreForgotten FramesArrive
CHECK_DEADLOCK FALSE
