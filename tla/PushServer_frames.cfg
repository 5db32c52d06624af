\* One served client and one without a token, three frames, a backfill of two, and a
\* metrics broadcast among them.
CONSTANTS
    Clients = {c1, c2}
    Authorized = {c1}
    Backfill = 2
    MaxFrames = 3
    MaxTicks = 1
SPECIFICATION Spec
INVARIANT FramesSentExactly
CHECK_DEADLOCK FALSE
