CONSTANTS
    MaxSockets = 2
    MaxQueries = 2
    Disconnects = TRUE
    MaxPackets = 2
    Backfill = 1
    MaxFrames = 3
    Identity <- MC_Identity
    InitialTab = "perf"
    MaxEvents = 4
SPECIFICATION PageFairSpec
INVARIANTS ListHasNoGap InspectedIsChosen ExportsAreFaithful BusyIsTrue OneConnection
           BannerTellsTroubles
PROPERTIES ExportEnds Reconnects
CHECK_DEADLOCK FALSE
