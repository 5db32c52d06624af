\* Three frames and two snapshots through a ring of two, any write failing.
CONSTANTS
    RingSize = 2
    MaxFrames = 3
    MaxMetrics = 2
SPECIFICATION FairSpec
INVARIANTS NothingLostOnTheWay RingCoversDisk
PROPERTY QueueDrains
CHECK_DEADLOCK FALSE
