\* Up to two packets on each transport, cut into any chunks; the sniffer may join late.
CONSTANTS
    Radix = 2
    MaxVlq = 2
    MinBody = 1
    Protocols = {"modbus", "mqtt-tcp", "mqtt-ws"}
    Directions = {"s2c"}
    Packets <- SmallPackets
    MaxPackets = 2
    MaxPings = 1
    LateJoin = TRUE
SPECIFICATION FairSpec
INVARIANTS PayloadIntact PacketsExact SegmentationIrrelevant
PROPERTY DrainReturns
CHECK_DEADLOCK FALSE
