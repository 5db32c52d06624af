\* The client side of an MQTT over WebSocket connection, from its first byte.
CONSTANTS
    Radix = 2
    MaxVlq = 2
    MinBody = 1
    Protocols = {"mqtt-ws"}
    Directions = {"c2s"}
    Packets <- SmallPackets
    MaxPackets = 2
    MaxPings = 1
    LateJoin = FALSE
SPECIFICATION Spec
INVARIANT HandshakeIsEnough
CHECK_DEADLOCK FALSE
